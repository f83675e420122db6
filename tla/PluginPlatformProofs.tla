------------------------ MODULE PluginPlatformProofs ------------------------
(***************************************************************************)
(* Proofs about the plugin platform: the registry is well formed, a load   *)
(* leaves no placeholder behind, and a plugin is asked to start, to stop   *)
(* and to dispose once each and in that order, however many calls are      *)
(* under way.                                                              *)
(*                                                                         *)
(* The invariants are about the set of the registry's records, with the    *)
(* calls and what was asked as parameters.                                 *)
(***************************************************************************)
EXTENDS PluginPlatform, SequenceTheorems, TLAPS

(* A plugin, not a placeholder, is registered for id.                       *)
Real(ps, id) == \E r \in Range(ps) : r.id = id /\ r.plugin # Placeholder

(* What a load or a walk still has to do with id.                           *)
InTodo(call, id) == \E i \in 1..Len(call.todo) : call.todo[i].id = id

(* A placeholder waits for the import of a load, or the import failed; what *)
(* is being initialized, and what a walk has before it, are plugins.        *)
LoadInv(ps, cs) ==
    /\ \A r \in Range(ps) : r.plugin = Placeholder =>
          \/ r.phase = "FAILED"
          \/ r.phase = "REGISTERED" /\ \E c \in Calls : Op[c] = "load" /\ InTodo(cs[c], r.id)
    /\ \A c \in Calls : cs[c].pc = "initializing" => Real(ps, Head(cs[c].todo).id)
    /\ \A c \in Calls : cs[c].pc = "awaiting" =>
          \A i \in 1..Len(cs[c].todo) : Real(ps, cs[c].todo[i].id)

-----------------------------------------------------------------------------

Orders ==
    {<<>>, <<"startup">>, <<"startup", "shutdown">>, <<"startup", "shutdown", "dispose">>}

(* What a plugin in a phase was asked.                                      *)
AskedBy ==
    [INITIALIZING |-> <<>>, INITIALIZED |-> <<>>,
     STARTING |-> <<"startup">>, RUNNING |-> <<"startup">>,
     STOPPING |-> <<"startup", "shutdown">>, STOPPED |-> <<"startup", "shutdown">>,
     DISPOSED |-> <<"startup", "shutdown", "dispose">>]

(* Discovery found r's plugin with r's id.                                  *)
Sourced(r) ==
    r.plugin # Placeholder => \E e \in Range(Entries) : e.id = r.id /\ e.source = r.plugin

(* A plugin was asked what its phase says, unless its id was found twice.   *)
RecordOK(r, ask) ==
    /\ Sourced(r)
    /\ r.plugin # Placeholder /\ FoundOnce(r.id) =>
          /\ r.phase # "REGISTERED"
          /\ r.phase # "FAILED" => ask[r.plugin] = AskedBy[r.phase]

AskedOK(ask) == ask \in [Sources -> Seq(Work)] /\ \A s \in Alone : ask[s] \in Orders

RecordsOK(ps, ask) == AskedOK(ask) /\ \A r \in Range(ps) : RecordOK(r, ask)

(* What a load has in place i is registered: by the plugin, while that is   *)
(* being initialized, and by a placeholder until then; unless its id was    *)
(* found twice.                                                             *)
LoadAt(ps, call, i) ==
    /\ call.todo[i] \in Range(Entries)
    /\ FoundOnce(call.todo[i].id) =>
          \E r \in Range(ps) :
             /\ r.id = call.todo[i].id
             /\ IF i = 1 /\ call.pc = "initializing"
                THEN r.plugin = call.todo[i].source /\ r.phase = "INITIALIZING"
                ELSE r.plugin = Placeholder /\ r.phase = "REGISTERED"

LoadsHold(ps, cs) ==
    \A c \in Calls : Op[c] = "load" => \A i \in 1..Len(cs[c].todo) : LoadAt(ps, cs[c], i)

(* No id that was found once is before two loads, or before one of them     *)
(* twice.                                                                   *)
TodoApart(todo) ==
    \A i, j \in 1..Len(todo) : todo[i].id = todo[j].id /\ FoundOnce(todo[i].id) => i = j

CallsApart(call, other) ==
    \A i \in 1..Len(call.todo) : FoundOnce(call.todo[i].id) => ~InTodo(other, call.todo[i].id)

LoadsApart(cs) ==
    \A c \in Calls : Op[c] = "load" =>
        /\ TodoApart(cs[c].todo)
        /\ \A d \in Calls : d # c /\ Op[d] = "load" => CallsApart(cs[c], cs[d])

(* What a walk has in place i is a plugin, registered still; the one        *)
(* awaited is in the phase between; unless its id was found twice.          *)
WalkAt(ps, op, call, i) ==
    /\ call.todo[i].plugin # Placeholder /\ Sourced(call.todo[i])
    /\ FoundOnce(call.todo[i].id) =>
          \E r \in Range(ps) :
             /\ r.id = call.todo[i].id /\ r.plugin = call.todo[i].plugin
             /\ i = 1 => r.phase = Intermediate[op]

WalksHold(ps, cs) ==
    \A c \in Calls : cs[c].pc = "awaiting" =>
        \A i \in 1..Len(cs[c].todo) : WalkAt(ps, Op[c], cs[c], i)

(* No two walks await one plugin.                                           *)
WalksApart(cs) ==
    \A c, d \in Calls :
        c # d /\ cs[c].pc = "awaiting" /\ cs[d].pc = "awaiting"
            /\ FoundOnce(cs[c].todo[1].id) => cs[c].todo[1].id # cs[d].todo[1].id

CallsOK(ps, cs) ==
    LoadsHold(ps, cs) /\ LoadsApart(cs) /\ WalksHold(ps, cs) /\ WalksApart(cs)

AskInv(ps, cs, ask) == RecordsOK(ps, ask) /\ CallsOK(ps, cs)

-----------------------------------------------------------------------------
(* The registry's operations, as operations on its set of records.          *)

LEMMA RangeMember ==
    ASSUME NEW ps \in Seq(Records)
    PROVE  /\ \A r \in Range(ps) : r \in Records /\ \E i \in 1..Len(ps) : ps[i] = r
           /\ \A i \in 1..Len(ps) : ps[i] \in Range(ps)
           /\ Registered(ps) = {r.id : r \in Range(ps)}
BY DEF Range, Registered

LEMMA OneRecord ==
    ASSUME NEW ps \in Seq(Records), RegisteredOnce(ps),
           NEW r \in Range(ps), NEW q \in Range(ps), r.id = q.id
    PROVE  r = q
<1>1. PICK i \in 1..Len(ps), j \in 1..Len(ps) : ps[i] = r /\ ps[j] = q
  BY RangeMember
<1> QED BY <1>1 DEF RegisteredOnce

(* q is r, with the phase if r is of the id.                                *)
SetTo(r, q, id, phase) ==
    /\ q.id = r.id /\ q.plugin = r.plugin
    /\ q.phase = IF r.id = id THEN phase ELSE r.phase

LEMMA UpdatePhaseIs ==
    ASSUME NEW ps \in Seq(Records), RegisteredOnce(ps), NEW id, NEW phase \in Phases
    PROVE  LET qs == UpdatePhase(ps, id, phase) IN
           /\ qs \in Seq(Records) /\ RegisteredOnce(qs)
           /\ \A q \in Range(qs) : \E r \in Range(ps) : SetTo(r, q, id, phase)
           /\ \A r \in Range(ps) : \E q \in Range(qs) : SetTo(r, q, id, phase)
<1> DEFINE n == Len(ps)
           qs == UpdatePhase(ps, id, phase)
<1>1. n \in Nat /\ \A i \in 1..n : ps[i] \in Records
  OBVIOUS
<1>2. \A i \in 1..n : qs[i] \in Records /\ SetTo(ps[i], qs[i], id, phase)
  BY <1>1 DEF UpdatePhase, SetTo, Records
<1>3. qs \in [1..n -> Records]
  BY <1>1, <1>2 DEF UpdatePhase
<1>4. qs \in Seq(Records) /\ Len(qs) = n
  BY <1>1, <1>3
<1> HIDE DEF qs
<1>5. RegisteredOnce(qs)
  BY <1>2, <1>4 DEF RegisteredOnce, SetTo
<1>6. /\ \A q \in Range(qs) : \E i \in 1..n : q = qs[i]
      /\ \A r \in Range(ps) : \E i \in 1..n : r = ps[i]
  BY <1>4, RangeMember
<1>7. \A i \in 1..n : ps[i] \in Range(ps) /\ qs[i] \in Range(qs)
  BY <1>4, RangeMember
<1>8. \A q \in Range(qs) : \E r \in Range(ps) : SetTo(r, q, id, phase)
  BY <1>2, <1>6, <1>7
<1>9. \A r \in Range(ps) : \E q \in Range(qs) : SetTo(r, q, id, phase)
  BY <1>2, <1>6, <1>7
<1> QED BY <1>4, <1>5, <1>8, <1>9 DEF qs

LEMMA UnregisterIs ==
    ASSUME NEW ps \in Seq(Records), RegisteredOnce(ps), NEW id
    PROVE  LET qs == Unregister(ps, id) IN
           /\ qs \in Seq(Records) /\ RegisteredOnce(qs)
           /\ Range(qs) = {r \in Range(ps) : r.id # id}
<1> DEFINE T == {r \in Range(ps) : r.id # id}
           qs == KeepIn(ps, T)
<1>1. qs \in Seq(Records \cap T) /\ Range(qs) = Range(ps) \cap T
  BY KeepInRange
<1>2. NoRepeats(ps)
  BY DEF NoRepeats, RegisteredOnce
<1>3. NoRepeats(qs)
  BY <1>2, KeepInNoRepeats
<1>4. Range(qs) = T
  BY <1>1
<1> HIDE DEF T, qs
<1>5. qs \in Seq(Records)
  BY <1>1, SeqMonotonic
<1>6. RegisteredOnce(qs)
  <2> SUFFICES ASSUME NEW i \in 1..Len(qs), NEW j \in 1..Len(qs), qs[i].id = qs[j].id
               PROVE  i = j
    BY DEF RegisteredOnce
  <2>1. qs[i] \in Range(ps) /\ qs[j] \in Range(ps)
    BY <1>4, <1>5, RangeMember DEF T
  <2>2. qs[i] = qs[j]
    BY <2>1, OneRecord
  <2> QED BY <1>3, <2>2 DEF NoRepeats
<1> QED BY <1>4, <1>5, <1>6 DEF Unregister, qs, T

LEMMA RegisterIs ==
    ASSUME NEW ps \in Seq(Records), RegisteredOnce(ps),
           NEW id \in Ids \ Registered(ps), NEW plugin \in Sources \cup {Placeholder}
    PROVE  LET qs == Register(ps, id, plugin) IN
           /\ qs \in Seq(Records) /\ RegisteredOnce(qs)
           /\ Range(qs) = Range(ps) \cup {[id |-> id, plugin |-> plugin, phase |-> "REGISTERED"]}
<1> DEFINE new == [id |-> id, plugin |-> plugin, phase |-> "REGISTERED"]
           n == Len(ps)
           qs == Append(ps, new)
<1>1. new \in Records
  BY DEF Records, Phases, ValidTransitions
<1>2. new.id = id
  OBVIOUS
<1>3. Register(ps, id, plugin) = qs
  BY DEF Register
<1> HIDE DEF new
<1>4. n \in Nat /\ qs \in Seq(Records) /\ Len(qs) = n + 1 /\ qs[n + 1] = new
      /\ \A i \in 1..n : qs[i] = ps[i]
  BY <1>1
<1>5. Range(qs) = Range(ps) \cup {new}
  BY <1>1, RangeAppend
<1>6. \A i \in 1..n : ps[i].id # id
  BY DEF Registered
<1>7. \A i \in 1..(n + 1) : i \in 1..n \/ i = n + 1
  BY <1>4
<1> HIDE DEF n, qs
<1>8. RegisteredOnce(qs)
  BY <1>2, <1>4, <1>6, <1>7 DEF RegisteredOnce, n
<1> QED BY <1>3, <1>4, <1>5, <1>8 DEF new

(* The real plugin in a placeholder's place, in a phase.                    *)
LEMMA ReplacedIs ==
    ASSUME NEW ps \in Seq(Records), RegisteredOnce(ps),
           NEW id \in Ids, NEW source \in Sources, NEW phase \in Phases
    PROVE  LET qs == UpdatePhase(Register(Unregister(ps, id), id, source), id, phase) IN
           /\ qs \in Seq(Records) /\ RegisteredOnce(qs)
           /\ \A q \in Range(qs) :
                 \/ q \in Range(ps) /\ q.id # id
                 \/ q.id = id /\ q.plugin = source /\ q.phase = phase
           /\ \A r \in Range(ps) : r.id # id => r \in Range(qs)
           /\ \E q \in Range(qs) : q.id = id /\ q.plugin = source /\ q.phase = phase
<1> DEFINE us == Unregister(ps, id)
           rs == Register(us, id, source)
           qs == UpdatePhase(rs, id, phase)
           new == [id |-> id, plugin |-> source, phase |-> "REGISTERED"]
<1>1. /\ us \in Seq(Records) /\ RegisteredOnce(us)
      /\ Range(us) = {r \in Range(ps) : r.id # id}
  BY UnregisterIs
<1> HIDE DEF us
<1>2. id \notin Registered(us)
  BY <1>1, RangeMember
<1>3. /\ rs \in Seq(Records) /\ RegisteredOnce(rs)
      /\ Range(rs) = Range(us) \cup {new}
  BY <1>1, <1>2, RegisterIs
<1> HIDE DEF rs
<1>4. /\ qs \in Seq(Records) /\ RegisteredOnce(qs)
      /\ \A q \in Range(qs) : \E r \in Range(rs) : SetTo(r, q, id, phase)
      /\ \A r \in Range(rs) : \E q \in Range(qs) : SetTo(r, q, id, phase)
  BY <1>3, UpdatePhaseIs
<1> HIDE DEF qs
<1>5. \A q \in Range(qs) : q \in Records
  BY <1>4, RangeMember
<1>6. \A r \in Range(rs) : r \in Records
  BY <1>3, RangeMember
<1>7. \A r, q \in Records : SetTo(r, q, id, phase) /\ r.id # id => q = r
  BY DEF SetTo, Records
<1>8. new.id = id /\ new.plugin = source
  OBVIOUS
<1>9. ASSUME NEW q \in Range(qs)
      PROVE  \/ q \in Range(ps) /\ q.id # id
             \/ q.id = id /\ q.plugin = source /\ q.phase = phase
  <2>1. PICK r \in Range(rs) : SetTo(r, q, id, phase)
    BY <1>4
  <2>2. r \in Range(us) \/ r = new
    BY <1>3
  <2>3. CASE r \in Range(us)
    BY <1>1, <1>5, <1>6, <1>7, <2>1, <2>3
  <2>4. CASE r = new
    BY <1>8, <2>1, <2>4 DEF SetTo
  <2> QED BY <2>2, <2>3, <2>4
<1>10. ASSUME NEW r \in Range(ps), r.id # id PROVE r \in Range(qs)
  <2>1. r \in Range(rs)
    BY <1>1, <1>3, <1>10
  <2>2. PICK q \in Range(qs) : SetTo(r, q, id, phase)
    BY <1>4, <2>1
  <2> QED BY <1>5, <1>6, <1>7, <1>10, <2>1, <2>2
<1>11. \E q \in Range(qs) : q.id = id /\ q.plugin = source /\ q.phase = phase
  <2>1. PICK q \in Range(qs) : SetTo(new, q, id, phase)
    BY <1>3, <1>4
  <2> QED BY <1>8, <2>1 DEF SetTo
<1> QED BY <1>4, <1>9, <1>10, <1>11 DEF qs, rs, us

(* The places of the entries a load registers, each once and none of an id  *)
(* that is there.                                                           *)
LEMMA NewIs ==
    ASSUME NEW ps
    PROVE  /\ New(ps) \in Seq(1..Len(Entries)) /\ NoRepeats(New(ps))
           /\ Range(New(ps)) = {k \in Valid : Entries[k].id \notin Registered(ps)}
           /\ \A k, l \in Range(New(ps)) : Entries[k].id = Entries[l].id => k = l
<1> DEFINE n == Len(Entries)
           all == [k \in 1..n |-> k]
           T == {k \in Valid : Entries[k].id \notin Registered(ps)}
<1>1. n \in Nat
  BY PlatformAssumption
<1>2. all \in Seq(1..n) /\ Len(all) = n /\ DOMAIN all = 1..n
  BY <1>1
<1>3. NoRepeats(all)
  BY <1>2 DEF NoRepeats
<1>4. Range(all) = 1..n
  BY <1>2 DEF Range
<1>5. New(ps) = KeepIn(all, T)
  BY DEF New
<1> HIDE DEF all, T, n
<1>6. New(ps) \in Seq((1..n) \cap T) /\ Range(New(ps)) = Range(all) \cap T
  <2>1. KeepIn(all, T) \in Seq((1..n) \cap T) /\ Range(KeepIn(all, T)) = Range(all) \cap T
    BY <1>2, KeepInRange
  <2> QED BY <1>5, <2>1
<1>7. NoRepeats(New(ps))
  BY <1>2, <1>3, <1>5, KeepInNoRepeats
<1>8. New(ps) \in Seq(1..n)
  <2> DEFINE kept == New(ps)
             K == (1..n) \cap T
             L == 1..n
  <2>1. kept \in Seq(K) /\ K \subseteq L
    BY <1>6
  <2> HIDE DEF kept, K, L
  <2>2. kept \in Seq(L)
    BY <2>1, SeqMonotonic
  <2> QED BY <2>2 DEF kept, L
<1>9. T \subseteq 1..n
  BY DEF T, Valid, n
<1>10. ASSUME NEW k \in T, NEW l \in T, Entries[k].id = Entries[l].id PROVE k = l
  <2>1. /\ k \in Nat /\ l \in Nat /\ k >= 1 /\ l >= 1
        /\ Entries[k].compatible /\ Entries[l].compatible
        /\ \A j \in 1..(k - 1) : Entries[j].compatible => Entries[j].id # Entries[k].id
        /\ \A j \in 1..(l - 1) : Entries[j].compatible => Entries[j].id # Entries[l].id
    BY <1>1 DEF T, Valid
  <2>2. ~(k < l) /\ ~(l < k)
    BY <1>10, <2>1
  <2> QED BY <2>1, <2>2
<1> QED BY <1>4, <1>6, <1>7, <1>8, <1>9, <1>10 DEF T, n

PlaceholderFor(q, k) ==
    q.id = Entries[k].id /\ q.plugin = Placeholder /\ q.phase = "REGISTERED"

(* A placeholder joins for each of them.                                    *)
LEMMA PlaceholdersJoin ==
    ASSUME NEW ps \in Seq(Records), RegisteredOnce(ps)
    PROVE  LET qs == ps \o Placeholders(New(ps)) IN
           /\ qs \in Seq(Records) /\ RegisteredOnce(qs)
           /\ Range(ps) \subseteq Range(qs)
           /\ \A q \in Range(qs) :
                 q \in Range(ps) \/ \E k \in Range(New(ps)) : PlaceholderFor(q, k)
           /\ \A k \in Range(New(ps)) : \E q \in Range(qs) : PlaceholderFor(q, k)
<1> DEFINE new == New(ps)
           hs == Placeholders(new)
           n == Len(ps)
           m == Len(new)
           qs == ps \o hs
<1>1. /\ new \in Seq(1..Len(Entries)) /\ NoRepeats(new)
      /\ Range(new) = {k \in Valid : Entries[k].id \notin Registered(ps)}
      /\ \A k, l \in Range(new) : Entries[k].id = Entries[l].id => k = l
  BY NewIs
<1> HIDE DEF new
<1>2. m \in Nat /\ n \in Nat /\ DOMAIN new = 1..m
  BY <1>1
<1>3. \A i \in 1..m : new[i] \in Range(new) /\ new[i] \in 1..Len(Entries)
  BY <1>1, <1>2 DEF Range
<1>4. \A k \in 1..Len(Entries) : Entries[k].id \in Ids
  BY DEF Ids
<1>5. \A i \in 1..m : hs[i] \in Records /\ PlaceholderFor(hs[i], new[i])
  BY <1>3, <1>4 DEF Placeholders, PlaceholderFor, Records, Phases, ValidTransitions
<1>6. hs \in Seq(Records) /\ Len(hs) = m
  <2>1. hs = [i \in 1..m |-> hs[i]]
    BY DEF Placeholders
  <2>2. hs \in [1..m -> Records]
    BY <1>5, <2>1
  <2> QED BY <1>2, <2>2
<1> HIDE DEF hs
<1>7. /\ qs \in Seq(Records) /\ Len(qs) = n + m
      /\ \A i \in 1..n : qs[i] = ps[i]
      /\ \A i \in 1..m : qs[n + i] = hs[i]
  <2>0. /\ qs \in Seq(Records) /\ Len(qs) = Len(ps) + Len(hs)
        /\ \A i \in 1..(Len(ps) + Len(hs)) :
              qs[i] = IF i <= Len(ps) THEN ps[i] ELSE hs[i - Len(ps)]
    BY <1>6, ConcatProperties
  <2>1. /\ qs \in Seq(Records) /\ Len(qs) = n + m
        /\ \A i \in 1..(n + m) : qs[i] = IF i <= n THEN ps[i] ELSE hs[i - n]
    BY <1>6, <2>0
  <2> HIDE DEF qs, n, m
  <2>2. \A i \in 1..n : i \in 1..(n + m) /\ i <= n
    BY <1>2
  <2>3. \A i \in 1..m : n + i \in 1..(n + m) /\ ~(n + i <= n) /\ (n + i) - n = i
    BY <1>2
  <2> QED BY <2>1, <2>2, <2>3
<1>8. \A i \in 1..(n + m) : i \in 1..n \/ \E a \in 1..m : i = n + a
  <2>1. \A i \in 1..(n + m) : i \in 1..n \/ (i - n \in 1..m /\ i = n + (i - n))
    BY <1>2
  <2> QED BY <2>1
<1>9. \A i \in 1..n : ps[i] \in Range(ps) /\ ps[i].id \in Registered(ps)
  BY RangeMember DEF Registered
<1> HIDE DEF qs, n, m
<1>10. RegisteredOnce(qs)
  <2>1. \A a \in 1..m : hs[a].id = Entries[new[a]].id /\ hs[a].id \notin Registered(ps)
    BY <1>1, <1>3, <1>5 DEF PlaceholderFor
  <2>2. \A a, b \in 1..m : hs[a].id = hs[b].id => a = b
    <3> SUFFICES ASSUME NEW a \in 1..m, NEW b \in 1..m, hs[a].id = hs[b].id PROVE a = b
      OBVIOUS
    <3>1. new[a] \in Range(new) /\ new[b] \in Range(new)
      BY <1>3
    <3>2. Entries[new[a]].id = Entries[new[b]].id
      BY <2>1
    <3>3. new[a] = new[b]
      BY <1>1, <3>1, <3>2
    <3> QED BY <1>1, <3>3 DEF NoRepeats, m
  <2>3. \A i \in 1..n, a \in 1..m : ps[i].id # hs[a].id
    BY <1>9, <2>1
  <2>4. \A i, j \in 1..n : ps[i].id = ps[j].id => i = j
    BY DEF RegisteredOnce, n
  <2> SUFFICES ASSUME NEW i \in 1..(n + m), NEW j \in 1..(n + m), qs[i].id = qs[j].id
               PROVE  i = j
    BY <1>7 DEF RegisteredOnce
  <2>5. CASE i \in 1..n /\ j \in 1..n
    BY <1>7, <2>4, <2>5
  <2>6. CASE i \in 1..n /\ \E a \in 1..m : j = n + a
    BY <1>7, <2>3, <2>6
  <2>7. CASE (\E a \in 1..m : i = n + a) /\ j \in 1..n
    BY <1>7, <2>3, <2>7
  <2>8. CASE (\E a \in 1..m : i = n + a) /\ (\E b \in 1..m : j = n + b)
    BY <1>7, <2>2, <2>8
  <2> QED BY <1>8, <2>5, <2>6, <2>7, <2>8
<1>11. Range(ps) \subseteq Range(qs)
  <2> SUFFICES ASSUME NEW r \in Range(ps) PROVE r \in Range(qs)
    OBVIOUS
  <2>1. PICK i \in 1..n : ps[i] = r
    BY RangeMember DEF n
  <2>2. i \in 1..Len(qs) /\ qs[i] = r
    BY <1>2, <1>7, <2>1
  <2> QED BY <1>7, <2>2, RangeMember
<1>12. ASSUME NEW q \in Range(qs)
       PROVE  q \in Range(ps) \/ \E k \in Range(new) : PlaceholderFor(q, k)
  <2>1. PICK i \in 1..(n + m) : qs[i] = q
    BY <1>7, RangeMember
  <2>2. CASE i \in 1..n
    BY <1>7, <1>9, <2>1, <2>2
  <2>3. ASSUME NEW a \in 1..m, i = n + a PROVE \E k \in Range(new) : PlaceholderFor(q, k)
    BY <1>3, <1>5, <1>7, <2>1, <2>3
  <2> QED BY <1>8, <2>2, <2>3
<1>13. ASSUME NEW k \in Range(new) PROVE \E q \in Range(qs) : PlaceholderFor(q, k)
  <2>1. PICK i \in 1..m : new[i] = k
    BY <1>2 DEF Range
  <2>2. n + i \in 1..Len(qs) /\ qs[n + i] = hs[i]
    <3>1. Len(qs) = n + m /\ qs[n + i] = hs[i]
      BY <1>7
    <3>2. n + i \in 1..(n + m)
      BY <1>2
    <3> QED BY <3>1, <3>2
  <2>3. hs[i] \in Range(qs)
    BY <1>7, <2>2, RangeMember
  <2> QED BY <1>5, <2>1, <2>3
<1> QED BY <1>7, <1>10, <1>11, <1>12, <1>13 DEF qs, hs, new

-----------------------------------------------------------------------------
(* The calls                                                                *)

CallsTyped(cs) ==
    /\ cs \in [Calls -> Resting \cup Loading \cup Walking]
    /\ \A c \in Calls : Op[c] = "load" => cs[c] \notin Walking
    /\ \A c \in Calls : Op[c] # "load" => cs[c] \notin Loading

LEMMA CallStates ==
    ASSUME NEW cs, CallsTyped(cs), NEW c \in Calls
    PROVE  /\ cs[c].pc \in {"importing", "initializing"} =>
                 Op[c] = "load" /\ cs[c].todo \in Seq(Found) /\ cs[c].todo # <<>>
           /\ cs[c].pc = "awaiting" =>
                 Op[c] \in Work /\ cs[c].todo \in Seq(Records) /\ cs[c].todo # <<>>
           /\ cs[c].pc \notin {"importing", "initializing", "awaiting"} => cs[c].todo = <<>>
           /\ cs[c].todo \in Seq(Found) \/ cs[c].todo \in Seq(Records)
           /\ Op[c] = "load" => cs[c].pc # "awaiting" /\ cs[c].todo \in Seq(Found)
           /\ Op[c] \in Work \cup {"load"}
<1>1. Op[c] \in Work \cup {"load"}
  BY PlatformAssumption
<1>2. <<>> \in Seq(Found) /\ <<>> \in Seq(Records)
  OBVIOUS
<1>3. cs[c] \in Resting \/ cs[c] \in Loading \/ cs[c] \in Walking
  BY DEF CallsTyped
<1>4. CASE cs[c] \in Resting
  BY <1>1, <1>2, <1>4 DEF Resting
<1>5. CASE cs[c] \in Loading
  BY <1>1, <1>2, <1>5 DEF Loading, CallsTyped
<1>6. CASE cs[c] \in Walking
  BY <1>1, <1>2, <1>6 DEF Walking, CallsTyped
<1> QED BY <1>3, <1>4, <1>5, <1>6

LEMMA CallMoves ==
    ASSUME NEW cs, CallsTyped(cs), NEW c \in Calls, NEW call,
           \/ call \in Resting
           \/ Op[c] = "load" /\ call \in Loading
           \/ Op[c] # "load" /\ call \in Walking
    PROVE  CallsTyped([cs EXCEPT ![c] = call])
<1>1. call \in Loading => call \notin Walking /\ call \notin Resting
  BY DEF Loading, Walking, Resting
<1>2. call \in Walking => call \notin Loading /\ call \notin Resting
  BY DEF Loading, Walking, Resting
<1>3. /\ Op[c] = "load" => call \notin Walking
      /\ Op[c] # "load" => call \notin Loading
      /\ call \in Resting \cup Loading \cup Walking
  BY <1>1, <1>2
<1> QED BY <1>3 DEF CallsTyped

(* A load with todo before it.                                              *)
LoadNext(todo) ==
    IF todo = <<>> THEN [pc |-> "done", todo |-> <<>>] ELSE [pc |-> "importing", todo |-> todo]

LEMMA LoadMoves ==
    ASSUME NEW cs, CallsTyped(cs), NEW c \in Calls, Op[c] = "load", NEW todo \in Seq(Found)
    PROVE  CallsTyped([cs EXCEPT ![c] = LoadNext(todo)])
<1>1. CASE todo = <<>>
  <2>1. LoadNext(todo) \in Resting
    BY <1>1 DEF LoadNext, Resting
  <2> QED BY <2>1, CallMoves
<1>2. CASE todo # <<>>
  <2>1. LoadNext(todo) \in Loading
    BY <1>2 DEF LoadNext, Loading
  <2> QED BY <2>1, CallMoves
<1> QED BY <1>1, <1>2

(* What is left of a sequence from place i on.                              *)
LEMMA RestIs ==
    ASSUME NEW S, NEW s \in Seq(S), NEW i \in 1..Len(s)
    PROVE  LET rest == SubSeq(s, i, Len(s)) IN
           /\ rest \in Seq(S) /\ rest # <<>> /\ Len(rest) = Len(s) - i + 1
           /\ \A k \in 1..Len(rest) : i + k - 1 \in 1..Len(s) /\ rest[k] = s[i + k - 1]
           /\ rest[1] = s[i]
<1> DEFINE n == Len(s)
           rest == SubSeq(s, i, n)
<1>1. n \in Nat /\ i \in Nat /\ i >= 1 /\ i <= n
  OBVIOUS
<1>2. rest \in Seq(S) /\ Len(rest) = n - i + 1
  OBVIOUS
<1>3. \A k \in 1..(n - i + 1) : rest[k] = s[i + k - 1]
  OBVIOUS
<1> HIDE DEF rest, n
<1>4. \A k \in 1..(n - i + 1) : i + k - 1 \in 1..n
  BY <1>1
<1>5. n - i + 1 >= 1 /\ 1 \in 1..(n - i + 1) /\ i + 1 - 1 = i
  BY <1>1
<1>6. rest # <<>>
  BY <1>2, <1>5
<1> QED BY <1>2, <1>3, <1>4, <1>5, <1>6 DEF rest, n

LEMMA TailIs ==
    ASSUME NEW S, NEW s \in Seq(S), s # <<>>
    PROVE  /\ Head(s) \in S /\ Head(s) = s[1] /\ 1 \in 1..Len(s)
           /\ Tail(s) \in Seq(S)
           /\ \A k \in 1..Len(Tail(s)) : k + 1 \in 1..Len(s) /\ Tail(s)[k] = s[k + 1]
           /\ \A k \in 1..Len(s) : k # 1 => k - 1 \in 1..Len(Tail(s)) /\ Tail(s)[k - 1] = s[k]
<1>1. Len(s) \in Nat /\ Len(s) >= 1
  OBVIOUS
<1>2. Tail(s) \in Seq(S) /\ Len(Tail(s)) = Len(s) - 1
      /\ \A k \in 1..(Len(s) - 1) : Tail(s)[k] = s[k + 1]
  OBVIOUS
<1>3. \A k \in 1..(Len(s) - 1) : k + 1 \in 1..Len(s)
  BY <1>1
<1>4. \A k \in 1..Len(s) : k # 1 => k - 1 \in 1..(Len(s) - 1) /\ (k - 1) + 1 = k
  BY <1>1
<1>5. Head(s) \in S /\ Head(s) = s[1]
  OBVIOUS
<1> QED BY <1>1, <1>2, <1>3, <1>4, <1>5

-----------------------------------------------------------------------------

LEMMA PhasesAre ==
    /\ \A op \in Work : /\ Expected[op] \in Phases /\ Intermediate[op] \in Phases
                        /\ Target[op] \in Phases
    /\ {"FAILED", "INITIALIZING", "INITIALIZED"} \subseteq Phases
BY DEF Work, Expected, Intermediate, Target, Phases, ValidTransitions

LEMMA TypeIs == TypeOK <=> /\ plugins \in Seq(Records) /\ RegisteredOnce(plugins)
                           /\ asked \in [Sources -> Seq(Work)]
                           /\ CallsTyped(calls)
BY DEF TypeOK, CallsTyped

(* Whatever a walk goes on to, all stays well formed.                       *)
LEMMA GoOnTyped ==
    ASSUME CallsTyped(calls), asked \in [Sources -> Seq(Work)],
           NEW c \in Calls, Op[c] \in Work,
           NEW ps \in Seq(Records), RegisteredOnce(ps), NEW todo \in Seq(Records),
           GoOn(c, ps, todo)
    PROVE  TypeOK'
<1>0. Op[c] # "load"
  BY DEF Work
<1>1. CASE /\ plugins' = ps
           /\ calls' = [calls EXCEPT ![c] = [pc |-> "done", todo |-> <<>>]]
           /\ UNCHANGED asked
  <2>1. [pc |-> "done", todo |-> <<>>] \in Resting
    BY DEF Resting
  <2>2. CallsTyped(calls')
    BY <1>1, <2>1, CallMoves
  <2> QED BY <1>1, <2>2 DEF TypeOK, CallsTyped
<1>2. ASSUME NEW i \in 1..Len(todo),
             plugins' = UpdatePhase(ps, todo[i].id, Intermediate[Op[c]]),
             calls' = [calls EXCEPT ![c] = [pc |-> "awaiting",
                                            todo |-> SubSeq(todo, i, Len(todo))]],
             asked' = IF todo[i].plugin = Placeholder \/ Op[c] = "initialize"
                      THEN asked
                      ELSE [asked EXCEPT ![todo[i].plugin] = Append(@, Op[c])]
      PROVE  TypeOK'
  <2>1. SubSeq(todo, i, Len(todo)) \in Seq(Records) /\ SubSeq(todo, i, Len(todo)) # <<>>
    BY RestIs
  <2>2. [pc |-> "awaiting", todo |-> SubSeq(todo, i, Len(todo))] \in Walking
    BY <2>1 DEF Walking
  <2>3. CallsTyped(calls')
    BY <1>0, <1>2, <2>2, CallMoves
  <2>4. plugins' \in Seq(Records) /\ RegisteredOnce(plugins')
    BY <1>2, PhasesAre, UpdatePhaseIs
  <2>5. todo[i].plugin # Placeholder => todo[i].plugin \in Sources
    <3>1. todo[i] \in Records
      BY <1>2
    <3> QED BY <3>1 DEF Records
  <2>6. \A s \in Sources : Append(asked[s], Op[c]) \in Seq(Work)
    OBVIOUS
  <2>7. asked' \in [Sources -> Seq(Work)]
    BY <1>2, <2>5, <2>6
  <2> QED BY <2>3, <2>4, <2>7 DEF TypeOK, CallsTyped
<1> QED BY <1>1, <1>2 DEF GoOn

LEMMA LoadTyped ==
    ASSUME CallsTyped(calls), NEW c \in Calls, Op[c] = "load", NEW todo \in Seq(Found),
           LoadGoesOn(c, todo)
    PROVE  CallsTyped(calls') /\ calls' = [calls EXCEPT ![c] = LoadNext(todo)]
<1>1. calls' = [calls EXCEPT ![c] = LoadNext(todo)]
  BY DEF LoadGoesOn, LoadNext
<1> QED BY <1>1, LoadMoves

LEMMA ExpectedRecords ==
    ASSUME NEW ps \in Seq(Records), NEW op
    PROVE  LET todo == KeepIn(ps, {r \in Range(ps) : r.phase = Expected[op]}) IN
           /\ todo \in Seq(Records)
           /\ \A i \in 1..Len(todo) : todo[i] \in Range(ps) /\ todo[i].phase = Expected[op]
<1> DEFINE T == {r \in Range(ps) : r.phase = Expected[op]}
           todo == KeepIn(ps, T)
<1>1. todo \in Seq(Records \cap T) /\ Range(todo) = Range(ps) \cap T
  BY KeepInRange
<1> HIDE DEF todo, T
<1>2. todo \in Seq(Records)
  BY <1>1, SeqMonotonic
<1>3. \A i \in 1..Len(todo) : todo[i] \in T
  BY <1>1
<1> QED BY <1>2, <1>3 DEF todo, T

(* What a load imports: entries of the ids it registered, all of them.      *)
Mine(ps) ==
    KeepIn(Entries, {e \in Range(Entries) : \E k \in Range(New(ps)) : Entries[k].id = e.id})

LEMMA MineIs ==
    ASSUME NEW ps
    PROVE  /\ Mine(ps) \in Seq(Found) /\ Range(Mine(ps)) \subseteq Range(Entries)
           /\ \A i \in 1..Len(Mine(ps)) : Mine(ps)[i] \in Range(Entries)
           /\ \A e : OnceIn(Entries, e) => OnceIn(Mine(ps), e)
           /\ \A i \in 1..Len(Mine(ps)) : \E k \in Range(New(ps)) : Entries[k].id = Mine(ps)[i].id
           /\ \A k \in Range(New(ps)) : \E i \in 1..Len(Mine(ps)) : Entries[k].id = Mine(ps)[i].id
<1> DEFINE T == {e \in Range(Entries) : \E k \in Range(New(ps)) : Entries[k].id = e.id}
           mine == KeepIn(Entries, T)
<1>1. mine \in Seq(Found \cap T) /\ Range(mine) = Range(Entries) \cap T
  BY PlatformAssumption, KeepInRange
<1>2. mine = Mine(ps)
  BY DEF Mine
<1>3. \A k \in Range(New(ps)) : k \in 1..Len(Entries)
  BY NewIs DEF Valid
<1>4. \A k \in Range(New(ps)) : Entries[k] \in T
  BY <1>3, PlatformAssumption DEF Range
<1>8. \A e : OnceIn(Entries, e) => OnceIn(mine, e)
  <2> HIDE DEF T
  <2> QED BY PlatformAssumption, KeepInOnce
<1>9. T \subseteq Range(Entries)
  OBVIOUS
<1> HIDE DEF mine
<1>5. mine \in Seq(Found)
  <2> HIDE DEF T
  <2> QED BY <1>1, SeqMonotonic
<1>6. \A i \in 1..Len(mine) : mine[i] \in T
  BY <1>1
<1>7. \A e \in T : \E i \in 1..Len(mine) : mine[i] = e
  <2>1. DOMAIN mine = 1..Len(mine)
    BY <1>1
  <2> HIDE DEF T
  <2>2. T \subseteq Range(Entries)
    BY DEF T
  <2> QED BY <1>1, <2>1, <2>2 DEF Range
<1> QED BY <1>1, <1>2, <1>4, <1>5, <1>6, <1>7, <1>8, <1>9

LEMMA TypeInit == Init => TypeOK
<1> SUFFICES ASSUME Init PROVE TypeOK
  OBVIOUS
<1>1. plugins \in Seq(Records) /\ RegisteredOnce(plugins)
  BY DEF Init, RegisteredOnce
<1>2. asked \in [Sources -> Seq(Work)]
  BY DEF Init
<1>3. Idle \in Resting /\ Idle \notin Loading /\ Idle \notin Walking
  BY DEF Idle, Resting, Loading, Walking
<1>4. calls = [c \in Calls |-> Idle]
  BY DEF Init
<1> QED BY <1>1, <1>2, <1>3, <1>4 DEF TypeOK

LEMMA TypeStep == TypeOK /\ [Next]_vars => TypeOK'
<1> SUFFICES ASSUME TypeOK, [Next]_vars PROVE TypeOK'
  OBVIOUS
<1>1. /\ plugins \in Seq(Records) /\ RegisteredOnce(plugins)
      /\ asked \in [Sources -> Seq(Work)] /\ CallsTyped(calls)
  BY TypeIs
<1>2. ASSUME NEW c \in Calls, Walk(c) PROVE TypeOK'
  <2> DEFINE todo == KeepIn(plugins, {r \in Range(plugins) : r.phase = Expected[Op[c]]})
  <2>1. Op[c] \in Work /\ GoOn(c, plugins, todo)
    BY <1>2 DEF Walk
  <2>2. todo \in Seq(Records)
    BY <1>1, ExpectedRecords
  <2> HIDE DEF todo
  <2> QED BY <1>1, <2>1, <2>2, GoOnTyped
<1>3. ASSUME NEW c \in Calls, NEW fails \in BOOLEAN, WalkSettles(c, fails) PROVE TypeOK'
  <2> DEFINE todo == calls[c].todo
             phase == IF fails THEN "FAILED" ELSE Target[Op[c]]
             ps == UpdatePhase(plugins, Head(todo).id, phase)
  <2>1. Op[c] \in Work /\ todo \in Seq(Records) /\ todo # <<>>
    BY <1>1, <1>3, CallStates DEF WalkSettles
  <2>2. phase \in Phases
    BY <2>1, PhasesAre
  <2>3. GoOn(c, ps, Tail(todo))
    BY <1>3 DEF WalkSettles
  <2> HIDE DEF todo, phase
  <2>4. ps \in Seq(Records) /\ RegisteredOnce(ps)
    BY <1>1, <2>2, UpdatePhaseIs
  <2>5. Tail(todo) \in Seq(Records)
    BY <2>1
  <2> HIDE DEF ps
  <2> QED BY <1>1, <2>1, <2>3, <2>4, <2>5, GoOnTyped
<1>4. ASSUME NEW c \in Calls, LoadRegisters(c) PROVE TypeOK'
  <2>1. /\ Op[c] = "load" /\ plugins' = plugins \o Placeholders(New(plugins))
        /\ LoadGoesOn(c, Mine(plugins)) /\ UNCHANGED asked
    BY <1>4 DEF LoadRegisters, Mine
  <2>2. plugins' \in Seq(Records) /\ RegisteredOnce(plugins')
    BY <1>1, <2>1, PlaceholdersJoin
  <2>3. CallsTyped(calls')
    BY <1>1, <2>1, MineIs, LoadTyped
  <2> QED BY <1>1, <2>1, <2>2, <2>3 DEF TypeOK, CallsTyped
<1>5. ASSUME NEW c \in Calls, calls[c].pc \in {"importing", "initializing"}
      PROVE  /\ Op[c] = "load" /\ calls[c].todo \in Seq(Found) /\ calls[c].todo # <<>>
             /\ Head(calls[c].todo).id \in Ids /\ Head(calls[c].todo).source \in Sources
             /\ LoadGoesOn(c, Tail(calls[c].todo)) => CallsTyped(calls')
  <2>1. Op[c] = "load" /\ calls[c].todo \in Seq(Found) /\ calls[c].todo # <<>>
    BY <1>1, <1>5, CallStates
  <2>2. Head(calls[c].todo) \in Found /\ Tail(calls[c].todo) \in Seq(Found)
    BY <2>1
  <2>3. LoadGoesOn(c, Tail(calls[c].todo)) => CallsTyped(calls')
    BY <1>1, <2>1, <2>2, LoadTyped
  <2> QED BY <2>1, <2>2, <2>3 DEF Found
<1>6. ASSUME NEW c \in Calls, ImportFails(c) PROVE TypeOK'
  <2>1. CallsTyped(calls')
    BY <1>5, <1>6 DEF ImportFails
  <2>2. plugins' \in Seq(Records) /\ RegisteredOnce(plugins')
    BY <1>1, <1>6, PhasesAre, UpdatePhaseIs DEF ImportFails
  <2> QED BY <1>1, <1>6, <2>1, <2>2 DEF ImportFails, TypeOK, CallsTyped
<1>7. ASSUME NEW c \in Calls, InitializeSettles(c) PROVE TypeOK'
  <2>1. CallsTyped(calls')
    BY <1>5, <1>7 DEF InitializeSettles
  <2>2. plugins' \in Seq(Records) /\ RegisteredOnce(plugins')
    BY <1>1, <1>7, PhasesAre, UpdatePhaseIs DEF InitializeSettles
  <2> QED BY <1>1, <1>7, <2>1, <2>2 DEF InitializeSettles, TypeOK, CallsTyped
<1>8. ASSUME NEW c \in Calls, ImportSettles(c) PROVE TypeOK'
  <2> DEFINE entry == Head(calls[c].todo)
             ps == Replaced(entry.id, entry.source)
  <2>0. calls[c].pc = "importing"
    BY <1>8 DEF ImportSettles
  <2>1. /\ Op[c] = "load" /\ calls[c].todo \in Seq(Found) /\ calls[c].todo # <<>>
        /\ entry.id \in Ids /\ entry.source \in Sources
        /\ LoadGoesOn(c, Tail(calls[c].todo)) => CallsTyped(calls')
    BY <1>5, <2>0
  <2>2. asked' \in [Sources -> Seq(Work)]
    <3>1. asked' = [asked EXCEPT ![entry.source] = <<>>]
      BY <1>8 DEF ImportSettles
    <3>2. <<>> \in Seq(Work)
      OBVIOUS
    <3> HIDE DEF entry
    <3> QED BY <1>1, <3>1, <3>2
  <2>3. \A phase \in {"FAILED", "INITIALIZING"} :
           /\ UpdatePhase(ps, entry.id, phase) \in Seq(Records)
           /\ RegisteredOnce(UpdatePhase(ps, entry.id, phase))
    <3>1. ps = Register(Unregister(plugins, entry.id), entry.id, entry.source)
      BY DEF Replaced
    <3>2. {"FAILED", "INITIALIZING"} \subseteq Phases
      BY PhasesAre
    <3> HIDE DEF ps, entry
    <3> QED BY <1>1, <2>1, <3>1, <3>2, ReplacedIs
  <2>4. plugins' \in Seq(Records) /\ RegisteredOnce(plugins')
    <3> HIDE DEF ps, entry
    <3>1. \/ plugins' = UpdatePhase(ps, entry.id, "FAILED")
          \/ plugins' = UpdatePhase(ps, entry.id, "INITIALIZING")
      BY <1>8 DEF ImportSettles, ps, entry
    <3> QED BY <2>3, <3>1
  <2>5. CASE LoadGoesOn(c, Tail(calls[c].todo))
    BY <2>1, <2>2, <2>4, <2>5 DEF TypeOK, CallsTyped
  <2>6. CASE calls' = [calls EXCEPT ![c].pc = "initializing"]
    <3> DEFINE call == [pc |-> "initializing", todo |-> calls[c].todo]
    <3>1. call \in Loading
      BY <2>1 DEF Loading
    <3>2. calls' = [calls EXCEPT ![c] = call]
      <4>1. calls[c] \in Resting \cup Loading \cup Walking
        BY <1>1 DEF CallsTyped
      <4>2. calls[c] = [pc |-> calls[c].pc, todo |-> calls[c].todo]
        BY <4>1 DEF Resting, Loading, Walking
      <4>3. [calls[c] EXCEPT !.pc = "initializing"] = call
        BY <4>2
      <4> QED BY <2>6, <4>3
    <3> HIDE DEF call
    <3>3. CallsTyped(calls')
      BY <1>1, <2>1, <3>1, <3>2, CallMoves
    <3> QED BY <2>2, <2>4, <3>3 DEF TypeOK, CallsTyped
  <2> QED BY <1>8, <2>5, <2>6 DEF ImportSettles
<1>9. ASSUME NEW id \in Ids, UnregisterPlugin(id) PROVE TypeOK'
  <2>1. plugins' \in Seq(Records) /\ RegisteredOnce(plugins')
    BY <1>1, <1>9, UnregisterIs DEF UnregisterPlugin
  <2> QED BY <1>1, <1>9, <2>1 DEF UnregisterPlugin, TypeOK, CallsTyped
<1>10. CASE UNCHANGED vars
  BY <1>10 DEF vars, TypeOK
<1> QED BY <1>2, <1>3, <1>4, <1>6, <1>7, <1>8, <1>9, <1>10 DEF Next

(* PluginRegistry.register(): however many loads, walks and removals are    *)
(* under way, no id is registered twice, and every record, call and list of *)
(* what was asked keeps its shape.                                          *)
THEOREM TypeCorrect == Spec => []TypeOK
BY TypeInit, TypeStep, PTL DEF Spec

-----------------------------------------------------------------------------
(* Loads leave no placeholder behind.                                       *)

(* Plugins change their phases, and placeholders fail.                      *)
LEMMA LoadsAndPhases ==
    ASSUME NEW ps \in Seq(Records), RegisteredOnce(ps), NEW cs, LoadInv(ps, cs),
           NEW id, NEW phase \in Phases, Real(ps, id) \/ phase = "FAILED"
    PROVE  LET qs == UpdatePhase(ps, id, phase) IN
           LoadInv(qs, cs) /\ \A x : Real(ps, x) => Real(qs, x)
<1> DEFINE qs == UpdatePhase(ps, id, phase)
<1>1. /\ \A q \in Range(qs) : \E r \in Range(ps) : SetTo(r, q, id, phase)
      /\ \A r \in Range(ps) : \E q \in Range(qs) : SetTo(r, q, id, phase)
  BY UpdatePhaseIs
<1> HIDE DEF qs
<1>2. \A x : Real(ps, x) => Real(qs, x)
  BY <1>1 DEF Real, SetTo
<1>3. ASSUME NEW q \in Range(qs), q.plugin = Placeholder
      PROVE  \/ q.phase = "FAILED"
             \/ q.phase = "REGISTERED" /\ \E c \in Calls : Op[c] = "load" /\ InTodo(cs[c], q.id)
  <2>1. PICK r \in Range(ps) : SetTo(r, q, id, phase)
    BY <1>1
  <2>2. r.plugin = Placeholder /\ r.id = q.id
    BY <1>3, <2>1 DEF SetTo
  <2>3. CASE r.id = id
    <3>1. ~Real(ps, id)
      BY <2>2, <2>3, OneRecord DEF Real
    <3> QED BY <2>1, <2>3, <3>1 DEF SetTo
  <2>4. CASE r.id # id
    <3>1. q.phase = r.phase
      BY <2>1, <2>4 DEF SetTo
    <3> QED BY <2>2, <3>1 DEF LoadInv
  <2> QED BY <2>3, <2>4
<1> QED BY <1>2, <1>3 DEF LoadInv, qs

(* A call goes on: what a load has no more before it is no placeholder.     *)
LEMMA LoadsAndCall ==
    ASSUME NEW ps, NEW cs, CallsTyped(cs), LoadInv(ps, cs), NEW c \in Calls, NEW call,
           call.pc = "initializing" => Real(ps, Head(call.todo).id),
           call.pc = "awaiting" => \A i \in 1..Len(call.todo) : Real(ps, call.todo[i].id),
           Op[c] = "load" =>
              \A r \in Range(ps) :
                 r.plugin = Placeholder /\ r.phase = "REGISTERED" /\ InTodo(cs[c], r.id)
                    => InTodo(call, r.id)
    PROVE  LoadInv(ps, [cs EXCEPT ![c] = call])
<1> DEFINE ds == [cs EXCEPT ![c] = call]
<1>1. ds[c] = call /\ \A d \in Calls : d # c => ds[d] = cs[d]
  BY DEF CallsTyped
<1> HIDE DEF ds
<1>2. ASSUME NEW r \in Range(ps), r.plugin = Placeholder
      PROVE  \/ r.phase = "FAILED"
             \/ r.phase = "REGISTERED" /\ \E d \in Calls : Op[d] = "load" /\ InTodo(ds[d], r.id)
  <2> SUFFICES ASSUME r.phase # "FAILED"
               PROVE  /\ r.phase = "REGISTERED"
                      /\ \E d \in Calls : Op[d] = "load" /\ InTodo(ds[d], r.id)
    OBVIOUS
  <2>1. PICK d \in Calls : Op[d] = "load" /\ InTodo(cs[d], r.id) /\ r.phase = "REGISTERED"
    BY <1>2 DEF LoadInv
  <2>2. InTodo(ds[d], r.id)
    BY <1>1, <1>2, <2>1
  <2> QED BY <2>1, <2>2
<1>3. \A d \in Calls : ds[d].pc = "initializing" => Real(ps, Head(ds[d].todo).id)
  BY <1>1 DEF LoadInv
<1>4. \A d \in Calls : ds[d].pc = "awaiting" =>
         \A i \in 1..Len(ds[d].todo) : Real(ps, ds[d].todo[i].id)
  BY <1>1 DEF LoadInv
<1> QED BY <1>2, <1>3, <1>4 DEF LoadInv, ds

(* A plugin takes a placeholder's place.                                    *)
LEMMA LoadsAndReplacement ==
    ASSUME NEW ps \in Seq(Records), RegisteredOnce(ps), NEW cs, LoadInv(ps, cs),
           NEW id \in Ids, NEW source \in Sources, NEW phase \in Phases
    PROVE  LET qs == UpdatePhase(Register(Unregister(ps, id), id, source), id, phase) IN
           /\ LoadInv(qs, cs) /\ Real(qs, id)
           /\ \A q \in Range(qs) : q.plugin = Placeholder => q.id # id
<1> DEFINE qs == UpdatePhase(Register(Unregister(ps, id), id, source), id, phase)
<1>1. /\ \A q \in Range(qs) :
            \/ q \in Range(ps) /\ q.id # id
            \/ q.id = id /\ q.plugin = source /\ q.phase = phase
      /\ \A r \in Range(ps) : r.id # id => r \in Range(qs)
      /\ \E q \in Range(qs) : q.id = id /\ q.plugin = source /\ q.phase = phase
  BY ReplacedIs
<1> HIDE DEF qs
<1>2. source # Placeholder
  BY PlatformAssumption
<1>3. Real(qs, id) /\ \A x : Real(ps, x) => Real(qs, x)
  BY <1>1, <1>2 DEF Real
<1>4. \A q \in Range(qs) : q.plugin = Placeholder => q \in Range(ps) /\ q.id # id
  BY <1>1, <1>2
<1>5. LoadInv(qs, cs)
  BY <1>3, <1>4 DEF LoadInv
<1> QED BY <1>3, <1>4, <1>5 DEF qs

LEMMA NextIsInTodo == \A todo : LoadNext(todo).todo = todo /\ LoadNext(todo).pc \in {"done", "importing"}
BY DEF LoadNext

(* The head is done with; the rest is still to do.                          *)
LEMMA HeadDone ==
    ASSUME NEW cs, CallsTyped(cs), NEW c \in Calls, cs[c].todo # <<>>,
           NEW id, id # Head(cs[c].todo).id, InTodo(cs[c], id)
    PROVE  InTodo(LoadNext(Tail(cs[c].todo)), id)
<1> DEFINE todo == cs[c].todo
<1>1. PICK S : todo \in Seq(S)
  <2>1. todo \in Seq(Found) \/ todo \in Seq(Records)
    BY CallStates
  <2> QED BY <2>1
<1>2. PICK i \in 1..Len(todo) : todo[i].id = id
  BY DEF InTodo
<1> HIDE DEF todo
<1>3. todo # <<>> /\ Head(todo).id # id
  BY DEF todo
<1>4. /\ Head(todo) = todo[1]
      /\ \A k \in 1..Len(todo) : k # 1 => k - 1 \in 1..Len(Tail(todo)) /\ Tail(todo)[k - 1] = todo[k]
  BY <1>1, <1>3, TailIs
<1>5. i - 1 \in 1..Len(Tail(todo)) /\ Tail(todo)[i - 1].id = id
  BY <1>2, <1>3, <1>4
<1>6. LoadNext(Tail(todo)).todo = Tail(todo)
  BY NextIsInTodo
<1> QED BY <1>5, <1>6 DEF InTodo, todo

(* Whatever a walk over plugins goes on to, no placeholder is forgotten.    *)
LEMMA GoOnLoads ==
    ASSUME PlatformMethodsOnly, CallsTyped(calls), NEW c \in Calls, Op[c] \in Work,
           NEW ps \in Seq(Records), RegisteredOnce(ps), LoadInv(ps, calls),
           NEW todo \in Seq(Records), \A i \in 1..Len(todo) : Real(ps, todo[i].id),
           GoOn(c, ps, todo)
    PROVE  LoadInv(plugins', calls')
<1>0. Op[c] # "load"
  BY DEF Work
<1>1. CASE /\ plugins' = ps
           /\ calls' = [calls EXCEPT ![c] = [pc |-> "done", todo |-> <<>>]]
  <2> DEFINE call == [pc |-> "done", todo |-> <<>>]
  <2>1. call.pc = "done"
    OBVIOUS
  <2> HIDE DEF call
  <2>2. LoadInv(ps, [calls EXCEPT ![c] = call])
    BY <1>0, <2>1, LoadsAndCall
  <2> QED BY <1>1, <2>2 DEF call
<1>2. ASSUME NEW i \in 1..Len(todo),
             plugins' = UpdatePhase(ps, todo[i].id, Intermediate[Op[c]]),
             calls' = [calls EXCEPT ![c] = [pc |-> "awaiting",
                                            todo |-> SubSeq(todo, i, Len(todo))]]
      PROVE  LoadInv(plugins', calls')
  <2> DEFINE rest == SubSeq(todo, i, Len(todo))
             call == [pc |-> "awaiting", todo |-> rest]
             qs == UpdatePhase(ps, todo[i].id, Intermediate[Op[c]])
  <2>1. LoadInv(qs, calls) /\ \A x : Real(ps, x) => Real(qs, x)
    BY PhasesAre, LoadsAndPhases
  <2>2. \A k \in 1..Len(rest) : i + k - 1 \in 1..Len(todo) /\ rest[k] = todo[i + k - 1]
    BY RestIs
  <2> HIDE DEF rest, qs
  <2>3. \A k \in 1..Len(rest) : Real(qs, rest[k].id)
    BY <2>1, <2>2
  <2>4. call.pc = "awaiting" /\ call.todo = rest
    OBVIOUS
  <2> HIDE DEF call
  <2>5. LoadInv(qs, [calls EXCEPT ![c] = call])
    BY <1>0, <2>1, <2>3, <2>4, LoadsAndCall
  <2> QED BY <1>2, <2>5 DEF call, qs, rest
<1> QED BY <1>1, <1>2 DEF GoOn

LEMMA LoadInit == Init => LoadInv(plugins, calls)
<1> SUFFICES ASSUME Init PROVE LoadInv(plugins, calls)
  OBVIOUS
<1>1. Range(plugins) = {}
  BY DEF Init, Range
<1>2. \A c \in Calls : calls[c].pc = "idle"
  BY DEF Init, Idle
<1> QED BY <1>1, <1>2 DEF LoadInv

LEMMA LoadStep ==
    ASSUME PlatformMethodsOnly, TypeOK, LoadInv(plugins, calls), [Next]_vars
    PROVE  LoadInv(plugins', calls')
<1>1. /\ plugins \in Seq(Records) /\ RegisteredOnce(plugins) /\ CallsTyped(calls)
  BY TypeIs
<1>2. ASSUME NEW c \in Calls, Walk(c) PROVE LoadInv(plugins', calls')
  <2> DEFINE todo == KeepIn(plugins, {r \in Range(plugins) : r.phase = Expected[Op[c]]})
  <2>1. Op[c] \in Work /\ GoOn(c, plugins, todo)
    BY <1>2 DEF Walk
  <2>2. todo \in Seq(Records)
        /\ \A i \in 1..Len(todo) : todo[i] \in Range(plugins) /\ todo[i].phase = Expected[Op[c]]
    BY <1>1, ExpectedRecords
  <2> HIDE DEF todo
  <2>3. Expected[Op[c]] \notin {"FAILED", "REGISTERED"}
    BY <2>1 DEF PlatformMethodsOnly, Work, Expected
  <2>4. \A i \in 1..Len(todo) : Real(plugins, todo[i].id)
    BY <2>2, <2>3 DEF LoadInv, Real
  <2> QED BY <1>1, <2>1, <2>2, <2>4, GoOnLoads
<1>3. ASSUME NEW c \in Calls, NEW fails \in BOOLEAN, WalkSettles(c, fails)
      PROVE  LoadInv(plugins', calls')
  <2> DEFINE todo == calls[c].todo
             phase == IF fails THEN "FAILED" ELSE Target[Op[c]]
             ps == UpdatePhase(plugins, Head(todo).id, phase)
  <2>1. Op[c] \in Work /\ todo \in Seq(Records) /\ todo # <<>> /\ calls[c].pc = "awaiting"
    BY <1>1, <1>3, CallStates DEF WalkSettles
  <2>2. phase \in Phases
    BY <2>1, PhasesAre
  <2>3. GoOn(c, ps, Tail(todo))
    BY <1>3 DEF WalkSettles
  <2>4. \A i \in 1..Len(todo) : Real(plugins, todo[i].id)
    BY <2>1 DEF LoadInv
  <2> HIDE DEF todo, phase
  <2>5. /\ Tail(todo) \in Seq(Records) /\ Head(todo) = todo[1] /\ 1 \in 1..Len(todo)
        /\ \A k \in 1..Len(Tail(todo)) : k + 1 \in 1..Len(todo) /\ Tail(todo)[k] = todo[k + 1]
    BY <2>1, TailIs
  <2>6. ps \in Seq(Records) /\ RegisteredOnce(ps)
    BY <1>1, <2>2, UpdatePhaseIs
  <2>7. Real(plugins, Head(todo).id)
    BY <2>4, <2>5
  <2>8. LoadInv(ps, calls) /\ \A x : Real(plugins, x) => Real(ps, x)
    BY <1>1, <2>2, <2>7, LoadsAndPhases
  <2> HIDE DEF ps
  <2>9. \A i \in 1..Len(Tail(todo)) : Real(ps, Tail(todo)[i].id)
    BY <2>4, <2>5, <2>8
  <2> QED BY <1>1, <2>1, <2>3, <2>5, <2>6, <2>8, <2>9, GoOnLoads
<1>4. ASSUME NEW c \in Calls, LoadRegisters(c) PROVE LoadInv(plugins', calls')
  <2> DEFINE mine == Mine(plugins)
             qs == plugins \o Placeholders(New(plugins))
             ds == [calls EXCEPT ![c] = LoadNext(mine)]
  <2>1. Op[c] = "load" /\ calls[c].pc = "idle" /\ plugins' = qs /\ LoadGoesOn(c, mine)
    BY <1>4 DEF LoadRegisters, Mine
  <2>2. /\ mine \in Seq(Found)
        /\ \A k \in Range(New(plugins)) : \E i \in 1..Len(mine) : Entries[k].id = mine[i].id
    BY MineIs
  <2>3. /\ Range(plugins) \subseteq Range(qs)
        /\ \A q \in Range(qs) :
              q \in Range(plugins) \/ \E k \in Range(New(plugins)) : PlaceholderFor(q, k)
    BY <1>1, PlaceholdersJoin
  <2> HIDE DEF mine, qs
  <2>4. calls' = ds
    BY <1>1, <2>1, <2>2, LoadTyped
  <2>5. LoadNext(mine).todo = mine /\ LoadNext(mine).pc \in {"done", "importing"}
    BY NextIsInTodo
  <2>6. ds[c] = LoadNext(mine) /\ \A d \in Calls : d # c => ds[d] = calls[d]
    BY <1>1 DEF CallsTyped
  <2> HIDE DEF ds
  <2>7. calls[c].todo = <<>>
    BY <1>1, <2>1, CallStates
  <2>8. \A x : Real(plugins, x) => Real(qs, x)
    BY <2>3 DEF Real
  <2>9. ASSUME NEW q \in Range(qs), q.plugin = Placeholder
        PROVE  \/ q.phase = "FAILED"
               \/ q.phase = "REGISTERED" /\ \E d \in Calls : Op[d] = "load" /\ InTodo(ds[d], q.id)
    <3>1. CASE q \in Range(plugins) /\ q.phase # "FAILED"
      <4>1. PICK d \in Calls : Op[d] = "load" /\ InTodo(calls[d], q.id) /\ q.phase = "REGISTERED"
        BY <2>9, <3>1 DEF LoadInv
      <4>2. d # c
        BY <2>7, <4>1 DEF InTodo
      <4> QED BY <2>6, <4>1, <4>2
    <3>2. ASSUME NEW k \in Range(New(plugins)), PlaceholderFor(q, k)
          PROVE  q.phase = "REGISTERED" /\ InTodo(ds[c], q.id)
      <4>1. PICK i \in 1..Len(mine) : Entries[k].id = mine[i].id
        BY <2>2
      <4>2. q.id = mine[i].id /\ q.phase = "REGISTERED"
        BY <3>2, <4>1 DEF PlaceholderFor
      <4> QED BY <2>5, <2>6, <4>2 DEF InTodo
    <3> QED BY <2>1, <2>3, <3>1, <3>2
  <2>10. ASSUME NEW d \in Calls
         PROVE  /\ ds[d].pc = "initializing" => Real(qs, Head(ds[d].todo).id)
                /\ ds[d].pc = "awaiting" =>
                      \A i \in 1..Len(ds[d].todo) : Real(qs, ds[d].todo[i].id)
    <3>1. CASE d = c
      BY <2>5, <2>6, <3>1
    <3>2. CASE d # c
      BY <2>6, <2>8, <3>2 DEF LoadInv
    <3> QED BY <3>1, <3>2
  <2>11. LoadInv(qs, ds)
    BY <2>9, <2>10 DEF LoadInv
  <2> QED BY <2>1, <2>4, <2>11
<1>5. ASSUME NEW c \in Calls, calls[c].pc \in {"importing", "initializing"},
             NEW ps, LoadInv(ps, calls),
             \A q \in Range(ps) :
                q.plugin = Placeholder /\ q.phase = "REGISTERED" => q.id # Head(calls[c].todo).id
      PROVE  LoadGoesOn(c, Tail(calls[c].todo)) => LoadInv(ps, calls')
  <2> DEFINE call == LoadNext(Tail(calls[c].todo))
  <2>1. Op[c] = "load" /\ calls[c].todo \in Seq(Found) /\ calls[c].todo # <<>>
    BY <1>1, <1>5, CallStates
  <2>2. call.pc \in {"done", "importing"}
    BY NextIsInTodo
  <2>3. \A r \in Range(ps) :
           r.plugin = Placeholder /\ r.phase = "REGISTERED" /\ InTodo(calls[c], r.id)
              => InTodo(call, r.id)
    BY <1>1, <1>5, <2>1, HeadDone
  <2>4. Tail(calls[c].todo) \in Seq(Found)
    BY <2>1
  <2>5. LoadGoesOn(c, Tail(calls[c].todo)) => calls' = [calls EXCEPT ![c] = call]
    BY <1>1, <2>1, <2>4, LoadTyped
  <2> HIDE DEF call
  <2>6. LoadInv(ps, [calls EXCEPT ![c] = call])
    BY <1>1, <1>5, <2>2, <2>3, LoadsAndCall
  <2> QED BY <2>5, <2>6
<1>6. ASSUME NEW c \in Calls, ImportFails(c) PROVE LoadInv(plugins', calls')
  <2> DEFINE id == Head(calls[c].todo).id
             qs == UpdatePhase(plugins, id, "FAILED")
  <2>1. calls[c].pc = "importing" /\ plugins' = qs /\ LoadGoesOn(c, Tail(calls[c].todo))
    BY <1>6 DEF ImportFails
  <2>2. LoadInv(qs, calls)
    BY <1>1, PhasesAre, LoadsAndPhases
  <2>3. \A q \in Range(qs) : \E r \in Range(plugins) : SetTo(r, q, id, "FAILED")
    BY <1>1, PhasesAre, UpdatePhaseIs
  <2> HIDE DEF qs
  <2>4. \A q \in Range(qs) : q.phase = "REGISTERED" => q.id # id
    BY <2>3 DEF SetTo
  <2> QED BY <1>5, <2>1, <2>2, <2>4
<1>7. ASSUME NEW c \in Calls, InitializeSettles(c) PROVE LoadInv(plugins', calls')
  <2> DEFINE id == Head(calls[c].todo).id
             qs == UpdatePhase(plugins, id, "INITIALIZED")
  <2>1. calls[c].pc = "initializing" /\ plugins' = qs /\ LoadGoesOn(c, Tail(calls[c].todo))
    BY <1>7 DEF InitializeSettles
  <2>2. Real(plugins, id)
    BY <2>1 DEF LoadInv
  <2>3. LoadInv(qs, calls)
    BY <1>1, <2>2, PhasesAre, LoadsAndPhases
  <2>4. \A q \in Range(qs) : \E r \in Range(plugins) : SetTo(r, q, id, "INITIALIZED")
    BY <1>1, PhasesAre, UpdatePhaseIs
  <2> HIDE DEF qs
  <2>5. \A q \in Range(qs) : q.phase = "REGISTERED" => q.id # id
    BY <2>4 DEF SetTo
  <2> QED BY <1>5, <2>1, <2>3, <2>5
<1>8. ASSUME NEW c \in Calls, ImportSettles(c) PROVE LoadInv(plugins', calls')
  <2> DEFINE entry == Head(calls[c].todo)
             After(phase) == UpdatePhase(Register(Unregister(plugins, entry.id), entry.id,
                                                  entry.source), entry.id, phase)
  <2>1. calls[c].pc = "importing" /\ \/ /\ plugins' = After("FAILED")
                                        /\ LoadGoesOn(c, Tail(calls[c].todo))
                                     \/ /\ plugins' = After("INITIALIZING")
                                        /\ calls' = [calls EXCEPT ![c].pc = "initializing"]
    BY <1>8 DEF ImportSettles, Replaced
  <2>2. calls[c].todo \in Seq(Found) /\ calls[c].todo # <<>>
    BY <1>1, <2>1, CallStates
  <2>3. entry \in Found
    BY <2>2
  <2>4. entry.id \in Ids /\ entry.source \in Sources
    BY <2>3 DEF Found
  <2>5. {"FAILED", "INITIALIZING"} \subseteq Phases
    BY PhasesAre
  <2>6. ASSUME NEW phase \in {"FAILED", "INITIALIZING"}
        PROVE  /\ LoadInv(After(phase), calls) /\ Real(After(phase), entry.id)
               /\ \A q \in Range(After(phase)) : q.plugin = Placeholder => q.id # entry.id
    BY <1>1, <2>4, <2>5, LoadsAndReplacement
  <2>7. CASE /\ plugins' = After("FAILED")
             /\ LoadGoesOn(c, Tail(calls[c].todo))
    <3> HIDE DEF After
    <3>1. LoadInv(After("FAILED"), calls')
      BY <1>5, <2>1, <2>6, <2>7
    <3> QED BY <2>7, <3>1
  <2>8. CASE /\ plugins' = After("INITIALIZING")
             /\ calls' = [calls EXCEPT ![c].pc = "initializing"]
    <3> DEFINE call == [calls[c] EXCEPT !.pc = "initializing"]
    <3>1. calls[c] \in Resting \cup Loading \cup Walking
      BY <1>1 DEF CallsTyped
    <3>2. call.pc = "initializing" /\ call.todo = calls[c].todo
      BY <3>1 DEF Resting, Loading, Walking
    <3>3. calls' = [calls EXCEPT ![c] = call]
      BY <2>8
    <3> HIDE DEF call, After, entry
    <3>4. Real(After("INITIALIZING"), Head(call.todo).id)
      BY <2>6, <3>2 DEF entry
    <3>5. LoadInv(After("INITIALIZING"), calls)
      BY <2>6
    <3>6. \A r : InTodo(calls[c], r) => InTodo(call, r)
      BY <3>2 DEF InTodo
    <3> DEFINE qs == After("INITIALIZING")
    <3> HIDE DEF qs
    <3>7. LoadInv(qs, [calls EXCEPT ![c] = call])
      BY <1>1, <3>2, <3>4, <3>5, <3>6, LoadsAndCall DEF qs
    <3> QED BY <2>8, <3>3, <3>7 DEF qs
  <2> QED BY <2>1, <2>7, <2>8
<1>9. ASSUME NEW id \in Ids, UnregisterPlugin(id) PROVE LoadInv(plugins', calls')
  <2> DEFINE qs == Unregister(plugins, id)
  <2>1. plugins' = qs /\ calls' = calls
    BY <1>9 DEF UnregisterPlugin
  <2>2. Range(qs) = {r \in Range(plugins) : r.id # id}
    BY <1>1, UnregisterIs
  <2> HIDE DEF qs
  <2>3. \A c \in Calls : \A i \in 1..Len(calls[c].todo) : calls[c].todo[i].id # id
    BY <1>9 DEF UnregisterPlugin, Busy
  <2>4. \A x : x # id /\ Real(plugins, x) => Real(qs, x)
    BY <2>2 DEF Real
  <2>5. \A c \in Calls : calls[c].pc = "initializing" => Head(calls[c].todo).id # id
    <3> SUFFICES ASSUME NEW c \in Calls, calls[c].pc = "initializing"
                 PROVE  Head(calls[c].todo).id # id
      OBVIOUS
    <3>1. calls[c].todo \in Seq(Found) /\ calls[c].todo # <<>>
      BY <1>1, CallStates
    <3>2. Head(calls[c].todo) = calls[c].todo[1] /\ 1 \in 1..Len(calls[c].todo)
      BY <3>1
    <3> QED BY <2>3, <3>2
  <2>6. LoadInv(qs, calls)
    BY <2>2, <2>3, <2>4, <2>5 DEF LoadInv
  <2> QED BY <2>1, <2>6
<1>10. CASE UNCHANGED vars
  BY <1>10 DEF vars
<1> QED BY <1>2, <1>3, <1>4, <1>6, <1>7, <1>8, <1>9, <1>10 DEF Next

LEMMA LoadsHandled ==
    ASSUME TypeOK, LoadInv(plugins, calls) PROVE LoadsHandleEverything
<1> SUFFICES ASSUME \A c \in Calls : Op[c] = "load" => calls[c].pc \in {"idle", "done"},
                    NEW i \in 1..Len(plugins), plugins[i].plugin = Placeholder
             PROVE  plugins[i].phase = "FAILED"
  BY DEF LoadsHandleEverything
<1>1. plugins \in Seq(Records) /\ CallsTyped(calls)
  BY TypeIs
<1>2. \A c \in Calls : Op[c] = "load" => calls[c].todo = <<>>
  BY <1>1, CallStates
<1>3. \A c \in Calls : Op[c] = "load" => ~InTodo(calls[c], plugins[i].id)
  BY <1>2 DEF InTodo
<1>4. plugins[i] \in Range(plugins)
  BY <1>1, RangeMember
<1> QED BY <1>3, <1>4 DEF LoadInv

(* PluginPlatform.loadAll(): when no load is under way, however many there  *)
(* were and whatever starts, stops and removals came between, no            *)
(* placeholder is left but those of imports that failed.                    *)
THEOREM LoadsAreHandled ==
    ASSUME PlatformMethodsOnly PROVE Spec => []LoadsHandleEverything
<1>1. Init => LoadInv(plugins, calls)
  BY LoadInit
<1>2. TypeOK /\ LoadInv(plugins, calls) /\ [Next]_vars => LoadInv(plugins, calls)'
  BY LoadStep
<1>3. TypeOK /\ LoadInv(plugins, calls) => LoadsHandleEverything
  BY LoadsHandled
<1> QED BY <1>1, <1>2, <1>3, TypeCorrect, PTL DEF Spec

-----------------------------------------------------------------------------
(* Plugins are asked in order.                                              *)

LEMMA EntriesDiffer ==
    /\ \A e, f \in Range(Entries) : e.source = f.source => e.id = f.id
    /\ \A e, f \in Range(Entries) : e.id = f.id /\ FoundOnce(e.id) => e = f
    /\ \A e \in Range(Entries) : FoundOnce(e.id) <=> e.source \in Alone
    /\ \A e \in Range(Entries) : e.id \in Ids /\ e.source \in Sources
<1>1. DOMAIN Entries = 1..Len(Entries)
  BY PlatformAssumption
<1>2. \A e \in Range(Entries) : \E i \in 1..Len(Entries) : Entries[i] = e
  BY <1>1 DEF Range
<1>3. \A i, j \in 1..Len(Entries) :
         Entries[i].source = Entries[j].source => Entries[i].id = Entries[j].id
  BY PlatformAssumption
<1>4. \A e \in Range(Entries) : e.id \in Ids /\ e.source \in Sources
  BY <1>2 DEF Ids, Sources
<1>5. \A e, f \in Range(Entries) : e.source = f.source => e.id = f.id
  BY <1>2, <1>3
<1>6. \A e, f \in Range(Entries) : e.id = f.id /\ FoundOnce(e.id) => e = f
  BY <1>2 DEF FoundOnce
<1>7. ASSUME NEW e \in Range(Entries) PROVE FoundOnce(e.id) <=> e.source \in Alone
  <2>1. PICK k \in 1..Len(Entries) : Entries[k] = e
    BY <1>2
  <2>2. \A i \in 1..Len(Entries) : Entries[i].source = e.source => Entries[i].id = e.id
    BY <1>3, <2>1
  <2> QED BY <1>4, <2>1, <2>2 DEF Alone
<1> QED BY <1>4, <1>5, <1>6, <1>7

(* The registry turns from ps into qs at id only, no load has id before it, *)
(* and a walk that has it does not await it now and finds its plugin there. *)
ChangesOnly(ps, qs, cs, id) ==
    /\ \A r \in Range(ps) : r.id # id => r \in Range(qs)
    /\ FoundOnce(id) =>
          /\ \A c \in Calls : Op[c] = "load" => ~InTodo(cs[c], id)
          /\ \A c \in Calls : cs[c].pc = "awaiting" =>
                \A i \in 1..Len(cs[c].todo) : cs[c].todo[i].id = id =>
                   i # 1 /\ \E q \in Range(qs) : q.id = id /\ q.plugin = cs[c].todo[i].plugin

LEMMA CallsKeep ==
    ASSUME NEW ps, NEW qs, NEW cs, NEW id, CallsOK(ps, cs), ChangesOnly(ps, qs, cs, id)
    PROVE  CallsOK(qs, cs)
<1>1. LoadsHold(qs, cs)
  <2> SUFFICES ASSUME NEW c \in Calls, Op[c] = "load", NEW i \in 1..Len(cs[c].todo)
               PROVE  LoadAt(qs, cs[c], i)
    BY DEF LoadsHold
  <2>1. FoundOnce(cs[c].todo[i].id) => cs[c].todo[i].id # id
    BY DEF InTodo, ChangesOnly
  <2>2. LoadAt(ps, cs[c], i)
    BY DEF CallsOK, LoadsHold
  <2> QED BY <2>1, <2>2 DEF LoadAt, ChangesOnly
<1>2. WalksHold(qs, cs)
  <2> SUFFICES ASSUME NEW c \in Calls, cs[c].pc = "awaiting", NEW i \in 1..Len(cs[c].todo)
               PROVE  WalkAt(qs, Op[c], cs[c], i)
    BY DEF WalksHold
  <2>1. WalkAt(ps, Op[c], cs[c], i)
    BY DEF CallsOK, WalksHold
  <2>2. CASE cs[c].todo[i].id = id
    BY <2>1, <2>2 DEF WalkAt, ChangesOnly
  <2>3. CASE cs[c].todo[i].id # id
    BY <2>1, <2>3 DEF WalkAt, ChangesOnly
  <2> QED BY <2>2, <2>3
<1> QED BY <1>1, <1>2 DEF CallsOK

(* No call relies on the phase of id.                                       *)
PhaseIsFree(cs, id) ==
    FoundOnce(id) =>
    /\ \A c \in Calls : Op[c] = "load" => ~InTodo(cs[c], id)
    /\ \A c \in Calls : cs[c].pc = "awaiting" => cs[c].todo[1].id # id

LEMMA CallsAndPhase ==
    ASSUME NEW ps \in Seq(Records), RegisteredOnce(ps), NEW cs, CallsOK(ps, cs),
           NEW id, NEW phase \in Phases, PhaseIsFree(cs, id)
    PROVE  CallsOK(UpdatePhase(ps, id, phase), cs)
<1> DEFINE qs == UpdatePhase(ps, id, phase)
<1>1. /\ qs \in Seq(Records)
      /\ \A r \in Range(ps) : \E q \in Range(qs) : SetTo(r, q, id, phase)
  BY UpdatePhaseIs
<1> HIDE DEF qs
<1>2. \A r \in Range(ps) : r \in Records
  BY RangeMember
<1>3. \A q \in Range(qs) : q \in Records
  BY <1>1, RangeMember
<1>4. \A r, q \in Records : SetTo(r, q, id, phase) /\ r.id # id => q = r
  BY DEF SetTo, Records
<1>5. \A r \in Range(ps) : r.id # id => r \in Range(qs)
  BY <1>1, <1>2, <1>3, <1>4
<1>6. ASSUME FoundOnce(id), NEW c \in Calls, cs[c].pc = "awaiting",
             NEW i \in 1..Len(cs[c].todo), cs[c].todo[i].id = id
      PROVE  i # 1 /\ \E q \in Range(qs) : q.id = id /\ q.plugin = cs[c].todo[i].plugin
  <2>1. WalkAt(ps, Op[c], cs[c], i)
    BY <1>6 DEF CallsOK, WalksHold
  <2>2. PICK r \in Range(ps) : r.id = id /\ r.plugin = cs[c].todo[i].plugin
    BY <1>6, <2>1 DEF WalkAt
  <2>3. \E q \in Range(qs) : SetTo(r, q, id, phase)
    BY <1>1
  <2> QED BY <1>6, <2>2, <2>3 DEF SetTo, PhaseIsFree
<1>7. ChangesOnly(ps, qs, cs, id)
  BY <1>5, <1>6 DEF ChangesOnly, PhaseIsFree
<1>8. CallsOK(qs, cs)
  BY <1>7, CallsKeep
<1> QED BY <1>8 DEF qs

LEMMA RecordsAndPhase ==
    ASSUME NEW ps \in Seq(Records), RegisteredOnce(ps), NEW ask, RecordsOK(ps, ask),
           NEW id, NEW phase \in Phases \ {"REGISTERED"},
           \A r \in Range(ps) :
              r.id = id /\ FoundOnce(id) /\ r.plugin # Placeholder /\ phase # "FAILED" =>
                 ask[r.plugin] = AskedBy[phase]
    PROVE  RecordsOK(UpdatePhase(ps, id, phase), ask)
<1> DEFINE qs == UpdatePhase(ps, id, phase)
<1>1. \A q \in Range(qs) : \E r \in Range(ps) : SetTo(r, q, id, phase)
  BY UpdatePhaseIs
<1> HIDE DEF qs
<1>2. ASSUME NEW q \in Range(qs) PROVE RecordOK(q, ask)
  <2>1. PICK r \in Range(ps) : SetTo(r, q, id, phase)
    BY <1>1
  <2>2. RecordOK(r, ask)
    BY DEF RecordsOK
  <2> QED BY <2>1, <2>2 DEF RecordOK, Sourced, SetTo
<1> QED BY <1>2 DEF RecordsOK, qs

(* A load gives up the head of its todo: no load has it any more.           *)
LEMMA LoadDrops ==
    ASSUME NEW ps, NEW cs, CallsTyped(cs), CallsOK(ps, cs),
           NEW c \in Calls, Op[c] = "load", cs[c].todo # <<>>
    PROVE  LET ds == [cs EXCEPT ![c] = LoadNext(Tail(cs[c].todo))] IN
           /\ CallsOK(ps, ds)
           /\ FoundOnce(Head(cs[c].todo).id) =>
                 \A d \in Calls : Op[d] = "load" => ~InTodo(ds[d], Head(cs[c].todo).id)
           /\ \A d \in Calls : ds[d].pc = "awaiting" => ds[d] = cs[d]
<1> DEFINE todo == cs[c].todo
           rest == Tail(todo)
           ds == [cs EXCEPT ![c] = LoadNext(rest)]
<1>1. todo \in Seq(Found) /\ todo # <<>>
  BY CallStates
<1>2. /\ Head(todo) = todo[1] /\ 1 \in 1..Len(todo)
      /\ \A k \in 1..Len(rest) : k + 1 \in 1..Len(todo) /\ rest[k] = todo[k + 1]
  BY <1>1, TailIs
<1>3. LoadNext(rest).todo = rest /\ LoadNext(rest).pc \in {"done", "importing"}
  BY NextIsInTodo
<1>4. ds[c] = LoadNext(rest) /\ \A d \in Calls : d # c => ds[d] = cs[d]
  BY DEF CallsTyped
<1>5. rest \in Seq(Found)
  BY <1>1
<1>6. \A k \in 1..Len(rest) : k \in Nat /\ k + 1 # 1
  BY <1>5
<1>7. \A k, l \in 1..Len(rest) : k + 1 = l + 1 => k = l
  BY <1>5
<1>8. /\ TodoApart(todo)
      /\ \A d \in Calls : d # c /\ Op[d] = "load" => CallsApart(cs[c], cs[d])
  BY DEF CallsOK, LoadsApart
<1>9. \A d \in Calls : d # c /\ Op[d] = "load" => CallsApart(cs[d], cs[c])
  BY DEF CallsOK, LoadsApart
<1>10. \A i \in 1..Len(todo) : LoadAt(ps, cs[c], i)
  BY DEF CallsOK, LoadsHold
<1>11. ASSUME NEW x, InTodo(ds[c], x) PROVE InTodo(cs[c], x)
  <2> HIDE DEF rest, ds
  <2>1. PICK k \in 1..Len(rest) : rest[k].id = x
    BY <1>3, <1>4, <1>11 DEF InTodo
  <2>2. k + 1 \in 1..Len(todo) /\ todo[k + 1].id = x
    BY <1>2, <2>1
  <2> QED BY <2>2 DEF InTodo
<1>12. \A d \in Calls : ds[d].pc = "awaiting" => d # c /\ ds[d] = cs[d]
  BY <1>3, <1>4
<1>13. LoadsHold(ps, ds)
  <2>1. ASSUME NEW k \in 1..Len(rest) PROVE LoadAt(ps, ds[c], k)
    <3>1. LoadAt(ps, cs[c], k + 1)
      BY <1>2, <1>10
    <3>2. ds[c].todo[k] = cs[c].todo[k + 1] /\ ds[c].pc # "initializing" /\ k + 1 # 1
      BY <1>2, <1>3, <1>4, <1>6
    <3> HIDE DEF todo, rest, ds
    <3> QED BY <3>1, <3>2 DEF LoadAt
  <2>2. ASSUME NEW d \in Calls, d # c, Op[d] = "load", NEW i \in 1..Len(ds[d].todo)
        PROVE  LoadAt(ps, ds[d], i)
    BY <1>4, <2>2 DEF CallsOK, LoadsHold
  <2> HIDE DEF ds
  <2> QED BY <1>3, <1>4, <2>1, <2>2 DEF LoadsHold
<1> HIDE DEF ds, rest
<1>14. LoadsApart(ds)
  <2>1. TodoApart(rest)
    <3> SUFFICES ASSUME NEW k \in 1..Len(rest), NEW l \in 1..Len(rest),
                        rest[k].id = rest[l].id, FoundOnce(rest[k].id)
                 PROVE  k = l
      BY DEF TodoApart
    <3>1. /\ k + 1 \in 1..Len(todo) /\ rest[k] = todo[k + 1]
          /\ l + 1 \in 1..Len(todo) /\ rest[l] = todo[l + 1]
      BY <1>2
    <3>2. k + 1 = l + 1
      BY <1>8, <3>1 DEF TodoApart
    <3> QED BY <1>7, <3>2
  <2>2. ASSUME NEW d \in Calls, d # c, Op[d] = "load" PROVE CallsApart(ds[c], ds[d])
    <3> SUFFICES ASSUME NEW k \in 1..Len(rest), FoundOnce(rest[k].id)
                 PROVE  ~InTodo(cs[d], rest[k].id)
      BY <1>3, <1>4, <2>2 DEF CallsApart
    <3> QED BY <1>2, <1>8, <2>2 DEF CallsApart
  <2>3. ASSUME NEW d \in Calls, d # c, Op[d] = "load" PROVE CallsApart(ds[d], ds[c])
    <3>1. CallsApart(cs[d], cs[c])
      BY <1>9, <2>3
    <3> QED BY <1>4, <1>11, <2>3, <3>1 DEF CallsApart
  <2>4. ASSUME NEW d \in Calls, d # c, Op[d] = "load"
        PROVE  /\ TodoApart(ds[d].todo)
               /\ \A e \in Calls : e # d /\ e # c /\ Op[e] = "load" => CallsApart(ds[d], ds[e])
    BY <1>4, <2>4 DEF CallsOK, LoadsApart
  <2>5. TodoApart(ds[c].todo)
    BY <1>3, <1>4, <2>1
  <2> QED BY <2>2, <2>3, <2>4, <2>5 DEF LoadsApart
<1>15. WalksHold(ps, ds) /\ WalksApart(ds)
  BY <1>12 DEF CallsOK, WalksHold, WalksApart
<1>16. ASSUME FoundOnce(Head(todo).id)
       PROVE  \A d \in Calls : Op[d] = "load" => ~InTodo(ds[d], Head(todo).id)
  <2>1. ~InTodo(ds[c], Head(todo).id)
    BY <1>2, <1>3, <1>4, <1>6, <1>8, <1>16 DEF InTodo, TodoApart
  <2>2. \A d \in Calls : d # c /\ Op[d] = "load" => ~InTodo(ds[d], Head(todo).id)
    BY <1>2, <1>4, <1>8, <1>16 DEF CallsApart
  <2> QED BY <2>1, <2>2
<1> QED BY <1>12, <1>13, <1>14, <1>15, <1>16 DEF CallsOK, ds, rest, todo

(* A walk moves on: the rest is for the one it awaits, if any.              *)
LEMMA WalkMoves ==
    ASSUME NEW ps, NEW cs, CallsTyped(cs), CallsOK(ps, cs),
           NEW c \in Calls, Op[c] # "load", NEW call,
           call.pc = "awaiting" =>
              /\ \A i \in 1..Len(call.todo) : WalkAt(ps, Op[c], call, i)
              /\ FoundOnce(call.todo[1].id) =>
                    \A d \in Calls : d # c /\ cs[d].pc = "awaiting" =>
                       cs[d].todo[1].id # call.todo[1].id
    PROVE  CallsOK(ps, [cs EXCEPT ![c] = call])
<1> DEFINE ds == [cs EXCEPT ![c] = call]
<1>1. ds[c] = call /\ \A d \in Calls : d # c => ds[d] = cs[d]
  BY DEF CallsTyped
<1> HIDE DEF ds
<1>2. \A d \in Calls : Op[d] = "load" => ds[d] = cs[d]
  BY <1>1
<1>3. LoadsHold(ps, ds)
  BY <1>2 DEF CallsOK, LoadsHold
<1>4. LoadsApart(ds)
  BY <1>2 DEF CallsOK, LoadsApart
<1>5. WalksHold(ps, ds)
  BY <1>1 DEF CallsOK, WalksHold
<1>6. WalksApart(ds)
  BY <1>1 DEF CallsOK, WalksApart
<1> QED BY <1>3, <1>4, <1>5, <1>6 DEF CallsOK, ds

(* What is past its initialization is before no load; what is at rest, or   *)
(* is only just coming in, is awaited by no walk.                           *)
LEMMA NotBeforeALoad ==
    ASSUME NEW ps \in Seq(Records), RegisteredOnce(ps), NEW cs, CallsOK(ps, cs),
           NEW r \in Range(ps), FoundOnce(r.id), r.phase \notin {"REGISTERED", "INITIALIZING"},
           NEW c \in Calls, Op[c] = "load"
    PROVE  ~InTodo(cs[c], r.id)
<1> SUFFICES ASSUME NEW i \in 1..Len(cs[c].todo), cs[c].todo[i].id = r.id PROVE FALSE
  BY DEF InTodo
<1>1. LoadAt(ps, cs[c], i)
  BY DEF CallsOK, LoadsHold
<1>2. PICK q \in Range(ps) : q.id = r.id /\ q.phase \in {"REGISTERED", "INITIALIZING"}
  BY <1>1 DEF LoadAt
<1>3. q = r
  BY <1>2, OneRecord
<1> QED BY <1>2, <1>3

LEMMA NotAwaited ==
    ASSUME PlatformMethodsOnly, NEW ps \in Seq(Records), RegisteredOnce(ps),
           NEW cs, CallsTyped(cs), CallsOK(ps, cs),
           NEW r \in Range(ps), FoundOnce(r.id),
           r.phase \in {"REGISTERED", "INITIALIZING", "INITIALIZED", "RUNNING", "STOPPED"},
           NEW c \in Calls, cs[c].pc = "awaiting"
    PROVE  cs[c].todo[1].id # r.id
<1> SUFFICES ASSUME cs[c].todo[1].id = r.id PROVE FALSE
  OBVIOUS
<1>1. Op[c] \in Work \ {"initialize"} /\ cs[c].todo \in Seq(Records) /\ cs[c].todo # <<>>
  BY CallStates DEF PlatformMethodsOnly
<1>2. 1 \in 1..Len(cs[c].todo)
  BY <1>1
<1>3. WalkAt(ps, Op[c], cs[c], 1)
  BY <1>2 DEF CallsOK, WalksHold
<1>4. PICK q \in Range(ps) : q.id = r.id /\ q.phase = Intermediate[Op[c]]
  BY <1>3 DEF WalkAt
<1>5. q = r
  BY <1>4, OneRecord
<1> QED BY <1>1, <1>4, <1>5 DEF Work, Intermediate

LEMMA TuplesGrow ==
    ASSUME NEW S, NEW a \in S, NEW b \in S, NEW x \in S
    PROVE  Append(<<a>>, b) = <<a, b>> /\ Append(<<a, b>>, x) = <<a, b, x>>
<1>1. Append(<<a>>, b) = <<a, b>>
  <2> DEFINE s == Append(<<a>>, b)
             t == <<a, b>>
  <2>1. <<a>> \in Seq(S) /\ Len(<<a>>) = 1 /\ <<a>>[1] = a
    OBVIOUS
  <2>2. s \in Seq(S) /\ Len(s) = 2 /\ s[1] = a /\ s[2] = b
    BY <2>1
  <2>3. t \in Seq(S) /\ Len(t) = 2 /\ t[1] = a /\ t[2] = b
    OBVIOUS
  <2> HIDE DEF s, t
  <2>4. \A i \in 1..Len(s) : s[i] = t[i]
    BY <2>2, <2>3
  <2>5. s = t
    BY <2>2, <2>3, <2>4, SeqEqual
  <2> QED BY <2>5 DEF s, t
<1>2. Append(<<a, b>>, x) = <<a, b, x>>
  <2> DEFINE s == Append(<<a, b>>, x)
             t == <<a, b, x>>
  <2>1. <<a, b>> \in Seq(S) /\ Len(<<a, b>>) = 2 /\ <<a, b>>[1] = a /\ <<a, b>>[2] = b
    OBVIOUS
  <2>2. s \in Seq(S) /\ Len(s) = 3 /\ s[1] = a /\ s[2] = b /\ s[3] = x
    BY <2>1
  <2>3. t \in Seq(S) /\ Len(t) = 3 /\ t[1] = a /\ t[2] = b /\ t[3] = x
    OBVIOUS
  <2> HIDE DEF s, t
  <2>4. \A i \in 1..Len(s) : s[i] = t[i]
    BY <2>2, <2>3
  <2>5. s = t
    BY <2>2, <2>3, <2>4, SeqEqual
  <2> QED BY <2>5 DEF s, t
<1> QED BY <1>1, <1>2

LEMMA AskingIs ==
    \A op \in Work \ {"initialize"} :
        /\ Append(AskedBy[Expected[op]], op) = AskedBy[Intermediate[op]]
        /\ AskedBy[Target[op]] = AskedBy[Intermediate[op]]
        /\ AskedBy[Intermediate[op]] \in Orders
        /\ Expected[op] \in {"INITIALIZED", "RUNNING", "STOPPED"}
        /\ Intermediate[op] \in Phases \ {"REGISTERED", "INITIALIZING", "FAILED"}
        /\ Target[op] \in Phases \ {"REGISTERED", "INITIALIZING", "FAILED"}
<1>1. /\ Append(<<>>, "startup") = <<"startup">>
      /\ Append(<<"startup">>, "shutdown") = <<"startup", "shutdown">>
      /\ Append(<<"startup", "shutdown">>, "dispose") = <<"startup", "shutdown", "dispose">>
  <2>1. Append(<<>>, "startup") = <<"startup">>
    OBVIOUS
  <2>2. "startup" \in Work /\ "shutdown" \in Work /\ "dispose" \in Work
    BY DEF Work
  <2>3. /\ Append(<<"startup">>, "shutdown") = <<"startup", "shutdown">>
        /\ Append(<<"startup", "shutdown">>, "dispose") = <<"startup", "shutdown", "dispose">>
    BY <2>2, TuplesGrow
  <2> QED BY <2>1, <2>3
<1>2. ASSUME NEW op, op \in {"startup", "shutdown", "dispose"}
      PROVE  /\ Append(AskedBy[Expected[op]], op) = AskedBy[Intermediate[op]]
             /\ AskedBy[Target[op]] = AskedBy[Intermediate[op]]
             /\ AskedBy[Intermediate[op]] \in Orders
             /\ Expected[op] \in {"INITIALIZED", "RUNNING", "STOPPED"}
             /\ Intermediate[op] \in Phases \ {"REGISTERED", "INITIALIZING", "FAILED"}
             /\ Target[op] \in Phases \ {"REGISTERED", "INITIALIZING", "FAILED"}
  <2>1. CASE op = "startup"
    BY <1>1, <2>1 DEF AskedBy, Expected, Intermediate, Target, Orders, Phases, ValidTransitions
  <2>2. CASE op = "shutdown"
    BY <1>1, <2>2 DEF AskedBy, Expected, Intermediate, Target, Orders, Phases, ValidTransitions
  <2>3. CASE op = "dispose"
    BY <1>1, <2>3 DEF AskedBy, Expected, Intermediate, Target, Orders, Phases, ValidTransitions
  <2> QED BY <1>2, <2>1, <2>2, <2>3
<1> QED BY <1>2 DEF Work

(* A plugin is asked to do what is next.                                    *)
LEMMA RecordsAndAsking ==
    ASSUME NEW ps \in Seq(Records), RegisteredOnce(ps),
           NEW ask, RecordsOK(ps, ask), NEW op \in Work \ {"initialize"},
           NEW r \in Range(ps), FoundOnce(r.id), r.plugin \in Sources, r.phase = Expected[op]
    PROVE  RecordsOK(UpdatePhase(ps, r.id, Intermediate[op]),
                     [ask EXCEPT ![r.plugin] = Append(@, op)])
<1> DEFINE qs == UpdatePhase(ps, r.id, Intermediate[op])
           new == [ask EXCEPT ![r.plugin] = Append(@, op)]
<1>1. /\ Append(AskedBy[Expected[op]], op) = AskedBy[Intermediate[op]]
      /\ AskedBy[Intermediate[op]] \in Orders
      /\ Expected[op] \in {"INITIALIZED", "RUNNING", "STOPPED"}
      /\ Intermediate[op] \in Phases \ {"REGISTERED", "INITIALIZING", "FAILED"}
  BY AskingIs
<1>2. r.plugin # Placeholder
  BY PlatformAssumption
<1>3. AskedOK(ask) /\ \A q \in Range(ps) : RecordOK(q, ask)
  BY DEF RecordsOK
<1>4. ask[r.plugin] = AskedBy[Expected[op]]
  BY <1>1, <1>2, <1>3 DEF RecordOK
<1>5. /\ new \in [Sources -> Seq(Work)] /\ new[r.plugin] = AskedBy[Intermediate[op]]
      /\ \A s \in Sources : s # r.plugin => new[s] = ask[s]
  <2>1. ask \in [Sources -> Seq(Work)] /\ op \in Work
    BY <1>3 DEF AskedOK
  <2>2. Append(ask[r.plugin], op) \in Seq(Work)
    BY <2>1
  <2>3. Append(ask[r.plugin], op) = AskedBy[Intermediate[op]]
    BY <1>1, <1>4
  <2> QED BY <2>1, <2>2, <2>3
<1>6. \A q \in Range(qs) : \E p \in Range(ps) : SetTo(p, q, r.id, Intermediate[op])
  BY <1>1, UpdatePhaseIs
<1> HIDE DEF qs, new
<1>7. ASSUME NEW q \in Range(qs) PROVE RecordOK(q, new)
  <2>1. PICK p \in Range(ps) : SetTo(p, q, r.id, Intermediate[op])
    BY <1>6
  <2>2. RecordOK(p, ask) /\ RecordOK(r, ask) /\ p \in Records
    BY <1>3, RangeMember
  <2>3. CASE p.id = r.id
    <3>1. p = r
      BY <2>3, OneRecord
    <3> QED BY <1>1, <1>5, <2>1, <2>2, <3>1 DEF RecordOK, Sourced, SetTo
  <2>4. CASE p.id # r.id /\ p.plugin # Placeholder
    <3>1. p.plugin # r.plugin
      BY <1>2, <2>2, <2>4, EntriesDiffer DEF RecordOK, Sourced
    <3>2. p.plugin \in Sources
      BY <2>2, <2>4 DEF Records
    <3> QED BY <1>5, <2>1, <2>2, <2>4, <3>1, <3>2 DEF RecordOK, Sourced, SetTo
  <2>5. CASE p.plugin = Placeholder
    BY <2>1, <2>5 DEF RecordOK, Sourced, SetTo
  <2> QED BY <2>3, <2>4, <2>5
<1>8. AskedOK(new)
  <2>1. ASSUME NEW s \in Alone PROVE new[s] \in Orders
    <3>1. s \in Sources /\ ask[s] \in Orders
      BY <1>3 DEF Alone, AskedOK
    <3> QED BY <1>1, <1>5, <3>1
  <2> QED BY <1>5, <2>1 DEF AskedOK
<1> QED BY <1>7, <1>8 DEF RecordsOK, qs, new

(* What is asked of a plugin whose id was found twice is nobody's concern.  *)
LEMMA RecordsAndOthers ==
    ASSUME NEW ps, NEW ask, RecordsOK(ps, ask), NEW f, Sourced(f), f.plugin # Placeholder,
           ~FoundOnce(f.id), NEW told \in Seq(Work)
    PROVE  RecordsOK(ps, [ask EXCEPT ![f.plugin] = told])
<1> DEFINE new == [ask EXCEPT ![f.plugin] = told]
<1>1. AskedOK(ask) /\ \A q \in Range(ps) : RecordOK(q, ask)
  BY DEF RecordsOK
<1>2. new \in [Sources -> Seq(Work)] /\ \A s \in Sources : s # f.plugin => new[s] = ask[s]
  BY <1>1 DEF AskedOK
<1> HIDE DEF new
<1>3. f.plugin \notin Alone
  BY EntriesDiffer DEF Sourced
<1>4. AskedOK(new)
  BY <1>1, <1>2, <1>3 DEF AskedOK, Alone
<1>5. ASSUME NEW q \in Range(ps) PROVE RecordOK(q, new)
  <2>1. RecordOK(q, ask)
    BY <1>1
  <2>2. q.plugin # Placeholder /\ FoundOnce(q.id) => q.plugin \in Alone /\ q.plugin \in Sources
    BY <2>1, EntriesDiffer DEF RecordOK, Sourced
  <2> QED BY <1>2, <1>3, <2>1, <2>2 DEF RecordOK
<1> QED BY <1>4, <1>5 DEF RecordsOK, new

(* ds is cs with call c at rest.                                            *)
RestsIn(cs, ds, c) == ds = [cs EXCEPT ![c] = Idle]

(* What a walk may have before it: a plugin, registered as it was unless    *)
(* its id was found twice.                                                  *)
StillThere(ps, f) ==
    /\ f.plugin # Placeholder /\ Sourced(f)
    /\ FoundOnce(f.id) => \E r \in Range(ps) : r.id = f.id /\ r.plugin = f.plugin

(* A walk over such plugins, its call at rest in cs, goes on.               *)
LEMMA GoOnAsks ==
    ASSUME PlatformMethodsOnly, CallsTyped(calls),
           NEW c \in Calls, Op[c] \in Work,
           NEW ps \in Seq(Records), RegisteredOnce(ps),
           NEW cs, RestsIn(calls, cs, c), CallsOK(ps, cs), RecordsOK(ps, asked),
           NEW todo \in Seq(Records), \A i \in 1..Len(todo) : StillThere(ps, todo[i]),
           GoOn(c, ps, todo)
    PROVE  AskInv(plugins', calls', asked')
<1>0. Op[c] # "load" /\ Op[c] \in Work \ {"initialize"}
  BY DEF Work, PlatformMethodsOnly
<1>1. CallsTyped(cs)
  <2>1. Idle \in Resting
    BY DEF Idle, Resting
  <2> QED BY <2>1, CallMoves DEF RestsIn
<1>2. \A call : [calls EXCEPT ![c] = call] = [cs EXCEPT ![c] = call]
  BY DEF CallsTyped, RestsIn
<1>4. CASE /\ plugins' = ps
           /\ calls' = [calls EXCEPT ![c] = [pc |-> "done", todo |-> <<>>]]
           /\ UNCHANGED asked
  <2> DEFINE call == [pc |-> "done", todo |-> <<>>]
  <2>1. call.pc = "done"
    OBVIOUS
  <2> HIDE DEF call
  <2>2. CallsOK(ps, [cs EXCEPT ![c] = call])
    BY <1>0, <1>1, <2>1, WalkMoves
  <2> QED BY <1>2, <1>4, <2>2 DEF call, AskInv
<1>5. ASSUME NEW i \in 1..Len(todo), Ready(ps, Op[c], todo[i]),
             plugins' = UpdatePhase(ps, todo[i].id, Intermediate[Op[c]]),
             calls' = [calls EXCEPT ![c] = [pc |-> "awaiting",
                                            todo |-> SubSeq(todo, i, Len(todo))]],
             asked' = IF todo[i].plugin = Placeholder \/ Op[c] = "initialize"
                      THEN asked
                      ELSE [asked EXCEPT ![todo[i].plugin] = Append(@, Op[c])]
      PROVE  AskInv(plugins', calls', asked')
  <2> DEFINE rest == SubSeq(todo, i, Len(todo))
             call == [pc |-> "awaiting", todo |-> rest]
             phase == Intermediate[Op[c]]
             id == todo[i].id
             qs == UpdatePhase(ps, id, phase)
  <2>1. /\ Expected[Op[c]] \in {"INITIALIZED", "RUNNING", "STOPPED"}
        /\ phase \in Phases
    BY <1>0, AskingIs
  <2>2. ASSUME FoundOnce(id), NEW r \in Range(ps), r.id = id PROVE r.phase = Expected[Op[c]]
    <3>1. PICK q \in Range(ps) : q.id = id /\ q.phase = Expected[Op[c]]
      BY <1>5, RangeMember DEF Ready
    <3>2. q = r
      BY <2>2, <3>1, OneRecord
    <3> QED BY <3>1, <3>2
  <2>3. ASSUME FoundOnce(id)
        PROVE  \E r \in Range(ps) : r.id = id /\ r.plugin = todo[i].plugin
    BY <2>3 DEF StillThere
  <2>4. todo[i].plugin \in Sources /\ todo[i].plugin # Placeholder /\ Sourced(todo[i])
    <3>1. todo[i] \in Records /\ todo[i].plugin # Placeholder /\ Sourced(todo[i])
      BY DEF StillThere
    <3> QED BY <3>1 DEF Records
  <2>5. PhaseIsFree(cs, id)
    <3> SUFFICES ASSUME FoundOnce(id)
                 PROVE  /\ \A d \in Calls : Op[d] = "load" => ~InTodo(cs[d], id)
                        /\ \A d \in Calls : cs[d].pc = "awaiting" => cs[d].todo[1].id # id
      BY DEF PhaseIsFree
    <3>0. PICK r \in Range(ps) : r.id = id
      BY <2>3
    <3>1. r.phase \in {"INITIALIZED", "RUNNING", "STOPPED"} /\ FoundOnce(r.id)
      BY <2>1, <2>2, <3>0
    <3>2. r.phase \notin {"REGISTERED", "INITIALIZING"}
      BY <3>1
    <3>3. \A d \in Calls : Op[d] = "load" => ~InTodo(cs[d], r.id)
      BY <3>1, <3>2, NotBeforeALoad
    <3>4. \A d \in Calls : cs[d].pc = "awaiting" => cs[d].todo[1].id # r.id
      BY <1>1, <3>1, NotAwaited
    <3> QED BY <3>0, <3>3, <3>4
  <2>6. /\ \A k \in 1..Len(rest) : i + k - 1 \in 1..Len(todo) /\ rest[k] = todo[i + k - 1]
        /\ rest[1] = todo[i]
    BY RestIs
  <2> HIDE DEF rest, phase, id
  <2>7. CallsOK(qs, cs)
    BY <2>1, <2>5, CallsAndPhase
  <2>8. \A p \in Range(ps) : \E q \in Range(qs) : SetTo(p, q, id, phase)
    BY <2>1, UpdatePhaseIs
  <2> HIDE DEF qs
  <2>9. call.pc = "awaiting" /\ call.todo = rest
    OBVIOUS
  <2> HIDE DEF call
  <2>10. ASSUME NEW k \in 1..Len(rest) PROVE WalkAt(qs, Op[c], call, k)
    <3>0. i + k - 1 \in 1..Len(todo) /\ rest[k] = todo[i + k - 1]
      BY <2>6
    <3>1. StillThere(ps, rest[k])
      BY <3>0
    <3>2. ASSUME FoundOnce(rest[k].id)
          PROVE  \E r \in Range(qs) : /\ r.id = rest[k].id /\ r.plugin = rest[k].plugin
                                      /\ k = 1 => r.phase = Intermediate[Op[c]]
      <4>1. PICK p \in Range(ps) : p.id = rest[k].id /\ p.plugin = rest[k].plugin
        BY <3>1, <3>2 DEF StillThere
      <4>2. PICK q \in Range(qs) : SetTo(p, q, id, phase)
        BY <2>8
      <4>3. k = 1 => q.phase = phase
        BY <2>6, <4>1, <4>2 DEF SetTo, id
      <4> QED BY <4>1, <4>2, <4>3 DEF SetTo, phase
    <3> QED BY <2>9, <3>1, <3>2 DEF WalkAt, StillThere
  <2>11. FoundOnce(call.todo[1].id) =>
            \A d \in Calls : d # c /\ cs[d].pc = "awaiting" => cs[d].todo[1].id # call.todo[1].id
    BY <2>5, <2>6, <2>9 DEF id, PhaseIsFree
  <2>12. CallsOK(qs, [cs EXCEPT ![c] = call])
    BY <1>0, <1>1, <2>7, <2>9, <2>10, <2>11, WalkMoves
  <2> DEFINE told == Append(asked[todo[i].plugin], Op[c])
  <2>13. RecordsOK(qs, [asked EXCEPT ![todo[i].plugin] = told])
    <3>1. CASE FoundOnce(id)
      <4>1. PICK r \in Range(ps) : r.id = id /\ r.plugin = todo[i].plugin
        BY <2>3, <3>1
      <4>2. r.phase = Expected[Op[c]]
        BY <2>2, <3>1, <4>1
      <4>3. RecordsOK(UpdatePhase(ps, r.id, Intermediate[Op[c]]),
                      [asked EXCEPT ![r.plugin] = Append(@, Op[c])])
        BY <1>0, <2>4, <3>1, <4>1, <4>2, RecordsAndAsking
      <4> QED BY <4>1, <4>3 DEF qs, phase
    <3>2. CASE ~FoundOnce(id)
      <4>1. phase \in Phases \ {"REGISTERED"}
        BY <1>0, AskingIs DEF phase
      <4>2. RecordsOK(qs, asked)
        BY <3>2, <4>1, RecordsAndPhase DEF qs
      <4>3. told \in Seq(Work)
        <5>1. asked \in [Sources -> Seq(Work)] /\ Op[c] \in Work
          BY <1>0 DEF RecordsOK, AskedOK
        <5> QED BY <2>4, <5>1
      <4> HIDE DEF told
      <4> QED BY <2>4, <3>2, <4>2, <4>3, RecordsAndOthers DEF id
    <3> QED BY <3>1, <3>2
  <2>14. asked' = [asked EXCEPT ![todo[i].plugin] = told]
    BY <1>0, <1>5, <2>4
  <2>15. plugins' = qs /\ calls' = [cs EXCEPT ![c] = call]
    BY <1>2, <1>5 DEF qs, call, id, phase, rest
  <2> HIDE DEF told
  <2> QED BY <2>12, <2>13, <2>14, <2>15 DEF AskInv
<1> QED BY <1>4, <1>5 DEF GoOn

(* A plugin comes in, asked nothing yet.                                    *)
LEMMA RecordsAndReplacement ==
    ASSUME NEW ps \in Seq(Records), RegisteredOnce(ps),
           NEW ask, RecordsOK(ps, ask), NEW e \in Range(Entries),
           e.id \in Ids, e.source \in Sources, NEW phase \in {"FAILED", "INITIALIZING"}
    PROVE  RecordsOK(UpdatePhase(Register(Unregister(ps, e.id), e.id, e.source), e.id, phase),
                     [ask EXCEPT ![e.source] = <<>>])
<1> DEFINE qs == UpdatePhase(Register(Unregister(ps, e.id), e.id, e.source), e.id, phase)
           new == [ask EXCEPT ![e.source] = <<>>]
<1>1. phase \in Phases
  BY PhasesAre
<1>2. \A q \in Range(qs) :
         \/ q \in Range(ps) /\ q.id # e.id
         \/ q.id = e.id /\ q.plugin = e.source /\ q.phase = phase
  BY <1>1, ReplacedIs
<1>3. AskedOK(ask) /\ \A q \in Range(ps) : RecordOK(q, ask)
  BY DEF RecordsOK
<1>4. <<>> \in Orders /\ AskedBy["INITIALIZING"] = <<>>
  BY DEF Orders, AskedBy
<1>5. /\ new \in [Sources -> Seq(Work)] /\ new[e.source] = <<>>
      /\ \A s \in Sources : s # e.source => new[s] = ask[s]
  <2>1. ask \in [Sources -> Seq(Work)] /\ <<>> \in Seq(Work)
    BY <1>3 DEF AskedOK
  <2> QED BY <2>1
<1> HIDE DEF qs, new
<1>6. ASSUME NEW q \in Range(qs) PROVE RecordOK(q, new)
  <2>1. CASE q \in Range(ps) /\ q.id # e.id /\ q.plugin # Placeholder
    <3>1. RecordOK(q, ask) /\ q \in Records
      BY <1>3, <2>1, RangeMember
    <3>2. q.plugin # e.source /\ q.plugin \in Sources
      BY <2>1, <3>1, EntriesDiffer DEF RecordOK, Sourced, Records
    <3> QED BY <1>5, <3>1, <3>2 DEF RecordOK
  <2>2. CASE q.plugin = Placeholder
    BY <2>2 DEF RecordOK, Sourced
  <2>3. CASE q.id = e.id /\ q.plugin = e.source /\ q.phase = phase
    BY <1>4, <1>5, <2>3 DEF RecordOK, Sourced
  <2> QED BY <1>2, <2>1, <2>2, <2>3
<1>7. AskedOK(new)
  <2>1. ASSUME NEW s \in Alone PROVE new[s] \in Orders
    <3>1. s \in Sources /\ ask[s] \in Orders
      BY <1>3 DEF Alone, AskedOK
    <3> QED BY <1>4, <1>5, <3>1
  <2> QED BY <1>5, <2>1 DEF AskedOK
<1> QED BY <1>6, <1>7 DEF RecordsOK, qs, new

LEMMA AskInit == Init => AskInv(plugins, calls, asked)
<1> SUFFICES ASSUME Init PROVE AskInv(plugins, calls, asked)
  OBVIOUS
<1>1. Range(plugins) = {} /\ AskedOK(asked)
  <2>1. Range(plugins) = {}
    BY DEF Init, Range
  <2>2. asked \in [Sources -> Seq(Work)] /\ \A s \in Alone : asked[s] = <<>>
    BY DEF Init, Alone
  <2> QED BY <2>1, <2>2 DEF AskedOK, Orders
<1>2. \A c \in Calls : calls[c].pc = "idle" /\ calls[c].todo = <<>>
  BY DEF Init, Idle
<1> QED BY <1>1, <1>2
     DEF AskInv, RecordsOK, CallsOK, LoadsHold, LoadsApart, TodoApart, CallsApart, WalksHold,
         WalksApart

(* What is known before a step.                                             *)
AllInv == TypeOK /\ LoadInv(plugins, calls) /\ AskInv(plugins, calls, asked)

LEMMA AllIs ==
    ASSUME AllInv
    PROVE  /\ plugins \in Seq(Records) /\ RegisteredOnce(plugins) /\ CallsTyped(calls)
           /\ LoadInv(plugins, calls) /\ RecordsOK(plugins, asked) /\ CallsOK(plugins, calls)
BY TypeIs DEF AllInv, AskInv

(* A walk has plugins before it, never a placeholder.                       *)
LEMMA WalksHavePlugins ==
    ASSUME AllInv, NEW c \in Calls, calls[c].pc = "awaiting", NEW i \in 1..Len(calls[c].todo)
    PROVE  calls[c].todo[i].plugin # Placeholder
<1>1. WalkAt(plugins, Op[c], calls[c], i)
  BY AllIs DEF CallsOK, WalksHold
<1> QED BY <1>1 DEF WalkAt

(* With a walk's call at rest the others hold as before.                    *)
LEMMA WalkRests ==
    ASSUME AllInv, NEW c \in Calls, Op[c] \in Work
    PROVE  \E cs : /\ RestsIn(calls, cs, c) /\ CallsOK(plugins, cs) /\ CallsTyped(cs)
                   /\ \A d \in Calls : cs[d].pc = "awaiting" => d # c /\ cs[d] = calls[d]
<1> DEFINE cs == [calls EXCEPT ![c] = Idle]
<1>1. Op[c] # "load"
  BY DEF Work
<1>2. Idle.pc # "awaiting" /\ Idle \in Resting
  BY DEF Idle, Resting
<1>3. CallsTyped(calls) /\ CallsOK(plugins, calls)
  BY AllIs
<1>4. CallsOK(plugins, cs)
  BY <1>1, <1>2, <1>3, WalkMoves
<1>5. CallsTyped(cs)
  BY <1>2, <1>3, CallMoves
<1>6. cs[c] = Idle /\ \A d \in Calls : d # c => cs[d] = calls[d]
  BY <1>3 DEF CallsTyped
<1>7. \A d \in Calls : cs[d].pc = "awaiting" => d # c /\ cs[d] = calls[d]
  BY <1>2, <1>6
<1>8. RestsIn(calls, cs, c)
  BY DEF RestsIn
<1> QED BY <1>4, <1>5, <1>7, <1>8

LEMMA WalkAsks ==
    ASSUME PlatformMethodsOnly, AllInv, NEW c \in Calls, Walk(c)
    PROVE  AskInv(plugins', calls', asked')
<1> DEFINE todo == KeepIn(plugins, {r \in Range(plugins) : r.phase = Expected[Op[c]]})
<1>1. Op[c] \in Work /\ GoOn(c, plugins, todo)
  BY DEF Walk
<1>2. todo \in Seq(Records)
      /\ \A i \in 1..Len(todo) : todo[i] \in Range(plugins) /\ todo[i].phase = Expected[Op[c]]
  BY AllIs, ExpectedRecords
<1> HIDE DEF todo
<1>3. Expected[Op[c]] \notin {"FAILED", "REGISTERED"}
  BY <1>1 DEF PlatformMethodsOnly, Work, Expected
<1>4. \A i \in 1..Len(todo) : todo[i].plugin # Placeholder
  BY <1>2, <1>3, AllIs DEF LoadInv
<1>5. PICK cs : RestsIn(calls, cs, c) /\ CallsOK(plugins, cs)
  BY <1>1, WalkRests
<1>7. /\ plugins \in Seq(Records) /\ RegisteredOnce(plugins) /\ CallsTyped(calls)
      /\ RecordsOK(plugins, asked)
  BY AllIs
<1>6. \A i \in 1..Len(todo) : StillThere(plugins, todo[i])
  BY <1>2, <1>4, <1>7 DEF StillThere, RecordsOK, RecordOK
<1> QED BY <1>1, <1>2, <1>5, <1>6, <1>7, GoOnAsks

LEMMA WalkSettlesAsks ==
    ASSUME PlatformMethodsOnly, AllInv,
           NEW c \in Calls, NEW fails \in BOOLEAN, WalkSettles(c, fails)
    PROVE  AskInv(plugins', calls', asked')
<1> DEFINE todo == calls[c].todo
           id == Head(todo).id
           phase == IF fails THEN "FAILED" ELSE Target[Op[c]]
           ps == UpdatePhase(plugins, id, phase)
<1>0. /\ plugins \in Seq(Records) /\ RegisteredOnce(plugins) /\ CallsTyped(calls)
      /\ LoadInv(plugins, calls) /\ RecordsOK(plugins, asked) /\ CallsOK(plugins, calls)
  BY AllIs
<1>1. calls[c].pc = "awaiting" /\ GoOn(c, ps, Tail(todo))
  BY DEF WalkSettles
<1>2. Op[c] \in Work \ {"initialize"} /\ todo \in Seq(Records) /\ todo # <<>>
  BY <1>0, <1>1, CallStates DEF PlatformMethodsOnly
<1>3. /\ Tail(todo) \in Seq(Records) /\ Head(todo) = todo[1] /\ 1 \in 1..Len(todo)
      /\ \A k \in 1..Len(Tail(todo)) : k + 1 \in 1..Len(todo) /\ Tail(todo)[k] = todo[k + 1]
  BY <1>2, TailIs
<1>4. /\ phase \in Phases \ {"REGISTERED"}
      /\ phase # "FAILED" => AskedBy[phase] = AskedBy[Intermediate[Op[c]]]
      /\ Intermediate[Op[c]] \notin {"REGISTERED", "INITIALIZING", "FAILED"}
  BY <1>2, AskingIs, PhasesAre
<1>5. FoundOnce(id) => \E r \in Range(plugins) : r.id = id /\ r.phase = Intermediate[Op[c]]
  <2>1. WalkAt(plugins, Op[c], calls[c], 1)
    BY <1>0, <1>1, <1>3 DEF CallsOK, WalksHold
  <2> QED BY <1>3, <2>1 DEF WalkAt
<1>7. PICK cs : /\ RestsIn(calls, cs, c) /\ CallsOK(plugins, cs) /\ CallsTyped(cs)
                /\ \A d \in Calls : cs[d].pc = "awaiting" => d # c /\ cs[d] = calls[d]
  BY <1>2, WalkRests
<1> HIDE DEF id, phase
<1>8. PhaseIsFree(cs, id)
  <2> SUFFICES ASSUME FoundOnce(id)
               PROVE  /\ \A d \in Calls : Op[d] = "load" => ~InTodo(cs[d], id)
                      /\ \A d \in Calls : cs[d].pc = "awaiting" => cs[d].todo[1].id # id
    BY DEF PhaseIsFree
  <2>0. PICK r \in Range(plugins) : r.id = id /\ r.phase = Intermediate[Op[c]]
    BY <1>5
  <2>1. \A d \in Calls : Op[d] = "load" => ~InTodo(cs[d], r.id)
    <3>1. r.phase \notin {"REGISTERED", "INITIALIZING"} /\ FoundOnce(r.id)
      BY <1>4, <2>0
    <3> QED BY <1>0, <1>7, <3>1, NotBeforeALoad
  <2>2. \A d \in Calls : d # c /\ calls[d].pc = "awaiting" => calls[d].todo[1].id # id
    BY <1>0, <1>1, <1>3 DEF CallsOK, WalksApart, id
  <2> QED BY <1>7, <2>0, <2>1, <2>2
<1>9. CallsOK(ps, cs)
  BY <1>0, <1>4, <1>7, <1>8, CallsAndPhase
<1>10. RecordsOK(ps, asked)
  <2>1. ASSUME NEW q \in Range(plugins), q.id = id, FoundOnce(id), q.plugin # Placeholder,
               phase # "FAILED"
        PROVE  asked[q.plugin] = AskedBy[phase]
    <3>1. PICK r \in Range(plugins) : r.id = id /\ r.phase = Intermediate[Op[c]]
      BY <1>5, <2>1
    <3>2. q = r
      BY <1>0, <2>1, <3>1, OneRecord
    <3>3. RecordOK(q, asked)
      BY <1>0 DEF RecordsOK
    <3> QED BY <1>4, <2>1, <3>1, <3>2, <3>3 DEF RecordOK
  <2> QED BY <1>0, <1>4, <2>1, RecordsAndPhase
<1>11. /\ ps \in Seq(Records) /\ RegisteredOnce(ps)
       /\ \A q \in Range(plugins) : \E p \in Range(ps) : SetTo(q, p, id, phase)
  BY <1>0, <1>4, UpdatePhaseIs
<1> HIDE DEF ps
<1>12. ASSUME NEW k \in 1..Len(Tail(todo)) PROVE StillThere(ps, Tail(todo)[k])
  <2>1. k + 1 \in 1..Len(todo) /\ Tail(todo)[k] = todo[k + 1]
    BY <1>3
  <2>2. WalkAt(plugins, Op[c], calls[c], k + 1)
    BY <1>0, <1>1, <2>1 DEF CallsOK, WalksHold
  <2>3. ASSUME FoundOnce(todo[k + 1].id)
        PROVE  \E p \in Range(ps) : p.id = todo[k + 1].id /\ p.plugin = todo[k + 1].plugin
    <3>1. PICK q \in Range(plugins) : q.id = todo[k + 1].id /\ q.plugin = todo[k + 1].plugin
      BY <2>2, <2>3 DEF WalkAt
    <3>2. \E p \in Range(ps) : SetTo(q, p, id, phase)
      BY <1>11
    <3> QED BY <3>1, <3>2 DEF SetTo
  <2> QED BY <2>1, <2>2, <2>3 DEF StillThere, WalkAt
<1> DEFINE rest == Tail(todo)
<1>13. \A k \in 1..Len(rest) : StillThere(ps, rest[k])
  BY <1>12
<1>14. rest \in Seq(Records) /\ GoOn(c, ps, rest) /\ Op[c] \in Work
  BY <1>1, <1>2, <1>3
<1> HIDE DEF rest
<1> QED BY <1>0, <1>7, <1>9, <1>10, <1>11, <1>13, <1>14, GoOnAsks

(* A load registers a placeholder for each of its ids, none of them before  *)
(* another load.                                                            *)
LEMMA RegistersAsks ==
    ASSUME AllInv, NEW c \in Calls, LoadRegisters(c)
    PROVE  AskInv(plugins', calls', asked')
<1> DEFINE mine == Mine(plugins)
           qs == plugins \o Placeholders(New(plugins))
           ds == [calls EXCEPT ![c] = LoadNext(mine)]
<1>0. /\ plugins \in Seq(Records) /\ RegisteredOnce(plugins) /\ CallsTyped(calls)
      /\ RecordsOK(plugins, asked) /\ CallsOK(plugins, calls)
  BY AllIs
<1>1. /\ Op[c] = "load" /\ plugins' = qs /\ asked' = asked
      /\ LoadGoesOn(c, mine)
  BY DEF LoadRegisters, Mine
<1>2. /\ mine \in Seq(Found) /\ \A e : OnceIn(Entries, e) => OnceIn(mine, e)
      /\ \A i \in 1..Len(mine) : mine[i] \in Range(Entries)
      /\ \A i \in 1..Len(mine) : \E k \in Range(New(plugins)) : Entries[k].id = mine[i].id
  BY MineIs
<1>3. /\ Range(plugins) \subseteq Range(qs)
      /\ \A q \in Range(qs) :
            q \in Range(plugins) \/ \E k \in Range(New(plugins)) : PlaceholderFor(q, k)
      /\ \A k \in Range(New(plugins)) : \E q \in Range(qs) : PlaceholderFor(q, k)
  BY <1>0, PlaceholdersJoin
<1>4. \A k \in Range(New(plugins)) : Entries[k].id \notin Registered(plugins)
  BY NewIs
<1> HIDE DEF mine, qs
<1>5. calls' = ds
  BY <1>0, <1>1, <1>2, LoadTyped
<1>6. LoadNext(mine).todo = mine /\ LoadNext(mine).pc \in {"done", "importing"}
  BY NextIsInTodo
<1>7. ds[c] = LoadNext(mine) /\ \A d \in Calls : d # c => ds[d] = calls[d]
  BY <1>0 DEF CallsTyped
<1> HIDE DEF ds
<1>8. RecordsOK(qs, asked)
  <2>1. ASSUME NEW q \in Range(qs) PROVE RecordOK(q, asked)
    BY <1>0, <1>3, <2>1 DEF RecordsOK, RecordOK, Sourced, PlaceholderFor
  <2> QED BY <1>0, <2>1 DEF RecordsOK
<1>9. TodoApart(mine)
  <2> SUFFICES ASSUME NEW i \in 1..Len(mine), NEW j \in 1..Len(mine),
                      mine[i].id = mine[j].id, FoundOnce(mine[i].id)
               PROVE  i = j
    BY DEF TodoApart
  <2>1. mine[i] = mine[j]
    BY <1>2, EntriesDiffer
  <2>2. OnceIn(Entries, mine[i])
    BY DEF OnceIn, FoundOnce
  <2> QED BY <1>2, <2>1, <2>2 DEF OnceIn
<1>10. \A i \in 1..Len(mine) : mine[i].id \notin Registered(plugins)
  BY <1>2, <1>4
<1>11. ASSUME NEW d \in Calls, Op[d] = "load", NEW i \in 1..Len(calls[d].todo),
              FoundOnce(calls[d].todo[i].id)
       PROVE  calls[d].todo[i].id \in Registered(plugins)
  <2>1. LoadAt(plugins, calls[d], i)
    BY <1>0, <1>11 DEF CallsOK, LoadsHold
  <2>2. PICK r \in Range(plugins) : r.id = calls[d].todo[i].id
    BY <1>11, <2>1 DEF LoadAt
  <2> QED BY <1>0, <2>2, RangeMember
<1>12. LoadsHold(qs, ds)
  <2>1. ASSUME NEW i \in 1..Len(mine) PROVE LoadAt(qs, ds[c], i)
    <3>1. PICK k \in Range(New(plugins)) : Entries[k].id = mine[i].id
      BY <1>2
    <3>2. PICK q \in Range(qs) : PlaceholderFor(q, k)
      BY <1>3
    <3> QED BY <1>2, <1>6, <1>7, <3>1, <3>2 DEF LoadAt, PlaceholderFor
  <2>2. ASSUME NEW d \in Calls, d # c, Op[d] = "load", NEW i \in 1..Len(ds[d].todo)
        PROVE  LoadAt(qs, ds[d], i)
    <3>1. LoadAt(plugins, calls[d], i)
      BY <1>0, <1>7, <2>2 DEF CallsOK, LoadsHold
    <3> QED BY <1>3, <1>7, <2>2, <3>1 DEF LoadAt
  <2> QED BY <1>6, <1>7, <2>1, <2>2 DEF LoadsHold
<1>13. LoadsApart(ds)
  <2>1. ASSUME NEW d \in Calls, d # c, Op[d] = "load"
        PROVE  CallsApart(ds[c], ds[d]) /\ CallsApart(ds[d], ds[c])
    <3>1. \A i \in 1..Len(mine) : FoundOnce(mine[i].id) => ~InTodo(calls[d], mine[i].id)
      BY <1>10, <1>11, <2>1 DEF InTodo
    <3>2. \A i \in 1..Len(calls[d].todo) : FoundOnce(calls[d].todo[i].id) =>
             ~\E k \in 1..Len(mine) : mine[k].id = calls[d].todo[i].id
      BY <1>10, <1>11, <2>1
    <3>3. ds[c].todo = mine /\ ds[d] = calls[d]
      BY <1>6, <1>7, <2>1
    <3> QED BY <3>1, <3>2, <3>3 DEF CallsApart, InTodo
  <2>2. ASSUME NEW d \in Calls, d # c, Op[d] = "load"
        PROVE  /\ TodoApart(ds[d].todo)
               /\ \A e \in Calls : e # d /\ e # c /\ Op[e] = "load" => CallsApart(ds[d], ds[e])
    BY <1>0, <1>7, <2>2 DEF CallsOK, LoadsApart
  <2>3. TodoApart(ds[c].todo)
    BY <1>6, <1>7, <1>9
  <2> QED BY <2>1, <2>2, <2>3 DEF LoadsApart
<1>14. \A d \in Calls : ds[d].pc = "awaiting" => d # c /\ ds[d] = calls[d]
  BY <1>6, <1>7
<1>15. WalksHold(qs, ds)
  <2> SUFFICES ASSUME NEW d \in Calls, ds[d].pc = "awaiting", NEW i \in 1..Len(ds[d].todo)
               PROVE  WalkAt(qs, Op[d], ds[d], i)
    BY DEF WalksHold
  <2>1. WalkAt(plugins, Op[d], calls[d], i)
    BY <1>0, <1>14 DEF CallsOK, WalksHold
  <2> QED BY <1>3, <1>14, <2>1 DEF WalkAt
<1>16. WalksApart(ds)
  BY <1>0, <1>14 DEF CallsOK, WalksApart
<1> QED BY <1>1, <1>5, <1>8, <1>12, <1>13, <1>15, <1>16 DEF AskInv, CallsOK

(* What a load has at its head.                                             *)
HeadRecord(ps, call, r) ==
    /\ r \in Range(ps) /\ r.id = Head(call.todo).id
    /\ IF call.pc = "initializing"
       THEN r.plugin = Head(call.todo).source /\ r.phase = "INITIALIZING"
       ELSE r.plugin = Placeholder /\ r.phase = "REGISTERED"

LEMMA HeadOfALoad ==
    ASSUME AllInv, NEW c \in Calls, calls[c].pc \in {"importing", "initializing"}
    PROVE  /\ Op[c] = "load" /\ calls[c].todo \in Seq(Found) /\ calls[c].todo # <<>>
           /\ Head(calls[c].todo) \in Range(Entries) /\ Head(calls[c].todo) \in Found
           /\ FoundOnce(Head(calls[c].todo).id) => \E r : HeadRecord(plugins, calls[c], r)
<1>1. CallsTyped(calls) /\ CallsOK(plugins, calls)
  BY AllIs
<1>2. Op[c] = "load" /\ calls[c].todo \in Seq(Found) /\ calls[c].todo # <<>>
  BY <1>1, CallStates
<1>3. /\ Head(calls[c].todo) = calls[c].todo[1] /\ 1 \in 1..Len(calls[c].todo)
      /\ Head(calls[c].todo) \in Found
  BY <1>2, TailIs
<1>4. LoadAt(plugins, calls[c], 1)
  BY <1>1, <1>2, <1>3 DEF CallsOK, LoadsHold
<1>5. /\ Head(calls[c].todo) \in Range(Entries)
      /\ FoundOnce(Head(calls[c].todo).id) => \E r : HeadRecord(plugins, calls[c], r)
  BY <1>3, <1>4 DEF LoadAt, HeadRecord
<1> QED BY <1>2, <1>3, <1>5

(* A load is done with its head: nothing else relies on that one's phase.   *)
LEMMA HeadIsFree ==
    ASSUME PlatformMethodsOnly, AllInv,
           NEW c \in Calls, calls[c].pc \in {"importing", "initializing"},
           LoadGoesOn(c, Tail(calls[c].todo))
    PROVE  /\ CallsOK(plugins, calls') /\ PhaseIsFree(calls', Head(calls[c].todo).id)
           /\ \A d \in Calls : calls'[d].pc = "awaiting" => calls'[d] = calls[d]
<1> DEFINE todo == calls[c].todo
           ds == [calls EXCEPT ![c] = LoadNext(Tail(todo))]
<1>1. /\ plugins \in Seq(Records) /\ RegisteredOnce(plugins) /\ CallsTyped(calls)
      /\ CallsOK(plugins, calls)
  BY AllIs
<1>2. Op[c] = "load" /\ todo \in Seq(Found) /\ todo # <<>>
  BY HeadOfALoad
<1>3. FoundOnce(Head(todo).id) => \E r \in Range(plugins) :
         r.id = Head(todo).id /\ r.phase \in {"REGISTERED", "INITIALIZING"}
  BY HeadOfALoad DEF HeadRecord
<1>4. /\ CallsOK(plugins, ds)
      /\ FoundOnce(Head(todo).id) =>
            \A d \in Calls : Op[d] = "load" => ~InTodo(ds[d], Head(todo).id)
      /\ \A d \in Calls : ds[d].pc = "awaiting" => ds[d] = calls[d]
  BY <1>1, <1>2, LoadDrops
<1>5. calls' = ds
  <2>1. Tail(todo) \in Seq(Found)
    BY <1>2
  <2> QED BY <1>1, <1>2, <2>1, LoadTyped
<1> HIDE DEF ds, todo
<1>6. ASSUME FoundOnce(Head(todo).id)
      PROVE  \A d \in Calls : calls[d].pc = "awaiting" => calls[d].todo[1].id # Head(todo).id
  <2>1. PICK r \in Range(plugins) :
           r.id = Head(todo).id /\ r.phase \in {"REGISTERED", "INITIALIZING"}
    BY <1>3, <1>6
  <2>2. FoundOnce(r.id)
    BY <1>6, <2>1
  <2> QED BY <1>1, <2>1, <2>2, NotAwaited
<1>7. PhaseIsFree(ds, Head(todo).id)
  BY <1>4, <1>6 DEF PhaseIsFree
<1> QED BY <1>4, <1>5, <1>7 DEF todo

LEMMA FailsAsks ==
    ASSUME PlatformMethodsOnly, AllInv, NEW c \in Calls, ImportFails(c)
    PROVE  AskInv(plugins', calls', asked')
<1> DEFINE id == Head(calls[c].todo).id
<1>1. /\ calls[c].pc = "importing" /\ LoadGoesOn(c, Tail(calls[c].todo))
      /\ plugins' = UpdatePhase(plugins, id, "FAILED") /\ asked' = asked
  BY DEF ImportFails
<1>2. /\ plugins \in Seq(Records) /\ RegisteredOnce(plugins) /\ RecordsOK(plugins, asked)
  BY AllIs
<1>3. CallsOK(plugins, calls') /\ PhaseIsFree(calls', id)
  BY <1>1, HeadIsFree
<1> HIDE DEF id
<1>4. "FAILED" \in Phases \ {"REGISTERED"}
  BY PhasesAre
<1>5. RecordsOK(UpdatePhase(plugins, id, "FAILED"), asked)
  BY <1>2, <1>4, RecordsAndPhase
<1>6. CallsOK(UpdatePhase(plugins, id, "FAILED"), calls')
  BY <1>2, <1>3, <1>4, CallsAndPhase
<1> QED BY <1>1, <1>5, <1>6 DEF AskInv

LEMMA InitializeAsks ==
    ASSUME PlatformMethodsOnly, AllInv, NEW c \in Calls, InitializeSettles(c)
    PROVE  AskInv(plugins', calls', asked')
<1> DEFINE id == Head(calls[c].todo).id
<1>1. /\ calls[c].pc = "initializing" /\ LoadGoesOn(c, Tail(calls[c].todo))
      /\ plugins' = UpdatePhase(plugins, id, "INITIALIZED") /\ asked' = asked
  BY DEF InitializeSettles
<1>2. /\ plugins \in Seq(Records) /\ RegisteredOnce(plugins) /\ RecordsOK(plugins, asked)
  BY AllIs
<1>3. CallsOK(plugins, calls') /\ PhaseIsFree(calls', id)
  BY <1>1, HeadIsFree
<1>4. FoundOnce(id) => \E r \in Range(plugins) : r.id = id /\ r.phase = "INITIALIZING"
  BY <1>1, HeadOfALoad DEF HeadRecord
<1> HIDE DEF id
<1>5. "INITIALIZED" \in Phases \ {"REGISTERED"}
  BY PhasesAre
<1>6. ASSUME NEW q \in Range(plugins), q.id = id, FoundOnce(id), q.plugin # Placeholder
      PROVE  asked[q.plugin] = AskedBy["INITIALIZED"]
  <2>1. PICK r \in Range(plugins) : r.id = id /\ r.phase = "INITIALIZING"
    BY <1>4, <1>6
  <2>2. q = r
    BY <1>2, <1>6, <2>1, OneRecord
  <2>3. RecordOK(q, asked)
    BY <1>2 DEF RecordsOK
  <2>4. AskedBy["INITIALIZING"] = AskedBy["INITIALIZED"]
    BY DEF AskedBy
  <2> QED BY <1>6, <2>1, <2>2, <2>3, <2>4 DEF RecordOK
<1>7. RecordsOK(UpdatePhase(plugins, id, "INITIALIZED"), asked)
  BY <1>2, <1>5, <1>6, RecordsAndPhase
<1>8. CallsOK(UpdatePhase(plugins, id, "INITIALIZED"), calls')
  BY <1>2, <1>3, <1>5, CallsAndPhase
<1> QED BY <1>1, <1>7, <1>8 DEF AskInv

(* A plugin comes in for the placeholder at a load's head.                  *)
LEMMA ImportAsks ==
    ASSUME PlatformMethodsOnly, AllInv, NEW c \in Calls, ImportSettles(c)
    PROVE  AskInv(plugins', calls', asked')
<1> DEFINE entry == Head(calls[c].todo)
           After(phase) == UpdatePhase(Register(Unregister(plugins, entry.id), entry.id,
                                                entry.source), entry.id, phase)
           new == [asked EXCEPT ![entry.source] = <<>>]
<1>0. /\ plugins \in Seq(Records) /\ RegisteredOnce(plugins) /\ CallsTyped(calls)
      /\ RecordsOK(plugins, asked) /\ CallsOK(plugins, calls)
  BY AllIs
<1>1. /\ calls[c].pc = "importing" /\ asked' = new
      /\ \/ plugins' = After("FAILED") /\ LoadGoesOn(c, Tail(calls[c].todo))
         \/ /\ plugins' = After("INITIALIZING")
            /\ calls' = [calls EXCEPT ![c].pc = "initializing"]
  BY DEF ImportSettles, Replaced
<1>2. /\ Op[c] = "load" /\ calls[c].todo \in Seq(Found) /\ calls[c].todo # <<>>
      /\ entry \in Range(Entries) /\ entry \in Found
      /\ FoundOnce(entry.id) =>
            \E r \in Range(plugins) : r.id = entry.id /\ r.plugin = Placeholder
  BY <1>1, HeadOfALoad DEF HeadRecord
<1>3. entry.id \in Ids /\ entry.source \in Sources
  BY <1>2 DEF Found
<1>4. {"FAILED", "INITIALIZING"} \subseteq Phases
  BY PhasesAre
<1>5. ASSUME NEW phase \in {"FAILED", "INITIALIZING"}
      PROVE  /\ RecordsOK(After(phase), new)
             /\ \A r \in Range(plugins) : r.id # entry.id => r \in Range(After(phase))
             /\ \E q \in Range(After(phase)) :
                   q.id = entry.id /\ q.plugin = entry.source /\ q.phase = phase
  <2> DEFINE qs == After(phase)
  <2>1. phase \in Phases
    BY <1>4
  <2> HIDE DEF entry
  <2>2. RecordsOK(qs, new)
    BY <1>0, <1>2, <1>3, RecordsAndReplacement
  <2>3. /\ \A r \in Range(plugins) : r.id # entry.id => r \in Range(qs)
        /\ \E q \in Range(qs) : q.id = entry.id /\ q.plugin = entry.source /\ q.phase = phase
    BY <1>0, <1>3, <2>1, ReplacedIs
  <2> QED BY <2>2, <2>3
<1>6. ASSUME NEW d \in Calls, calls[d].pc = "awaiting", NEW i \in 1..Len(calls[d].todo),
             FoundOnce(entry.id)
      PROVE  calls[d].todo[i].id # entry.id
  <2> SUFFICES ASSUME calls[d].todo[i].id = entry.id PROVE FALSE
    OBVIOUS
  <2> HIDE DEF entry
  <2>1. WalkAt(plugins, Op[d], calls[d], i)
    BY <1>0, <1>6 DEF CallsOK, WalksHold
  <2>2. PICK q \in Range(plugins) : q.id = entry.id /\ q.plugin # Placeholder
    BY <1>6, <2>1 DEF WalkAt
  <2>3. PICK r \in Range(plugins) : r.id = entry.id /\ r.plugin = Placeholder
    BY <1>2, <1>6
  <2>4. q = r
    BY <1>0, <2>2, <2>3, OneRecord
  <2> QED BY <2>2, <2>3, <2>4
<1>7. CASE plugins' = After("FAILED") /\ LoadGoesOn(c, Tail(calls[c].todo))
  <2>1. /\ CallsOK(plugins, calls') /\ PhaseIsFree(calls', entry.id)
        /\ \A d \in Calls : calls'[d].pc = "awaiting" => calls'[d] = calls[d]
    BY <1>1, <1>7, HeadIsFree
  <2> DEFINE qs == After("FAILED")
  <2>2. /\ RecordsOK(qs, new)
        /\ \A r \in Range(plugins) : r.id # entry.id => r \in Range(qs)
    BY <1>5
  <2> HIDE DEF qs, entry
  <2>3. ChangesOnly(plugins, qs, calls', entry.id)
    BY <1>6, <2>1, <2>2 DEF ChangesOnly, PhaseIsFree
  <2>4. CallsOK(qs, calls')
    BY <2>1, <2>3, CallsKeep
  <2> QED BY <1>1, <1>7, <2>2, <2>4 DEF AskInv, qs
<1>8. CASE /\ plugins' = After("INITIALIZING")
           /\ calls' = [calls EXCEPT ![c].pc = "initializing"]
  <2> DEFINE qs == After("INITIALIZING")
             ds == [calls EXCEPT ![c].pc = "initializing"]
             todo == calls[c].todo
  <2>1. /\ RecordsOK(qs, new)
        /\ \A r \in Range(plugins) : r.id # entry.id => r \in Range(qs)
        /\ \E q \in Range(qs) :
              q.id = entry.id /\ q.plugin = entry.source /\ q.phase = "INITIALIZING"
    BY <1>5
  <2>2. calls[c] \in Resting \cup Loading \cup Walking
    BY <1>0 DEF CallsTyped
  <2>3. ds[c].pc = "initializing" /\ ds[c].todo = todo
    BY <1>0, <2>2 DEF Resting, Loading, Walking, CallsTyped
  <2>4. \A d \in Calls : d # c => ds[d] = calls[d]
    BY <1>0 DEF CallsTyped
  <2>5. entry = todo[1] /\ 1 \in 1..Len(todo)
    BY <1>2, TailIs
  <2>6. FoundOnce(entry.id) =>
           /\ \A i \in 1..Len(todo) : i # 1 => todo[i].id # entry.id
           /\ \A d \in Calls : d # c /\ Op[d] = "load" => ~InTodo(calls[d], entry.id)
    BY <1>0, <1>2, <2>5 DEF CallsOK, LoadsApart, TodoApart, CallsApart
  <2> HIDE DEF qs, ds, entry
  <2>7. LoadsHold(qs, ds)
    <3>1. ASSUME NEW i \in 1..Len(todo) PROVE LoadAt(qs, ds[c], i)
      <4>1. LoadAt(plugins, calls[c], i)
        BY <1>0, <1>2 DEF CallsOK, LoadsHold
      <4>2. CASE i = 1
        BY <1>2, <2>1, <2>3, <2>5, <4>2 DEF LoadAt
      <4>3. CASE i # 1
        <5> SUFFICES ASSUME FoundOnce(todo[i].id)
                     PROVE  \E r \in Range(qs) : /\ r.id = todo[i].id /\ r.plugin = Placeholder
                                                /\ r.phase = "REGISTERED"
          BY <2>3, <4>1, <4>3 DEF LoadAt
        <5>1. todo[i].id # entry.id
          BY <2>6, <4>3
        <5>2. PICK r \in Range(plugins) :
                 r.id = todo[i].id /\ r.plugin = Placeholder /\ r.phase = "REGISTERED"
          BY <4>1, <4>3 DEF LoadAt
        <5> QED BY <2>1, <5>1, <5>2
      <4> QED BY <4>2, <4>3
    <3>2. ASSUME NEW d \in Calls, d # c, Op[d] = "load", NEW i \in 1..Len(calls[d].todo)
          PROVE  LoadAt(qs, ds[d], i)
      <4>1. LoadAt(plugins, calls[d], i)
        BY <1>0, <3>2 DEF CallsOK, LoadsHold
      <4>2. FoundOnce(calls[d].todo[i].id) => calls[d].todo[i].id # entry.id
        BY <2>6, <3>2 DEF InTodo
      <4> QED BY <2>1, <2>4, <3>2, <4>1, <4>2 DEF LoadAt
    <3> QED BY <2>3, <2>4, <3>1, <3>2 DEF LoadsHold
  <2>8. \A d \in Calls : ds[d].todo = calls[d].todo
    BY <2>3, <2>4
  <2>9. LoadsApart(ds)
    <3>1. \A d \in Calls : \A x : InTodo(ds[d], x) <=> InTodo(calls[d], x)
      BY <2>8 DEF InTodo
    <3>2. LoadsApart(calls)
      BY <1>0 DEF CallsOK
    <3>3. \A d, e \in Calls : CallsApart(calls[d], calls[e]) => CallsApart(ds[d], ds[e])
      BY <2>8, <3>1 DEF CallsApart
    <3> QED BY <2>8, <3>2, <3>3 DEF LoadsApart
  <2>10. \A d \in Calls : ds[d].pc = "awaiting" => ds[d] = calls[d]
    BY <2>3, <2>4
  <2>11. WalksHold(qs, ds)
    <3> SUFFICES ASSUME NEW d \in Calls, ds[d].pc = "awaiting", NEW i \in 1..Len(ds[d].todo)
                 PROVE  WalkAt(qs, Op[d], ds[d], i)
      BY DEF WalksHold
    <3>1. WalkAt(plugins, Op[d], calls[d], i)
      BY <1>0, <2>10 DEF CallsOK, WalksHold
    <3>2. FoundOnce(calls[d].todo[i].id) => calls[d].todo[i].id # entry.id
      BY <1>6, <2>10
    <3> QED BY <2>1, <2>10, <3>1, <3>2 DEF WalkAt
  <2>12. WalksApart(ds)
    BY <1>0, <2>10 DEF CallsOK, WalksApart
  <2> QED BY <1>1, <1>8, <2>1, <2>7, <2>9, <2>11, <2>12 DEF AskInv, CallsOK, qs, ds
<1> QED BY <1>1, <1>7, <1>8

LEMMA UnregisterAsks ==
    ASSUME AllInv, NEW id \in Ids, UnregisterPlugin(id)
    PROVE  AskInv(plugins', calls', asked')
<1> DEFINE qs == Unregister(plugins, id)
<1>0. /\ plugins \in Seq(Records) /\ RegisteredOnce(plugins)
      /\ RecordsOK(plugins, asked) /\ CallsOK(plugins, calls)
  BY AllIs
<1>1. plugins' = qs /\ calls' = calls /\ asked' = asked
  BY DEF UnregisterPlugin
<1>2. Range(qs) = {r \in Range(plugins) : r.id # id}
  BY <1>0, UnregisterIs
<1> HIDE DEF qs
<1>3. \A c \in Calls : \A i \in 1..Len(calls[c].todo) : calls[c].todo[i].id # id
  BY DEF UnregisterPlugin, Busy
<1>4. ChangesOnly(plugins, qs, calls, id)
  BY <1>2, <1>3 DEF ChangesOnly, InTodo
<1>5. CallsOK(qs, calls)
  BY <1>0, <1>4, CallsKeep
<1>6. RecordsOK(qs, asked)
  BY <1>0, <1>2 DEF RecordsOK
<1> QED BY <1>1, <1>5, <1>6 DEF AskInv

LEMMA AskStep ==
    ASSUME PlatformMethodsOnly, AllInv, [Next]_vars
    PROVE  AskInv(plugins', calls', asked')
<1>1. ASSUME NEW c \in Calls,
             \/ Walk(c) \/ LoadRegisters(c)
             \/ ImportFails(c) \/ ImportSettles(c) \/ InitializeSettles(c)
             \/ \E fails \in BOOLEAN : WalkSettles(c, fails)
      PROVE  AskInv(plugins', calls', asked')
  BY <1>1, WalkAsks, RegistersAsks, FailsAsks, ImportAsks, InitializeAsks, WalkSettlesAsks
<1>2. ASSUME NEW id \in Ids, UnregisterPlugin(id) PROVE AskInv(plugins', calls', asked')
  BY <1>2, UnregisterAsks
<1>3. CASE UNCHANGED vars
  BY <1>3 DEF vars, AllInv
<1> QED BY <1>1, <1>2, <1>3 DEF Next

-----------------------------------------------------------------------------

LEMMA OrdersArePrefixes ==
    \A s \in Orders : IsPrefix(s, <<"startup", "shutdown", "dispose">>)
<1> DEFINE all == <<"startup", "shutdown", "dispose">>
<1>1. all \in Seq(Work) /\ Len(all) = 3
      /\ all[1] = "startup" /\ all[2] = "shutdown" /\ all[3] = "dispose"
  BY DEF Work
<1>2. ASSUME NEW s \in Seq(Work), Len(s) <= 3, \A i \in 1..Len(s) : s[i] = all[i]
      PROVE  IsPrefix(s, all)
  <2> DEFINE t == SubSeq(s, 1, Len(s))
             u == SubSeq(all, 1, Len(s))
  <2> HIDE DEF all
  <2>1. t \in Seq(Work) /\ Len(t) = Len(s) /\ \A i \in 1..Len(s) : t[i] = s[i]
    OBVIOUS
  <2>2. u \in Seq(Work) /\ Len(u) = Len(s) /\ \A i \in 1..Len(s) : u[i] = all[i]
    BY <1>1, <1>2
  <2> HIDE DEF t, u
  <2>3. \A i \in 1..Len(t) : t[i] = u[i]
    BY <1>2, <2>1, <2>2
  <2>4. t = u
    BY <2>1, <2>2, <2>3, SeqEqual
  <2> QED BY <1>1, <1>2, <2>4 DEF IsPrefix, t, u
<1> HIDE DEF all
<1>3. ASSUME NEW s \in Orders
      PROVE  s \in Seq(Work) /\ Len(s) <= 3 /\ \A i \in 1..Len(s) : s[i] = all[i]
  <2>1. CASE s = <<>>
    BY <2>1
  <2>2. CASE s = <<"startup">>
    BY <1>1, <2>2 DEF Work
  <2>3. CASE s = <<"startup", "shutdown">>
    BY <1>1, <2>3 DEF Work
  <2>4. CASE s = <<"startup", "shutdown", "dispose">>
    BY <1>1, <2>4 DEF Work, all
  <2> QED BY <2>1, <2>2, <2>3, <2>4 DEF Orders
<1> QED BY <1>2, <1>3 DEF all

LEMMA InOrder == ASSUME AskInv(plugins, calls, asked) PROVE AskedInOrder
<1>1. \A s \in Alone : asked[s] \in Orders
  BY DEF AskInv, RecordsOK, AskedOK
<1> QED BY <1>1, OrdersArePrefixes DEF AskedInOrder

LEMMA PhasesTell ==
    ASSUME TypeOK, AskInv(plugins, calls, asked) PROVE PhaseTellsWhatWasAsked
<1>1. \A i \in 1..Len(plugins) : plugins[i] \in Range(plugins)
  BY RangeMember DEF TypeOK
<1>2. \A i \in 1..Len(plugins) : RecordOK(plugins[i], asked)
  BY <1>1 DEF AskInv, RecordsOK
<1>3. ASSUME NEW i \in 1..Len(plugins), plugins[i].plugin \in Alone
      PROVE  plugins[i].phase \notin {"REGISTERED", "FAILED"} =>
                asked[plugins[i].plugin] = AskedBy[plugins[i].phase]
  <2>1. plugins[i].plugin # Placeholder
    BY <1>3, PlatformAssumption DEF Alone
  <2>2. FoundOnce(plugins[i].id)
    BY <1>2, <1>3, <2>1, EntriesDiffer DEF RecordOK, Sourced
  <2> QED BY <1>2, <2>1, <2>2 DEF RecordOK
<1> QED BY <1>3 DEF PhaseTellsWhatWasAsked, AskedBy

LEMMA AllInductive ==
    ASSUME PlatformMethodsOnly
    PROVE  Spec => [](TypeOK /\ AskInv(plugins, calls, asked))
<1>1. Init => LoadInv(plugins, calls) /\ AskInv(plugins, calls, asked)
  BY LoadInit, AskInit
<1>2. TypeOK /\ LoadInv(plugins, calls) /\ [Next]_vars => LoadInv(plugins, calls)'
  BY LoadStep
<1>3. TypeOK /\ LoadInv(plugins, calls) /\ AskInv(plugins, calls, asked) /\ [Next]_vars
         => AskInv(plugins, calls, asked)'
  BY AskStep DEF AllInv
<1> QED BY <1>1, <1>2, <1>3, TypeCorrect, PTL DEF Spec

(* PluginLifecycleManager: however many calls of startAll(), stopAll(),     *)
(* disposeAll() and loadAll() are under way at once, each over its own      *)
(* snapshot, a plugin whose id is found once is asked to start, to stop and *)
(* to dispose at most once each and in that order, whatever else is found.  *)
THEOREM AskedOnceInOrder ==
    ASSUME PlatformMethodsOnly PROVE Spec => []AskedInOrder
<1>1. AskInv(plugins, calls, asked) => AskedInOrder
  BY InOrder
<1> QED BY <1>1, AllInductive, PTL

(* PluginRegistry: the phase recorded for a plugin whose id is found once   *)
(* is that of the plugin recorded: what it says was done was asked of that  *)
(* very plugin.                                                             *)
THEOREM PhasesAreTrue ==
    ASSUME PlatformMethodsOnly PROVE Spec => []PhaseTellsWhatWasAsked
<1>1. TypeOK /\ AskInv(plugins, calls, asked) => PhaseTellsWhatWasAsked
  BY PhasesTell
<1> QED BY <1>1, AllInductive, PTL
=============================================================================
