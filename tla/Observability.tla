---------------------------- MODULE Observability ----------------------------
(***************************************************************************)
(* packages/observability/src: a registry of metrics that an exporter      *)
(* reads, loggers over a list of sinks, and spans around functions that    *)
(* may be asynchronous, each in the context of its request.                *)
(*                                                                         *)
(* A behaviour is about the metrics or about the requests, `facet`.  Time, *)
(* identifiers and the text of entries are left out; of an entry its       *)
(* level, adapter and request are kept.                                    *)
(***************************************************************************)
EXTENDS Naturals, Sequences, SequencesExt, FiniteSets, FiniteSetsExt

CONSTANTS
    Facets,      \* a subset of {"metrics", "requests"}
    Adapters,    \* that make their metrics in the shared registry, any times
    Values,      \* that are counted, observed and set
    MaxOps,      \* calls on metrics
    Requests,
    Sinks,       \* of the root logger, in order
    Breaking,    \* the sinks whose write() may throw
    MinLevel,
    MaxLogs      \* entries a request logs after its start

VARIABLES
    facet,
    metrics,     \* every Counter, Histogram and Gauge ever made
    counted,     \* by adapter: what was added to its request counters
    ops,
    requests,
    written      \* by sink

vars == <<facet, metrics, counted, ops, requests, written>>

-----------------------------------------------------------------------------
(* Metrics                                                                  *)

Metric(type, name, adapter) ==
    [type |-> type, name |-> name, adapter |-> adapter, value |-> 0, seen |-> <<>>,
     registered |-> TRUE]

AdapterMetrics(adapter) ==
    <<Metric("counter", "requests_total", adapter), Metric("counter", "commands_total", adapter),
      Metric("counter", "errors_total", adapter),
      Metric("histogram", "request_duration_ms", adapter),
      Metric("histogram", "command_duration_ms", adapter),
      Metric("gauge", "active_requests", adapter), Metric("gauge", "active_commands", adapter)>>

HermesMetrics ==
    AdapterMetrics("hermes") \o
    <<Metric("counter", "lifecycle_transitions_total", "hermes"),
      Metric("histogram", "hermes_operation_duration_ms", "hermes"),
      Metric("gauge", "loaded_modules", "hermes")>>

Sum(seen) == FoldLeft(LAMBDA sum, v : sum + v, 0, seen)

(* What an exporter reads: one entry for each registered metric, counters   *)
(* first.                                                                   *)
GetMetrics ==
    LET entries(type) ==
            LET mine == SelectSeq(metrics, LAMBDA m : m.registered /\ m.type = type)
            IN  [i \in DOMAIN mine |->
                    [name |-> mine[i].name, adapter |-> mine[i].adapter, type |-> type,
                     value |-> IF type = "histogram" THEN Sum(mine[i].seen) ELSE mine[i].value]]
    IN  entries("counter") \o entries("histogram") \o entries("gauge")

(* mutant: rounded down                                                     *)
PercentileFloored(seen, p) ==
    IF seen = <<>> THEN 0
    ELSE SortSeq(seen, <)[Max({1, (p * Len(seen)) \div 100})]

(* p and a number of observations for which (p / 100) * n is a whole number *)
(* but comes out above it in floating point, so that Math.ceil() goes one   *)
(* place further: all there are of whole p and less than 60 observations.   *)
ComesOutAbove == {<<28, 25>>, <<56, 25>>, <<14, 50>>, <<28, 50>>, <<56, 50>>}

Rank(p, n) ==
    LET nearest == (p * n + 99) \div 100 IN
    IF <<p, n>> \in ComesOutAbove THEN nearest + 1 ELSE nearest

(* The nearest rank: the least place that has p percent up to it.           *)
Percentile(seen, p) ==
    IF seen = <<>> THEN 0 ELSE SortSeq(seen, <)[Max({1, Rank(p, Len(seen))})]

Operates == facet = "metrics" /\ ops < MaxOps /\ ops' = ops + 1 /\ UNCHANGED <<facet, requests, written>>

Creates(adapter) ==
    /\ Operates /\ UNCHANGED counted
    /\ metrics' = metrics \o IF adapter = "hermes" THEN HermesMetrics ELSE AdapterMetrics(adapter)

Inc(i, v) ==
    /\ Operates /\ metrics[i].type = "counter"
    /\ metrics' = [metrics EXCEPT ![i].value = @ + v]
    /\ counted' = IF metrics[i].name = "requests_total"
                  THEN [counted EXCEPT ![metrics[i].adapter] = @ + v] ELSE counted

Observe(i, v) ==
    /\ Operates /\ metrics[i].type = "histogram" /\ UNCHANGED counted
    /\ metrics' = [metrics EXCEPT ![i].seen = Append(@, v)]

Set(i, v) ==
    /\ Operates /\ metrics[i].type = "gauge" /\ UNCHANGED counted
    /\ metrics' = [metrics EXCEPT ![i].value = v]

(* mutant: the exporter is to see the children as well                      *)
LabelsRegistered(i) ==
    /\ Operates /\ UNCHANGED counted
    /\ metrics' = Append(metrics, metrics[i])

(* A child goes on from what its parent has; no exporter ever sees it.      *)
Labels(i) ==
    /\ Operates /\ UNCHANGED counted
    /\ metrics' = Append(metrics, [metrics[i] EXCEPT !.registered = FALSE])

-----------------------------------------------------------------------------
(* Loggers                                                                  *)

Levels == <<"trace", "debug", "info", "warn", "error", "fatal">>

Numeric(level) == CHOOSE n \in 1..6 : Levels[n] = level

IsLevelEnabled(current, target) == Numeric(current) <= Numeric(target)

(* The entry of a request, with the adapter of the child logger it uses.    *)
Entry(r, level) == [level |-> level, adapter |-> requests[r].adapter, request |-> r]

(* mutant: the last sink first                                              *)
WriteBackwards(entry, upTo) ==
    written' = [s \in ToSet(Sinks) |->
        IF Len(Sinks) + 1 - upTo <= CHOOSE i \in DOMAIN Sinks : Sinks[i] = s
        THEN Append(written[s], entry) ELSE written[s]]

(* Each sink in turn; one that throws keeps the rest from the entry.        *)
Write(entry, upTo) ==
    written' = [s \in ToSet(Sinks) |->
        IF (CHOOSE i \in DOMAIN Sinks : Sinks[i] = s) <= upTo
        THEN Append(written[s], entry) ELSE written[s]]

(* log(): the sinks it reaches, and whether it throws.                      *)
Log(entry, upTo) ==
    IF IsLevelEnabled(MinLevel, entry.level)
    THEN /\ upTo < Len(Sinks) => Sinks[upTo + 1] \in Breaking
         /\ Write(entry, upTo)
    ELSE upTo = Len(Sinks) /\ UNCHANGED written

Throws(upTo) == upTo < Len(Sinks)

-----------------------------------------------------------------------------
(* Spans                                                                    *)

Idle ==
    [pc |-> "idle", adapter |-> "none", span |-> "none", attribute |-> "none", logs |-> <<>>]

(* runWithContext() and withSpan() around a function that logs, and then    *)
(* throws, returns or awaits: the span ends there, and is OK unless it      *)
(* threw.                                                                   *)
Enters(r, adapter, level, upTo, goesOn) ==
    /\ facet = "requests" /\ requests[r].pc = "idle"
    /\ Log([Entry(r, level) EXCEPT !.adapter = adapter], upTo)
    /\ goesOn \in IF Throws(upTo) THEN {"threw"} ELSE {"threw", "returned", "pending"}
    /\ requests' = [requests EXCEPT ![r] =
           [Idle EXCEPT !.pc = goesOn, !.adapter = adapter, !.logs = <<level>>,
                        !.span = IF goesOn = "threw" THEN "ERROR" ELSE "OK"]]
    /\ UNCHANGED <<facet, metrics, counted, ops>>

(* After an await: the function logs in its own context still, and what it  *)
(* sets on its span, which has ended, is lost.                              *)
LogsOn(r, level, upTo) ==
    /\ facet = "requests" /\ requests[r].pc = "pending" /\ Len(requests[r].logs) <= MaxLogs
    /\ Log(Entry(r, level), upTo)
    /\ requests' = [requests EXCEPT ![r].pc = IF Throws(upTo) THEN "rejected" ELSE @,
                                    ![r].logs = Append(@, level)]
    /\ UNCHANGED <<facet, metrics, counted, ops>>

Settles(r, outcome) ==
    /\ facet = "requests" /\ requests[r].pc = "pending"
    /\ requests' = [requests EXCEPT ![r].pc = outcome]
    /\ UNCHANGED <<facet, metrics, counted, ops, written>>

-----------------------------------------------------------------------------

Init ==
    /\ facet \in Facets
    /\ metrics = <<>> /\ counted = [a \in Adapters |-> 0] /\ ops = 0
    /\ requests = [r \in Requests |-> Idle]
    /\ written = [s \in ToSet(Sinks) |-> <<>>]

MetricsMove ==
    \/ \E a \in Adapters : Creates(a)
    \/ \E i \in DOMAIN metrics :
          Labels(i) \/ \E v \in Values : Inc(i, v) \/ Observe(i, v) \/ Set(i, v)

RequestsMove ==
    \E r \in Requests, level \in {"debug", "info", "error"}, upTo \in 0..Len(Sinks) :
        \/ LogsOn(r, level, upTo)
        \/ \E a \in Adapters, goesOn \in {"threw", "returned", "pending"} :
              Enters(r, a, level, upTo, goesOn)

Next ==
    \/ MetricsMove \/ RequestsMove
    \/ \E r \in Requests, outcome \in {"resolved", "rejected"} : Settles(r, outcome)

Spec == Init /\ [][Next]_vars

-----------------------------------------------------------------------------

(* Metrics, requests and entries keep their shape.                          *)
TypeOK ==
    /\ facet \in Facets /\ ops \in 0..MaxOps
    /\ \A i \in DOMAIN metrics :
          /\ metrics[i].type \in {"counter", "histogram", "gauge"}
          /\ metrics[i].adapter \in Adapters /\ metrics[i].value \in Nat
    /\ \A r \in Requests :
          /\ requests[r].pc \in {"idle", "threw", "returned", "pending", "resolved", "rejected"}
          /\ requests[r].span \in {"none", "OK", "ERROR"}
    /\ \A s \in ToSet(Sinks) : \A i \in DOMAIN written[s] : written[s][i].level \in ToSet(Levels)

(* What an exporter reads never counts a request twice, though a child made *)
(* by labels() starts with its parent's count and an adapter made again has *)
(* counters of the same name (getMetrics(), labels()).  What is added to a  *)
(* child is missing from it.                                                *)
NothingIsCountedTwice ==
    \A a \in Adapters :
        LET mine == SelectSeq(GetMetrics, LAMBDA e : e.adapter = a /\ e.name = "requests_total")
            total == FoldLeft(LAMBDA sum, e : sum + e.value, 0, mine)
            lost == \E i \in DOMAIN metrics :
                        /\ metrics[i].adapter = a /\ metrics[i].name = "requests_total"
                        /\ ~metrics[i].registered
        IN  total <= counted[a] /\ (lost \/ total = counted[a])

(* A percentile is a value observed, with at least that share of the        *)
(* observations up to it and less than that below it, but where the         *)
(* arithmetic goes one place too far (percentile()).                        *)
PercentilesAreNearestRanks ==
    \A i \in DOMAIN metrics, p \in {50, 90, 100} :
        LET seen == metrics[i].seen
            v == Percentile(seen, p)
            upTo == Cardinality({k \in DOMAIN seen : seen[k] <= v})
            below == Cardinality({k \in DOMAIN seen : seen[k] < v})
        IN  seen # <<>> =>
                /\ v \in ToSet(seen) /\ 100 * upTo >= p * Len(seen)
                /\ <<p, Len(seen)>> \notin ComesOutAbove => 100 * below < p * Len(seen)

(* The first sink has every entry at the threshold or above of every        *)
(* request, in its order and with its adapter, whoever logged in between    *)
(* and whatever the next sinks threw; and each sink has a part of what the  *)
(* one before it has (log(), child(), runWithContext()).                    *)
SinksTellTheRequests ==
    /\ \A r \in Requests :
          LET mine == SelectSeq(written[Head(Sinks)], LAMBDA e : e.request = r)
              told == SelectSeq(requests[r].logs, LAMBDA l : Numeric(MinLevel) <= Numeric(l))
          IN  /\ Head(Sinks) \notin Breaking => [i \in DOMAIN mine |-> mine[i].level] = told
              /\ \A i \in DOMAIN mine : mine[i].adapter = requests[r].adapter
    /\ \A i \in 1..Len(Sinks) - 1, r \in Requests :
          LET mine(s) == SelectSeq(written[s], LAMBDA e : e.request = r)
          IN  /\ Len(mine(Sinks[i + 1])) <= Len(mine(Sinks[i]))
              /\ IsPrefix(mine(Sinks[i + 1]), mine(Sinks[i]))

(* A span tells of an exception only if the function threw before it first  *)
(* awaited; of what it promised it says OK, also when that is refused.  So  *)
(* it does not end "only after the async body resolves (or throws)", as the *)
(* comment over instrument() has it (llm/src/observability.ts).             *)
SpansTellTheFirstPart ==
    \A r \in Requests : requests[r].span = "ERROR" <=> requests[r].pc = "threw"
=============================================================================
