------------------------ MODULE HermesEventDispatcher ------------------------
(***************************************************************************)
(* The bridge from the kernel's lifecycle to the event bus                 *)
(* (packages/hermes/src/HermesEventDispatcher.ts), over HermesKernel: a    *)
(* transition handler that publishes one event for every transition but    *)
(* the one to STARTING, and unsubscribes when it is disposed of.           *)
(***************************************************************************)
EXTENDS HermesKernel, SequencesExt

VARIABLES
    subscribed,
    published,   \* the events the bus took, in order
    refused      \* how many it threw at, which onPublishError heard of

dispatcherVars == <<life, modules, stops, calls, subscribed, published, refused>>

DispatcherInit == Init /\ subscribed = TRUE /\ published = <<>> /\ refused = 0

Topic ==
    [INITIALIZING |-> "hermes.initializing", RUNNING |-> "hermes.started",
     STOPPING |-> "hermes.stopping", STOPPED |-> "hermes.stopped", FAILED |-> "hermes.failed"]

(* mutant: the phase left is announced                                      *)
AnnouncedLate(step) ==
    IF step.from \in DOMAIN Topic
    THEN <<[topic |-> Topic[step.from], from |-> step.from, modules |-> Len(modules)]>> ELSE <<>>

(* topicFor() and buildPayload(): the number of modules is that of now.     *)
Announced(step) ==
    IF step.to \in DOMAIN Topic
    THEN <<[topic |-> Topic[step.to], from |-> step.from, modules |-> Len(modules)]>> ELSE <<>>

(* The transitions a step of the kernel makes, each told to the handlers.   *)
Made == SubSeq(life'.trail, Len(life.trail) + 1, Len(life'.trail))

Events == FlattenSeq([i \in 1..Len(Made) |-> Announced(Made[i])])

(* The kernel moves; a transition stands whether or not the bus throws.     *)
KernelMoves ==
    /\ Next /\ UNCHANGED subscribed
    /\ \E taken \in SUBSET (1..Len(Events)) :
          /\ subscribed \/ taken = {}
          /\ published' = published \o [i \in 1..Cardinality(taken) |->
                                           Events[SetToSortSeq(taken, <)[i]]]
          /\ refused' = IF subscribed THEN refused + Len(Events) - Cardinality(taken) ELSE refused

Dispose ==
    /\ subscribed /\ subscribed' = FALSE
    /\ UNCHANGED <<life, modules, stops, calls, published, refused>>

DispatcherNext == KernelMoves \/ Dispose

DispatcherSpec == DispatcherInit /\ [][DispatcherNext]_dispatcherVars

-----------------------------------------------------------------------------

(* What the bus was told keeps its shape.                                   *)
DispatcherTypeOK ==
    /\ subscribed \in BOOLEAN /\ refused \in Nat
    /\ \A i \in 1..Len(published) :
          published[i].topic \in Range(Topic) /\ published[i].from \in Phases

(* The listeners on the bus can follow the kernel: each event was meant for *)
(* a transition the kernel made, in the order it made them, none is missing *)
(* that the bus did not refuse, and nothing comes after an end.             *)
BusFollowsTheKernel ==
    LET told == SelectSeq(life.trail, LAMBDA step : step.to # "STARTING")
        topics == [i \in 1..Len(published) |-> published[i].topic]
    IN  /\ \A i \in 1..Len(topics) : \A j \in 1..(i - 1) : topics[j] # topics[i]
        /\ \A i \in 1..(Len(topics) - 1) :
              topics[i] \notin {"hermes.stopped", "hermes.failed"}
        /\ subscribed => Len(published) + refused = Len(told)
        /\ \A i \in 1..Len(published) : \E k \in 1..Len(told) :
              told[k].from = published[i].from /\ Topic[told[k].to] = topics[i]
        /\ (subscribed /\ refused = 0 /\ phase \in TerminalPhases) => Last(topics) = Topic[phase]
=============================================================================
