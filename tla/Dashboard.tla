------------------------------ MODULE Dashboard ------------------------------
(***************************************************************************)
(* The knowledge page of the dashboard (apps/dashboard) and time: a hook   *)
(* that polls the graph (useGraphData.ts; usePolling.ts polls the other    *)
(* pages in the same way) unless a time is selected, and the slider that   *)
(* selects one and plays through them (TimelineControl.tsx).  What is done *)
(* with the graph is KnowledgeGraph's.                                     *)
(*                                                                         *)
(* Every fetch is a call of its own: they are not cancelled, overlap, and  *)
(* answer in any order, also after the page is gone.                       *)
(***************************************************************************)
EXTENDS Integers, Sequences, FiniteSets

CONSTANTS
    Fetches,        \* the calls of fetchGraph()
    Graphs,         \* what the API may answer: [nodes, edges], each the version
                    \* of every id there is
    Histories       \* what it may answer of the past: sequences of times

None == "none"

VARIABLES
    page,       \* "new", "shown", "gone": mountedRef is true on a page that is shown
    polling,    \* the interval runs
    fetches,
    snapshot, loading, error,   \* what the page shows of the graph
    accepted,   \* history: the last answer that reached the page
    timeline,   \* [state, entries, index, playing]; the first entry is at 0
    selectedTime

vars == <<page, polling, fetches, snapshot, loading, error, accepted, timeline, selectedTime>>

time_ == <<timeline, selectedTime>>
shown_ == <<snapshot, loading, error, accepted>>

EmptyGraph == [nodes |-> <<>>, edges |-> <<>>]

Init ==
    /\ page = "new" /\ polling = FALSE
    /\ fetches = [f \in Fetches |-> "idle"]
    /\ snapshot = EmptyGraph /\ loading = TRUE /\ error = None /\ accepted = EmptyGraph
    /\ timeline = [state |-> "asking", entries |-> <<>>, index |-> -1, playing |-> FALSE]
    /\ selectedTime = None

-----------------------------------------------------------------------------
(* useGraphData()                                                           *)

(* The effect starts fetching at once.                                      *)
Mount(f) ==
    /\ page = "new" /\ fetches[f] = "idle"
    /\ page' = "shown" /\ polling' = TRUE
    /\ fetches' = [fetches EXCEPT ![f] = "asking"]
    /\ UNCHANGED <<shown_, time_>>

(* Selecting a time runs the old effect's cleanup, and the new effect       *)
(* returns before it sets an interval; what is under way still arrives.     *)
(* Selecting none starts over, with a fetch at once.                        *)
Enabled(time) ==
    /\ selectedTime' = time /\ polling' = (time = None)
    /\ IF time = None /\ ~polling
       THEN \E f \in Fetches : fetches[f] = "idle" /\ fetches' = [fetches EXCEPT ![f] = "asking"]
       ELSE UNCHANGED fetches

(* The cleanup clears mountedRef.  A page that does not poll has none, and  *)
(* its answers go on being taken, which nobody sees.                        *)
Leave ==
    /\ polling /\ page' = "gone" /\ polling' = FALSE
    /\ UNCHANGED <<fetches, shown_, time_>>

FetchGraph(f) ==
    /\ polling /\ fetches[f] = "idle"
    /\ fetches' = [fetches EXCEPT ![f] = "asking"]
    /\ UNCHANGED <<page, polling, shown_, time_>>

(* mutant: what has gone is kept                                            *)
MergeKeeping(old, new) ==
    [id \in DOMAIN old \cup DOMAIN new |-> IF id \in DOMAIN new THEN new[id] ELSE old[id]]

(* Old and new entries under their ids, the new ones winning, and what the  *)
(* answer has not is deleted again.                                         *)
Merge(old, new) ==
    LET both == [id \in DOMAIN old \cup DOMAIN new |->
                    IF id \in DOMAIN new THEN new[id] ELSE old[id]]
        gone == DOMAIN old \ DOMAIN new
    IN  [id \in DOMAIN both \ gone |-> both[id]]

Answer(f, graph) ==
    /\ fetches[f] = "asking"
    /\ fetches' = [fetches EXCEPT ![f] = "answered"]
    /\ IF page = "shown"
       THEN /\ snapshot' = [nodes |-> Merge(snapshot.nodes, graph.nodes),
                            edges |-> Merge(snapshot.edges, graph.edges)]
            /\ accepted' = graph /\ error' = None /\ loading' = FALSE
       ELSE UNCHANGED <<snapshot, loading, error, accepted>>
    /\ UNCHANGED <<page, polling, time_>>

FetchFails(f) ==
    /\ fetches[f] = "asking"
    /\ fetches' = [fetches EXCEPT ![f] = "failed"]
    /\ IF page = "shown" THEN error' = f /\ loading' = FALSE ELSE UNCHANGED <<error, loading>>
    /\ UNCHANGED <<page, polling, snapshot, accepted, time_>>

-----------------------------------------------------------------------------
(* TimelineControl(); it shows nothing until the history has answered.      *)

Shown == page = "shown" /\ timeline.state = "answered"

Last == Len(timeline.entries) - 1

(* A refusal or an exception leaves the entries empty.                      *)
HistoryAnswers(entries) ==
    /\ page = "shown" /\ timeline.state = "asking"
    /\ timeline' = [timeline EXCEPT !.state = "answered", !.entries = entries]
    /\ UNCHANGED <<page, polling, fetches, shown_, selectedTime>>

TimeAt(index) == IF index < 0 THEN None ELSE timeline.entries[index + 1]

(* mutant: the playback is not stopped where it is at the end already       *)
GoesOn(playing, index) == playing /\ (timeline.entries = <<>> \/ index <= Last)

(* The effect that follows every render stops the playback at the end, and  *)
(* sets the timer anew before it; with no entries it does neither.          *)
Goes(playing, index) == playing /\ (timeline.entries = <<>> \/ index < Last)

MovesTo(index) ==
    /\ timeline' = [timeline EXCEPT !.index = index, !.playing = Goes(@, index)]
    /\ Enabled(TimeAt(index))
    /\ UNCHANGED <<page, shown_>>

(* mutant: the time stays                                                   *)
SlideOnly(index) ==
    /\ Shown /\ index # timeline.index
    /\ timeline' = [timeline EXCEPT !.index = index, !.playing = Goes(@, index)]
    /\ UNCHANGED <<page, polling, fetches, shown_, selectedTime>>

HandleSliderChange(index) == Shown /\ index # timeline.index /\ MovesTo(index)

TimerFires ==
    /\ Shown /\ timeline.playing /\ timeline.index < Last
    /\ MovesTo(timeline.index + 1)

PlayToggle ==
    /\ Shown
    /\ timeline' = [timeline EXCEPT !.playing = Goes(~@, timeline.index)]
    /\ UNCHANGED <<page, polling, fetches, shown_, selectedTime>>

Next ==
    \/ Leave \/ TimerFires \/ PlayToggle
    \/ \E f \in Fetches :
          \/ Mount(f) \/ FetchGraph(f) \/ FetchFails(f)
          \/ \E graph \in Graphs : Answer(f, graph)
    \/ \E entries \in Histories \cup {<<>>} : HistoryAnswers(entries)
    \/ \E index \in -1..Last : HandleSliderChange(index)

Spec == Init /\ [][Next]_vars

-----------------------------------------------------------------------------

(* The interval runs only on a page that is there, and the slider is on one *)
(* of its entries or before the first.                                      *)
TypeOK ==
    /\ polling => page = "shown"
    /\ timeline.index \in -1..Last /\ timeline.playing \in BOOLEAN
    /\ error \in Fetches \cup {None} /\ loading \in BOOLEAN

(* However fetches overlap and fail: the page shows the last answer that    *)
(* reached it, whole and nothing else.  The page polls exactly while no     *)
(* time is selected, which is the one the slider shows; and a playback has  *)
(* somewhere to go (useGraphData, TimelineControl, KnowledgePage).          *)
PageShowsTheLastAnswer ==
    /\ snapshot = accepted
    /\ loading => snapshot = EmptyGraph /\ error = None
    /\ page = "shown" => (polling <=> timeline.index = -1)
    /\ selectedTime = TimeAt(timeline.index)
    /\ timeline.playing /\ timeline.entries # <<>> => timeline.index < Last
=============================================================================
