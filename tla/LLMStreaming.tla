---------------------------- MODULE LLMStreaming ----------------------------
(***************************************************************************)
(* A streamed answer of a model, from the provider to the caller's         *)
(* accumulateChatChunks() (packages/llm): the vendor's stream sends text   *)
(* and tool calls in pieces, OpenAIProvider turns each of its chunks into  *)
(* one of ours, or a MockProvider makes them up from a scripted response,  *)
(* and the accumulator puts them together when the stream has ended.       *)
(*                                                                         *)
(* Text is the number of its pieces; the arguments of a call are the       *)
(* sequence of the pieces <<call, k>>; a call's name is the call.          *)
(***************************************************************************)
EXTENDS Naturals, Sequences, SequencesExt, FiniteSetsExt

CONSTANTS
    Calls,          \* 1..n, the tool calls the vendor's answer may have
    MaxPieces,      \* bound: pieces of text, and of the arguments of a call
    Sources         \* where answers come from, [kind, length, errorAfter, finish]: "openai",
                    \* or "mock" with its scripted response

None == "none"

VARIABLES
    source,
    text, pieces,   \* what the vendor has sent: text, arguments of each call
    opened,         \* the calls it has named, in order
    told, last,     \* the finish reason it gave, and its last chunk, [reason, usage]
    chunks,         \* what the provider has yielded
    pc,
    answer          \* what accumulateChatChunks() makes of it

vars == <<source, text, pieces, opened, told, last, chunks, pc, answer>>

NoAnswer == [text |-> 0, calls |-> <<>>, finish |-> None]

Init ==
    /\ source \in Sources
    /\ text = 0 /\ pieces = [c \in Calls |-> 0] /\ opened = <<>>
    /\ told = None /\ last = [reason |-> None, usage |-> FALSE]
    /\ chunks = <<>> /\ pc = "streaming" /\ answer = NoAnswer

-----------------------------------------------------------------------------
(* OpenAIProvider.runStream(); a chunk without a choice is passed over and  *)
(* not modelled.  The usage may come in a chunk that has one: this then has *)
(* a finish reason, whether the vendor gave any or not.                     *)

(* The delta takes the place in its chunk for the index of the call.        *)
ToDelta(delta, place) ==
    [index |-> place, name |-> delta.name, args |-> delta.args]

FinishReason(reason) ==
    CASE reason = "function_call" -> "tool_calls"
      [] reason \in {"stop", "length", "tool_calls", "content_filter"} -> reason
      [] OTHER -> "stop"

Yield(chunk) == chunks' = Append(chunks, chunk)

Chunk(pieceOfText, deltas, reason, usage) ==
    [text |-> pieceOfText, calls |-> deltas,
     finish |-> IF reason # None \/ usage THEN FinishReason(reason) ELSE None]

Streaming(kind) == pc = "streaming" /\ source.kind = kind

(* A chunk of the vendor's passes through.                                  *)
Passes(pieceOfText, deltas, reason, usage) ==
    /\ Streaming("openai")
    /\ Yield(Chunk(pieceOfText, deltas, reason, usage))
    /\ last' = [reason |-> reason, usage |-> usage]
    /\ UNCHANGED <<source, pc, answer>>

SendText(usage) ==
    /\ text < MaxPieces /\ told = None
    /\ text' = text + 1
    /\ Passes(1, <<>>, None, usage)
    /\ UNCHANGED <<pieces, opened, told>>

(* The next piece of a call's arguments; its first delta names the call.    *)
VendorDelta(c) ==
    [name |-> IF pieces[c] = 0 THEN c ELSE 0, args |-> <<<<c, pieces[c] + 1>>>>]

(* The vendor sends deltas of some calls in a chunk, in their order; calls  *)
(* are begun in order.                                                      *)
SendCalls(some, usage) ==
    LET order == SetToSortSeq(some, <)
        new   == SelectSeq(order, LAMBDA c : pieces[c] = 0)
    IN  /\ some # {} /\ \A c \in some : pieces[c] < MaxPieces
        /\ \A c \in some, d \in Calls : d < c => d \in some \/ pieces[d] > 0
        /\ told = None
        /\ pieces' = [c \in Calls |-> IF c \in some THEN pieces[c] + 1 ELSE pieces[c]]
        /\ opened' = opened \o new
        /\ Passes(0, [i \in 1..Len(order) |-> ToDelta(VendorDelta(order[i]), i)], None, usage)
        /\ UNCHANGED <<text, told>>

Finish(reason, usage) ==
    /\ told = None /\ told' = reason
    /\ Passes(0, <<>>, reason, usage)
    /\ UNCHANGED <<text, pieces, opened>>

(* A chunk that says nothing more may follow; bound: one.                   *)
Trail(usage) ==
    /\ told # None /\ last.reason # None
    /\ Passes(0, <<>>, None, usage)
    /\ UNCHANGED <<text, pieces, opened, told>>

-----------------------------------------------------------------------------
(* The accumulator (streaming.ts)                                           *)

(* mutant: a later piece of the arguments replaces the earlier ones         *)
CollectLastDeltas(all, index) ==
    LET of == SelectSeq(FlattenSeq([i \in 1..Len(all) |-> all[i].calls]),
                        LAMBDA d : d.index = index)
        named == SelectSeq(of, LAMBDA d : d.name # 0)
    IN  [name |-> IF named = <<>> THEN 0 ELSE Last(named).name, args |-> Last(of).args]

CollectDeltas(all, index) ==
    LET of == SelectSeq(FlattenSeq([i \in 1..Len(all) |-> all[i].calls]),
                        LAMBDA d : d.index = index)
        named == SelectSeq(of, LAMBDA d : d.name # 0)
    IN  [name |-> IF named = <<>> THEN 0 ELSE Last(named).name,
         args |-> FlattenSeq([i \in 1..Len(of) |-> of[i].args])]

Indices(all) == {d.index : d \in ToSet(FlattenSeq([i \in 1..Len(all) |-> all[i].calls]))}

Accumulated(all) ==
    LET indices == SetToSortSeq(Indices(all), <)
        calls == [i \in 1..Len(indices) |-> CollectDeltas(all, indices[i])]
    IN  [text |-> FoldLeft(LAMBDA sum, chunk : sum + chunk.text, 0, all),
         calls |-> calls,
         finish |-> IF Last(all).finish = None THEN "unknown" ELSE Last(all).finish]

(* No chunk at all is an error, and so is a call without a name.            *)
Ended(all) ==
    /\ IF all = <<>> \/ \E i \in Indices(all) : CollectDeltas(all, i).name = 0
       THEN pc' = "rejected" /\ UNCHANGED answer
       ELSE pc' = "answered" /\ answer' = Accumulated(all)
    /\ chunks' = all

(* The stream ends, with a finish reason or without.                        *)
End ==
    /\ Streaming("openai") /\ Ended(chunks)
    /\ UNCHANGED <<source, text, pieces, opened, told, last>>

(* The connection breaks: the consumer's loop throws, nothing is made of    *)
(* what has come.                                                           *)
Break ==
    /\ Streaming("openai") /\ pc' = "rejected"
    /\ UNCHANGED <<source, text, pieces, opened, told, last, chunks, answer>>

-----------------------------------------------------------------------------
(* MockProvider.runStream(): a chunk for each character, the last of them   *)
(* with a finish reason as well, and a final one.  The error is thrown when *)
(* more than errorAfter chunks are out.                                     *)

MockFails == source.errorAfter < text

MockYields ==
    /\ Streaming("mock") /\ text < source.length /\ ~MockFails
    /\ text' = text + 1
    /\ Yield([text |-> 1, calls |-> <<>>,
              finish |-> IF text + 1 = source.length THEN "stop" ELSE None])
    /\ UNCHANGED <<source, pieces, opened, told, last, pc, answer>>

MockEnds ==
    /\ Streaming("mock") /\ text = source.length /\ ~MockFails
    /\ Ended(Append(chunks, [text |-> 0, calls |-> <<>>, finish |-> source.finish]))
    /\ UNCHANGED <<source, text, pieces, opened, told, last>>

MockBreaks ==
    /\ Streaming("mock") /\ MockFails /\ pc' = "rejected"
    /\ UNCHANGED <<source, text, pieces, opened, told, last, chunks, answer>>

Next ==
    \/ End \/ Break
    \/ \E usage \in BOOLEAN :
          \/ SendText(usage) \/ Trail(usage)
          \/ \E some \in SUBSET Calls : SendCalls(some, usage)
          \/ \E reason \in {"stop", "tool_calls", "function_call"} : Finish(reason, usage)
    \/ MockYields \/ MockEnds \/ MockBreaks

Spec == Init /\ [][Next]_vars

-----------------------------------------------------------------------------

(* The calls as the vendor sent them.                                       *)
Sent == [i \in 1..Len(opened) |->
            [name |-> opened[i], args |-> [k \in 1..pieces[opened[i]] |-> <<opened[i], k>>]]]

(* An answer holds all the text that was sent and, if there is but one tool *)
(* call in the stream, that call with its arguments in order; that tools    *)
(* are to be called is never made up, and is told unless a chunk follows    *)
(* the one that told it, when the reason is lost; none is "unknown", but    *)
(* "stop" if the usage came last; and a broken stream gives no answer       *)
(* (accumulateChatChunks(), OpenAIProvider.runStream()).                    *)
AnswerIsWhatWasSent ==
    /\ pc = "answered" =>
          /\ answer.text = text
          /\ Len(opened) <= 1 => answer.calls = Sent
          /\ source.kind = "openai" =>
                /\ answer.finish = "tool_calls" => told \in {"tool_calls", "function_call"}
                /\ last.reason # None => answer.finish = FinishReason(told)
                /\ last.reason = None => answer.finish = IF last.usage THEN "stop" ELSE "unknown"
          /\ source.kind = "mock" => answer.finish = source.finish
    /\ pc # "answered" => answer = NoAnswer

(* Tool call deltas are accumulated by index (docs/architecture/llm.md):    *)
(* each call of the vendor's is a call of the answer.                       *)
ToolCallsKeepTheirIndex == pc = "answered" => answer.calls = Sent
=============================================================================
