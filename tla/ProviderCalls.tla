--------------------------- MODULE ProviderCalls ---------------------------
(***************************************************************************)
(* One call of a language model, from the configuration that makes a       *)
(* provider to the answer or the error its caller gets (packages/llm): the *)
(* factory with its builders, OpenAIProvider with its vendor, MockProvider *)
(* with its script, and the line instrument() logs about each call.  What  *)
(* a stream yields once it is open is in LLMStreaming.                     *)
(*                                                                         *)
(* A call of a tool is its id, a text whether it is there; what is not     *)
(* there yet is <<>>.  Usage is never on a call's span: withSpan() has     *)
(* ended it at the first await.                                            *)
(***************************************************************************)
EXTENDS Naturals, Sequences, FiniteSets, SequencesExt

CONSTANTS
    Callers,
    Configs,    \* [provider, model, apiKey, registrations]: what the configuration holds
    Conversations,      \* requests, [model, messages, tools, options, json]
    Replies,    \* the vendor's, [model, choices, usage]
    Failures,   \* what a vendor's SDK throws, [kind, status, code, type, retryAfter]
    Scripts     \* sequences of responses for the mock, [content, calls, finish]

None == "none"

VARIABLES
    builders,           \* name -> what it builds
    script,             \* the mock's responses still to come
    calls, logged,
    scripted, turns     \* history: the script set last, and who has called since

vars == <<builders, script, calls, logged, scripted, turns>>

At(seq, i) == IF i \in DOMAIN seq THEN <<seq[i]>> ELSE <<>>

NoCall == [pc |-> "idle", provider |-> None, model |-> None, key |-> None,
           operation |-> None, request |-> <<>>, sent |-> <<>>, scripted |-> <<>>,
           answer |-> <<>>, raw |-> <<>>, code |-> None, retryAfterMs |-> 0]

Init ==
    /\ builders = [name \in {"mock", "openai"} |-> name]
    /\ script = <<>> /\ scripted = <<>> /\ turns = <<>>
    /\ calls = [c \in Callers |-> NoCall] /\ logged = <<>>

Becomes(c, call) == calls' = [calls EXCEPT ![c] = call]

-----------------------------------------------------------------------------
(* The factory                                                              *)

(* registrations of any other shape than a list count as none.              *)
ParseRegistrations(entries) ==
    IF \E i \in DOMAIN entries : entries[i] \in {"no object", "no provider", "no model"}
    THEN "TypeError" ELSE "OK"

(* mutant: the builder takes an empty key for a key                         *)
BuildWithAnyKey(builder, config) ==
    IF builder = "openai" /\ config.apiKey = None THEN "AUTHENTICATION_FAILED" ELSE "OK"

Build(builder, config) ==
    IF builder = "openai" /\ config.apiKey \in {None, "empty"}
    THEN "AUTHENTICATION_FAILED" ELSE "OK"

Creation(config) ==
    IF config.provider \notin DOMAIN builders THEN "UNKNOWN_PROVIDER"
    ELSE Build(builders[config.provider], config)

Creates(c, config, code) ==
    /\ calls[c].pc = "idle"
    /\ Becomes(c, IF code = "OK"
                  THEN [calls[c] EXCEPT !.pc = "ready", !.model = config.model,
                                        !.provider = builders[config.provider],
                                        !.key = config.apiKey]
                  ELSE [calls[c] EXCEPT !.pc = "refused", !.code = code])
    /\ UNCHANGED <<builders, script, logged, scripted, turns>>

(* Every entry is read first, used or not.                                  *)
CreateProvider(c, config) ==
    Creates(c, config, IF ParseRegistrations(config.registrations) = "OK"
                       THEN Creation(config) ELSE "TypeError")

CreateProviderFromEntry(c, config) == Creates(c, config, Creation(config))

RegisterBuilder(name, builder) ==
    /\ builders' = [n \in DOMAIN builders \cup {name} |->
                       IF n = name THEN builder ELSE builders[n]]
    /\ UNCHANGED <<script, calls, logged, scripted, turns>>

UnregisterBuilder(name) ==
    /\ builders' = [n \in DOMAIN builders \ {name} |-> builders[n]]
    /\ UNCHANGED <<script, calls, logged, scripted, turns>>

-----------------------------------------------------------------------------
(* What the vendor is sent                                                  *)

(* mutant: what an assistant says is sent without the tools it called       *)
DropsCalls(message) ==
    [role |-> message.role, calls |-> {},
     answers |-> IF message.role = "tool" THEN message.answers ELSE None]

ToVendor(message) ==
    [role  |-> IF message.role \in {"system", "assistant", "tool"} THEN message.role ELSE "user",
     calls |-> IF message.role = "assistant" THEN message.calls ELSE {},
     answers |-> IF message.role = "tool" THEN message.answers ELSE None]

(* A list of no tools is sent as such.                                      *)
ChatParams(request, model, stream) ==
    [model |-> model, stream |-> stream, tools |-> request.tools,
     messages |-> [i \in DOMAIN request.messages |-> ToVendor(request.messages[i])],
     options |-> request.options \cup (IF request.json THEN {"json"} ELSE {})]

(* chat() and stream() fall back on the model of the provider, embeddings() *)
(* do not.                                                                  *)
Params(call, operation, request) ==
    IF operation = "embeddings" THEN [model |-> request.model]
    ELSE ChatParams(request, IF request.model = "" THEN call.model ELSE request.model,
                    operation = "stream")

-----------------------------------------------------------------------------
(* Tools (ToolTranslator.ts): [required, optional], lists of parameters     *)
(* [name, type, required].  Gemini's list of properties may name one twice, *)
(* an object's last one stays.                                              *)

Vendors == {"openai", "anthropic", "gemini"}

Types == {"string", "number", "boolean", "array", "object"}

TypeFor(vendor, type) ==
    IF vendor = "gemini" /\ type \notin Types THEN "string" ELSE type

(* mutant: the optional parameters are left out                             *)
TranslateRequired(tool, vendor) ==
    LET all == tool.required
    IN  [properties |-> [i \in DOMAIN all |-> [name |-> all[i].name,
                                               type |-> TypeFor(vendor, all[i].type)]],
         required |-> {all[i].name : i \in {j \in DOMAIN all : all[j].required}}]

(* The places of the parameters that stay.                                  *)
Kept(all, vendor) ==
    SelectSeq([i \in DOMAIN all |-> i],
              LAMBDA i : vendor = "gemini"
                            \/ \A j \in DOMAIN all : j > i => all[j].name # all[i].name)

Translate(tool, vendor) ==
    LET all  == tool.required \o tool.optional
        kept == Kept(all, vendor)
    IN  [properties |-> [i \in DOMAIN kept |->
                            [name |-> all[kept[i]].name,
                             type |-> TypeFor(vendor, all[kept[i]].type)]],
         required |-> {all[i].name : i \in {j \in DOMAIN all : all[j].required}}]

-----------------------------------------------------------------------------
(* Errors (mapping.ts)                                                      *)

Rule(code, statuses, codes) == [code |-> code, statuses |-> statuses, codes |-> codes]

ErrorRules ==
    <<Rule("AUTHENTICATION_FAILED", {401}, {"invalid_api_key", "authentication_failed"}),
      Rule("AUTHENTICATION_FAILED", {403}, {"insufficient_quota", "billing_hard_limit_reached"}),
      Rule("INVALID_MODEL", {404}, {"model_not_found", "invalid_model"}),
      Rule("TIMEOUT", {408}, {"request_timeout", "timeout", "request_time_out"}),
      Rule("CONTEXT_LENGTH_EXCEEDED", {413},
           {"context_length_exceeded", "context_window_exceeded"}),
      Rule("RATE_LIMITED", {429}, {"rate_limited"}),
      Rule("INVALID_REQUEST", {400},
           {"invalid_request", "invalid_request_error", "validation_error"}),
      Rule("PROVIDER_UNAVAILABLE", {}, {"server_error", "provider_unavailable"})>>

CodeOf(raw) == IF raw.code # None THEN raw.code ELSE raw.type

(* Every status from 500 on is the last rule's.                             *)
HasStatusOf(rule, raw) ==
    \/ raw.status \in rule.statuses
    \/ rule.code = "PROVIDER_UNAVAILABLE" /\ raw.status >= 500

(* An error that is none of an SDK's has neither status nor code.           *)
FirstRule(rules, raw) ==
    LET fitting == SelectSeq(rules, LAMBDA r : HasStatusOf(r, raw) \/ CodeOf(raw) \in r.codes)
    IN  IF fitting = <<>> THEN "PROVIDER_ERROR" ELSE Head(fitting).code

(* mutant: the statuses are asked first, then the codes                     *)
MapByStatus(raw) ==
    IF raw.kind = "llm" THEN raw.code
    ELSE IF \E i \in DOMAIN ErrorRules : HasStatusOf(ErrorRules[i], raw)
         THEN FirstRule(ErrorRules, [raw EXCEPT !.code = None, !.type = None])
         ELSE FirstRule(ErrorRules, raw)

MapSDKError(raw) == IF raw.kind = "llm" THEN raw.code ELSE FirstRule(ErrorRules, raw)

IsRetryableStatusCode(status) == status \in {408, 409, 429} \/ status >= 500

(* A header in seconds, or as a date (given here as what is left of it).    *)
RetryAfterMs(header) ==
    CASE header.form = "seconds" -> 1000 * header.value
      [] header.form = "date"    -> IF header.left > 0 THEN header.left ELSE 0
      [] OTHER                   -> 1000

-----------------------------------------------------------------------------
(* Calls (OpenAIProvider, MockProvider, observability.ts)                   *)

Line(c, text) == [caller |-> c, text |-> text]

Fail(c, code) == [calls[c] EXCEPT !.pc = "failed", !.code = code]

Call(c, operation, request) ==
    /\ calls[c].pc = "ready" /\ calls[c].provider = "openai"
    /\ Becomes(c, [calls[c] EXCEPT !.pc = "waiting", !.operation = operation,
                                   !.request = <<request>>,
                                   !.sent = <<Params(calls[c], operation, request)>>])
    /\ UNCHANGED <<builders, script, logged, scripted, turns>>

(* No choice is an empty text; "function_call", of the older interface, is  *)
(* "tool_calls", without the call.                                          *)
FinishReason(reason) ==
    CASE reason = "function_call" -> "tool_calls"
      [] reason \in {"stop", "length", "tool_calls", "content_filter"} -> reason
      [] OTHER -> "stop"

FromVendor(reply, sent) ==
    LET choice == IF reply.choices = <<>> THEN [text |-> FALSE, calls |-> <<>>, finish |-> None]
                  ELSE Head(reply.choices)
    IN  [text |-> choice.text, calls |-> choice.calls, finish |-> FinishReason(choice.finish),
         model |-> IF reply.model = None THEN sent.model ELSE reply.model,
         usage |-> reply.usage]

(* A stream has been answered when it opens: nothing is logged after that.  *)
VendorAnswers(c, reply) ==
    /\ calls[c].pc = "waiting" /\ calls[c].provider = "openai"
    /\ Becomes(c, [calls[c] EXCEPT
                      !.pc = IF calls[c].operation = "stream" THEN "open" ELSE "answered",
                      !.answer = IF calls[c].operation = "chat"
                                 THEN <<FromVendor(reply, calls[c].sent[1])>> ELSE <<>>])
    /\ logged' = Append(logged, Line(c, "succeeded"))
    /\ UNCHANGED <<builders, script, scripted, turns>>

VendorFails(c, raw) ==
    /\ calls[c].pc = "waiting" /\ calls[c].provider = "openai"
    /\ LET code == MapSDKError(raw) IN
       /\ Becomes(c, [Fail(c, code) EXCEPT
                         !.raw = <<raw>>,
                         !.retryAfterMs = IF code = "RATE_LIMITED"
                                          THEN RetryAfterMs(raw.retryAfter) ELSE 0])
       /\ logged' = Append(logged, Line(c, code))
    /\ UNCHANGED <<builders, script, scripted, turns>>

(* The consumer's loop throws what the SDK's iterator throws.               *)
StreamBreaks(c) ==
    /\ calls[c].pc = "open" /\ calls[c].provider = "openai"
    /\ Becomes(c, Fail(c, "unmapped"))
    /\ UNCHANGED <<builders, script, logged, scripted, turns>>

(* A response is taken when the call is made, and given after its delay.    *)
MockCall(c, request) ==
    /\ calls[c].pc = "ready" /\ calls[c].provider = "mock"
    /\ Becomes(c, [calls[c] EXCEPT !.pc = "waiting", !.operation = "chat",
                                   !.request = <<request>>,
                                   !.scripted = At(script, 1)])
    /\ script' = IF script = <<>> THEN script ELSE Tail(script)
    /\ turns' = Append(turns, c)
    /\ UNCHANGED <<builders, logged, scripted>>

(* mutant: the response is looked up again after the delay                  *)
GivesTheNext(c) ==
    /\ calls[c].pc = "waiting" /\ calls[c].provider = "mock"
    /\ Becomes(c, [calls[c] EXCEPT !.pc = "answered",
                                   !.answer = At(script, 1)])
    /\ logged' = Append(logged, Line(c, "succeeded"))
    /\ UNCHANGED <<builders, script, scripted, turns>>

(* Without a script the last message of the user is echoed.                 *)
MockAnswers(c) ==
    /\ calls[c].pc = "waiting" /\ calls[c].provider = "mock"
    /\ Becomes(c, [calls[c] EXCEPT !.pc = "answered", !.answer = calls[c].scripted])
    /\ logged' = Append(logged, Line(c, "succeeded"))
    /\ UNCHANGED <<builders, script, scripted, turns>>

(* A stream takes its response when it is opened.                           *)
MockOpens(c, request) ==
    /\ calls[c].pc = "ready" /\ calls[c].provider = "mock"
    /\ Becomes(c, [calls[c] EXCEPT !.pc = "open", !.operation = "stream",
                                   !.request = <<request>>, !.scripted = At(script, 1)])
    /\ script' = IF script = <<>> THEN script ELSE Tail(script)
    /\ turns' = Append(turns, c)
    /\ logged' = Append(logged, Line(c, "succeeded"))
    /\ UNCHANGED <<builders, scripted>>

(* Texts, by their lengths: a vector for each, and at least one token.      *)
MockEmbeds(c, texts) ==
    /\ calls[c].pc = "ready" /\ calls[c].provider = "mock"
    /\ LET tokens == FoldLeft(LAMBDA sum, n : sum + (IF n > 1 THEN n ELSE 1), 0, texts) IN
       Becomes(c, [calls[c] EXCEPT !.pc = "answered", !.operation = "embeddings",
                                   !.answer = <<[items |-> Len(texts), usage |-> tokens]>>])
    /\ logged' = Append(logged, Line(c, "succeeded"))
    /\ UNCHANGED <<builders, script, scripted, turns>>

(* A stream or embeddings of a mock that has none: thrown before            *)
(* instrument() is called.                                                  *)
MockRefuses(c, operation) ==
    /\ calls[c].pc = "ready" /\ calls[c].provider = "mock"
    /\ Becomes(c, [Fail(c, "PROVIDER_UNAVAILABLE") EXCEPT !.operation = operation])
    /\ UNCHANGED <<builders, script, logged, scripted, turns>>

SetResponses(new) ==
    /\ script' = new /\ scripted' = new /\ turns' = <<>>
    /\ UNCHANGED <<builders, calls, logged>>

Next ==
    \/ \E c \in Callers, config \in Configs :
          CreateProvider(c, config) \/ CreateProviderFromEntry(c, config)
    \/ \E name \in {"mock", "other"} : RegisterBuilder(name, "openai") \/ UnregisterBuilder(name)
    \/ \E c \in Callers, request \in Conversations :
          \/ MockCall(c, request) \/ MockOpens(c, request)
          \/ \E o \in {"chat", "stream", "embeddings"} : Call(c, o, request)
    \/ \E c \in Callers, reply \in Replies : VendorAnswers(c, reply)
    \/ \E c \in Callers, raw \in Failures : VendorFails(c, raw)
    \/ \E c \in Callers : StreamBreaks(c) \/ MockAnswers(c) \/ MockEmbeds(c, <<0, 3>>)
    \/ \E c \in Callers, o \in {"stream", "embeddings"} : MockRefuses(c, o)
    \/ \E new \in Scripts : SetResponses(new)

Spec == Init /\ [][Next]_vars

-----------------------------------------------------------------------------

Specific == {"AUTHENTICATION_FAILED", "INVALID_MODEL", "CONTEXT_LENGTH_EXCEEDED"}

Transient == {"TIMEOUT", "RATE_LIMITED", "PROVIDER_UNAVAILABLE"}

(* What a caller may try again stays apart from what it may not: a vendor   *)
(* that names its reason is believed whatever its status is (an exhausted   *)
(* quota is a 429, too long a context a 400), an error that says nothing    *)
(* else is transient if its status is, but for 409 (mapSDKError()).         *)
ErrorsKeepTheirReason ==
    \A c \in Callers :
        LET call == calls[c] IN
        \A k \in DOMAIN call.raw :
            call.raw[k].kind # "llm" =>
                /\ \A i \in DOMAIN ErrorRules :
                      ErrorRules[i].code \in Specific /\ CodeOf(call.raw[k]) \in ErrorRules[i].codes
                          => call.code \in Specific
                /\ CodeOf(call.raw[k]) = None =>
                      (call.code \in Transient)
                          = (IsRetryableStatusCode(call.raw[k].status) /\ call.raw[k].status # 409)

(* instrument() logs a line for each call that was made, with the code of   *)
(* the error its caller gets; a stream counts as a success once it is open, *)
(* whatever comes of it.                                                    *)
LinesTellTheCalls ==
    \A c \in Callers :
        LET call  == calls[c]
            lines == SelectSeq(logged, LAMBDA line : line.caller = c)
            made  == \/ call.pc \in {"answered", "open"}
                     \/ call.pc = "failed" /\ call.provider = "openai"
        IN  /\ Len(lines) = (IF made THEN 1 ELSE 0)
            /\ made => lines[1].text = IF call.pc = "failed" /\ call.code # "unmapped"
                                       THEN call.code ELSE "succeeded"

(* An answer of a tool follows the call it answers: a conversation in which *)
(* each does reaches the vendor as one, with all its messages, and with a   *)
(* model.                                                                   *)
Follows(messages) ==
    \A i \in DOMAIN messages : messages[i].role = "tool" =>
        \E j \in 1..(i - 1) : messages[i].answers \in messages[j].calls

ConversationsArrive ==
    \A c \in Callers : calls[c].operation # "embeddings" =>
        \A k \in DOMAIN calls[c].sent :
            LET sent    == calls[c].sent[k]
                request == calls[c].request[k]
            IN  /\ sent.model # ""
                /\ Len(sent.messages) = Len(request.messages)
                /\ Follows(request.messages) => Follows(sent.messages)

(* The mock's responses go to its callers in the order of their calls,      *)
(* whoever is answered first; a provider of OpenAI's has a key.             *)
ScriptIsFollowed ==
    /\ \A i \in DOMAIN turns :
          /\ calls[turns[i]].scripted = At(scripted, i)
          /\ calls[turns[i]].pc = "answered" => calls[turns[i]].answer = At(scripted, i)
    /\ \A c \in Callers : calls[c].provider = "openai" => calls[c].key \notin {None, "empty"}

(* A tool whose parameters are marked as they are listed asks a model for   *)
(* what the executor's validation asks for, and tells it all it may pass,   *)
(* whichever vendor the model is of.                                        *)
SchemasFitTheExecutor(tools) ==
    \A tool \in tools, vendor \in Vendors :
        LET schema == Translate(tool, vendor)
            names(list) == {list[i].name : i \in DOMAIN list}
            marked == /\ \A i \in DOMAIN tool.required : tool.required[i].required
                      /\ \A i \in DOMAIN tool.optional : ~tool.optional[i].required
        IN  /\ names(schema.properties) = names(tool.required) \cup names(tool.optional)
            /\ marked => schema.required = names(tool.required)
=============================================================================
