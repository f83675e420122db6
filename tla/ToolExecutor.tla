---------------------------- MODULE ToolExecutor ----------------------------
(***************************************************************************)
(* The tool calling framework (packages/llm/src/tools): a registry of      *)
(* definitions with their handlers, the chain of validations, and          *)
(* execute(), which races the handler of a call against a timer and tells  *)
(* its listeners what becomes of the call.                                 *)
(*                                                                         *)
(* execute() runs without a break up to the handler's first await; from    *)
(* then on its handler, its timer, other calls and the registry's owner    *)
(* interleave.                                                             *)
(***************************************************************************)
EXTENDS Naturals, Sequences, SequencesExt

CONSTANTS
    Calls,        \* the calls made of the executor
    Request,      \* what each asks for: [toolId, arguments, plugins, grants]
    Definitions   \* what may be registered, several versions of an id included:
                  \* [id, pluginId, enabled, required, optional, types, permissions]

None == "none"

VARIABLES
    registry,   \* the definition kept for each id registered
    faulty,     \* the events some listener throws on
    calls

toolVars == <<registry, faulty, calls>>

-----------------------------------------------------------------------------
(* The validations (ToolValidation.ts); arguments maps the names given to   *)
(* the kind of their values                                                 *)

Params(definition) == definition.required \cup definition.optional

ValidateRequired(definition, arguments) == definition.required \subseteq DOMAIN arguments

ValidateTypes(definition, arguments) ==
    \A p \in Params(definition) \cap DOMAIN arguments :
        arguments[p] \in {"null", definition.types[p]}

ValidateUnknown(definition, arguments) == DOMAIN arguments \subseteq Params(definition)

ValidateToolCall(request) ==
    /\ request.toolId \in DOMAIN registry
    /\ LET definition == registry[request.toolId] IN
       /\ definition.enabled
       /\ definition.pluginId \in request.plugins
       /\ ValidateRequired(definition, request.arguments)
       /\ ValidateTypes(definition, request.arguments)
       /\ ValidateUnknown(definition, request.arguments)

CheckPermissions(definition, request) == definition.permissions \subseteq request.grants

-----------------------------------------------------------------------------

ToolEvents == {"ToolRequested", "ToolStarted", "ToolCompleted", "ToolFailed"}

ErrorCodes == {"TOOL_VALIDATION_FAILED", "TOOL_PERMISSION_DENIED",
               "TOOL_TIMEOUT", "TOOL_EXECUTION_FAILED"}

IdleCall == [pc |-> "idle", handler |-> None, timer |-> None,
             events |-> <<>>, code |-> None]

ToolInit ==
    /\ registry = <<>>
    /\ faulty = {}
    /\ calls = [c \in Calls |-> IdleCall]

Register(definition) ==
    /\ registry' = [id \in DOMAIN registry \cup {definition.id} |->
                       IF id = definition.id THEN definition ELSE registry[id]]
    /\ UNCHANGED <<faulty, calls>>

Unregister(id) ==
    /\ id \in DOMAIN registry
    /\ registry' = [other \in DOMAIN registry \ {id} |-> registry[other]]
    /\ UNCHANGED <<faulty, calls>>

(* A listener is added that throws when told of such an event.  The         *)
(* listeners before it have seen the event.                                 *)
OnEvent(event) ==
    /\ faulty' = faulty \cup {event}
    /\ UNCHANGED <<registry, calls>>

(* An exception outside the try block rejects execute().                    *)
Emit(call, event) ==
    IF call.pc = "rejected" THEN call
    ELSE [call EXCEPT !.events = Append(@, event),
                      !.pc = IF event \in faulty THEN "rejected" ELSE @]

(* mutant: a timeout is returned and not told                               *)
FailQuietly(call, code) ==
    LET told == IF code = "TOOL_TIMEOUT" THEN call ELSE Emit(call, "ToolFailed")
    IN  IF told.pc = "rejected" THEN told ELSE [told EXCEPT !.pc = "returned", !.code = code]

Fail(call, code) ==
    LET told == Emit(call, "ToolFailed")
    IN  IF told.pc = "rejected" THEN told ELSE [told EXCEPT !.pc = "returned", !.code = code]

(* ToolCompleted is emitted inside the try block: a listener that throws on *)
(* it fails the call.                                                       *)
Succeed(call) ==
    LET told == [call EXCEPT !.events = Append(@, "ToolCompleted")]
    IN  IF "ToolCompleted" \in faulty THEN Fail(told, "TOOL_EXECUTION_FAILED")
        ELSE [told EXCEPT !.pc = "returned", !.code = "OK"]

Becomes(c, call) ==
    /\ calls' = [calls EXCEPT ![c] = call]
    /\ UNCHANGED <<registry, faulty>>

Requested(c) == Emit(calls[c], "ToolRequested")

ExecuteInvalid(c) ==
    /\ calls[c].pc = "idle" /\ ~ValidateToolCall(Request[c])
    /\ Becomes(c, Fail(Requested(c), "TOOL_VALIDATION_FAILED"))

ExecuteDenied(c) ==
    /\ calls[c].pc = "idle" /\ ValidateToolCall(Request[c])
    /\ ~CheckPermissions(registry[Request[c].toolId], Request[c])
    /\ Becomes(c, Fail(Requested(c), "TOOL_PERMISSION_DENIED"))

(* The handler is the one registered now, whatever is registered later.  It *)
(* may throw before it awaits anything: the timer set before is then left   *)
(* running.                                                                 *)
Execute(c) ==
    /\ calls[c].pc = "idle" /\ ValidateToolCall(Request[c])
    /\ CheckPermissions(registry[Request[c].toolId], Request[c])
    /\ LET started == Emit(Requested(c), "ToolStarted")
           running == [started EXCEPT !.pc = "running", !.timer = "armed"]
       IN  \/ started.pc = "rejected" /\ Becomes(c, started)
           \/ /\ started.pc # "rejected"
              /\ \/ Becomes(c, [running EXCEPT !.handler = "running"])
                 \/ Becomes(c, Fail([running EXCEPT !.handler = "threw"],
                                    "TOOL_EXECUTION_FAILED"))

(* mutant: what the handler answers is reported, late or not                *)
HandlerReports(c, ok) ==
    /\ calls[c].handler = "running"
    /\ LET call == [calls[c] EXCEPT !.handler = "answered", !.timer = None]
       IN  Becomes(c, IF ok THEN Succeed(call) ELSE Fail(call, "TOOL_EXECUTION_FAILED"))

(* The handler answers, or throws.  A call that has timed out is settled    *)
(* already: only the work is done.                                          *)
HandlerSettles(c, ok) ==
    /\ calls[c].handler = "running"
    /\ LET call == [calls[c] EXCEPT !.handler = "answered", !.timer = None]
       IN  \/ call.pc # "running" /\ Becomes(c, call)
           \/ /\ call.pc = "running"
              /\ Becomes(c, IF ok THEN Succeed(call)
                            ELSE Fail(call, "TOOL_EXECUTION_FAILED"))

(* mutant: the timer waits for the handler                                  *)
TimerRestarts(c) ==
    /\ calls[c].timer = "armed" /\ calls[c].handler # "running"
    /\ Becomes(c, [calls[c] EXCEPT !.timer = None])

TimerFires(c) ==
    /\ calls[c].timer = "armed"
    /\ LET call == [calls[c] EXCEPT !.timer = None]
       IN  Becomes(c, IF call.pc = "running" THEN Fail(call, "TOOL_TIMEOUT") ELSE call)

ToolNext ==
    \/ \E definition \in Definitions : Register(definition) \/ Unregister(definition.id)
    \/ \E event \in ToolEvents : OnEvent(event)
    \/ \E c \in Calls :
          \/ ExecuteInvalid(c) \/ ExecuteDenied(c) \/ Execute(c) \/ TimerFires(c)
          \/ \E ok \in BOOLEAN : HandlerSettles(c, ok)

(* Timers fire; a handler need not answer.                                  *)
ToolFairness == \A c \in Calls : WF_toolVars(TimerFires(c))

ToolSpec == ToolInit /\ [][ToolNext]_toolVars

-----------------------------------------------------------------------------

(* The registry and the calls keep their shape, and a timer is set only for *)
(* a call that was announced as started (execute, executeWithTimeout).          *)
ToolTypeOK ==
    /\ DOMAIN registry \subseteq {d.id : d \in Definitions}
    /\ \A id \in DOMAIN registry : registry[id] \in Definitions /\ registry[id].id = id
    /\ faulty \subseteq ToolEvents
    /\ \A c \in Calls :
          /\ calls[c].pc \in {"idle", "running", "returned", "rejected"}
          /\ calls[c].handler \in {None, "running", "threw", "answered"}
          /\ calls[c].timer \in {None, "armed"}
          /\ calls[c].events \in Seq(ToolEvents)
          /\ calls[c].code \in ErrorCodes \cup {None, "OK"}
          /\ calls[c].timer = "armed" => calls[c].events[2] = "ToolStarted"

TellsTheResult(call) ==
    LET told   == call.events
        failed == {i \in 1..Len(told) : told[i] = "ToolFailed"}
    IN  /\ told[1] = "ToolRequested"
        /\ call.code = "OK" <=> told[Len(told)] = "ToolCompleted"
        /\ failed = IF call.code = "OK" THEN {} ELSE {Len(told)}
        /\ (call.code \in {"OK", "TOOL_TIMEOUT"} \/ call.handler # None)
               => told[2] = "ToolStarted"

(* Of a call that returns, the last event tells how it ended: completed     *)
(* exactly for a success, failed once for a failure, and one that ran or    *)
(* timed out was announced as started (ToolExecutor.execute()).             *)
EventsTellTheResult ==
    \A c \in Calls : calls[c].pc = "returned" => TellsTheResult(calls[c])

(* What execute() has answered stands: a handler that answers after the     *)
(* timer, or a timer that was left running, tells nobody anything more.     *)
AnswersStand ==
    \A c \in Calls : calls[c].pc \in {"returned", "rejected"} =>
        /\ calls'[c].pc = calls[c].pc /\ calls'[c].code = calls[c].code
        /\ calls'[c].events = calls[c].events

(* Both, at every step: a call is told as it ended by the step that answers *)
(* it, and none after takes anything back (ToolExecutor.execute()).         *)
CallsTellTheirResults == [][EventsTellTheResult' /\ AnswersStand]_toolVars

(* A call under way; the timer of executeWithTimeout() ends it even if its  *)
(* handler never answers.                                                   *)
Unanswered(c) == calls[c].pc = "running"
=============================================================================
