---------------------------- MODULE AgentProofs ----------------------------
(***************************************************************************)
(* Proofs about two parts agents work with.  The tool executor, for any    *)
(* tools, any calls at once and any registrations meanwhile: calls do not  *)
(* touch each other, so the invariant is one about a single call, and the  *)
(* lemmas follow a call through what execute() emits.  The event writer,   *)
(* for any executions of any plans: executions meet only in the nodes of   *)
(* steps with one id, so the invariant is one about a single execution and *)
(* the graph, and the lemmas follow what an event adds to the graph.       *)
(***************************************************************************)
EXTENDS ToolExecutor, GraphitiEventWriter, TLAPS

CallRecords ==
    [pc      : {"idle", "running", "returned", "rejected"},
     handler : {None, "running", "threw", "answered"},
     timer   : {None, "armed"},
     events  : Seq(ToolEvents),
     code    : ErrorCodes \cup {None, "OK"}]

Started(call) == Len(call.events) >= 2 /\ call.events[2] = "ToolStarted"

StartedLast(call) == Len(call.events) = 2 /\ Started(call)

(* A call that has emitted what execute() emits first.                      *)
Opened(call) ==
    /\ call \in CallRecords
    /\ call.events # <<>> /\ call.events[1] = "ToolRequested"
    /\ (call.handler # None \/ call.timer = "armed") => Started(call)

CallInv(call) ==
    /\ call \in CallRecords
    /\ call.pc = "idle" => call = IdleCall
    /\ call.pc # "idle" => Opened(call)
    /\ call.pc = "running" => StartedLast(call)
    /\ call.pc = "returned" => TellsTheResult(call)

RegistryInv ==
    /\ DOMAIN registry \subseteq {d.id : d \in Definitions}
    /\ \A id \in DOMAIN registry : registry[id] \in Definitions /\ registry[id].id = id

IInv ==
    /\ RegistryInv /\ faulty \subseteq ToolEvents
    /\ calls \in [Calls -> CallRecords]
    /\ \A c \in Calls : CallInv(calls[c])

-----------------------------------------------------------------------------
(* What emitting and failing do to a call                                   *)

LEMMA AppendIs ==
    ASSUME NEW S, NEW s \in Seq(S), NEW e \in S
    PROVE  /\ Append(s, e) \in Seq(S) /\ Len(Append(s, e)) = Len(s) + 1
           /\ Append(s, e)[Len(s) + 1] = e
           /\ \A i \in 1..Len(s) : Append(s, e)[i] = s[i]
OBVIOUS

LEMMA EmitTells ==
    ASSUME NEW call \in CallRecords, NEW event \in ToolEvents, call.pc # "rejected"
    PROVE  /\ Emit(call, event) \in CallRecords
           /\ Emit(call, event).events = Append(call.events, event)
           /\ Emit(call, event).pc \in {call.pc, "rejected"}
           /\ Emit(call, event).handler = call.handler
           /\ Emit(call, event).timer = call.timer
           /\ Emit(call, event).code = call.code
<1> DEFINE pc == IF event \in faulty THEN "rejected" ELSE call.pc
<1>1. Emit(call, event) = [call EXCEPT !.events = Append(@, event), !.pc = pc]
  BY DEF Emit
<1>2. Append(call.events, event) \in Seq(ToolEvents)
  BY DEF CallRecords
<1>3. pc \in {"idle", "running", "returned", "rejected"}
  BY DEF CallRecords
<1> HIDE DEF pc
<1>4. /\ Emit(call, event) \in CallRecords
      /\ Emit(call, event).events = Append(call.events, event)
      /\ Emit(call, event).pc = pc
      /\ Emit(call, event).handler = call.handler
      /\ Emit(call, event).timer = call.timer
      /\ Emit(call, event).code = call.code
  BY <1>1, <1>2, <1>3 DEF CallRecords
<1> QED BY <1>4 DEF pc

(* An opened call that nobody was told has failed, and that then fails.     *)
LEMMA FailTells ==
    ASSUME NEW call, Opened(call), NEW code \in ErrorCodes,
           call.pc \notin {"returned", "rejected"},
           \A i \in 1..Len(call.events) : call.events[i] # "ToolFailed",
           code = "TOOL_TIMEOUT" => Started(call)
    PROVE  CallInv(Fail(call, code)) /\ Fail(call, code).pc \in {"returned", "rejected"}
<1> DEFINE told == Emit(call, "ToolFailed")
           n    == Len(call.events)
<1>1. /\ told \in CallRecords /\ told.events = Append(call.events, "ToolFailed")
      /\ told.handler = call.handler /\ told.timer = call.timer
      /\ told.pc \in {call.pc, "rejected"}
  BY EmitTells DEF Opened, ToolEvents
<1>2. /\ n \in Nat /\ n >= 1 /\ Len(told.events) = n + 1
      /\ told.events[n + 1] = "ToolFailed"
      /\ \A i \in 1..n : told.events[i] = call.events[i]
  BY <1>1 DEF Opened, CallRecords
<1>3. (call.handler # None \/ call.timer = "armed" \/ code = "TOOL_TIMEOUT") => Started(told)
  BY <1>2 DEF Opened, Started
<1>4. Opened(told)
  BY <1>1, <1>2, <1>3 DEF Opened
<1> HIDE DEF told
<1>5. CASE told.pc = "rejected"
  <2>1. Fail(call, code) = told
    BY <1>5 DEF Fail, told
  <2> QED BY <1>1, <1>4, <1>5, <2>1 DEF CallInv
<1>6. CASE told.pc # "rejected"
  <2> DEFINE over == [told EXCEPT !.pc = "returned", !.code = code]
  <2>1. Fail(call, code) = over
    BY <1>6 DEF Fail, told
  <2>2. /\ over \in CallRecords /\ over.pc = "returned" /\ over.code = code
        /\ over.events = told.events /\ over.handler = told.handler /\ over.timer = told.timer
    BY <1>1 DEF CallRecords
  <2>3. Opened(over)
    BY <1>4, <2>2 DEF Opened, Started
  <2>4. code # "OK" /\ code # None
    BY DEF ErrorCodes, None
  <2>5. {i \in 1..Len(over.events) : over.events[i] = "ToolFailed"} = {Len(over.events)}
    <3>1. PICK events : events = over.events
      OBVIOUS
    <3>2. Len(events) = n + 1 /\ n \in Nat
      BY <1>2, <2>2, <3>1
    <3>3. \A i \in 1..(n + 1) : events[i] = "ToolFailed" <=> i = n + 1
      BY <1>2, <2>2, <3>1, <3>2
    <3> QED BY <3>1, <3>2, <3>3
  <2>6. TellsTheResult(over)
    BY <1>1, <1>2, <1>3, <2>2, <2>3, <2>4, <2>5 DEF TellsTheResult, Opened, Started
  <2> QED BY <2>1, <2>2, <2>3, <2>6 DEF CallInv
<1> QED BY <1>5, <1>6

(* A call that runs, has been told of twice, and succeeds.                  *)
LEMMA SucceedTells ==
    ASSUME NEW call, Opened(call), call.pc = "running", StartedLast(call)
    PROVE  CallInv(Succeed(call)) /\ Succeed(call).pc \in {"returned", "rejected"}
<1> DEFINE told == [call EXCEPT !.events = Append(@, "ToolCompleted")]
<1>1. /\ Append(call.events, "ToolCompleted") \in Seq(ToolEvents)
      /\ Len(Append(call.events, "ToolCompleted")) = 3
      /\ Append(call.events, "ToolCompleted")[1] = "ToolRequested"
      /\ Append(call.events, "ToolCompleted")[2] = "ToolStarted"
      /\ Append(call.events, "ToolCompleted")[3] = "ToolCompleted"
  <2>1. "ToolCompleted" \in ToolEvents
    BY DEF ToolEvents
  <2>2. call.events \in Seq(ToolEvents)
    BY DEF Opened, CallRecords
  <2> DEFINE longer == Append(call.events, "ToolCompleted")
  <2>3. /\ longer \in Seq(ToolEvents) /\ Len(longer) = Len(call.events) + 1
        /\ longer[Len(call.events) + 1] = "ToolCompleted"
        /\ \A i \in 1..Len(call.events) : longer[i] = call.events[i]
    BY <2>1, <2>2, AppendIs
  <2> HIDE DEF longer
  <2>4. /\ longer \in Seq(ToolEvents) /\ Len(longer) = 3 /\ longer[1] = "ToolRequested"
        /\ longer[2] = "ToolStarted" /\ longer[3] = "ToolCompleted"
    BY <2>2, <2>3 DEF Opened, Started, StartedLast
  <2> QED BY <2>4 DEF longer
<1>2. /\ told \in CallRecords /\ told.pc = "running"
      /\ told.events = Append(call.events, "ToolCompleted")
      /\ told.handler = call.handler /\ told.timer = call.timer
  BY <1>1 DEF Opened, CallRecords
<1>3. /\ Len(told.events) = 3 /\ told.events[1] = "ToolRequested"
      /\ told.events[2] = "ToolStarted" /\ told.events[3] = "ToolCompleted"
  BY <1>1, <1>2
<1>4. \A i \in 1..Len(told.events) : told.events[i] # "ToolFailed"
  <2> SUFFICES ASSUME NEW i \in {1, 2, 3} PROVE told.events[i] # "ToolFailed"
    BY <1>3
  <2> QED BY <1>3
<1>5. Opened(told)
  BY <1>2, <1>3 DEF Opened, Started
<1> HIDE DEF told
<1>6. CASE "ToolCompleted" \in faulty
  <2>1. Succeed(call) = Fail(told, "TOOL_EXECUTION_FAILED")
    BY <1>6 DEF Succeed, told
  <2> QED BY <1>2, <1>4, <1>5, <2>1, FailTells DEF ErrorCodes
<1>7. CASE "ToolCompleted" \notin faulty
  <2> DEFINE over == [told EXCEPT !.pc = "returned", !.code = "OK"]
  <2>1. Succeed(call) = over
    BY <1>7 DEF Succeed, told
  <2>2. /\ over \in CallRecords /\ over.pc = "returned" /\ over.code = "OK"
        /\ over.events = told.events
        /\ over.handler = told.handler /\ over.timer = told.timer
    BY <1>2 DEF CallRecords
  <2>3. Opened(over)
    BY <1>5, <2>2 DEF Opened, Started
  <2>4. TellsTheResult(over)
    BY <1>3, <1>4, <2>2 DEF TellsTheResult
  <2> QED BY <2>1, <2>2, <2>3, <2>4 DEF CallInv
<1> QED BY <1>6, <1>7

-----------------------------------------------------------------------------
(* The invariant is kept.                                                   *)

LEMMA InitIInv == ToolInit => IInv
<1> SUFFICES ASSUME ToolInit PROVE IInv
  OBVIOUS
<1>1. RegistryInv /\ faulty \subseteq ToolEvents
  BY DEF ToolInit, RegistryInv
<1>2. IdleCall \in CallRecords /\ IdleCall.pc = "idle"
  BY DEF IdleCall, CallRecords, None
<1>3. CallInv(IdleCall)
  BY <1>2 DEF CallInv
<1> QED BY <1>1, <1>2, <1>3 DEF ToolInit, IInv

(* A call that moves leaves the others alone.                               *)
LEMMA OneCallMoves ==
    ASSUME IInv, NEW c \in Calls, NEW call, CallInv(call), Becomes(c, call)
    PROVE  IInv'
<1>1. call \in CallRecords
  BY DEF CallInv
<1>2. calls' \in [Calls -> CallRecords] /\ UNCHANGED <<registry, faulty>>
  BY <1>1 DEF Becomes, IInv
<1>3. \A d \in Calls : calls'[d] = IF d = c THEN call ELSE calls[d]
  BY DEF Becomes, IInv
<1>4. \A d \in Calls : CallInv(calls'[d])
  BY <1>3 DEF IInv
<1> QED BY <1>2, <1>4 DEF IInv, RegistryInv, CallInv, Opened, Started, TellsTheResult

(* What execute() has emitted when it has validated the call.               *)
LEMMA RequestedIs ==
    ASSUME IInv, NEW c \in Calls, calls[c].pc = "idle"
    PROVE  /\ Opened(Requested(c)) /\ Len(Requested(c).events) = 1
           /\ Requested(c).pc \in {"idle", "rejected"}
           /\ Requested(c).handler = None /\ Requested(c).timer = None
<1>1. calls[c] = IdleCall /\ IdleCall \in CallRecords /\ IdleCall.pc = "idle"
  BY DEF IInv, CallInv
<1>2. IdleCall.events = <<>> /\ IdleCall.handler = None /\ IdleCall.timer = None
  BY DEF IdleCall
<1>3. /\ Requested(c) \in CallRecords /\ Requested(c).events = Append(<<>>, "ToolRequested")
      /\ Requested(c).pc \in {"idle", "rejected"}
      /\ Requested(c).handler = None /\ Requested(c).timer = None
  BY <1>1, <1>2, EmitTells DEF Requested, ToolEvents
<1>4. /\ Requested(c).events # <<>> /\ Requested(c).events[1] = "ToolRequested"
      /\ Len(Requested(c).events) = 1
  BY <1>3
<1> QED BY <1>3, <1>4 DEF Opened, None

LEMMA RejectedStays ==
    ASSUME NEW call, call.pc = "rejected", NEW code
    PROVE  Fail(call, code) = call
BY DEF Fail, Emit

LEMMA RefusedIsTold ==
    ASSUME IInv, NEW c \in Calls, calls[c].pc = "idle",
           NEW code \in {"TOOL_VALIDATION_FAILED", "TOOL_PERMISSION_DENIED"},
           Becomes(c, Fail(Requested(c), code))
    PROVE  IInv'
<1> DEFINE call == Requested(c)
<1>1. /\ Opened(call) /\ Len(call.events) = 1
      /\ call.pc \in {"idle", "rejected"} /\ call.handler = None /\ call.timer = None
  BY RequestedIs
<1>2. CASE call.pc = "idle"
  <2>1. \A i \in 1..Len(call.events) : call.events[i] # "ToolFailed"
    BY <1>1 DEF Opened
  <2>2. CallInv(Fail(call, code))
    BY <1>1, <1>2, <2>1, FailTells DEF ErrorCodes
  <2> QED BY <2>2, OneCallMoves
<1>3. CASE call.pc = "rejected"
  <2>1. CallInv(call) /\ Fail(call, code) = call
    BY <1>1, <1>3, RejectedStays DEF CallInv, Opened
  <2> QED BY <2>1, OneCallMoves
<1> QED BY <1>1, <1>2, <1>3

(* A call that is validated: it is announced as started, and its handler    *)
(* runs or has thrown, unless a listener has thrown.                        *)
LEMMA ExecuteIsTold ==
    ASSUME IInv, NEW c \in Calls, Execute(c)
    PROVE  IInv'
<1> DEFINE asked   == Requested(c)
           started == Emit(asked, "ToolStarted")
           running == [started EXCEPT !.pc = "running", !.timer = "armed"]
           waiting == [running EXCEPT !.handler = "running"]
           threw   == [running EXCEPT !.handler = "threw"]
<1>1. /\ Opened(asked) /\ Len(asked.events) = 1
      /\ asked.pc \in {"idle", "rejected"} /\ asked.handler = None /\ asked.timer = None
  BY RequestedIs DEF Execute
<1>2. CASE asked.pc = "rejected"
  <2>1. started = asked /\ CallInv(asked)
    BY <1>1, <1>2 DEF Emit, CallInv, Opened
  <2>2. Becomes(c, asked)
    BY <1>2, <2>1 DEF Execute
  <2> QED BY <2>1, <2>2, OneCallMoves
<1>3. CASE asked.pc = "idle"
  <2>1. /\ started \in CallRecords /\ started.events = Append(asked.events, "ToolStarted")
        /\ started.pc \in {"idle", "rejected"}
        /\ started.handler = None /\ started.timer = None
    BY <1>1, <1>3, EmitTells DEF Opened, ToolEvents
  <2>2. /\ Len(started.events) = 2 /\ started.events # <<>>
        /\ started.events[1] = "ToolRequested" /\ started.events[2] = "ToolStarted"
    <3>1. asked.events \in Seq(ToolEvents) /\ asked.events[1] = "ToolRequested"
      BY <1>1 DEF Opened, CallRecords
    <3>2. "ToolStarted" \in ToolEvents
      BY DEF ToolEvents
    <3> DEFINE longer == Append(asked.events, "ToolStarted")
    <3> HIDE DEF asked
    <3>3. /\ longer \in Seq(ToolEvents) /\ Len(longer) = Len(asked.events) + 1
          /\ longer[Len(asked.events) + 1] = "ToolStarted"
          /\ \A i \in 1..Len(asked.events) : longer[i] = asked.events[i]
      BY <3>1, <3>2, AppendIs
    <3> HIDE DEF longer
    <3>4. /\ longer # <<>> /\ Len(longer) = 2
          /\ longer[1] = "ToolRequested" /\ longer[2] = "ToolStarted"
      BY <1>1, <3>1, <3>3
    <3>5. started.events = longer
      BY <2>1 DEF longer
    <3> QED BY <3>4, <3>5
  <2> HIDE DEF asked, started
  <2>3. CASE started.pc = "rejected"
    <3>1. CallInv(started)
      BY <2>1, <2>2, <2>3 DEF CallInv, Opened, None
    <3>2. Becomes(c, started)
      BY <2>3 DEF Execute, started, asked
    <3> QED BY <3>1, <3>2, OneCallMoves
  <2>4. CASE started.pc # "rejected"
    <3>1. /\ waiting \in CallRecords /\ waiting.pc = "running"
          /\ waiting.events = started.events
      BY <2>1 DEF CallRecords
    <3>2. /\ threw \in CallRecords /\ threw.pc = "running"
          /\ threw.events = started.events
      BY <2>1 DEF CallRecords
    <3>3. CallInv(waiting)
      BY <2>2, <3>1 DEF CallInv, Opened, Started, StartedLast
    <3>4. Opened(threw) /\ \A i \in 1..Len(threw.events) : threw.events[i] # "ToolFailed"
      BY <2>2, <3>2 DEF Opened, Started
    <3>5. CallInv(Fail(threw, "TOOL_EXECUTION_FAILED"))
      BY <3>2, <3>4, FailTells DEF ErrorCodes
    <3>6. \/ Becomes(c, waiting)
          \/ Becomes(c, Fail(threw, "TOOL_EXECUTION_FAILED"))
      BY <2>4 DEF Execute, started, asked
    <3> QED BY <3>3, <3>5, <3>6, OneCallMoves
  <2> QED BY <2>3, <2>4
<1> QED BY <1>1, <1>2, <1>3

(* What a running call has been told of.                                    *)
LEMMA RunningIs ==
    ASSUME NEW call, CallInv(call), call.pc = "running"
    PROVE  /\ Opened(call) /\ StartedLast(call)
           /\ \A i \in 1..Len(call.events) : call.events[i] # "ToolFailed"
BY DEF CallInv, Opened, Started, StartedLast

(* The handler answers: a call that runs ends, one that has ended only      *)
(* keeps the record that its handler is done.                               *)
LEMMA HandlerIsTold ==
    ASSUME IInv, NEW c \in Calls, NEW ok \in BOOLEAN, HandlerSettles(c, ok)
    PROVE  IInv'
<1> DEFINE old  == calls[c]
           call == [old EXCEPT !.handler = "answered", !.timer = None]
<1>1. CallInv(old) /\ old.handler = "running"
  BY DEF HandlerSettles, IInv
<1>2. /\ call \in CallRecords /\ call.pc = old.pc /\ call.events = old.events
      /\ call.code = old.code /\ call.handler = "answered" /\ call.timer = None
  BY <1>1 DEF CallInv, CallRecords, None
<1>3. old.pc # "idle"
  BY <1>1 DEF CallInv, IdleCall, None
<1>4. Opened(old) /\ Started(old)
  BY <1>1, <1>3 DEF CallInv, Opened, None
<1>5. Opened(call)
  BY <1>2, <1>4 DEF Opened, Started
<1>6. CASE old.pc # "running"
  <2>1. old.pc = "returned" => TellsTheResult(call)
    BY <1>1, <1>2, <1>4 DEF CallInv, TellsTheResult, Started
  <2>2. CallInv(call)
    BY <1>2, <1>3, <1>5, <1>6, <2>1 DEF CallInv
  <2>3. Becomes(c, call)
    BY <1>2, <1>6 DEF HandlerSettles
  <2> QED BY <2>2, <2>3, OneCallMoves
<1>7. CASE old.pc = "running"
  <2>1. CallInv(call)
    BY <1>1, <1>2, <1>5, <1>7 DEF CallInv, Started, StartedLast
  <2>2. CallInv(Succeed(call)) /\ CallInv(Fail(call, "TOOL_EXECUTION_FAILED"))
    <3> HIDE DEF call
    <3>1. /\ call.pc = "running" /\ Opened(call) /\ StartedLast(call)
          /\ \A i \in 1..Len(call.events) : call.events[i] # "ToolFailed"
      BY <1>2, <1>7, <2>1, RunningIs
    <3>2. CallInv(Succeed(call))
      BY <3>1, SucceedTells
    <3>3. CallInv(Fail(call, "TOOL_EXECUTION_FAILED"))
      BY <3>1, FailTells DEF ErrorCodes
    <3> QED BY <3>2, <3>3
  <2>3. Becomes(c, Succeed(call)) \/ Becomes(c, Fail(call, "TOOL_EXECUTION_FAILED"))
    BY <1>2, <1>7 DEF HandlerSettles
  <2> QED BY <2>2, <2>3, OneCallMoves
<1> QED BY <1>6, <1>7

LEMMA TimerIsTold ==
    ASSUME IInv, NEW c \in Calls, TimerFires(c)
    PROVE  IInv'
<1> DEFINE old  == calls[c]
           call == [old EXCEPT !.timer = None]
<1>1. CallInv(old) /\ old.timer = "armed"
  BY DEF TimerFires, IInv
<1>2. /\ call \in CallRecords /\ call.pc = old.pc /\ call.events = old.events
      /\ call.code = old.code /\ call.handler = old.handler /\ call.timer = None
  BY <1>1 DEF CallInv, CallRecords, None
<1>3. old.pc # "idle"
  BY <1>1 DEF CallInv, IdleCall, None
<1>4. Opened(old)
  BY <1>1, <1>3 DEF CallInv
<1>5. Opened(call)
  BY <1>1, <1>2, <1>4 DEF Opened, Started
<1>6. CallInv(call)
  BY <1>1, <1>2, <1>3, <1>5 DEF CallInv, TellsTheResult, Started, StartedLast
<1>7. CASE old.pc # "running"
  BY <1>2, <1>6, <1>7, OneCallMoves DEF TimerFires
<1>8. CASE old.pc = "running"
  <2>1. CallInv(Fail(call, "TOOL_TIMEOUT"))
    <3> HIDE DEF call
    <3>1. /\ call.pc = "running" /\ Opened(call) /\ StartedLast(call)
          /\ \A i \in 1..Len(call.events) : call.events[i] # "ToolFailed"
      BY <1>2, <1>6, <1>8, RunningIs
    <3> QED BY <3>1, FailTells DEF ErrorCodes, StartedLast
  <2> QED BY <1>2, <1>8, <2>1, OneCallMoves DEF TimerFires
<1> QED BY <1>7, <1>8

LEMMA StepIInv == IInv /\ [ToolNext]_toolVars => IInv'
<1> SUFFICES ASSUME IInv, [ToolNext]_toolVars PROVE IInv'
  OBVIOUS
<1>1. ASSUME NEW definition \in Definitions, Register(definition)
      PROVE  IInv'
  BY <1>1 DEF Register, IInv, RegistryInv
<1>2. ASSUME NEW definition \in Definitions, Unregister(definition.id)
      PROVE  IInv'
  BY <1>2 DEF Unregister, IInv, RegistryInv
<1>3. ASSUME NEW event \in ToolEvents, OnEvent(event)
      PROVE  IInv'
  BY <1>3 DEF OnEvent, IInv, RegistryInv
<1>4. ASSUME NEW c \in Calls, ExecuteInvalid(c) \/ ExecuteDenied(c)
      PROVE  IInv'
  BY <1>4, RefusedIsTold DEF ExecuteInvalid, ExecuteDenied
<1>5. CASE UNCHANGED toolVars
  BY <1>5 DEF toolVars, IInv, RegistryInv
<1> QED
  BY <1>1, <1>2, <1>3, <1>4, <1>5, ExecuteIsTold, HandlerIsTold, TimerIsTold DEF ToolNext

-----------------------------------------------------------------------------

(* The registry keeps what was registered under its id, and every call has  *)
(* its shape.                                                               *)
THEOREM TypeCorrect == ToolSpec => []ToolTypeOK
<1>1. ToolSpec => []IInv
  BY InitIInv, StepIInv, PTL DEF ToolSpec
<1>2. IInv => ToolTypeOK
  <2> SUFFICES ASSUME IInv, NEW c \in Calls
               PROVE  /\ calls[c] \in CallRecords
                      /\ calls[c].timer = "armed" => calls[c].events[2] = "ToolStarted"
    BY DEF IInv, RegistryInv, CallRecords, ToolTypeOK
  <2>1. calls[c] \in CallRecords /\ CallInv(calls[c])
    BY DEF IInv
  <2>2. calls[c].timer = "armed" => calls[c].pc # "idle"
    BY <2>1 DEF CallInv, IdleCall, None
  <2> QED BY <2>1, <2>2 DEF CallInv, Opened, Started
<1> QED BY <1>1, <1>2, PTL

(* Of any number of calls at once, whatever their listeners do, each that   *)
(* returns has been told as it ended.                                       *)
THEOREM ResultsAreTold == ToolSpec => []EventsTellTheResult
<1>1. ToolSpec => []IInv
  BY InitIInv, StepIInv, PTL DEF ToolSpec
<1>2. IInv => EventsTellTheResult
  BY DEF IInv, CallInv, EventsTellTheResult
<1> QED BY <1>1, <1>2, PTL

-----------------------------------------------------------------------------
(* An answer                                                                *)

LEMMA StepKeepsAnswers == IInv /\ [ToolNext]_toolVars => [AnswersStand]_toolVars
<1> SUFFICES ASSUME IInv, ToolNext, NEW c \in Calls,
                    calls[c].pc \in {"returned", "rejected"}
             PROVE  /\ calls'[c].pc = calls[c].pc /\ calls'[c].code = calls[c].code
                    /\ calls'[c].events = calls[c].events
  BY DEF AnswersStand
<1>1. calls \in [Calls -> CallRecords] /\ calls[c] \in CallRecords
  BY DEF IInv
<1>2. ASSUME NEW d \in Calls, NEW call, Becomes(d, call),
             \/ d # c
             \/ /\ call.pc = calls[c].pc /\ call.code = calls[c].code
                /\ call.events = calls[c].events
      PROVE  /\ calls'[c].pc = calls[c].pc /\ calls'[c].code = calls[c].code
             /\ calls'[c].events = calls[c].events
  BY <1>1, <1>2 DEF Becomes
<1>3. CASE UNCHANGED calls
  BY <1>3
<1>4. ASSUME NEW d \in Calls, ExecuteInvalid(d) \/ ExecuteDenied(d) \/ Execute(d)
      PROVE  d # c
  BY <1>4 DEF ExecuteInvalid, ExecuteDenied, Execute
<1>5. ASSUME NEW d \in Calls, ExecuteInvalid(d) \/ ExecuteDenied(d) \/ Execute(d)
      PROVE  \E call : Becomes(d, call)
  BY <1>5 DEF ExecuteInvalid, ExecuteDenied, Execute
<1>6. ASSUME NEW d \in Calls, NEW ok \in BOOLEAN, HandlerSettles(d, ok)
      PROVE  \E call : /\ Becomes(d, call)
                       /\ \/ d # c
                          \/ /\ call.pc = calls[c].pc /\ call.code = calls[c].code
                             /\ call.events = calls[c].events
  <2> DEFINE call == [calls[d] EXCEPT !.handler = "answered", !.timer = None]
  <2>1. CASE d = c
    <3>1. /\ call.pc = calls[c].pc /\ call.code = calls[c].code
          /\ call.events = calls[c].events
      BY <1>1, <2>1 DEF CallRecords
    <3>2. Becomes(d, call)
      BY <1>6, <2>1, <3>1 DEF HandlerSettles
    <3> QED BY <3>1, <3>2
  <2>2. CASE d # c
    BY <1>6, <2>2 DEF HandlerSettles
  <2> QED BY <2>1, <2>2
<1>7. ASSUME NEW d \in Calls, TimerFires(d)
      PROVE  \E call : /\ Becomes(d, call)
                       /\ \/ d # c
                          \/ /\ call.pc = calls[c].pc /\ call.code = calls[c].code
                             /\ call.events = calls[c].events
  <2> DEFINE call == [calls[d] EXCEPT !.timer = None]
  <2>1. CASE d = c
    <3>1. /\ call.pc = calls[c].pc /\ call.code = calls[c].code
          /\ call.events = calls[c].events
      BY <1>1, <2>1 DEF CallRecords
    <3>2. Becomes(d, call)
      BY <1>7, <2>1, <3>1 DEF TimerFires
    <3> QED BY <3>1, <3>2
  <2>2. CASE d # c
    BY <1>7, <2>2 DEF TimerFires
  <2> QED BY <2>1, <2>2
<1>8. ASSUME NEW definition \in Definitions,
             Register(definition) \/ Unregister(definition.id)
      PROVE  UNCHANGED calls
  BY <1>8 DEF Register, Unregister
<1>9. ASSUME NEW event \in ToolEvents, OnEvent(event)
      PROVE  UNCHANGED calls
  BY <1>9 DEF OnEvent
<1> QED BY <1>2, <1>3, <1>4, <1>5, <1>6, <1>7, <1>8, <1>9 DEF ToolNext

(* What execute() answered stands, however late the handler or the timer    *)
(* comes.                                                                   *)
THEOREM AnswersAreFinal == ToolSpec => [][AnswersStand]_toolVars
<1>1. ToolSpec => []IInv
  BY InitIInv, StepIInv, PTL DEF ToolSpec
<1> QED BY <1>1, StepKeepsAnswers, PTL DEF ToolSpec

(* Whatever handlers, listeners and timers do, each call that returns has   *)
(* been told as it ended, and its answer stands from then on.               *)
THEOREM CallsAreTold == ToolSpec => CallsTellTheirResults
BY ResultsAreTold, AnswersAreFinal, PTL DEF CallsTellTheirResults

-----------------------------------------------------------------------------
(* The event writer.  The graph it fills never loses an edge, and has the   *)
(* two ends of an edge for its id: so the arcs a search walks are the ids.  *)

IsArc(id) == id = <<id[1], id[2]>>

Wired(g) ==
    /\ g = [nodes |-> g.nodes, edges |-> g.edges, out |-> g.out, inc |-> g.inc]
    /\ g.nodes = [n \in DOMAIN g.nodes |-> g.nodes[n]]
    /\ \A id \in DOMAIN g.edges :
          /\ IsArc(id) /\ g.edges[id] = [source |-> id[1], target |-> id[2]]
          /\ id[1] \in DOMAIN g.out /\ id \in Range(g.out[id[1]])
    /\ \A n \in DOMAIN g.out :
          /\ g.out[n] \in Seq(DOMAIN g.edges)
          /\ \A id \in Range(g.out[n]) : id[1] = n

LEMMA ArcsAreTheIds ==
    ASSUME NEW g, Wired(g)
    PROVE  ListedArcs(g) = DOMAIN g.edges
<1> DEFINE found(n) == Range(GetEdges(g, g.out, n))
<1>1. ASSUME NEW n \in DOMAIN g.out PROVE found(n) = Range(g.out[n]) /\ found(n) \subseteq DOMAIN g.edges
  <2>1. g.out[n] \in Seq(DOMAIN g.edges)
    BY DEF Wired
  <2>2. Range(KeepIn(g.out[n], DOMAIN g.edges)) = Range(g.out[n]) \cap DOMAIN g.edges
    BY <2>1, KeepInRange
  <2>3. Range(g.out[n]) \subseteq DOMAIN g.edges
    BY <2>1 DEF Range
  <2> QED BY <2>2, <2>3 DEF GetEdges, Listed
<1>2. ASSUME NEW arc \in ListedArcs(g) PROVE arc \in DOMAIN g.edges
  <2>1. PICK n \in DOMAIN g.out : \E id \in found(n) : arc = <<n, g.edges[id].target>>
    BY DEF ListedArcs
  <2>2. PICK id \in found(n) : arc = <<n, g.edges[id].target>>
    BY <2>1
  <2>3. id \in DOMAIN g.edges /\ id[1] = n
    BY <1>1, <2>2 DEF Wired
  <2>4. id = <<n, g.edges[id].target>>
    BY <2>3 DEF Wired, IsArc
  <2> QED BY <2>2, <2>3, <2>4
<1>3. ASSUME NEW id \in DOMAIN g.edges PROVE id \in ListedArcs(g)
  <2>1. id[1] \in DOMAIN g.out /\ id \in Range(g.out[id[1]]) /\ id = <<id[1], g.edges[id].target>>
    BY DEF Wired, IsArc
  <2>2. id \in found(id[1])
    BY <1>1, <2>1
  <2> HIDE DEF found
  <2>3. id \in {<<id[1], g.edges[e].target>> : e \in found(id[1])}
    BY <2>1, <2>2
  <2> QED BY <2>1, <2>3 DEF ListedArcs, found
<1> QED BY <1>2, <1>3

-----------------------------------------------------------------------------
(* The search: wave by wave.                                                *)

WavesUpTo(f, arcs, source, m) ==
    f = [n \in 0..m |-> IF n = 0 THEN {source} ELSE Reached(arcs, f[n - 1])]

LEMMA WavesExist ==
    ASSUME NEW arcs, NEW source
    PROVE  \A m \in Nat : \E f : WavesUpTo(f, arcs, source, m)
<1> DEFINE A == {m \in Nat : \E f : WavesUpTo(f, arcs, source, m)}
<1>1. 0 \in A
  <2> DEFINE f == [n \in 0..0 |-> {source}]
  <2>1. WavesUpTo(f, arcs, source, 0)
    BY DEF WavesUpTo
  <2> QED BY <2>1
<1>2. ASSUME NEW m \in Nat, m \in A PROVE m + 1 \in A
  <2>1. PICK f : WavesUpTo(f, arcs, source, m)
    BY <1>2
  <2> DEFINE h == [n \in 0..(m + 1) |-> IF n = m + 1 THEN Reached(arcs, f[n - 1]) ELSE f[n]]
  <2>2. WavesUpTo(h, arcs, source, m + 1)
    <3>1. \A n \in 0..m : f[n] = IF n = 0 THEN {source} ELSE Reached(arcs, f[n - 1])
      BY <2>1 DEF WavesUpTo
    <3>2. \A n \in 0..m : h[n] = f[n]
      OBVIOUS
    <3>3. \A n \in 0..(m + 1) : n # 0 => n - 1 \in 0..m
      OBVIOUS
    <3> HIDE DEF h
    <3>4. \A n \in 0..(m + 1) : h[n] = IF n = 0 THEN {source} ELSE Reached(arcs, h[n - 1])
      <4> TAKE n \in 0..(m + 1)
      <4>1. CASE n = m + 1
        BY <3>2, <3>3, <4>1 DEF h
      <4>2. CASE n \in 0..m
        BY <3>1, <3>2, <3>3, <4>2
      <4> QED BY <4>1, <4>2
    <3>5. h = [n \in 0..(m + 1) |-> h[n]]
      BY DEF h
    <3> QED BY <3>4, <3>5 DEF WavesUpTo
  <2> QED BY <2>2
<1> HIDE DEF A
<1>3. Nat \subseteq A
  BY <1>1, <1>2, SetInduction
<1> QED BY <1>3 DEF A

LEMMA StepsIs ==
    ASSUME NEW arcs, NEW source, NEW target, NEW m \in Nat
    PROVE  \E f : /\ WavesUpTo(f, arcs, source, m)
                  /\ Steps(arcs, source, target, m)
                        = Min({n \in 0..m : target \in f[n]} \cup {m + 1})
<1> DEFINE f == CHOOSE f : WavesUpTo(f, arcs, source, m)
<1>1. WavesUpTo(f, arcs, source, m)
  BY WavesExist
<1>2. Steps(arcs, source, target, m) = Min({n \in 0..m : target \in f[n]} \cup {m + 1})
  BY DEF Steps, WavesUpTo
<1> HIDE DEF f
<1> QED BY <1>1, <1>2

LEMMA MinIs ==
    ASSUME NEW S, S \subseteq Nat, NEW x \in S, \A y \in S : x <= y
    PROVE  Min(S) = x
<1>1. \A z \in S : (\A y \in S : z <= y) => z = x
  <2> TAKE z \in S
  <2> HAVE \A y \in S : z <= y
  <2>1. z <= x /\ x <= z /\ z \in Nat /\ x \in Nat
    OBVIOUS
  <2> QED BY <2>1
<1> QED BY <1>1 DEF Min

(* One arc away, or two.                                                    *)
LEMMA OneStep ==
    ASSUME NEW arcs, NEW s, NEW t, s # t, <<s, t>> \in arcs, NEW depth \in Nat, depth >= 2
    PROVE  Steps(arcs, s, t, depth) = 1
<1>1. PICK f : /\ WavesUpTo(f, arcs, s, depth)
               /\ Steps(arcs, s, t, depth) = Min({n \in 0..depth : t \in f[n]} \cup {depth + 1})
  BY StepsIs
<1>2. f[0] = {s} /\ f[1] = Reached(arcs, f[0]) /\ f[2] = Reached(arcs, f[1])
  <2>1. /\ {0, 1, 2} \subseteq 0..depth /\ 1 # 0 /\ 2 # 0 /\ 1 - 1 = 0 /\ 2 - 1 = 1
    OBVIOUS
  <2>2. \A n \in 0..depth : f[n] = IF n = 0 THEN {s} ELSE Reached(arcs, f[n - 1])
    BY <1>1 DEF WavesUpTo
  <2> QED BY <2>1, <2>2
<1>3. t \in f[1]
  BY <1>2 DEF Reached
<1> DEFINE S == {n \in 0..depth : t \in f[n]} \cup {depth + 1}
<1>4. 1 \in S /\ 0 \notin S /\ S \subseteq Nat
  BY <1>2, <1>3
<1>5. \A y \in S : 1 <= y
  BY <1>4
<1> HIDE DEF S
<1>6. Min(S) = 1
  BY <1>4, <1>5, MinIs
<1> QED BY <1>1, <1>6 DEF S

LEMMA TwoSteps ==
    ASSUME NEW arcs, \A arc \in arcs : IsArc(arc), NEW s, NEW m, NEW t, s # t,
           <<s, m>> \in arcs, <<m, t>> \in arcs, <<s, t>> \notin arcs,
           NEW depth \in Nat, depth >= 2
    PROVE  Steps(arcs, s, t, depth) = 2
<1>1. PICK f : /\ WavesUpTo(f, arcs, s, depth)
               /\ Steps(arcs, s, t, depth) = Min({n \in 0..depth : t \in f[n]} \cup {depth + 1})
  BY StepsIs
<1>2. f[0] = {s} /\ f[1] = Reached(arcs, f[0]) /\ f[2] = Reached(arcs, f[1])
  <2>1. /\ {0, 1, 2} \subseteq 0..depth /\ 1 # 0 /\ 2 # 0 /\ 1 - 1 = 0 /\ 2 - 1 = 1
    OBVIOUS
  <2>2. \A n \in 0..depth : f[n] = IF n = 0 THEN {s} ELSE Reached(arcs, f[n - 1])
    BY <1>1 DEF WavesUpTo
  <2> QED BY <2>1, <2>2
<1>3. m \in f[1]
  BY <1>2 DEF Reached
<1>4. t \in f[2]
  BY <1>2, <1>3 DEF Reached
<1>5. t \notin f[1]
  BY <1>2 DEF Reached, IsArc
<1> DEFINE S == {n \in 0..depth : t \in f[n]} \cup {depth + 1}
<1>6. 2 \in S /\ 0 \notin S /\ 1 \notin S /\ S \subseteq Nat
  BY <1>2, <1>4, <1>5
<1>7. \A y \in S : 2 <= y
  BY <1>6
<1> HIDE DEF S
<1>8. Min(S) = 2
  BY <1>6, <1>7, MinIs
<1> QED BY <1>1, <1>8 DEF S

-----------------------------------------------------------------------------
(* What an operation does to the graph: h is g with some more arcs, and the *)
(* nodes of g but for a few are as they were.                               *)

Grows(g, h, arcs, touched) ==
    /\ Wired(h) /\ DOMAIN h.edges = DOMAIN g.edges \cup arcs
    /\ DOMAIN g.nodes \subseteq DOMAIN h.nodes
    /\ \A n \in DOMAIN g.nodes : n \notin touched => h.nodes[n] = g.nodes[n]

LEMMA AddNodeGrows ==
    ASSUME NEW g, Wired(g), NEW id, NEW status
    PROVE  /\ Grows(g, AddNode(g, id, status), {}, {id})
           /\ id \in DOMAIN AddNode(g, id, status).nodes
           /\ AddNode(g, id, status).nodes[id] = status
<1> DEFINE nodes == Put(g.nodes, id, status)
           h == AddNode(g, id, status)
<1>1. h = [nodes |-> nodes, edges |-> g.edges, out |-> g.out, inc |-> g.inc]
  BY DEF AddNode, Wired
<1>2. /\ DOMAIN nodes = DOMAIN g.nodes \cup {id} /\ nodes[id] = status
      /\ \A n \in DOMAIN g.nodes : n # id => nodes[n] = g.nodes[n]
      /\ nodes = [n \in DOMAIN nodes |-> nodes[n]]
  BY DEF Put
<1> HIDE DEF nodes, h
<1>3. Wired(h)
  BY <1>1, <1>2 DEF Wired
<1>4. Grows(g, h, {}, {id}) /\ id \in DOMAIN h.nodes /\ h.nodes[id] = status
  BY <1>1, <1>2, <1>3 DEF Grows
<1> QED BY <1>4 DEF h

LEMMA UpdateNodeGrows ==
    ASSUME NEW g, Wired(g), NEW id, NEW status
    PROVE  /\ Grows(g, UpdateNode(g, id, status), {}, {id})
           /\ id \in DOMAIN g.nodes => UpdateNode(g, id, status).nodes[id] = status
<1> DEFINE h == UpdateNode(g, id, status)
           nodes == [g.nodes EXCEPT ![id] = status]
<1>1. CASE id \notin DOMAIN g.nodes
  BY <1>1 DEF UpdateNode, Grows
<1>2. CASE id \in DOMAIN g.nodes
  <2>1. h = [nodes |-> nodes, edges |-> g.edges, out |-> g.out, inc |-> g.inc]
    BY <1>2 DEF UpdateNode, Wired
  <2>2. /\ DOMAIN nodes = DOMAIN g.nodes /\ nodes[id] = status
        /\ \A n \in DOMAIN g.nodes : n # id => nodes[n] = g.nodes[n]
        /\ nodes = [n \in DOMAIN nodes |-> nodes[n]]
    BY <1>2 DEF Wired
  <2> HIDE DEF nodes, h
  <2>3. Wired(h)
    BY <2>1, <2>2 DEF Wired
  <2>4. Grows(g, h, {}, {id}) /\ h.nodes[id] = status
    BY <2>1, <2>2, <2>3 DEF Grows
  <2> QED BY <2>4 DEF h
<1> QED BY <1>1, <1>2

LEMMA EnsureEdgeGrows ==
    ASSUME NEW g, Wired(g), NEW s, NEW t
    PROVE  /\ Grows(g, EnsureEdge(g, s, t), {<<s, t>>}, {})
           /\ DOMAIN EnsureEdge(g, s, t).nodes = DOMAIN g.nodes
<1> DEFINE h == EnsureEdge(g, s, t)
           id == <<s, t>>
<1>1. CASE id \in DOMAIN g.edges
  BY <1>1 DEF EnsureEdge, Grows
<1>2. CASE id \notin DOMAIN g.edges
  <2> DEFINE edges == Put(g.edges, id, [source |-> s, target |-> t])
             list == Append(Listed(g.out, s), id)
             out == Put(g.out, s, list)
             inc == Put(g.inc, t, Append(Listed(g.inc, t), id))
  <2>1. h = [nodes |-> g.nodes, edges |-> edges, out |-> out, inc |-> inc]
    BY <1>2 DEF EnsureEdge, AddEdge, Wired
  <2>2. /\ DOMAIN edges = DOMAIN g.edges \cup {id} /\ edges[id] = [source |-> s, target |-> t]
        /\ \A e \in DOMAIN g.edges : edges[e] = g.edges[e]
    BY <1>2 DEF Put
  <2>3. /\ DOMAIN out = DOMAIN g.out \cup {s} /\ out[s] = list
        /\ \A n \in DOMAIN g.out : n # s => out[n] = g.out[n]
    BY DEF Put
  <2>4. /\ Listed(g.out, s) \in Seq(DOMAIN g.edges)
        /\ \A e \in Range(Listed(g.out, s)) : e[1] = s
    <3>1. <<>> \in Seq(DOMAIN g.edges) /\ Range(<<>>) = {}
      BY DEF Range
    <3> QED BY <3>1 DEF Listed, Wired
  <2>5. Listed(g.out, s) \in Seq(DOMAIN edges) /\ id \in DOMAIN edges
    BY <2>2, <2>4
  <2>6. Range(list) = Range(Listed(g.out, s)) \cup {id} /\ list \in Seq(DOMAIN edges)
    <3> HIDE DEF edges, id
    <3>1. Range(list) = Range(Listed(g.out, s)) \cup {id}
      BY <2>5, RangeAppend
    <3>2. list \in Seq(DOMAIN edges)
      BY <2>5
    <3> QED BY <3>1, <3>2
  <2>7. id[1] = s /\ id[2] = t /\ IsArc(id)
    BY DEF IsArc
  <2> HIDE DEF edges, list, out, inc, id, h
  <2>8. ASSUME NEW e \in DOMAIN h.edges
        PROVE  /\ IsArc(e) /\ h.edges[e] = [source |-> e[1], target |-> e[2]]
               /\ e[1] \in DOMAIN h.out /\ e \in Range(h.out[e[1]])
    <3>1. CASE e = id
      BY <2>1, <2>2, <2>3, <2>6, <2>7, <3>1
    <3>2. CASE e \in DOMAIN g.edges
      <4>1. /\ IsArc(e) /\ g.edges[e] = [source |-> e[1], target |-> e[2]]
            /\ e[1] \in DOMAIN g.out /\ e \in Range(g.out[e[1]])
        BY <3>2 DEF Wired
      <4>2. e[1] = s => e \in Range(list)
        BY <2>6, <4>1 DEF Listed
      <4> QED BY <2>1, <2>2, <2>3, <3>2, <4>1, <4>2
    <3> QED BY <2>1, <2>2, <3>1, <3>2
  <2>9. ASSUME NEW n \in DOMAIN h.out
        PROVE  h.out[n] \in Seq(DOMAIN h.edges) /\ \A e \in Range(h.out[n]) : e[1] = n
    <3>1. CASE n = s
      BY <2>1, <2>3, <2>4, <2>6, <2>7, <3>1
    <3>2. CASE n # s
      <4>1. n \in DOMAIN g.out /\ h.out[n] = g.out[n]
        BY <2>1, <2>3, <3>2
      <4>2. g.out[n] \in Seq(DOMAIN g.edges) /\ \A e \in Range(g.out[n]) : e[1] = n
        BY <4>1 DEF Wired
      <4>3. g.out[n] \in Seq(DOMAIN edges)
        BY <2>2, <4>2
      <4> QED BY <2>1, <4>1, <4>2, <4>3
    <3> QED BY <3>1, <3>2
  <2>10. g.nodes = [n \in DOMAIN g.nodes |-> g.nodes[n]]
    BY DEF Wired
  <2>11. Wired(h)
    BY <2>1, <2>8, <2>9, <2>10 DEF Wired
  <2>12. Grows(g, h, {id}, {}) /\ DOMAIN h.nodes = DOMAIN g.nodes
    BY <2>1, <2>2, <2>11 DEF Grows
  <2> QED BY <2>12 DEF h, id
<1> QED BY <1>1, <1>2

-----------------------------------------------------------------------------
(* What an event does.                                                      *)

LEMMA EnsureNodeGrows ==
    ASSUME NEW g, Wired(g), NEW id
    PROVE  Grows(g, EnsureNode(g, id), {}, {id})
<1>1. CASE id \in DOMAIN g.nodes
  BY <1>1 DEF EnsureNode, Grows
<1>2. CASE id \notin DOMAIN g.nodes
  BY <1>2, AddNodeGrows DEF EnsureNode
<1> QED BY <1>1, <1>2

LEMMA ExecutionStartedIs ==
    ASSUME NEW g, Wired(g), NEW e, NEW step, NEW h, h = Noted(g, "ExecutionStarted", e, step)
    PROVE  /\ Grows(g, h, {<<ExecutionNode(e), GoalNode(e)>>, <<PlanNode(e), ExecutionNode(e)>>},
                     {GoalNode(e), PlanNode(e), ExecutionNode(e)})
           /\ ExecutionNode(e) \in DOMAIN h.nodes /\ h.nodes[ExecutionNode(e)] = "running"
<1> DEFINE goal == GoalNode(e)  plan == PlanNode(e)  exec == ExecutionNode(e)
<1>1. h = OnExecutionStarted(g, e)
  BY DEF Noted, HandleEvent, Event
<1>2. PICK g1 : g1 = EnsureNode(g, goal)
  OBVIOUS
<1>3. PICK g2 : g2 = EnsureNode(g1, plan)
  OBVIOUS
<1>4. PICK g3 : g3 = AddNode(g2, exec, "running")
  OBVIOUS
<1>5. PICK g4 : g4 = EnsureEdge(g3, exec, goal)
  OBVIOUS
<1>6. h = EnsureEdge(g4, plan, exec)
  BY <1>1, <1>2, <1>3, <1>4, <1>5 DEF OnExecutionStarted
<1> HIDE DEF goal, plan, exec
<1>7. Grows(g, g1, {}, {goal})
  BY <1>2, EnsureNodeGrows
<1>8. Grows(g1, g2, {}, {plan})
  BY <1>3, <1>7, EnsureNodeGrows DEF Grows
<1>9. Grows(g2, g3, {}, {exec}) /\ exec \in DOMAIN g3.nodes /\ g3.nodes[exec] = "running"
  BY <1>4, <1>8, AddNodeGrows DEF Grows
<1>10. Grows(g3, g4, {<<exec, goal>>}, {})
  BY <1>5, <1>9, EnsureEdgeGrows DEF Grows
<1>11. Grows(g4, h, {<<plan, exec>>}, {})
  BY <1>6, <1>10, EnsureEdgeGrows DEF Grows
<1>12. Grows(g, h, {<<exec, goal>>, <<plan, exec>>}, {goal, plan, exec})
  BY <1>7, <1>8, <1>9, <1>10, <1>11 DEF Grows
<1>13. exec \in DOMAIN h.nodes /\ h.nodes[exec] = "running"
  BY <1>9, <1>10, <1>11 DEF Grows
<1> QED BY <1>12, <1>13 DEF goal, plan, exec

LEMMA StepStartedIs ==
    ASSUME NEW g, Wired(g), NEW e, NEW step, NEW h, h = Noted(g, "StepStarted", e, step)
    PROVE  /\ Grows(g, h, {<<ExecutionNode(e), StepNode(step)>>}, {StepNode(step)})
           /\ StepNode(step) \in DOMAIN h.nodes /\ h.nodes[StepNode(step)] = "running"
<1>1. PICK g1 : g1 = AddNode(g, StepNode(step), "running")
  OBVIOUS
<1>2. h = EnsureEdge(g1, ExecutionNode(e), StepNode(step))
  BY <1>1 DEF Noted, HandleEvent, Event, OnStepStarted
<1>3. /\ Grows(g, g1, {}, {StepNode(step)})
      /\ StepNode(step) \in DOMAIN g1.nodes /\ g1.nodes[StepNode(step)] = "running"
  BY <1>1, AddNodeGrows
<1>4. Grows(g1, h, {<<ExecutionNode(e), StepNode(step)>>}, {})
  BY <1>2, <1>3, EnsureEdgeGrows DEF Grows
<1> QED BY <1>3, <1>4 DEF Grows

LEMMA CheckpointCreatedIs ==
    ASSUME NEW g, Wired(g), NEW e, NEW step, NEW h, h = Noted(g, "CheckpointCreated", e, step)
    PROVE  Grows(g, h, {<<ExecutionNode(e), CheckpointNode(e, step)>>}, {CheckpointNode(e, step)})
<1>1. PICK g1 : g1 = AddNode(g, CheckpointNode(e, step), "none")
  OBVIOUS
<1>2. h = EnsureEdge(g1, ExecutionNode(e), CheckpointNode(e, step))
  BY <1>1 DEF Noted, HandleEvent, Event, OnCheckpointCreated
<1>3. Grows(g, g1, {}, {CheckpointNode(e, step)})
  BY <1>1, AddNodeGrows
<1>4. Grows(g1, h, {<<ExecutionNode(e), CheckpointNode(e, step)>>}, {})
  BY <1>2, <1>3, EnsureEdgeGrows DEF Grows
<1> QED BY <1>3, <1>4 DEF Grows

(* The status an event gives to its step, or to its execution.              *)
StepStatusOf(type) ==
    CASE type = "StepCompleted" -> "completed" [] type = "StepFailed" -> "failed"
      [] OTHER -> "retrying"

LEMMA StepUpdateIs ==
    ASSUME NEW g, Wired(g), NEW e, NEW step,
           NEW type \in {"StepCompleted", "StepFailed", "RetryStarted"},
           NEW h, h = Noted(g, type, e, step)
    PROVE  /\ Grows(g, h, {}, {StepNode(step)})
           /\ StepNode(step) \in DOMAIN g.nodes => h.nodes[StepNode(step)] = StepStatusOf(type)
<1>1. h = UpdateNode(g, StepNode(step), StepStatusOf(type))
  BY DEF Noted, HandleEvent, Event, StepStatusOf
<1> QED BY <1>1, UpdateNodeGrows

LEMMA ExecutionUpdateIs ==
    ASSUME NEW g, Wired(g), NEW e, NEW step,
           NEW type \in {"ExecutionCompleted", "ExecutionFailed"},
           NEW h, h = Noted(g, type, e, step)
    PROVE  /\ Grows(g, h, {}, {ExecutionNode(e)})
           /\ ExecutionNode(e) \in DOMAIN g.nodes =>
                 h.nodes[ExecutionNode(e)]
                    = IF type = "ExecutionCompleted" THEN "completed" ELSE "failed"
<1>1. h = UpdateNode(g, ExecutionNode(e), IF type = "ExecutionCompleted" THEN "completed" ELSE "failed")
  BY DEF Noted, HandleEvent, Event
<1> QED BY <1>1, UpdateNodeGrows

-----------------------------------------------------------------------------
(* What the graph is to tell of an execution, and of its i-th step.         *)

ExecutionTold(g, e, status) ==
    /\ <<PlanNode(e), ExecutionNode(e)>> \in DOMAIN g.edges
    /\ ExecutionNode(e) \in DOMAIN g.nodes /\ g.nodes[ExecutionNode(e)] = status

StepTold(g, e, i, status) ==
    LET step == StepsOf[e][i] IN
    /\ <<ExecutionNode(e), StepNode(step)>> \in DOMAIN g.edges
    /\ StepNode(step) \in DOMAIN g.nodes
    /\ Shared(step) \/ status = "unknown" \/ g.nodes[StepNode(step)] = status

RunTold(g, e, run) ==
    run.pc # "idle" =>
        /\ ExecutionTold(g, e, ExecutionStatus(run))
        /\ \A i \in 1..run.index : StepTold(g, e, i, StepStatus(run, i))

Pcs == {"idle", "stepping", "waiting", "completed", "failed", "cancelled"}

RunRecords(e) ==
    [pc : Pcs, index : 1..Len(StepsOf[e]), attempts : Nat, cancelled : BOOLEAN]

(* Plans lead to nothing but executions.                                    *)
PlansLead(arcs) == \A arc \in arcs : arc[1][1] = "plan" => arc[2][1] = "exec"

RunsOK ==
    /\ runs = [e \in Executions |-> runs[e]]
    /\ \A e \in Executions : runs[e] \in RunRecords(e) /\ (runs[e].pc = "idle" => runs[e] = IdleRun)

WriterInv ==
    /\ Wired(written) /\ PlansLead(DOMAIN written.edges)
    /\ RunsOK
    /\ \A e \in Executions : RunTold(written, e, runs[e])

(* The nodes an execution writes to: its own, and those of its steps.       *)
Own(e) ==
    {GoalNode(e), PlanNode(e), ExecutionNode(e)}
        \cup UNION {{CheckpointNode(e, step), StepNode(step)} : step \in Range(StepsOf[e])}

LEMMA NodesDiffer ==
    /\ \A e, d : ExecutionNode(e) = ExecutionNode(d) => e = d
    /\ \A e, d : ExecutionNode(e) \notin {GoalNode(d), PlanNode(d), StepNode(d)}
    /\ \A e, d, step : ExecutionNode(e) # CheckpointNode(d, step)
    /\ \A s, t : StepNode(s) = StepNode(t) => s = t
    /\ \A s, d : StepNode(s) \notin {GoalNode(d), PlanNode(d), ExecutionNode(d)}
    /\ \A s, d, step : StepNode(s) # CheckpointNode(d, step)
<1>1. /\ \A e : ExecutionNode(e)[1] = "exec" /\ ExecutionNode(e)[2] = e
      /\ \A e : GoalNode(e)[1] = "goal" /\ PlanNode(e)[1] = "plan"
      /\ \A s : StepNode(s)[1] = "step" /\ StepNode(s)[2] = s
      /\ \A d, step : CheckpointNode(d, step)[1] = "checkpoint"
  BY DEF ExecutionNode, GoalNode, PlanNode, StepNode, CheckpointNode
<1> QED BY <1>1

LEMMA PlansOnly ==
    ASSUME NEW e \in Executions, NEW step
    PROVE  /\ PlansLead({<<ExecutionNode(e), GoalNode(e)>>, <<PlanNode(e), ExecutionNode(e)>>})
           /\ PlansLead({<<ExecutionNode(e), StepNode(step)>>})
           /\ PlansLead({<<ExecutionNode(e), CheckpointNode(e, step)>>})
<1>1. ExecutionNode(e)[1] = "exec" /\ PlanNode(e)[1] = "plan"
  BY DEF ExecutionNode, PlanNode
<1> QED BY <1>1 DEF PlansLead

LEMMA PlaceIs ==
    ASSUME NEW e \in Executions, NEW i \in 1..Len(StepsOf[e])
    PROVE  StepsOf[e][i] \in Range(StepsOf[e])
<1>1. StepsOf[e] \in Seq(Range(StepsOf[e]))
  BY WriterAssumption
<1> QED BY <1>1

(* Nobody else is touched.                                                  *)
LEMMA OthersAreTold ==
    ASSUME NEW e \in Executions, NEW d \in Executions, d # e,
           NEW run \in RunRecords(d), NEW g, NEW h, NEW arcs, Grows(g, h, arcs, Own(e)),
           RunTold(g, d, run)
    PROVE  RunTold(h, d, run)
<1> SUFFICES ASSUME run.pc # "idle"
             PROVE  /\ ExecutionTold(h, d, ExecutionStatus(run))
                    /\ \A i \in 1..run.index : StepTold(h, d, i, StepStatus(run, i))
  BY DEF RunTold
<1>1. ExecutionNode(d) \notin Own(e)
  BY NodesDiffer DEF Own
<1>2. ExecutionTold(h, d, ExecutionStatus(run))
  BY <1>1 DEF RunTold, ExecutionTold, Grows
<1>3. ASSUME NEW i \in 1..run.index PROVE StepTold(h, d, i, StepStatus(run, i))
  <2> DEFINE step == StepsOf[d][i]
  <2>1. i \in 1..Len(StepsOf[d])
    <3>1. StepsOf[d] \in Seq(Range(StepsOf[d]))
      BY WriterAssumption
    <3>2. run.index \in 1..Len(StepsOf[d]) /\ Len(StepsOf[d]) \in Nat
      BY <3>1 DEF RunRecords, Pcs
    <3> QED BY <3>2
  <2>2. StepNode(step) \in Own(e) => Shared(step)
    <3> SUFFICES ASSUME StepNode(step) \in Own(e) PROVE Shared(step)
      OBVIOUS
    <3>1. step \in Range(StepsOf[e])
      <4> HIDE DEF step
      <4> QED BY NodesDiffer DEF Own
    <3>2. PICK j \in 1..Len(StepsOf[e]) : StepsOf[e][j] = step
      <4>1. StepsOf[e] \in Seq(Range(StepsOf[e]))
        BY WriterAssumption
      <4>2. DOMAIN StepsOf[e] = 1..Len(StepsOf[e])
        BY <4>1
      <4> HIDE DEF step
      <4> QED BY <3>1, <4>2 DEF Range
    <3> QED BY <2>1, <3>2 DEF Shared
  <2>3. StepTold(g, d, i, StepStatus(run, i))
    BY DEF RunTold
  <2> QED BY <2>2, <2>3 DEF StepTold, Grows
<1> QED BY <1>2, <1>3

(* Of the execution that writes, what is not written to stays told.         *)
LEMMA StaysTold ==
    ASSUME NEW e \in Executions, NEW g, NEW h, NEW arcs, NEW T, Grows(g, h, arcs, T)
    PROVE  /\ \A status : ExecutionNode(e) \notin T /\ ExecutionTold(g, e, status)
                             => ExecutionTold(h, e, status)
           /\ \A status : \A i \in 1..Len(StepsOf[e]) :
                 StepNode(StepsOf[e][i]) \notin T /\ StepTold(g, e, i, status)
                    => StepTold(h, e, i, status)
BY DEF ExecutionTold, StepTold, Grows

(* A step of another place has another id, or the id is shared.             *)
LEMMA AnotherPlace ==
    ASSUME NEW e \in Executions, NEW i \in 1..Len(StepsOf[e]), NEW j \in 1..Len(StepsOf[e]), i # j,
           NEW g, NEW h, NEW arcs, NEW T, Grows(g, h, arcs, T),
           \A s : StepNode(s) \in T => s = StepsOf[e][j],
           NEW status, StepTold(g, e, i, status)
    PROVE  StepTold(h, e, i, status)
<1>1. CASE StepsOf[e][i] = StepsOf[e][j]
  <2>1. Shared(StepsOf[e][i])
    BY <1>1 DEF Shared
  <2> QED BY <2>1 DEF StepTold, Grows
<1>2. CASE StepsOf[e][i] # StepsOf[e][j]
  BY <1>2, StaysTold
<1> QED BY <1>1, <1>2

(* An execution went on, and the graph with it.                             *)
LEMMA GoesOnTold ==
    ASSUME WriterInv, NEW e \in Executions, NEW run \in RunRecords(e), run.pc # "idle",
           RunBecomes(e, run), NEW arcs, PlansLead(arcs), Grows(written, written', arcs, Own(e)),
           RunTold(written', e, run)
    PROVE  WriterInv'
<1>1. runs'[e] = run /\ \A d \in Executions : d # e => runs'[d] = runs[d]
  BY DEF WriterInv, RunsOK, RunBecomes
<1>2. runs' = [d \in Executions |-> runs'[d]]
  BY DEF WriterInv, RunsOK, RunBecomes
<1>3. RunsOK'
  BY <1>1, <1>2 DEF WriterInv, RunsOK
<1>4. Wired(written')
  BY DEF Grows
<1>5. PlansLead(DOMAIN written'.edges)
  <2>1. DOMAIN written'.edges = DOMAIN written.edges \cup arcs
    BY DEF Grows
  <2> QED BY <2>1 DEF WriterInv, PlansLead
<1>6. ASSUME NEW d \in Executions PROVE RunTold(written', d, runs'[d])
  <2>1. CASE d = e
    BY <1>1, <2>1
  <2>2. CASE d # e
    <3>1. RunTold(written, d, runs[d]) /\ runs[d] \in RunRecords(d)
      BY DEF WriterInv, RunsOK
    <3>2. RunTold(written', d, runs[d])
      BY <2>2, <3>1, OthersAreTold
    <3> QED BY <1>1, <2>2, <3>2
  <2> QED BY <2>1, <2>2
<1> QED BY <1>3, <1>4, <1>5, <1>6 DEF WriterInv

-----------------------------------------------------------------------------
(* The steps of an execution.                                               *)

LEMMA InOwn ==
    ASSUME NEW e \in Executions, NEW i \in 1..Len(StepsOf[e]),
           NEW g, NEW h, NEW arcs, NEW T, Grows(g, h, arcs, T),
           T \subseteq {GoalNode(e), PlanNode(e), ExecutionNode(e),
                        CheckpointNode(e, StepsOf[e][i]), StepNode(StepsOf[e][i])}
    PROVE  Grows(g, h, arcs, Own(e))
<1>1. T \subseteq Own(e)
  BY PlaceIs DEF Own
<1> QED BY <1>1 DEF Grows

LEMMA TwoGrow ==
    ASSUME NEW g, NEW h, NEW k, NEW A, NEW B, NEW T, Grows(g, h, A, T), Grows(h, k, B, T)
    PROVE  Grows(g, k, A \cup B, T)
BY DEF Grows

LEMMA LeadBoth ==
    ASSUME NEW A, NEW B, PlansLead(A), PlansLead(B)
    PROVE  PlansLead(A \cup B)
BY DEF PlansLead

LEMMA IndexIs ==
    ASSUME NEW e \in Executions, NEW run \in RunRecords(e)
    PROVE  /\ Len(StepsOf[e]) \in Nat /\ Len(StepsOf[e]) >= 1
           /\ run.index \in Nat /\ run.index >= 1 /\ run.index <= Len(StepsOf[e])
<1>1. StepsOf[e] \in Seq(Range(StepsOf[e])) /\ StepsOf[e] # <<>>
  BY WriterAssumption
<1>2. Len(StepsOf[e]) \in Nat /\ Len(StepsOf[e]) # 0
  BY <1>1
<1> QED BY <1>2 DEF RunRecords, Pcs

LEMMA PcIs ==
    ASSUME NEW e, NEW r \in RunRecords(e), NEW pc \in Pcs,
           NEW q, q = [r EXCEPT !.pc = pc]
    PROVE  q \in RunRecords(e) /\ q.pc = pc /\ q.index = r.index
BY DEF RunRecords, Pcs

LEMMA CancelledIs ==
    ASSUME NEW e, NEW r \in RunRecords(e), 
           NEW q, q = [r EXCEPT !.cancelled = TRUE]
    PROVE  q \in RunRecords(e) /\ q.pc = r.pc /\ q.index = r.index
BY DEF RunRecords, Pcs

LEMMA WaitingIs ==
    ASSUME NEW e, NEW r \in RunRecords(e), 
           NEW q, q = [r EXCEPT !.pc = "waiting", !.attempts = @ + 1]
    PROVE  q \in RunRecords(e) /\ q.pc = "waiting" /\ q.index = r.index
<1>1. PICK a : a = r.attempts + 1
  OBVIOUS
<1>2. a \in Nat
  BY <1>1 DEF RunRecords, Pcs
<1>3. q = [r EXCEPT !.pc = "waiting", !.attempts = a]
  BY <1>1
<1> QED BY <1>2, <1>3 DEF RunRecords, Pcs

LEMMA NextIs ==
    ASSUME NEW e, NEW r \in RunRecords(e), r.index + 1 \in 1..Len(StepsOf[e]),
           NEW q, q = [r EXCEPT !.index = @ + 1, !.attempts = 0]
    PROVE  q \in RunRecords(e) /\ q.pc = r.pc /\ q.index = r.index + 1
BY DEF RunRecords, Pcs

LEMMA StartKeeps ==
    ASSUME WriterInv, NEW e \in Executions, StartExecution(e)
    PROVE  WriterInv'
<1> DEFINE q == [runs[e] EXCEPT !.pc = "stepping"]
           exec == ExecutionNode(e)
<1>1. runs[e] = IdleRun /\ Step(e) = StepsOf[e][1]
  BY DEF WriterInv, RunsOK, StartExecution, Step, IdleRun
<1>2. /\ q \in RunRecords(e) /\ q.pc = "stepping" /\ q.index = 1 /\ RunBecomes(e, q)
  <2>1. Len(StepsOf[e]) \in Nat /\ 1 \in 1..Len(StepsOf[e])
    <3>1. runs[e] \in RunRecords(e)
      BY DEF WriterInv, RunsOK
    <3> QED BY <3>1, IndexIs
  <2>2. runs[e] \in RunRecords(e) /\ runs[e].index = 1
    BY <1>1 DEF WriterInv, RunsOK, IdleRun
  <2>3. q \in RunRecords(e) /\ q.pc = "stepping" /\ q.index = runs[e].index
    BY <2>2, PcIs DEF Pcs
  <2>4. RunBecomes(e, q)
    BY DEF StartExecution
  <2> HIDE DEF q
  <2> QED BY <2>2, <2>3, <2>4
<1> HIDE DEF q
<1>3. PICK g : g = Noted(written, "ExecutionStarted", e, Step(e))
  OBVIOUS
<1>4. written' = Noted(g, "StepStarted", e, Step(e))
  BY <1>3 DEF StartExecution
<1>5. 1 \in 1..Len(StepsOf[e])
  BY <1>2, IndexIs
<1>6. /\ Grows(written, g, {<<exec, GoalNode(e)>>, <<PlanNode(e), exec>>},
               {GoalNode(e), PlanNode(e), exec})
      /\ exec \in DOMAIN g.nodes /\ g.nodes[exec] = "running"
  BY <1>3, ExecutionStartedIs DEF WriterInv
<1>7. Wired(g) /\ <<PlanNode(e), exec>> \in DOMAIN g.edges
  BY <1>6 DEF Grows
<1>8. /\ Grows(g, written', {<<exec, StepNode(Step(e))>>}, {StepNode(Step(e))})
      /\ StepNode(Step(e)) \in DOMAIN written'.nodes
      /\ written'.nodes[StepNode(Step(e))] = "running"
  BY <1>4, <1>7, StepStartedIs
<1>9. ExecutionTold(written', e, "running")
  <2>1. ExecutionTold(g, e, "running")
    BY <1>6, <1>7 DEF ExecutionTold
  <2> QED BY <1>8, <2>1, StaysTold, NodesDiffer
<1>10. StepTold(written', e, 1, "running")
  BY <1>1, <1>8 DEF StepTold, Grows
<1>11. RunTold(written', e, q)
  <2>1. ExecutionStatus(q) = "running" /\ StepStatus(q, 1) = "running"
    BY <1>2 DEF ExecutionStatus, StepStatus
  <2> QED BY <1>2, <1>9, <1>10, <2>1 DEF RunTold
<1>12. /\ Grows(written, g, {<<exec, GoalNode(e)>>, <<PlanNode(e), exec>>}, Own(e))
       /\ Grows(g, written', {<<exec, StepNode(Step(e))>>}, Own(e))
  BY <1>1, <1>5, <1>6, <1>8, InOwn
<1> DEFINE arcs == {<<exec, GoalNode(e)>>, <<PlanNode(e), exec>>} \cup {<<exec, StepNode(Step(e))>>}
<1>13. Grows(written, written', arcs, Own(e)) /\ PlansLead(arcs)
  <2>1. Grows(written, written', arcs, Own(e))
    BY <1>12, TwoGrow
  <2>2. PlansLead(arcs)
    BY PlansOnly, LeadBoth
  <2> QED BY <2>1, <2>2
<1> HIDE DEF arcs
<1> QED BY <1>2, <1>11, <1>13, GoesOnTold

(* The checkpoint and the end of a step.                                    *)
LEMMA EndedIs ==
    ASSUME WriterInv, NEW e \in Executions, runs[e].pc = "stepping",
           NEW type \in {"StepCompleted", "StepFailed"}, NEW g, g = Ended(e, type)
    PROVE  /\ \E arcs : PlansLead(arcs) /\ Grows(written, g, arcs, Own(e))
           /\ ExecutionTold(g, e, "running")
           /\ StepTold(g, e, runs[e].index, StepStatusOf(type))
           /\ \A i \in 1..(runs[e].index - 1) : StepTold(g, e, i, "completed")
<1> DEFINE k == runs[e].index
           step == Step(e)
           cp == CheckpointNode(e, step)
           arcs == {<<ExecutionNode(e), cp>>}
<1>1. /\ Len(StepsOf[e]) \in Nat /\ k \in Nat /\ k >= 1 /\ k <= Len(StepsOf[e])
      /\ step = StepsOf[e][k]
  <2>1. runs[e] \in RunRecords(e)
    BY DEF WriterInv, RunsOK
  <2> QED BY <2>1, IndexIs DEF Step
<1>2. k \in 1..Len(StepsOf[e])
  BY <1>1
<1>3. /\ ExecutionTold(written, e, "running")
      /\ StepTold(written, e, k, "running")
      /\ \A i \in 1..(k - 1) : i \in 1..Len(StepsOf[e]) /\ StepTold(written, e, i, "completed")
  <2>1. RunTold(written, e, runs[e])
    BY DEF WriterInv
  <2>2. ExecutionStatus(runs[e]) = "running" /\ StepStatus(runs[e], k) = "running"
    BY <1>1 DEF ExecutionStatus, StepStatus
  <2>3. \A i \in 1..(k - 1) : /\ i \in 1..k /\ i \in 1..Len(StepsOf[e])
                              /\ StepStatus(runs[e], i) = "completed"
    BY <1>1 DEF StepStatus
  <2>4. ExecutionTold(written, e, "running")
    BY <2>1, <2>2 DEF RunTold
  <2>5. k \in 1..k
    BY <1>1
  <2>6. StepTold(written, e, k, "running")
    BY <2>1, <2>2, <2>5 DEF RunTold
  <2>7. \A i \in 1..(k - 1) : StepTold(written, e, i, "completed")
    BY <2>1, <2>3 DEF RunTold
  <2> QED BY <2>3, <2>4, <2>6, <2>7
<1> HIDE DEF k, step
<1>4. PICK g1 : g1 = Noted(written, "CheckpointCreated", e, step)
  OBVIOUS
<1>5. g = Noted(g1, type, e, step)
  BY <1>4 DEF Ended, step
<1>6. Grows(written, g1, arcs, {cp})
  BY <1>4, CheckpointCreatedIs DEF WriterInv
<1>7. Wired(g1)
  BY <1>6 DEF Grows
<1>8. /\ Grows(g1, g, {}, {StepNode(step)})
      /\ StepNode(step) \in DOMAIN g1.nodes => g.nodes[StepNode(step)] = StepStatusOf(type)
  BY <1>5, <1>7, StepUpdateIs
<1> HIDE DEF arcs
<1>9. /\ ExecutionTold(g1, e, "running") /\ StepTold(g1, e, k, "running")
      /\ \A i \in 1..(k - 1) : StepTold(g1, e, i, "completed")
  BY <1>2, <1>3, <1>6, StaysTold, NodesDiffer
<1>10. ExecutionTold(g, e, "running")
  BY <1>8, <1>9, StaysTold, NodesDiffer
<1>11. StepTold(g, e, k, StepStatusOf(type))
  BY <1>1, <1>8, <1>9 DEF StepTold, Grows
<1>12. ASSUME NEW i \in 1..(k - 1) PROVE StepTold(g, e, i, "completed")
  <2>1. i # k /\ i \in 1..Len(StepsOf[e])
    BY <1>1, <1>3
  <2>2. \A s : StepNode(s) \in {StepNode(step)} => s = StepsOf[e][k]
    BY <1>1, NodesDiffer
  <2>3. StepTold(g1, e, i, "completed")
    BY <1>9
  <2> QED BY <1>2, <1>8, <2>1, <2>2, <2>3, AnotherPlace
<1>13. Grows(written, g, arcs \cup {}, Own(e)) /\ PlansLead(arcs)
  <2>1. Grows(written, g1, arcs, Own(e)) /\ Grows(g1, g, {}, Own(e))
    BY <1>1, <1>2, <1>6, <1>8, InOwn
  <2>2. Grows(written, g, arcs \cup {}, Own(e))
    BY <2>1, TwoGrow
  <2>3. PlansLead(arcs)
    BY PlansOnly DEF arcs
  <2> QED BY <2>2, <2>3
<1>14. \E a : PlansLead(a) /\ Grows(written, g, a, Own(e))
  <2>1. arcs \cup {} = arcs
    OBVIOUS
  <2> QED BY <1>13, <2>1
<1> QED BY <1>10, <1>11, <1>12, <1>14 DEF k

(* The next step is told to run; those below stay completed.                *)
LEMMA StepSucceedsKeeps ==
    ASSUME WriterInv, NEW e \in Executions, StepSucceeds(e)
    PROVE  WriterInv'
<1> DEFINE q == [runs[e] EXCEPT !.index = @ + 1, !.attempts = 0]
           k == runs[e].index
           next == StepsOf[e][k + 1]
           exec == ExecutionNode(e)
<1>1. runs[e] \in RunRecords(e) /\ runs[e].pc = "stepping" /\ k < Len(StepsOf[e])
  BY DEF WriterInv, RunsOK, StepSucceeds
<1>2. /\ Len(StepsOf[e]) \in Nat /\ k \in Nat /\ k >= 1 /\ k + 1 \in Nat
      /\ k \in 1..Len(StepsOf[e]) /\ k + 1 \in 1..Len(StepsOf[e])
  BY <1>1, IndexIs
<1>3. RunBecomes(e, q)
  BY DEF StepSucceeds
<1>5. q \in RunRecords(e) /\ q.pc = "stepping" /\ q.index = k + 1
  <2>1. /\ q \in RunRecords(e) /\ q.pc = runs[e].pc /\ q.index = k + 1
    BY <1>1, <1>2, NextIs
  <2> QED BY <1>1, <2>1
<1>6. PICK g : g = Ended(e, "StepCompleted")
  OBVIOUS
<1>7. written' = Noted(g, "StepStarted", e, next)
  BY <1>6 DEF StepSucceeds
<1> HIDE DEF q, k, next
<1>8. /\ \E a : PlansLead(a) /\ Grows(written, g, a, Own(e))
      /\ ExecutionTold(g, e, "running")
      /\ StepTold(g, e, k, "completed")
      /\ \A i \in 1..(k - 1) : StepTold(g, e, i, "completed")
  BY <1>1, <1>6, EndedIs DEF StepStatusOf, k
<1>9. PICK arcs : PlansLead(arcs) /\ Grows(written, g, arcs, Own(e))
  BY <1>8
<1>10. Wired(g)
  BY <1>9 DEF Grows
<1>11. /\ Grows(g, written', {<<exec, StepNode(next)>>}, {StepNode(next)})
       /\ StepNode(next) \in DOMAIN written'.nodes
       /\ written'.nodes[StepNode(next)] = "running"
  BY <1>7, <1>10, StepStartedIs
<1>12. ExecutionTold(written', e, "running")
  BY <1>8, <1>11, StaysTold, NodesDiffer
<1>13. StepTold(written', e, k + 1, "running")
  BY <1>11 DEF StepTold, Grows, next
<1>14. ASSUME NEW i \in 1..k PROVE StepTold(written', e, i, "completed")
  <2>1. i \in 1..Len(StepsOf[e]) /\ i # k + 1 /\ (i = k \/ i \in 1..(k - 1))
    BY <1>2
  <2>2. \A s : StepNode(s) \in {StepNode(next)} => s = StepsOf[e][k + 1]
    BY NodesDiffer DEF next
  <2>3. StepTold(g, e, i, "completed")
    BY <1>8, <2>1
  <2> QED BY <1>2, <1>11, <2>1, <2>2, <2>3, AnotherPlace
<1>15. RunTold(written', e, q)
  <2>1. ExecutionStatus(q) = "running"
    BY <1>5 DEF ExecutionStatus
  <2>2. ASSUME NEW i \in 1..q.index PROVE StepTold(written', e, i, StepStatus(q, i))
    <3>1. CASE i = k + 1
      <4>1. StepStatus(q, i) = "running"
        BY <1>2, <1>5, <3>1 DEF StepStatus
      <4> QED BY <1>13, <3>1, <4>1
    <3>2. CASE i # k + 1
      <4>1. i \in 1..k /\ i < q.index
        BY <1>2, <1>5, <3>2
      <4>2. StepStatus(q, i) = "completed"
        BY <4>1 DEF StepStatus
      <4> QED BY <1>14, <4>1, <4>2
    <3> QED BY <3>1, <3>2
  <2> QED BY <1>12, <2>1, <2>2 DEF RunTold
<1>16. Grows(g, written', {<<exec, StepNode(next)>>}, Own(e))
  BY <1>2, <1>11, InOwn DEF next
<1> DEFINE all == arcs \cup {<<exec, StepNode(next)>>}
<1>17. Grows(written, written', all, Own(e)) /\ PlansLead(all)
  <2>1. Grows(written, written', all, Own(e))
    BY <1>9, <1>16, TwoGrow
  <2>2. PlansLead(all)
    BY <1>9, PlansOnly, LeadBoth
  <2> QED BY <2>1, <2>2
<1> HIDE DEF all
<1>18. q.pc # "idle"
  BY <1>5
<1> QED BY <1>3, <1>5, <1>15, <1>17, <1>18, GoesOnTold

(* The loop is over.  Nobody tells of a cancelled execution how its step    *)
(* ended.                                                                   *)
LEMMA OverKeeps ==
    ASSUME WriterInv, NEW e \in Executions, runs[e].pc = "stepping",
           NEW failed \in BOOLEAN,
           failed \/ runs[e].index = Len(StepsOf[e]),
           Over(e, Ended(e, IF failed THEN "StepFailed" ELSE "StepCompleted"),
                IF failed THEN "failed" ELSE "completed",
                IF failed THEN "ExecutionFailed" ELSE "ExecutionCompleted")
    PROVE  WriterInv'
<1> DEFINE status == IF failed THEN "failed" ELSE "completed"
           ended == IF failed THEN "StepFailed" ELSE "StepCompleted"
           type == IF failed THEN "ExecutionFailed" ELSE "ExecutionCompleted"
           pc == IF runs[e].cancelled THEN "cancelled" ELSE status
           q == [runs[e] EXCEPT !.pc = pc]
           k == runs[e].index
           exec == ExecutionNode(e)
<1>1. runs[e] \in RunRecords(e) /\ k \in 1..Len(StepsOf[e]) /\ k \in Nat /\ k >= 1
  BY IndexIs DEF WriterInv, RunsOK
<1>2. RunBecomes(e, q)
  BY DEF Over
<1>3. /\ q.pc = pc /\ q.index = k /\ q \in RunRecords(e) /\ q.pc # "idle"
  <2>1. pc \in Pcs /\ pc # "idle"
    BY DEF Pcs
  <2> HIDE DEF pc
  <2> QED BY <1>1, <2>1, PcIs
<1>4. PICK g : g = Ended(e, ended)
  OBVIOUS
<1>5. written' = IF runs[e].cancelled THEN g ELSE Noted(g, type, e, Step(e))
  BY <1>4 DEF Over
<1>6. StepStatusOf(ended) = status /\ ended \in {"StepCompleted", "StepFailed"}
  BY DEF StepStatusOf
<1>7. /\ type \in {"ExecutionCompleted", "ExecutionFailed"}
      /\ status = (IF type = "ExecutionCompleted" THEN "completed" ELSE "failed")
  OBVIOUS
<1>8. status \in {"completed", "failed"} /\ pc = (IF runs[e].cancelled THEN "cancelled" ELSE status)
  OBVIOUS
<1> HIDE DEF q, k, pc, status, ended, type
<1>9. /\ \E a : PlansLead(a) /\ Grows(written, g, a, Own(e))
      /\ ExecutionTold(g, e, "running")
      /\ StepTold(g, e, k, status)
      /\ \A i \in 1..(k - 1) : StepTold(g, e, i, "completed")
  BY <1>4, <1>6, EndedIs DEF k
<1>10. PICK arcs : PlansLead(arcs) /\ Grows(written, g, arcs, Own(e))
  BY <1>9
<1>11. ASSUME NEW i \in 1..k
       PROVE  /\ i \in 1..Len(StepsOf[e])
              /\ \E s : StepTold(g, e, i, s) /\ (StepStatus(q, i) = s \/ StepStatus(q, i) = "unknown")
  <2>1. CASE i = k
    <3>1. StepStatus(q, i) = status \/ StepStatus(q, i) = "unknown"
      BY <1>1, <1>3, <1>8, <2>1 DEF StepStatus
    <3> QED BY <1>1, <1>9, <2>1, <3>1
  <2>2. CASE i # k
    <3>1. i \in 1..(k - 1) /\ i < q.index /\ i \in 1..Len(StepsOf[e])
      BY <1>1, <1>3, <2>2
    <3>2. StepStatus(q, i) = "completed"
      BY <3>1 DEF StepStatus
    <3> QED BY <1>9, <3>1, <3>2
  <2> QED BY <2>1, <2>2
<1>12. ASSUME NEW i \in 1..k PROVE StepTold(g, e, i, StepStatus(q, i))
  BY <1>11 DEF StepTold
<1>13. CASE runs[e].cancelled
  <2>1. written' = g /\ ExecutionStatus(q) = "running"
    BY <1>3, <1>5, <1>8, <1>13 DEF ExecutionStatus
  <2>2. RunTold(written', e, q)
    BY <1>3, <1>9, <1>12, <2>1 DEF RunTold
  <2> QED BY <1>2, <1>3, <1>10, <2>1, <2>2, GoesOnTold
<1>14. CASE ~runs[e].cancelled
  <2>1. written' = Noted(g, type, e, Step(e)) /\ ExecutionStatus(q) = status
    BY <1>3, <1>5, <1>8, <1>14 DEF ExecutionStatus
  <2>2. Wired(g)
    BY <1>10 DEF Grows
  <2>3. /\ Grows(g, written', {}, {exec})
        /\ exec \in DOMAIN g.nodes => written'.nodes[exec] = status
    BY <1>7, <2>1, <2>2, ExecutionUpdateIs
  <2>4. ExecutionTold(written', e, status)
    BY <1>9, <2>3 DEF ExecutionTold, Grows
  <2>5. ASSUME NEW i \in 1..k PROVE StepTold(written', e, i, StepStatus(q, i))
    BY <1>11, <1>12, <2>3, StaysTold, NodesDiffer
  <2>6. RunTold(written', e, q)
    BY <1>3, <2>1, <2>4, <2>5 DEF RunTold
  <2>7. Grows(g, written', {}, Own(e))
    BY <1>1, <2>3, InOwn
  <2>8. Grows(written, written', arcs \cup {}, Own(e)) /\ arcs \cup {} = arcs
    BY <1>10, <2>7, TwoGrow
  <2> QED BY <1>2, <1>3, <1>10, <2>6, <2>8, GoesOnTold
<1> QED BY <1>13, <1>14

(* The current step has the status the loop gives it, and those below keep  *)
(* theirs.                                                                  *)
LEMMA OneIsOn ==
    ASSUME NEW e \in Executions, NEW k \in 1..Len(StepsOf[e]), NEW run, run.index = k,
           NEW g, NEW h, NEW arcs, Grows(g, h, arcs, {StepNode(StepsOf[e][k])}),
           StepTold(h, e, k, StepStatus(run, k)),
           \A i \in 1..(k - 1) : StepTold(g, e, i, "completed"),
           Len(StepsOf[e]) \in Nat, k \in Nat,
           NEW i \in 1..k
    PROVE  StepTold(h, e, i, StepStatus(run, i))
<1>1. CASE i = k
  BY <1>1
<1>2. CASE i # k
  <2>1. i \in 1..(k - 1) /\ i \in 1..Len(StepsOf[e]) /\ i < run.index
    BY <1>2
  <2>2. StepStatus(run, i) = "completed"
    BY <2>1 DEF StepStatus
  <2>3. \A s : StepNode(s) \in {StepNode(StepsOf[e][k])} => s = StepsOf[e][k]
    BY NodesDiffer
  <2>4. StepTold(g, e, i, "completed")
    BY <2>1
  <2>5. StepTold(h, e, i, "completed")
    BY <1>2, <2>1, <2>3, <2>4, AnotherPlace
  <2> QED BY <2>2, <2>5
<1> QED BY <1>1, <1>2

(* The loop is not yet over: the current step fails, and is tried again.    *)
LEMMA StepFailsKeeps ==
    ASSUME WriterInv, NEW e \in Executions, StepFails(e)
    PROVE  WriterInv'
<1> DEFINE q == [runs[e] EXCEPT !.pc = "waiting", !.attempts = @ + 1]
           k == runs[e].index
           step == Step(e)
<1>1. runs[e] \in RunRecords(e) /\ runs[e].pc = "stepping" /\ step = StepsOf[e][k]
  BY DEF WriterInv, RunsOK, StepFails, Step
<1>2. k \in Nat /\ k >= 1 /\ k \in 1..Len(StepsOf[e])
  BY <1>1, IndexIs
<1>3. q \in RunRecords(e) /\ q.pc = "waiting" /\ q.index = k
  BY <1>1, WaitingIs
<1>4. RunBecomes(e, q)
  BY DEF StepFails
<1>5. PICK g : g = Ended(e, "StepFailed")
  OBVIOUS
<1>6. written' = Noted(g, "RetryStarted", e, step)
  BY <1>5 DEF StepFails
<1> HIDE DEF q, k, step
<1>7. /\ \E a : PlansLead(a) /\ Grows(written, g, a, Own(e))
      /\ ExecutionTold(g, e, "running")
      /\ StepTold(g, e, k, "failed")
      /\ \A i \in 1..(k - 1) : StepTold(g, e, i, "completed")
  BY <1>1, <1>5, EndedIs DEF StepStatusOf, k
<1>8. PICK arcs : PlansLead(arcs) /\ Grows(written, g, arcs, Own(e))
  BY <1>7
<1>9. Wired(g)
  BY <1>8 DEF Grows
<1>10. /\ Grows(g, written', {}, {StepNode(step)})
       /\ StepNode(step) \in DOMAIN g.nodes => written'.nodes[StepNode(step)] = "retrying"
  BY <1>6, <1>9, StepUpdateIs DEF StepStatusOf
<1>11. ExecutionTold(written', e, "running")
  BY <1>7, <1>10, StaysTold, NodesDiffer
<1>12. StepTold(written', e, k, "retrying")
  BY <1>1, <1>7, <1>10 DEF StepTold, Grows
<1>13. ASSUME NEW i \in 1..k PROVE StepTold(written', e, i, StepStatus(q, i))
  <2>1. StepStatus(q, k) = "retrying" /\ Len(StepsOf[e]) \in Nat
    BY <1>1, <1>2, <1>3, IndexIs DEF StepStatus
  <2> QED BY <1>1, <1>2, <1>3, <1>7, <1>10, <1>12, <2>1, OneIsOn
<1>14. RunTold(written', e, q)
  <2>1. ExecutionStatus(q) = "running"
    BY <1>3 DEF ExecutionStatus
  <2> QED BY <1>3, <1>11, <1>13, <2>1 DEF RunTold
<1>15. Grows(g, written', {}, Own(e))
  BY <1>1, <1>2, <1>10, InOwn
<1>16. Grows(written, written', arcs \cup {}, Own(e)) /\ arcs \cup {} = arcs
  BY <1>8, <1>15, TwoGrow
<1> QED BY <1>3, <1>4, <1>8, <1>14, <1>16, GoesOnTold

LEMMA RetryKeeps ==
    ASSUME WriterInv, NEW e \in Executions, Retry(e)
    PROVE  WriterInv'
<1> DEFINE q == [runs[e] EXCEPT !.pc = "stepping"]
           k == runs[e].index
           step == Step(e)
           arcs == {<<ExecutionNode(e), StepNode(step)>>}
<1>1. runs[e] \in RunRecords(e) /\ runs[e].pc = "waiting" /\ step = StepsOf[e][k]
  BY DEF WriterInv, RunsOK, Retry, Step
<1>2. k \in Nat /\ k >= 1 /\ k \in 1..Len(StepsOf[e])
  BY <1>1, IndexIs
<1>3. q \in RunRecords(e) /\ q.pc = "stepping" /\ q.index = k
  BY <1>1, PcIs DEF Pcs
<1>4. RunBecomes(e, q) /\ written' = Noted(written, "StepStarted", e, step)
  BY DEF Retry
<1>5. /\ ExecutionTold(written, e, "running")
      /\ \A i \in 1..(k - 1) : StepTold(written, e, i, "completed")
  <2>1. RunTold(written, e, runs[e])
    BY DEF WriterInv
  <2>2. ExecutionStatus(runs[e]) = "running"
    BY <1>1 DEF ExecutionStatus
  <2>3. \A i \in 1..(k - 1) : i \in 1..k /\ StepStatus(runs[e], i) = "completed"
    BY <1>2 DEF StepStatus
  <2> QED BY <1>1, <2>1, <2>2, <2>3 DEF RunTold
<1> HIDE DEF q, k, step
<1>6. /\ Grows(written, written', arcs, {StepNode(step)})
      /\ StepNode(step) \in DOMAIN written'.nodes /\ written'.nodes[StepNode(step)] = "running"
  BY <1>4, StepStartedIs DEF WriterInv
<1>7. ExecutionTold(written', e, "running")
  BY <1>5, <1>6, StaysTold, NodesDiffer
<1>8. StepTold(written', e, k, "running")
  BY <1>1, <1>6 DEF StepTold, Grows
<1>9. PlansLead(arcs)
  BY PlansOnly
<1> HIDE DEF arcs
<1>10. ASSUME NEW i \in 1..k PROVE StepTold(written', e, i, StepStatus(q, i))
  <2>1. StepStatus(q, k) = "running" /\ Len(StepsOf[e]) \in Nat
    BY <1>1, <1>2, <1>3, IndexIs DEF StepStatus
  <2> QED BY <1>1, <1>2, <1>3, <1>5, <1>6, <1>8, <2>1, OneIsOn
<1>11. RunTold(written', e, q)
  <2>1. ExecutionStatus(q) = "running"
    BY <1>3 DEF ExecutionStatus
  <2> QED BY <1>3, <1>7, <1>10, <2>1 DEF RunTold
<1>12. Grows(written, written', arcs, Own(e))
  BY <1>1, <1>2, <1>6, InOwn
<1> QED BY <1>3, <1>4, <1>9, <1>11, <1>12, GoesOnTold

(* Nothing is noted of a cancellation.                                      *)
LEMMA CancelKeeps ==
    ASSUME WriterInv, NEW e \in Executions, Cancel(e)
    PROVE  WriterInv'
<1> DEFINE q == [runs[e] EXCEPT !.cancelled = TRUE]
<1>1. runs[e] \in RunRecords(e) /\ runs[e].pc \in {"stepping", "waiting"}
  BY DEF WriterInv, RunsOK, Cancel
<1>2. q \in RunRecords(e) /\ q.pc = runs[e].pc /\ q.index = runs[e].index
  BY <1>1, CancelledIs
<1>3. RunBecomes(e, q) /\ written' = Noted(written, "ExecutionCancelled", e, Step(e))
  BY DEF Cancel
<1>4. written' = written
  BY <1>3 DEF Noted, HandleEvent, Event
<1> HIDE DEF q
<1>5. RunTold(written, e, q)
  <2>1. RunTold(written, e, runs[e])
    BY DEF WriterInv
  <2>2. ExecutionStatus(q) = ExecutionStatus(runs[e])
    BY <1>2 DEF ExecutionStatus
  <2>3. \A i : StepStatus(q, i) = StepStatus(runs[e], i)
    BY <1>2 DEF StepStatus
  <2> QED BY <1>1, <1>2, <2>1, <2>2, <2>3 DEF RunTold
<1>6. Grows(written, written', {}, Own(e)) /\ PlansLead({})
  BY <1>4 DEF Grows, WriterInv, PlansLead
<1>7. q.pc # "idle"
  BY <1>1, <1>2
<1> QED BY <1>2, <1>3, <1>4, <1>5, <1>6, <1>7, GoesOnTold

-----------------------------------------------------------------------------
(* The graph is what the executions are.                                    *)

LEMMA WriterStarts == WriterInit => WriterInv
<1> SUFFICES ASSUME WriterInit PROVE WriterInv
  OBVIOUS
<1>1. written = EmptyGraph /\ runs = [e \in Executions |-> IdleRun]
  BY DEF WriterInit
<1>2. Wired(EmptyGraph) /\ DOMAIN EmptyGraph.edges = {}
  BY DEF EmptyGraph, Wired
<1>3. ASSUME NEW e \in Executions PROVE runs[e] = IdleRun /\ IdleRun \in RunRecords(e)
  <2>1. StepsOf[e] \in Seq(Range(StepsOf[e])) /\ StepsOf[e] # <<>>
    BY WriterAssumption
  <2>2. 1 \in 1..Len(StepsOf[e])
    BY <2>1
  <2> QED BY <1>1, <2>2 DEF RunRecords, Pcs, IdleRun
<1>4. RunsOK
  BY <1>1, <1>3 DEF RunsOK
<1> QED BY <1>1, <1>2, <1>3, <1>4 DEF WriterInv, PlansLead, RunTold, IdleRun

LEMMA WriterKeeps == WriterInv /\ [WriterNext]_writerVars => WriterInv'
<1> SUFFICES ASSUME WriterInv, [WriterNext]_writerVars PROVE WriterInv'
  OBVIOUS
<1>1. CASE UNCHANGED writerVars
  BY <1>1 DEF writerVars, WriterInv, RunsOK
<1>2. ASSUME NEW e \in Executions, StartExecution(e) PROVE WriterInv'
  BY <1>2, StartKeeps
<1>3. ASSUME NEW e \in Executions, StepSucceeds(e) PROVE WriterInv'
  BY <1>3, StepSucceedsKeeps
<1>4. ASSUME NEW e \in Executions, LastStepSucceeds(e) PROVE WriterInv'
  <2>1. /\ runs[e].pc = "stepping" /\ runs[e].index = Len(StepsOf[e])
        /\ Over(e, Ended(e, "StepCompleted"), "completed", "ExecutionCompleted")
    BY <1>4 DEF LastStepSucceeds
  <2> QED BY <2>1, OverKeeps
<1>5. ASSUME NEW e \in Executions, StepFails(e) PROVE WriterInv'
  BY <1>5, StepFailsKeeps
<1>6. ASSUME NEW e \in Executions, StepFailsForGood(e) PROVE WriterInv'
  <2>1. /\ runs[e].pc = "stepping"
        /\ Over(e, Ended(e, "StepFailed"), "failed", "ExecutionFailed")
    BY <1>6 DEF StepFailsForGood
  <2> QED BY <2>1, OverKeeps
<1>7. ASSUME NEW e \in Executions, Retry(e) PROVE WriterInv'
  BY <1>7, RetryKeeps
<1>8. ASSUME NEW e \in Executions, Cancel(e) PROVE WriterInv'
  BY <1>8, CancelKeeps
<1> QED BY <1>1, <1>2, <1>3, <1>4, <1>5, <1>6, <1>7, <1>8 DEF WriterNext

(* A told step is one arc from its execution, and two from its plan.        *)
LEMMA ToldIsReached ==
    ASSUME WriterInv, NEW e \in Executions, NEW i, NEW status,
           StepTold(written, e, i, status), ExecutionTold(written, e, ExecutionStatus(runs[e]))
    PROVE  /\ PathLength(written, ExecutionNode(e), StepNode(StepsOf[e][i]), 10) = 1
           /\ PathLength(written, PlanNode(e), StepNode(StepsOf[e][i]), 10) = 2
<1> DEFINE arcs == ListedArcs(written)
           exec == ExecutionNode(e)
           plan == PlanNode(e)
           step == StepNode(StepsOf[e][i])
<1>1. arcs = DOMAIN written.edges
  BY ArcsAreTheIds DEF WriterInv
<1>2. <<plan, exec>> \in arcs /\ <<exec, step>> \in arcs
  BY <1>1 DEF StepTold, ExecutionTold
<1>3. plan # step /\ exec # step
  BY NodesDiffer
<1>4. <<plan, step>> \notin arcs
  <2>1. <<plan, step>>[1][1] = "plan" /\ <<plan, step>>[2][1] = "step"
    BY DEF PlanNode, StepNode
  <2> HIDE DEF plan, step
  <2> QED BY <1>1, <2>1 DEF WriterInv, PlansLead
<1>5. \A arc \in arcs : IsArc(arc)
  BY <1>1 DEF WriterInv, Wired
<1>6. 10 \in Nat /\ 10 >= 2
  OBVIOUS
<1> HIDE DEF arcs, exec, plan, step
<1>7. Steps(arcs, exec, step, 10) = 1
  BY <1>2, <1>3, <1>6, OneStep
<1>8. Steps(arcs, plan, step, 10) = 2
  BY <1>2, <1>3, <1>4, <1>5, <1>6, TwoSteps
<1> QED BY <1>7, <1>8 DEF PathLength, arcs, exec, plan, step

LEMMA WriterTells == WriterInv => GraphTellsTheExecutions
<1> SUFFICES ASSUME WriterInv, NEW e \in Executions, runs[e].pc # "idle"
             PROVE  /\ written.nodes[ExecutionNode(e)] = ExecutionStatus(runs[e])
                    /\ \A i \in 1..runs[e].index : LET step == StepsOf[e][i] IN
                          /\ PathLength(written, ExecutionNode(e), StepNode(step), 10) = 1
                          /\ PathLength(written, PlanNode(e), StepNode(step), 10) = 2
                          /\ \/ Shared(step) \/ StepStatus(runs[e], i) = "unknown"
                             \/ written.nodes[StepNode(step)] = StepStatus(runs[e], i)
  BY DEF GraphTellsTheExecutions
<1>1. ExecutionTold(written, e, ExecutionStatus(runs[e]))
  BY DEF WriterInv, RunTold
<1>2. ASSUME NEW i \in 1..runs[e].index PROVE StepTold(written, e, i, StepStatus(runs[e], i))
  BY DEF WriterInv, RunTold
<1>3. ASSUME NEW i \in 1..runs[e].index
      PROVE  /\ PathLength(written, ExecutionNode(e), StepNode(StepsOf[e][i]), 10) = 1
             /\ PathLength(written, PlanNode(e), StepNode(StepsOf[e][i]), 10) = 2
  BY <1>1, <1>2, ToldIsReached
<1> QED BY <1>1, <1>2, <1>3 DEF ExecutionTold, StepTold

(* GraphitiEventWriter.handleEvent(): whatever the executions do side by    *)
(* side, and whatever ids their plans share, mission control shows of each  *)
(* what became of it, and hangs each step it began below it.                *)
THEOREM GraphTellsTheExecutionsAlways == WriterSpec => []GraphTellsTheExecutions
<1> QED BY WriterStarts, WriterKeeps, WriterTells, PTL DEF WriterSpec
=============================================================================
