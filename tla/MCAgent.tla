------------------------------- MODULE MCAgent -------------------------------
(* The parts an agent's work is made of: tools, the planner, the execution  *)
(* engine, the memory, the registries of providers, the graph and what is   *)
(* written to it, and streamed answers.  As in MCHost a behaviour is that   *)
(* of one part.  Tools, memory, graph and writer have their own variables,  *)
(* the others take the first of the slots below, and the slots that a part  *)
(* does not use stay "off".                                                 *)
EXTENDS ToolExecutor, Memory, InMemoryGraphiti, GraphitiEventWriter, FiniteSets

CONSTANT Parts

VARIABLES part, s1, s2, s3, s4, s5, s6, s7, s8, s9

slots == <<s1, s2, s3, s4, s5, s6, s7, s8, s9>>

agentVars == <<part, toolVars, vars, graphVars, writerVars, slots>>

Two == {"a", "b"}

-----------------------------------------------------------------------------
(* Tools: one in four versions, and calls that fit all, some or none.       *)

Version(enabled, plugin, optional, permissions) ==
    [id |-> "fetch", pluginId |-> plugin, enabled |-> enabled,
     required |-> {"url"}, optional |-> optional,
     types |-> [url |-> "string", depth |-> "number"], permissions |-> permissions]

Versions ==
    {Version(TRUE, "web", {"depth"}, {}), Version(TRUE, "web", {}, {"net"}),
     Version(FALSE, "web", {"depth"}, {}), Version(TRUE, "shell", {"depth"}, {})}

Call(arguments, grants) ==
    [toolId |-> "fetch", arguments |-> arguments, plugins |-> {"web"}, grants |-> grants]

ToolRequests ==
    [a |-> Call([url |-> "string"], {}),
     b |-> Call([url |-> "string", depth |-> "null"], {"net"}),
     c |-> Call([depth |-> "string"], {"net"})]

ToolCalls == DOMAIN ToolRequests

-----------------------------------------------------------------------------
(* Planning: requests with up to three tools, some of them disabled or      *)
(* without a description, and bounds around what a plan needs.              *)

NoBound == -100

Tool(id, described, enabled) == [id |-> id, described |-> described, enabled |-> enabled]

Offers ==
    {<<>>, <<Tool("x", TRUE, TRUE)>>, <<Tool("x", TRUE, FALSE)>>, <<Tool("x", FALSE, TRUE)>>,
     <<Tool("x", TRUE, TRUE), Tool("y", TRUE, FALSE), Tool("z", TRUE, TRUE)>>}

PlanRequests ==
    [goal : {"text", "blank"}, tools : Offers,
     strategy : {"unset", "sequential", "parallel", "magic"}, maxSteps : {NoBound, 0, 1, 3, 4}]

Planner == INSTANCE PlanningEngine
    WITH Callers <- {"a"}, Requests <- PlanRequests, faulty <- s1, calls <- s2

(* Another planner's answers: a plan, one that names a step twice, one with *)
(* a dependency it lacks, one not validated, none.                          *)
PlanStep(id, dependsOn) ==
    [id |-> id, tool |-> "none", described |-> TRUE, dependsOn |-> dependsOn]

Reply(plan, status, code) == [plan |-> plan, status |-> status, code |-> code]

OtherAnswers ==
    {Reply(<<PlanStep(1, {}), PlanStep(2, {1}), PlanStep(3, {1, 2})>>, "ready", "OK"),
     Reply(<<PlanStep(1, {}), PlanStep(2, {}), PlanStep(1, {2})>>, "ready", "OK"),
     Reply(<<PlanStep(1, {3})>>, "validated", "OK"),
     Reply(<<PlanStep(1, {})>>, "draft", "OK"),
     Reply(<<>>, "none", "PLANNING_FAILED")}

Engine == INSTANCE ExecutionEngine
    WITH Executions <- {"a", "b", "c"},
         PlannerOf <- [a |-> "other", b |-> "engine", c |-> "none"],
         MemoryOf <- [a |-> TRUE, b |-> FALSE, c |-> TRUE],
         Offered <- <<"x", "y">>, Responses <- OtherAnswers, execs <- s1

-----------------------------------------------------------------------------
(* Memory: contents of no, of one and of three chunks, importances beyond   *)
(* their range, and queries that let nearly nothing or everything through.  *)

Memory(scope, length, importance, readOnly, user) ==
    [scope |-> scope, length |-> length, importance |-> importance, readOnly |-> readOnly,
     userId |-> user, projectId |-> "none", pluginId |-> "web", tags |-> {"tag"},
     words |-> {"word"}]

MemoryInputs ==
    {Memory("system", 25, 2, TRUE, "ann"), Memory("conversation", 9, Unset, FALSE, "ben"),
     Memory("conversation", 0, 11, FALSE, "ben")}

Query(user, text, minImportance, minScore, includeReadOnly) ==
    [text |-> text, scopes |-> {}, pluginIds |-> {}, userId |-> user, projectId |-> "none",
     tags |-> {"tag"}, minImportance |-> minImportance, minScore |-> minScore,
     includeReadOnly |-> includeReadOnly, maxResults |-> 1]

MemoryQueries ==
    {Query("ann", "word", 3, 1500, FALSE), Query("ben", "word", Unset, Unset, TRUE)}

MemoryPolicies == {[scope |-> "conversation", importance |-> 1]}

Providers == INSTANCE ProviderRegistries
    WITH ProviderIds <- {"a", "b", "c"}, providers <- s1, default <- s2

-----------------------------------------------------------------------------
(* What is written to the graph: two executions that have a step of the     *)
(* same id.                                                                 *)

PlanSteps == [a |-> <<"s1", "s2">>, b |-> <<"s1", "s3">>]

-----------------------------------------------------------------------------
(* The graph's readers: an execution and a log, of which a snapshot shows  *)
(* one, and listeners one of which wants to be called but once.             *)

Routes == INSTANCE GraphApi
    WITH TypeOf <- [a |-> "execution", b |-> "log"],
         Ends <- [e |-> [source |-> "b", target |-> "a"]],
         Listeners <- {"all", "once"}, Once <- {"once"},
         SnapshotLimit <- 1, PageSize <- 1, MaxChanges <- 3,
         graph <- s1, order <- s2, changes <- s3, handlers <- s4, heard <- s5, since <- s6,
         skipped <- s7, pager <- s8, steady <- s9

-----------------------------------------------------------------------------
(* Streams: of the vendor, and of mocks that break in the middle or not.    *)

Origins ==
    {[kind |-> "openai", length |-> 0, errorAfter |-> 0, finish |-> "none"],
     [kind |-> "mock", length |-> 2, errorAfter |-> 1, finish |-> "stop"],
     [kind |-> "mock", length |-> 2, errorAfter |-> 5, finish |-> "tool_calls"]}

(* Providers: configurations with and without a key, a good conversation    *)
(* with a tool and one without a model, and errors that say the same thing  *)
(* in several ways.                                                         *)

LLMConfig(provider, apiKey, registrations) ==
    [provider |-> provider, model |-> "m", apiKey |-> apiKey, registrations |-> registrations]

LLMConfigs ==
    {LLMConfig("openai", "key", <<>>), LLMConfig("openai", "empty", <<"entry">>),
     LLMConfig("mock", "none", <<"entry", "no model">>), LLMConfig("other", "key", <<>>)}

Message(role, called, answers) == [role |-> role, calls |-> called, answers |-> answers]

Chats ==
    {[model |-> "", tools |-> {"t"}, options |-> {"temperature"}, json |-> TRUE,
      messages |-> <<Message("user", {}, "none"), Message("assistant", {"t1"}, "none"),
                     Message("tool", {}, "t1")>>],
     [model |-> "n", tools |-> {}, options |-> {}, json |-> FALSE,
      messages |-> <<Message("narrator", {}, "none")>>]}

Choice(text, called, finish) == [text |-> text, calls |-> called, finish |-> finish]

VendorReplies ==
    {[model |-> "m-1", choices |-> <<Choice(FALSE, <<"t1">>, "tool_calls")>>, usage |-> 3],
     [model |-> "none", choices |-> <<>>, usage |-> 0],
     [model |-> "m-1", choices |-> <<Choice(FALSE, <<>>, "function_call")>>, usage |-> 3]}

Thrown(kind, status, code, type, header) ==
    [kind |-> kind, status |-> status, code |-> code, type |-> type, retryAfter |-> header]

NoHeader == [form |-> "none"]

VendorFailures ==
    {Thrown("sdk", 429, "insufficient_quota", "none", NoHeader),
     Thrown("sdk", 400, "none", "context_length_exceeded", NoHeader),
     Thrown("sdk", 400, "none", "invalid_request_error", NoHeader),
     Thrown("sdk", 429, "none", "none", [form |-> "seconds", value |-> 2]),
     Thrown("sdk", 429, "none", "none", [form |-> "date", left |-> 0]),
     Thrown("sdk", 409, "none", "none", NoHeader),
     Thrown("sdk", 503, "none", "none", NoHeader), Thrown("sdk", 620, "none", "none", NoHeader),
     Thrown("string", 0, "none", "none", NoHeader),
     Thrown("llm", 0, "INVALID_MODEL", "none", NoHeader)}

Scripted(content) == [content |-> content, calls |-> <<>>, finish |-> "stop"]

Parameter(name, type, required) == [name |-> name, type |-> type, required |-> required]

VendorTools ==
    {[required |-> <<Parameter("url", "string", TRUE)>>,
      optional |-> <<Parameter("depth", "integer", FALSE)>>],
     [required |-> <<Parameter("url", "string", FALSE)>>,
      optional |-> <<Parameter("url", "object", TRUE)>>]}

Model == INSTANCE ProviderCalls
    WITH Callers <- Two, Configs <- LLMConfigs, Conversations <- Chats, Replies <- VendorReplies,
         Failures <- VendorFailures, Scripts <- {<<Scripted(1), Scripted(2)>>},
         builders <- s1, script <- s2, calls <- s3, logged <- s4, scripted <- s5, turns <- s6

Stream == INSTANCE LLMStreaming
    WITH Calls <- 1..2, MaxPieces <- 2, Sources <- Origins,
         source <- s1, text <- s2, pieces <- s3, opened <- s4, chunks <- s5, pc <- s6,
         answer <- s7, told <- s8, last <- s9

-----------------------------------------------------------------------------
(* Records of an execution: a plan of two steps and one of a single step,   *)
(* and results with and without the fields they may lack, one with data     *)
(* that JSON changes and one with data it cannot hold.                      *)

SavedStep(id, tool, metadata) ==
    [id |-> id, tool |-> tool, arguments |-> tool, metadata |-> metadata, dependsOn |-> {}]

SavedPlan(steps, dependencies, criteria) ==
    [goal |-> [raw |-> "g", successCriteria |-> criteria], steps |-> steps,
     dependencies |-> dependencies,
     constraints |-> {[id |-> "time", value |-> criteria], [id |-> "cost", value |-> "none"]}]

SavedPlans ==
    {SavedPlan(<<SavedStep("s", "t", "none"), SavedStep("t", "none", "m")>>,
               {[from |-> "s", to |-> "t"]}, "done"),
     SavedPlan(<<SavedStep("s", "none", "none")>>, {}, "none"), SavedPlan(<<>>, {}, "none")}

Outcome(step, success, data, error, code, retries) ==
    [stepId |-> step, success |-> success, data |-> data, error |-> error,
     errorCode |-> code, retryAttempts |-> retries]

Outcomes ==
    {Outcome("s", FALSE, "none", "broken", "CODE", 0), Outcome("s", TRUE, "json", "none", "none", 1),
     Outcome("t", TRUE, "date", "none", "none", 0), Outcome("t", FALSE, "bigint", "broken", "none", 0)}

Records == INSTANCE ExecutionRecords
    WITH Plans <- SavedPlans, StepResults <- Outcomes,
         Ids <- [executionId |-> "e", planId |-> "p"], MaxResults <- 3, MaxCheckpoints <- 2,
         plan <- s1, index <- s2, results <- s3, checkpoints <- s4, entries <- s5,
         byStep <- s6, saved <- s7, restored <- s8

-----------------------------------------------------------------------------

OffFrom8 == s8 = "off" /\ s9 = "off"
OffFrom7 == s7 = "off" /\ OffFrom8
OffFrom3 == s3 = "off" /\ s4 = "off" /\ s5 = "off" /\ s6 = "off" /\ OffFrom7
OffFrom1 == s1 = "off" /\ s2 = "off" /\ OffFrom3

AgentInit ==
    /\ part \in Parts
    /\ ToolInit /\ Init /\ GraphInit /\ WriterInit
    /\ \/ part \in {"tools", "store", "graph", "writer"} /\ OffFrom1
       \/ part = "planner" /\ Planner!Init /\ OffFrom3
       \/ part = "engine" /\ Engine!Init /\ s2 = "off" /\ OffFrom3
       \/ part = "providers" /\ Providers!RegistriesInit /\ OffFrom3
       \/ part = "stream" /\ Stream!Init
       \/ part = "routes" /\ Routes!Init
       \/ part = "records" /\ Records!Init /\ s9 = "off"
       \/ part = "model" /\ Model!Init /\ OffFrom7

Others == <<part, toolVars, vars, graphVars, writerVars>>
From9 == <<s9, Others>>
From8 == <<s8, From9>>
From7 == <<s7, From8>>
From3 == <<s3, s4, s5, s6, From7>>
From2 == <<s2, From3>>

ToolsMove == part = "tools" /\ ToolNext /\ UNCHANGED <<part, vars, graphVars, writerVars, slots>>
StoreMoves == part = "store" /\ Next /\ UNCHANGED <<part, toolVars, graphVars, writerVars, slots>>
PlannerMoves == part = "planner" /\ Planner!Next /\ UNCHANGED From3
EngineMoves == part = "engine" /\ Engine!Next /\ UNCHANGED From2
ProvidersMove == part = "providers" /\ Providers!RegistriesNext /\ UNCHANGED From3
GraphMoves == part = "graph" /\ GraphNext /\ UNCHANGED <<part, toolVars, vars, writerVars, slots>>
WriterMoves ==
    part = "writer" /\ WriterNext /\ UNCHANGED <<part, toolVars, vars, graphVars, slots>>
StreamMoves == part = "stream" /\ Stream!Next /\ UNCHANGED Others
RecordsMove == part = "records" /\ Records!Next /\ UNCHANGED From9
RoutesMove == part = "routes" /\ Routes!Next /\ UNCHANGED Others
ModelMoves == part = "model" /\ Model!Next /\ UNCHANGED From7

AgentNext ==
    \/ ToolsMove \/ PlannerMoves \/ EngineMoves \/ StoreMoves
    \/ ProvidersMove \/ GraphMoves \/ WriterMoves \/ StreamMoves \/ ModelMoves
    \/ RoutesMove \/ RecordsMove

(* The fairness of the parts that state some: the timers of tools fire, and *)
(* an engine's memory, planner and steps answer.                            *)
Fairness ==
    /\ \A c \in ToolCalls :
          WF_agentVars(/\ part = "tools" /\ TimerFires(c)
                       /\ UNCHANGED <<part, vars, graphVars, writerVars, slots>>)
    /\ \A e \in {"a", "b", "c"} :
          WF_agentVars(part = "engine" /\ Engine!GoesOn(e) /\ UNCHANGED From2)

AgentSpec == AgentInit /\ [][AgentNext]_agentVars

FairAgentSpec == AgentSpec /\ Fairness

-----------------------------------------------------------------------------

(* Each part keeps its shape; a registry of providers has a default exactly *)
(* if it has a provider, whatever was registered, replaced and removed.     *)
AgentTypeOK ==
    /\ ToolTypeOK /\ TypeOK
    /\ part = "planner" => Planner!TypeOK
    /\ part = "engine" => Engine!TypeOK
    /\ part = "providers" => Providers!DefaultIsRegistered

(* PlanningEngine.plan(): what it returns can be run as it stands; and      *)
(* ExecutionEngine.execute(): its result says which steps ran; so do the    *)
(* history, and what is read back of a saved checkpoint.                    *)
PlansRunAsTold ==
    /\ part = "planner" => Planner!PlansAreExecutable
    /\ part = "engine" => Engine!ResultTellsWhatRan
    /\ part = "records" => Records!HistoryTellsTheSteps /\ Records!RestoredIsWhatWasSaved

(* accumulateChatChunks(): an answer is what was sent; a call of a provider *)
(* sends what was asked, and fails with the vendor's reason; and the        *)
(* graph's routes and listeners tell what is in it.                         *)
AnswersTellWhatIs ==
    /\ part = "stream" => Stream!AnswerIsWhatWasSent
    /\ part = "model" =>
          /\ Model!ErrorsKeepTheirReason /\ Model!LinesTellTheCalls
          /\ Model!ConversationsArrive /\ Model!ScriptIsFollowed
          /\ Model!SchemasFitTheExecutor(VendorTools)
    /\ part = "routes" =>
          /\ Routes!LogTellsTheGraph /\ Routes!PagesFollowEachOther
          /\ Routes!SnapshotIsTheGraph /\ Routes!LimitsAreKept

(* A tool call ends even if its handler never does (executeWithTimeout()),  *)
(* and an execution does if its memory, its planner and its steps do: as    *)
(* none is called twice, a time comes when nobody waits.                    *)
SomebodyWaits ==
    \/ part = "tools" /\ \E c \in ToolCalls : Unanswered(c)
    \/ part = "engine" /\ \E e \in {"a", "b", "c"} : Engine!Unanswered(e)

CallersAreAnswered == SomebodyWaits ~> ~SomebodyWaits

-----------------------------------------------------------------------------

(* A goal and its tools get a plan.  Does not hold: see README.             *)
GoalWithToolsIsPlanned == part = "engine" => Engine!GoalWithToolsIsPlanned

(* Deltas of tool calls are put together by index.  Does not hold: see      *)
(* README.                                                                  *)
ToolCallsKeepTheirIndex == part = "stream" => Stream!ToolCallsKeepTheirIndex
=============================================================================
