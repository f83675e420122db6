------------------------------- MODULE MCHost -------------------------------
(* The parts of Agent OS around the kernel: what starts and stops it, what  *)
(* watches it, what it is configured with, the ways in and the dashboard.   *)
(* These parts share no state, so a behaviour is that of one of them,       *)
(* chosen at the start.  The plugin platform, the startup, shutdown and     *)
(* health managers, the adapters and the API server have their own          *)
(* variables; those of any other part are the first of the slots below, and *)
(* the slots that a part does not use stay "off".                           *)
EXTENDS PluginPlatform, StartupManager, ShutdownManager, HealthManager, Adapters, ApiServer,
        FiniteSets, TLC

CONSTANT Parts

VARIABLES part, s1, s2, s3, s4, s5, s6, s7, s8, s9, s10

slots == <<s1, s2, s3, s4, s5, s6, s7, s8, s9, s10>>
hostVars == <<part, vars, startupVars, shutdownVars, healthVars, adapterVars, apiVars, slots>>

Two == {"a", "b"}
Three == {"a", "b", "c"}

-----------------------------------------------------------------------------
(* Startup: a database; a cache over it, which cannot be rolled back; and   *)
(* another database of the same name that needs the cache.                  *)

Step(name, deps, rollback) == [name |-> name, deps |-> deps, rollback |-> rollback]

Services ==
    {Step("database", <<>>, TRUE), Step("cache", <<"database">>, FALSE),
     Step("database", <<"cache">>, TRUE)}

ShutdownSteps == {"server", "database", "cache"}

-----------------------------------------------------------------------------
(* Plugins: two that start, and one with a setting that only the            *)
(* environment has right, found again in a folder where it needs a later    *)
(* Agent OS; two loads, starts and stops and a dispose, in any order and at *)
(* once.                                                                    *)

Entry(id, source, compatible) == [id |-> id, source |-> source, compatible |-> compatible]

Directory ==
    <<Entry("git", "dir/git", TRUE), Entry("set", "new/set", FALSE),
      Entry("mail", "dir/mail", TRUE), Entry("set", "dir/set", TRUE)>>

BusyCalls == {"load1", "load2", "start1", "start2", "stop1", "stop2", "dispose1"}

BusyOp ==
    [load1 |-> "load", load2 |-> "load", start1 |-> "startup", start2 |-> "startup",
     stop1 |-> "shutdown", stop2 |-> "shutdown", dispose1 |-> "dispose"]

AllValid == [id \in {"git", "mail", "set"} |-> "valid"]
OneInvalid == [AllValid EXCEPT !["set"] = "invalid"]

(* Discovery: plugins that fit, that ask for a later Agent OS or a version  *)
(* in a range, or lack a description, and a folder that holds none; in one  *)
(* directory or the other, with others loaded before.                       *)

Version(n) == [prefix |-> "", n |-> n]
Need(id, prefix, n) == [id |-> id, version |-> [prefix |-> prefix, n |-> n]]

File(section, package) == [plugin |-> TRUE, section |-> section, package |-> package]
Folder(name, content) == [name |-> name, content |-> content]
Dir(folders) == [kind |-> "directory", folders |-> folders]

Git ==
    File([version |-> Version(<<1, 3, 0>>), description |-> "git"],
         [name |-> "git", version |-> Version(<<0, 9, 0>>)])
Mail ==
    File([id |-> "mail", description |-> "mail", minimum |-> Version(<<1, 2, 0>>),
          dependencies |-> <<Need("git", "", <<1, 3, 0>>), Need("disk", "", <<1, 0, 0>>)>>],
         [version |-> Version(<<0, 1, 0>>)])
Late == File([id |-> "mail", description |-> "mail", minimum |-> Version(<<1, 2, 4>>)], <<>>)
Caret ==
    File([id |-> "caret", description |-> "c", dependencies |-> <<Need("git", "^", <<1, 0, 0>>)>>],
         <<>>)
Bare == File(<<>>, [name |-> "git", version |-> Version(<<1, 2, 5>>)])
Other == [plugin |-> FALSE]

Shelves ==
    {[kind |-> "absent", folders |-> <<>>], [kind |-> "file", folders |-> <<>>],
     Dir(<<Folder("a", Git), Folder("b", Other), Folder("mail", Mail)>>),
     Dir(<<Folder("mail", Late), Folder("caret", Caret)>>),
     Dir(<<Folder("a", Bare), Folder("git", Mail)>>)}

Chat ==
    [id |-> "chat", version |-> Version(<<1, 0, 0>>), description |-> "chat",
     minimum |-> Version(<<0, 0, 0>>),
     dependencies |-> <<Need("git", "^", <<1, 2, 3>>), Need("mail", "~", <<0, 0, 0>>),
                        Need("git", "~", <<1, 2, 0>>)>>]

Discovery == INSTANCE PluginDiscovery
    WITH Directories <- <<"p", "q">>, Disks <- Shelves,
         LegalIds <- {"git", "mail", "caret", "chat"}, AgentOSVersion <- <<1, 2, 3>>,
         Loaded <- {Chat}, disk <- s1, scan <- s2

-----------------------------------------------------------------------------
(* The kernel's own modules: a plugin that needs another, and a module that *)
(* the kernel's owner brings; and a kernel of one required module whose     *)
(* start and stop overlap, told to the event bus.                           *)

Module(name, deps, required) == [name |-> name, deps |-> deps, required |-> required]

First == Module("b", {}, FALSE)
Second == Module("a", {"b"}, FALSE)

Loader == INSTANCE HermesPluginLoader
    WITH Specs <- {First, Second, Module("k", {}, FALSE)}, Stoppers <- {},
         Owner <- {"RUNNING"}, Reactions <- {"none"},
         Entries <- <<[path |-> "a.js", spec |-> Second], [path |-> "b.js", spec |-> First]>>,
         Loads <- {"load"},
         life <- s1, modules <- s2, stops <- s3, calls <- s4, files <- s5, loads <- s6

Bus == INSTANCE HermesEventDispatcher
    WITH Specs <- {Module("b", {}, TRUE)}, Stoppers <- {"stop"}, Owner <- {"RUNNING"},
         Reactions <- {"none", "STOPPING", "FAILED"},
         life <- s1, modules <- s2, stops <- s3, calls <- s4,
         subscribed <- s5, published <- s6, refused <- s7

Dependencies == INSTANCE DependencyChecks
    WITH Nodes <- <<"a", "b", "c">>, Unknown <- {"x"}, Layers <- {1, 3},
         deps <- s1, layer <- s2, verdict <- s3

-----------------------------------------------------------------------------

Monitor == INSTANCE HealthMonitor
    WITH Modules <- {"m", "n"}, Asks <- Two,
         initializing <- s1, registered <- s2, asks <- s3, cached <- s4

-----------------------------------------------------------------------------
(* Metrics of the kernel and of one adapter; and requests that log to two   *)
(* sinks, the second of which may break.                                    *)

Telemetry == INSTANCE Observability
    WITH Facets <- {"metrics", "requests"}, Adapters <- {"hermes", "cli"}, Values <- {1, 3},
         MaxOps <- 4, Requests <- Two, Sinks <- <<"console", "network">>,
         Breaking <- {"network"}, MinLevel <- "info", MaxLogs <- 1,
         facet <- s1, metrics <- s2, counted <- s3, ops <- s4, requests <- s5, written <- s6

-----------------------------------------------------------------------------
(* Configuration: a port with a default, and an object with two fields;     *)
(* sources that override each other, that have a scalar where another has   *)
(* an object, that are invalid, and that a default repairs.                 *)

Field(type, required, default, most, closed) ==
    [type |-> type, required |-> required, default |-> default,
     min |-> 1, max |-> most, closed |-> closed]

Num(n) == [kind |-> "number", size |-> n]
Str(n) == [kind |-> "string", size |-> n]
NoDefault == [kind |-> "undefined", size |-> 0]

PortSchema ==
       <<"port">> :> Field("number", TRUE, Num(4), 9, FALSE)
    @@ <<"log">> :> Field("object", FALSE, NoDefault, 0, TRUE)
    @@ <<"log", "level">> :> Field("enum", TRUE, NoDefault, 3, FALSE)
    @@ <<"log", "sink">> :> Field("string", FALSE, NoDefault, 2, FALSE)

Env(path, raw) == [path |-> path, raw |-> raw]

Settings ==
    [defaults |-> {<<"port">> :> Num(1) @@ <<"log", "level">> :> Str(1)
                   @@ <<"log", "sink">> :> Str(1), <<"port">> :> Num(1)},
     file     |-> {<<"port">> :> Num(2), <<"log", "level">> :> Str(2), <<"log">> :> Str(2),
                   <<"log", "level">> :> Str(1) @@ <<"log", "colour">> :> Str(2)},
     env      |-> {<<Env(<<"log">>, "null"), Env(<<"log", "level">>, "3")>>,
                   <<Env(<<"log", "level">>, "3"), Env(<<"port">>, "undefined")>>,
                   <<Env(<<"port">>, "12")>>},
     runtime  |-> {<<"log", "sink">> :> Str(3), <<"log", "sink">> :> Str(2), <<"port">> :> Num(3)}]

Configs == INSTANCE Configuration
    WITH Attempts <- {1, 2}, Names <- {"api"}, Schema <- PortSchema, Given <- Settings,
         Orders <- {<<"defaults", "file", "env", "runtime">>, <<"file", "env">>,
                    <<"env", "defaults">>},
         Numeral <- "12" :> 12 @@ "3" :> 3,
         attempts <- s1, registry <- s2

-----------------------------------------------------------------------------
(* The ways in: every adapter, its terminal and what comes in by HTTP and   *)
(* mail; and the server of the REST API, over a kernel of one module whose  *)
(* owner brings it up.                                                      *)

Asks == {"start", "help"}

(* The terminal: commands, with and without a role that allows them, and    *)
(* lines that are none.                                                     *)
Typed(words) == [form |-> "words", words |-> words]
Line(form) == [form |-> form, words |-> <<form>>]

TypedLines ==
    {Typed(<<"start">>), Typed(<<"plugins">>), Typed(<<"plugins", "unload", "git">>),
     Typed(<<"plugins", "unload">>), Typed(<<"--json", "stop">>), Typed(<<"--help">>),
     Typed(<<"bogus">>), Typed(<<"--json">>), Line("blank"), Line("exit"), Line("help"),
     Line("garbage"), Line("object")}

Terminal == INSTANCE CliSession
    WITH Lines <- TypedLines, MaxLines <- 2, Roles <- {"admin", "viewer"},
         session <- s1, todo <- s2, read <- s3

(* Requests as they come in: to a table of routes, one that two handlers    *)
(* share and one with no leading slash, with signatures of either kind; and *)
(* the subjects of mails.                                                   *)
Route(method, path, handler) == [method |-> method, path |-> path, handler |-> handler]

DefaultRoutes == <<Route("POST", "/webhook", "event"), Route("GET", "/health", "probe")>>

Tables ==
    {DefaultRoutes, DefaultRoutes \o <<Route("PUT", "/webhook", "probe")>>,
     DefaultRoutes \o <<Route("POST", "/webhook", "probe")>>, <<Route("GET", "health", "probe")>>}

Signature(header, prefix) == [header |-> header, prefix |-> prefix]

WebhookSites ==
    [routes : Tables,
     signature : {Signature("none", FALSE), Signature("x-other", FALSE),
                  Signature("x-webhook-signature", TRUE), Signature("x-webhook-signature", FALSE)}]

Body(size, type, content) == [size |-> size, type |-> type, content |-> content]

RequestBodies ==
    {Body("empty", "other", "null"), Body("large", "json", "status"), Body("fits", "other", "status"),
     Body("fits", "json", "garbage"), Body("fits", "json", "start"), Body("fits", "json", "health"),
     Body("fits", "json", "version")}

Signed(header, prefix, digest) == header :> [prefix |-> prefix, digest |-> digest]

RequestHeaders ==
    {<<>>, Signed("x-webhook-signature", TRUE, "right"), Signed("x-webhook-signature", FALSE, "right"),
     Signed("x-webhook-signature", FALSE, "wrong"), Signed("x-other", FALSE, "right")}

IncomingRequests ==
    [method : {"post", "GET", "HEAD"}, path : {"/webhook", "/health", "/none"},
     body : RequestBodies, headers : RequestHeaders]

SubjectWords == {"re:", "fw:", "[AgentOS]", "status", "start"}

Inbound == INSTANCE InboundRequests
    WITH Sites <- [webhook |-> WebhookSites, mail |-> [prefix : {"none", "[AgentOS]"}]],
         Incoming <- IncomingRequests,
         Subjects <- UNION {[1..n -> SubjectWords] : n \in 0..4},
         Rooted <- {"/webhook", "/health"},
         surface <- s1, site <- s2, request <- s3, stage <- s4, answer <- s5

ApiModules == {Module("m", {}, FALSE)}

-----------------------------------------------------------------------------
(* The dashboard: two versions of a graph; and whatever an endpoint may     *)
(* say.                                                                     *)

Versions ==
    {[nodes |-> "n" :> 1, edges |-> <<>>],
     [nodes |-> "n" :> 2 @@ "m" :> 1, edges |-> "e" :> 1]}

Graph == INSTANCE Dashboard
    WITH Fetches <- Three, Graphs <- Versions, Histories <- {<<"9h">>, <<"9h", "10h">>},
         page <- s1, polling <- s2, fetches <- s3, snapshot <- s4, loading <- s5, error <- s6,
         accepted <- s7, timeline <- s8, selectedTime <- s9

(* A graph of two nodes, and one that lists them in the other order with a  *)
(* third, and an edge from a node it does not list.                         *)
Node(id, type, score) == [id |-> id, type |-> type, scores |-> "q" :> score]

Edge(source, target, type) ==
    [id |-> <<source, target>>, source |-> source, target |-> target, type |-> type]

SmallGraph ==
    [nodes |-> <<Node("n", "agent", 0), Node("m", "plan", 1)>>, edges |-> <<Edge("n", "m", "owns")>>]

LargeGraph ==
    [nodes |-> <<Node("m", "plan", 1), Node("k", "plan", 3), Node("n", "agent", 0)>>,
     edges |-> <<Edge("m", "k", "uses"), Edge("n", "m", "owns"), Edge("x", "k", "uses")>>]

Knowledge == INSTANCE KnowledgeGraph
    WITH Graphs <- {SmallGraph, LargeGraph}, OfferedLayouts <- {"force", "dag"},
         Queries <- {"q"}, NodeTypes <- {"agent", "plan"}, EdgeTypes <- {"uses"},
         MaxHistory <- 3, MaxEvents <- 5,
         graph <- s1, layout <- s2, filters <- s3, selection <- s4, history <- s5,
         search <- s6, canvas <- s7, view <- s8, screen <- s9, events <- s10

(* Any graph of three edges over three nodes, in two orders, and a fourth   *)
(* that is not listed.                                                      *)
AnyGraphInit == s1 \in {<<"a", "b", "c">>, <<"c", "a", "b">>} /\ s2 = <<>>

AnyGraphNext ==
    /\ Len(s2) < 3
    /\ \E a, b \in {"a", "b", "c", "x"} : s2' = Append(s2, [source |-> a, target |-> b])
    /\ UNCHANGED s1

Answers ==
         [status : {"exception", "refused"}, ok : {"none"}, data : {"none"}, value : {"none"}]
    \cup [status : {"success"}, ok : {"none", "true", "false"},
          data : {"none", "d"}, value : {"none", "v"}]

Page == INSTANCE Polling
    WITH Fetches <- Three, Responses <- Answers,
         page <- s1, polling <- s2, fetches <- s3, data <- s4, loading <- s5, error <- s6,
         last <- s7

-----------------------------------------------------------------------------
(* The workspace: its root, a package and an app; packages that are whole,  *)
(* lack their name, or were not built; a version with a suffix among those  *)
(* developers write.                                                        *)

PackageWith(name, dist, exports) ==
    [name |-> name, license |-> TRUE, build |-> TRUE, dist |-> dist, entry |-> dist,
     typeEntry |-> dist, types |-> TRUE, exports |-> exports]

Export(path, form, exists) ==
    [path |-> path, kind |-> form, wildcard |-> FALSE, pathExists |-> exists, typesExist |-> exists]

SemVer(major, minor, patch, suffix) ==
    [major |-> major, minor |-> minor, patch |-> patch, suffix |-> suffix]

Scripts == INSTANCE WorkspaceScripts
    WITH Packages <- <<"root", "p", "app">>, Apps <- {"app"},
         Contents <- {PackageWith(TRUE, TRUE, {Export(".", "conditional", TRUE)}),
                      PackageWith(FALSE, TRUE, {}),
                      PackageWith(TRUE, FALSE, {Export("./a", "plain", FALSE)})},
         Versions <- {SemVer(1, 1, 1, FALSE), SemVer(2, 0, 0, FALSE), SemVer(1, 0, 0, TRUE)},
         MaxEdits <- 1, MaxRuns <- 2,
         manifests <- s1, content <- s2, run <- s3, edits <- s4, runs <- s5

-----------------------------------------------------------------------------

OffFrom7 == s7 = "off" /\ s8 = "off" /\ s9 = "off" /\ s10 = "off"
OffFrom5 == s5 = "off" /\ s6 = "off" /\ OffFrom7
OffFrom4 == s4 = "off" /\ OffFrom5
OffFrom1 == s1 = "off" /\ s2 = "off" /\ s3 = "off" /\ OffFrom4

HostInit ==
    /\ part \in Parts
    /\ Init /\ StartupInit /\ ShutdownInit /\ HealthInit /\ AdapterInit /\ ApiInit
    /\ part # "ways" => kind = CHOOSE k \in AdapterKinds : TRUE
    /\ part # "api" => ~auth
    /\ \/ part \in {"plugins", "startup", "shutdown", "checks", "ways", "api"} /\ OffFrom1
       \/ part = "discovery" /\ Discovery!Init /\ s3 = "off" /\ OffFrom4
       \/ part = "loader" /\ Loader!LoaderInit /\ OffFrom7
       \/ part = "bus" /\ Bus!DispatcherInit /\ s8 = "off" /\ s9 = "off" /\ s10 = "off"
       \/ part = "dependencies" /\ Dependencies!Init /\ OffFrom4
       \/ part = "scripts" /\ Scripts!Init /\ s6 = "off" /\ OffFrom7
       \/ part = "monitor" /\ Monitor!Init /\ OffFrom5
       \/ part = "telemetry" /\ Telemetry!Init /\ OffFrom7
       \/ part = "config" /\ Configs!Init /\ s3 = "off" /\ OffFrom4
       \/ part = "terminal" /\ Terminal!Init /\ OffFrom4
       \/ part = "inbound" /\ Inbound!Init /\ s6 = "off" /\ OffFrom7
       \/ part = "graph" /\ Graph!Init /\ s10 = "off"
       \/ part = "canvas" /\ Knowledge!Init
       \/ part = "layouts" /\ AnyGraphInit /\ s3 = "off" /\ OffFrom4
       \/ part = "page" /\ Page!Init /\ s8 = "off" /\ s9 = "off" /\ s10 = "off"

From11 == <<part, vars, startupVars, shutdownVars, healthVars, adapterVars, apiVars>>
From10 == <<s10, From11>>
From9 == <<s9, From10>>
From8 == <<s8, From9>>
From7 == <<s7, From8>>
From6 == <<s6, From7>>
From5 == <<s5, From6>>
From4 == <<s4, From5>>
From3 == <<s3, From4>>

ButStartup == <<part, vars, shutdownVars, healthVars, adapterVars, apiVars, slots>>
ButShutdown == <<part, vars, startupVars, healthVars, adapterVars, apiVars, slots>>
ButPlugins == <<part, startupVars, shutdownVars, healthVars, adapterVars, apiVars, slots>>
ButAdapter == <<part, vars, startupVars, shutdownVars, healthVars, apiVars, slots>>
ButHealth == <<part, vars, startupVars, shutdownVars, adapterVars, apiVars, slots>>
ButApi == <<part, vars, startupVars, shutdownVars, healthVars, adapterVars, slots>>

StartupMoves == part = "startup" /\ StartupNext /\ UNCHANGED ButStartup
ShutdownMoves == part = "shutdown" /\ ShutdownNext /\ UNCHANGED ButShutdown
PluginsMove == part = "plugins" /\ Next /\ UNCHANGED ButPlugins
DiscoveryMoves == part = "discovery" /\ Discovery!Next /\ UNCHANGED From3
LoaderMoves == part = "loader" /\ Loader!LoaderNext /\ UNCHANGED From7
BusMoves == part = "bus" /\ Bus!DispatcherNext /\ UNCHANGED From8
DependenciesMove == part = "dependencies" /\ Dependencies!Next /\ UNCHANGED From4
ScriptsMove == part = "scripts" /\ Scripts!Next /\ UNCHANGED From6
ChecksMove == part = "checks" /\ HealthNext /\ UNCHANGED ButHealth
MonitorMoves == part = "monitor" /\ Monitor!Next /\ UNCHANGED From5
TelemetryMoves == part = "telemetry" /\ Telemetry!Next /\ UNCHANGED From7
ConfigMoves == part = "config" /\ Configs!Next /\ UNCHANGED From3
WaysMove == part = "ways" /\ AdapterNext /\ UNCHANGED ButAdapter
TerminalMoves == part = "terminal" /\ Terminal!Next /\ UNCHANGED From4
InboundMoves == part = "inbound" /\ Inbound!Next /\ UNCHANGED From6
ApiMoves == part = "api" /\ ApiNext /\ UNCHANGED ButApi
GraphMoves == part = "graph" /\ Graph!Next /\ UNCHANGED From10
CanvasMoves == part = "canvas" /\ Knowledge!Next /\ UNCHANGED From11
LayoutsMove == part = "layouts" /\ AnyGraphNext /\ UNCHANGED From3
PageMoves == part = "page" /\ Page!Next /\ UNCHANGED From8

HostNext ==
    \/ StartupMoves \/ ShutdownMoves \/ PluginsMove \/ DiscoveryMoves \/ LoaderMoves
    \/ BusMoves \/ DependenciesMove \/ ChecksMove \/ MonitorMoves \/ TelemetryMoves \/ ConfigMoves
    \/ WaysMove \/ TerminalMoves \/ InboundMoves \/ ApiMoves \/ GraphMoves \/ PageMoves
    \/ ScriptsMove \/ CanvasMoves \/ LayoutsMove

(* The fairness of the parts that state some: their timers fire.  A         *)
(* behaviour is of one part, so that one condition serves several of them.  *)
TimerFires(c) ==
    \/ part = "startup" /\ StartTimesOut(c) /\ UNCHANGED ButStartup
    \/ part = "ways" /\ WebhookTimesOut(c) /\ UNCHANGED ButAdapter
    \/ part = "shutdown" /\ ShutdownTimesOut /\ UNCHANGED ButShutdown
    \/ part = "api" /\ ExitTimerFires /\ UNCHANGED ButApi

Returns(c) ==
    \/ part = "startup" /\ StartReturns(c) /\ UNCHANGED ButStartup
    \/ part = "ways" /\ Parses(c) /\ UNCHANGED ButAdapter
    \/ part = "shutdown" /\ ShutdownReturns /\ UNCHANGED ButShutdown

Fairness == \A c \in Two : WF_hostVars(TimerFires(c)) /\ WF_hostVars(Returns(c))

HostSpec == HostInit /\ [][HostNext]_hostVars

FairHostSpec == HostSpec /\ Fairness

-----------------------------------------------------------------------------

(* Each part keeps its shape; what its statuses and stages may be together  *)
(* is said in its module.                                                   *)
HostTypeOK ==
    /\ part = "plugins" => TypeOK
    /\ part = "startup" => StartupTypeOK
    /\ part = "shutdown" => ShutdownTypeOK
    /\ part = "discovery" => Discovery!TypeOK
    /\ part = "loader" => Loader!LoaderTypeOK
    /\ part = "bus" => Bus!DispatcherTypeOK
    /\ part = "checks" => HealthTypeOK
    /\ part = "monitor" => Monitor!TypeOK
    /\ part = "telemetry" => Telemetry!TypeOK
    /\ part = "config" => Configs!TypeOK
    /\ part = "ways" => AdapterTypeOK
    /\ part = "terminal" => Terminal!TypeOK
    /\ part = "inbound" => Inbound!TypeOK
    /\ part = "api" => ApiTypeOK
    /\ part = "graph" => Graph!TypeOK
    /\ part = "canvas" => Knowledge!TypeOK
    /\ part = "page" => Page!TypeOK

(* topologicalSort(), validateStepOrdering(), check-cycles.ts: services,    *)
(* steps and packages are refused only when no order would do; and a        *)
(* plugin's dependency only when no plugin at hand is in its range          *)
(* (validatePluginDependencies()); manifests pass only if they are whole    *)
(* (version-manager.ts, validate-packages.ts).                              *)
BlockedMeansUnorderable ==
    /\ part = "startup" => BlockedMeansStuck
    /\ part = "dependencies" => Dependencies!RefusedMeansUnorderable
    /\ part = "discovery" => Discovery!DependenciesAreJudgedRight
    /\ part = "scripts" => Scripts!WhatPassesIsConsistent

(* HermesHealthMonitor.health(): a report says what the probes said,        *)
(* whatever else is under way; and so do the metrics, the log and the       *)
(* spans; what discover() and loadPlugins() say came of each plugin is what *)
(* came of it; and the events on the bus tell what the kernel did.          *)
ReportsTellTheProbes ==
    /\ part = "monitor" => Monitor!HealthTellsTheProbes
    /\ part = "discovery" => Discovery!FindsWhatStays
    /\ part = "loader" => Loader!SummariesTellWhatCameIn
    /\ part = "bus" => Bus!BusFollowsTheKernel
    /\ part = "telemetry" =>
          /\ Telemetry!NothingIsCountedTwice /\ Telemetry!PercentilesAreNearestRanks
          /\ Telemetry!SinksTellTheRequests /\ Telemetry!SpansTellTheFirstPart

(* ConfigLoader.load(): of several sources the later ones win, path by      *)
(* path, but late defaults only fill.  The terminal, the webhook and mail:  *)
(* the exit code of a session and the status of an answer tell what was     *)
(* done; a mail's subject is read for the command it has.                   *)
InputsAreReadRight ==
    /\ part = "config" => Configs!LaterSourcesWin /\ Configs!LateDefaultsOnlyFill
    /\ part = "terminal" => Terminal!SessionTellsWhatRan
    /\ part = "inbound" => Inbound!WebhookAnswersForTheTable /\ Inbound!SubjectsAreReadOnce

(* useGraphData(), usePolling(): a page shows the last answer that reached  *)
(* it, or says that there was none; what it draws and takes clicks on is    *)
(* that graph, and its layouts give every node a place.                     *)
PagesShowTheLastAnswer ==
    /\ part = "graph" => Graph!PageShowsTheLastAnswer
    /\ part = "canvas" => Knowledge!CanvasTellsTheGraph
    /\ part = "layouts" => Knowledge!LayoutsPlaceEveryNode(s1, s2)
    /\ part = "page" => Page!DataOrError

(* Whoever calls start() or shutdown(), asks a webhook or signals the       *)
(* server gets its answer, whatever hangs behind it: the timers see to it.  *)
(* As none calls twice, a time comes when nobody waits.                     *)
SomebodyWaits ==
    \/ part = "startup" /\ \E c \in Two : StartUnanswered(c)
    \/ part = "shutdown" /\ \E c \in Three : ShutdownUnanswered(c)
    \/ part = "ways" /\ \E c \in Two : WebhookUnanswered(c)
    \/ part = "api" /\ Stopping

CallersAreAnswered == SomebodyWaits ~> ~SomebodyWaits
=============================================================================
