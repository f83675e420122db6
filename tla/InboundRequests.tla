--------------------------- MODULE InboundRequests ---------------------------
(***************************************************************************)
(* What two adapters make of a raw request before a command is known:      *)
(* packages/adapters-webhook/src reads a body, verifies a signature, finds *)
(* a route and turns the handler's answer into a status;                   *)
(* packages/adapters-email/src/parseCommand.ts reads the subject of a      *)
(* mail.  A behaviour is that of one of them, `surface`, and one request.  *)
(*                                                                         *)
(* Bodies are told apart by size, content type and content; a header by    *)
(* whether it has the prefix and the right digest; a subject is its words. *)
(***************************************************************************)
EXTENDS Naturals, Sequences, SequencesExt, FiniteSets

CONSTANTS
    Sites,        \* of the webhook: [routes, signature]; of the mail: [prefix]
    Incoming,     \* requests: [method, path, body, headers]
    Subjects,     \* sequences of words
    Rooted        \* the paths that begin with "/"

Surfaces == {"webhook", "mail"}

None == "none"

VARIABLES surface, site, request, stage, answer

vars == <<surface, site, request, stage, answer>>

-----------------------------------------------------------------------------
(* Routes                                                                   *)

KnownMethods == {"GET", "POST", "PUT", "PATCH", "DELETE"}

Upper(method) == CASE method = "get" -> "GET" [] method = "post" -> "POST" [] OTHER -> method

(* mutant: two routes may differ in their handler only                      *)
ValidButForHandlers(routes) ==
    /\ \A i \in DOMAIN routes : routes[i].path \in Rooted
    /\ \A i, j \in DOMAIN routes : routes[i] = routes[j] => i = j

ValidRoutes(routes) ==
    /\ \A i \in DOMAIN routes : routes[i].path \in Rooted
    /\ \A i, j \in DOMAIN routes :
          routes[i].method = routes[j].method /\ routes[i].path = routes[j].path => i = j

MethodsForPath(routes, path) == {r.method : r \in {q \in ToSet(routes) : q.path = path}}

(* mutant: a method nobody knows is not looked up among the paths           *)
MatchKnownMethods(routes, method, path) ==
    LET exact == SelectSeq(routes, LAMBDA r : r.method = Upper(method) /\ r.path = path) IN
    CASE exact # <<>> -> [code |-> "ok", route |-> Head(exact)]
      [] exact = <<>> /\ Upper(method) \in KnownMethods /\ MethodsForPath(routes, path) # {} ->
            [code |-> "METHOD_NOT_ALLOWED", allow |-> MethodsForPath(routes, path)]
      [] OTHER -> [code |-> "NOT_FOUND"]

MatchRoute(routes, method, path) ==
    LET exact == SelectSeq(routes, LAMBDA r : r.method = Upper(method) /\ r.path = path)
        allow == MethodsForPath(routes, path)
    IN  CASE exact # <<>> -> [code |-> "ok", route |-> Head(exact)]
          [] exact = <<>> /\ allow # {} -> [code |-> "METHOD_NOT_ALLOWED", allow |-> allow]
          [] exact = <<>> /\ allow = {} -> [code |-> "NOT_FOUND"]

-----------------------------------------------------------------------------
(* Bodies and signatures                                                    *)

(* An empty body is read as null, whatever its type.                        *)
Parses(body) ==
    \/ body.size = "empty"
    \/ body.size = "fits" /\ body.type = "json" /\ body.content # "garbage"

Json(body) == IF body.size = "empty" THEN "null" ELSE body.content

(* The adapter asks for the header it was told of, as it was spelt, among   *)
(* headers in lower case; the verifier for the one it knows.                *)
Verifies(signature, headers) ==
    signature.header = None
        \/ /\ signature.header \in DOMAIN headers
           /\ "x-webhook-signature" \in DOMAIN headers
           /\ LET given == headers["x-webhook-signature"] IN
              /\ signature.prefix => given.prefix
              /\ given.digest = "right" /\ ~(given.prefix /\ ~signature.prefix)

-----------------------------------------------------------------------------
(* Handlers and their answers                                               *)

Events == {"start", "stop", "status", "health", "modules", "config"}

(* What the handler of a route may come to, after callHermes() or the timer.*)
Results(handler, json) ==
    CASE handler = "probe" -> {"ok"}
      [] handler = "event" /\ json \notin Events -> {"BAD_REQUEST"}
      [] handler = "event" /\ json \in {"start", "stop"} -> {"ok", "HERMES", "INTERNAL"}
      [] handler = "event" /\ json = "health" -> {"ok", "INTERNAL"}
      [] handler = "event" /\ json \in Events \ {"start", "stop", "health"} -> {"ok"}

StatusFor(code) ==
    CASE code = "ok" -> 200 [] code = "BAD_REQUEST" -> 400 [] code = "UNAUTHORIZED" -> 401
      [] code = "NOT_FOUND" -> 404 [] code = "METHOD_NOT_ALLOWED" -> 405
      [] code = "HERMES" -> 502 [] OTHER -> 500

NoAnswer == [status |-> 0, ok |-> FALSE, allow |-> {}]

Response(code, allow) == [status |-> StatusFor(code), ok |-> code = "ok", allow |-> allow]

-----------------------------------------------------------------------------
(* Subjects                                                                 *)

EmailPrefixes == <<"re:", "fw:", "fwd:", "aw:">>

Lead(words, word) == words # <<>> /\ Head(words) = word

(* Each prefix at most once, in the order of the list.                      *)
StripEmailPrefixes(subject) ==
    FoldLeft(LAMBDA words, prefix : IF Lead(words, prefix) THEN Tail(words) ELSE words,
             subject, EmailPrefixes)

StripCommandPrefix(words, prefix) ==
    IF prefix # None /\ Lead(words, prefix) THEN Tail(words) ELSE words

(* The rest is taken in pairs; a key without a value is dropped, and of two *)
(* with the same key the later one stays.                                   *)
Options(words) ==
    LET at(key) == {i \in 2..Len(words) - 1 : i % 2 = 0 /\ words[i] = key}
        keys == {words[i] : i \in {j \in 2..Len(words) - 1 : j % 2 = 0}}
    IN  [key \in keys |-> words[1 + CHOOSE i \in at(key) : \A j \in at(key) : j <= i]]

NoCommand == [command |-> None, args |-> <<>>]

(* mutant: the prefix of commands is looked for first                       *)
ParseCommandFirst(subject, prefix) ==
    LET words == StripEmailPrefixes(StripCommandPrefix(subject, prefix)) IN
    IF words = <<>> THEN NoCommand
    ELSE [command |-> Head(words), args |-> Options(words)]

ParseEmailSubject(subject, prefix) ==
    LET words == StripCommandPrefix(StripEmailPrefixes(subject), prefix) IN
    IF words = <<>> THEN NoCommand
    ELSE [command |-> Head(words), args |-> Options(words)]

-----------------------------------------------------------------------------

Init ==
    /\ surface \in Surfaces
    /\ stage = "new" /\ answer = NoAnswer
    /\ site \in Sites[surface]
    /\ request \in IF surface = "webhook" THEN Incoming ELSE Subjects

(* initialize() of the webhook throws at a table it cannot serve.           *)
Initialize ==
    /\ surface = "webhook" /\ stage = "new" /\ ValidRoutes(site.routes)
    /\ stage' = "ready"
    /\ UNCHANGED <<surface, site, request, answer>>

Answers(code, allow) == stage' = "answered" /\ answer' = Response(code, allow)

HandleTooEarly ==
    /\ surface = "webhook" /\ stage = "new" /\ Answers("INTERNAL", {})
    /\ UNCHANGED <<surface, site, request>>

Match == MatchRoute(site.routes, request.method, request.path)

(* handle(), as far as the handler: the body, the signature, the route.     *)
HandleFails ==
    /\ surface = "webhook" /\ stage = "ready"
    /\ LET readable == Parses(request.body)
           verified == Verifies(site.signature, request.headers)
       IN  \/ ~readable /\ Answers("INTERNAL", {})
           \/ readable /\ ~verified /\ Answers("UNAUTHORIZED", {})
           \/ readable /\ verified /\ Match.code = "NOT_FOUND" /\ Answers("NOT_FOUND", {})
           \/ /\ readable /\ verified /\ Match.code = "METHOD_NOT_ALLOWED"
              /\ Answers("METHOD_NOT_ALLOWED", Match.allow)
    /\ UNCHANGED <<surface, site, request>>

Handle ==
    /\ surface = "webhook" /\ stage = "ready"
    /\ Parses(request.body) /\ Verifies(site.signature, request.headers) /\ Match.code = "ok"
    /\ stage' = "handling"
    /\ UNCHANGED <<surface, site, request, answer>>

HandlerSettles(code) ==
    /\ surface = "webhook" /\ stage = "handling"
    /\ code \in Results(Match.route.handler, Json(request.body))
    /\ Answers(code, {})
    /\ UNCHANGED <<surface, site, request>>

Read ==
    /\ surface = "mail" /\ stage = "new"
    /\ stage' = "answered" /\ answer' = ParseEmailSubject(request, site.prefix)
    /\ UNCHANGED <<surface, site, request>>

Next ==
    \/ Initialize \/ HandleTooEarly \/ HandleFails \/ Handle \/ Read
    \/ \E code \in {"ok", "BAD_REQUEST", "HERMES", "INTERNAL"} : HandlerSettles(code)

Spec == Init /\ [][Next]_vars

-----------------------------------------------------------------------------

(* A request goes through its stages, and a webhook's answer has a status.  *)
TypeOK ==
    /\ surface \in Surfaces
    /\ stage \in {"new", "ready", "handling", "answered"}
    /\ surface = "webhook" /\ answer # NoAnswer =>
          answer.status \in {200, 400, 401, 404, 405, 500, 502} /\ answer.allow \subseteq KnownMethods

(* handle(), matchRoute(), validateRoutes(): a handler runs only for a      *)
(* request that one route alone fits, so that the order of the table does   *)
(* not matter; "not found" means that no route has the path, and "not       *)
(* allowed" names every other method the path is served under.              *)
WebhookAnswersForTheTable ==
    surface = "webhook" =>
        LET fits == {i \in DOMAIN site.routes :
                        /\ site.routes[i].path = request.path
                        /\ site.routes[i].method = Upper(request.method)}
            served == {i \in DOMAIN site.routes : site.routes[i].path = request.path}
        IN  /\ stage = "handling" => Cardinality(fits) = 1
            /\ stage = "answered" =>
                  /\ answer.ok => Cardinality(fits) = 1
                  /\ answer.status = 404 => served = {}
                  /\ answer.status = 405 =>
                        /\ answer.allow = {site.routes[i].method : i \in served}
                        /\ Upper(request.method) \notin answer.allow /\ answer.allow # {}

(* parseEmailSubject(): the command is the first word but for prefixes      *)
(* before it, those of replies first; so a reply to a reply, whose prefix   *)
(* comes twice or in another order, is taken for a command of that name,    *)
(* which no table has, and the prefix of commands only when it comes twice. *)
SubjectsAreReadOnce ==
    surface = "mail" /\ stage = "answered" /\ answer # NoCommand =>
        \E n \in DOMAIN request :
            LET before == SelectSeq(SubSeq(request, 1, n - 1), LAMBDA w : w # site.prefix)
                place(w) == CHOOSE i \in 1..4 : EmailPrefixes[i] = w
            IN  /\ answer.command = request[n]
                /\ ToSet(before) \subseteq ToSet(EmailPrefixes)
                /\ \A i, j \in DOMAIN before : i < j => place(before[i]) < place(before[j])
                /\ answer.command \in ToSet(EmailPrefixes) =>
                      \/ \E i \in DOMAIN before : place(before[i]) >= place(answer.command)
                      \/ n > 1 /\ request[n - 1] = site.prefix
                /\ answer.command = site.prefix =>
                      \E i \in 1..n - 1 : request[i] = site.prefix
=============================================================================
