------------------------------ MODULE CliSession ------------------------------
(***************************************************************************)
(* A session of the terminal (packages/adapters-cli/src): runInteractive() *)
(* takes lines of words and runStdin() JSON arrays of them, one after the  *)
(* other; each is parsed, dispatched and awaited, its result rendered, and *)
(* an exit code kept for the end.                                          *)
(*                                                                         *)
(* A line is [form, words].  Of its tokens the ones that matter are kept:  *)
(* --json, --help and the positional ones; no command reads other flags.   *)
(*                                                                         *)
(* The interactive session has a readline of a terminal, whose write() is  *)
(* as good as typing: the prompt written after a command stands in the     *)
(* input line, and what is typed next is read with the prompt before it.   *)
(* A line is typed at once, so that no prompt comes into the middle.       *)
(***************************************************************************)
EXTENDS Naturals, Sequences, SequencesExt

CONSTANTS
    Lines,       \* what may be typed or sent: [form, words]
    MaxLines,
    Roles

(* "words", "blank", "exit" or "help" by itself; of stdin also "garbage",   *)
(* which is no JSON, and "object", which is no array                        *)
Forms == {"words", "blank", "exit", "help", "garbage", "object"}

(* The prompt, which is no command.                                         *)
Prompt == "agent-os>"

VARIABLES
    session,
    todo,       \* the lines not yet typed, or sent
    read        \* those readline has read, and the session has not taken

vars == <<session, todo, read>>

-----------------------------------------------------------------------------
(* Parsing and rendering                                                    *)

Parsed(words) ==
    [positional |-> SelectSeq(words, LAMBDA w : w \notin {"--json", "--help"}),
     json |-> "--json" \in ToSet(words), help |-> "--help" \in ToSet(words)]

Commands == {"start", "stop", "status", "health", "plugins", "config", "version"}

ViewerActions == {"status", "health", "config", "version"}

Allowed(action) == session.role = "admin" \/ action \in ViewerActions

(* mapErrorToExitCode(), and 0                                              *)
ExitCode(code) == CASE code = "ok" -> 0 [] code = "USAGE" -> 2 [] code = "PERMISSION" -> 3
                    [] OTHER -> 1

(* renderResult(): an error is told on stderr, unless JSON is asked for.    *)
Rendered(code, json) ==
    [code |-> code, json |-> json, stream |-> IF code = "ok" \/ json THEN "stdout" ELSE "stderr"]

-----------------------------------------------------------------------------
(* Dispatch                                                                 *)

(* The codes a handler may end with: the kernel's calls succeed, fail or    *)
(* throw.  'plugins' checks permissions itself, and what it throws is taken *)
(* for an unexpected exception.                                             *)
PluginsCodes(args) ==
    LET sub == IF args = <<>> THEN "list" ELSE Head(args) IN
    CASE sub = "list" -> {"ok", "INTERNAL"}
      [] sub = "load" -> {"ok"}
      [] sub = "unload" ->
            IF Len(args) = 1 THEN {"USAGE"}
            ELSE IF Allowed("unregisterModule") THEN {"ok", "HERMES", "INTERNAL"}
            ELSE {"INTERNAL"}
      [] sub \notin {"list", "unload", "load"} -> {"USAGE"}

HandlerCodes(command, args) ==
    CASE command = "plugins" -> PluginsCodes(args)
      [] command \in {"start", "stop"} -> {"ok", "HERMES", "INTERNAL"}
      [] command \in {"config", "version"} -> {"ok"}
      [] OTHER -> {"ok", "INTERNAL"}

(* handleCommand(): its codes, and whether its handler runs                 *)
Handled(command, args) ==
    IF command = "plugins" \/ Allowed(command)
    THEN [runs |-> TRUE, codes |-> HandlerCodes(command, args)]
    ELSE [runs |-> FALSE, codes |-> {"PERMISSION"}]

Refused(code) == [runs |-> FALSE, codes |-> {code}]

(* dispatchInternal()                                                       *)
Dispatched(parsed) ==
    LET name == IF parsed.positional = <<>> THEN "none" ELSE Head(parsed.positional)
        known == name \in Commands
    IN  CASE parsed.help -> Refused(IF known \/ name = "none" THEN "ok" ELSE "USAGE")
          [] ~parsed.help /\ ~known -> Refused("USAGE")
          [] ~parsed.help /\ known -> Handled(name, Tail(parsed.positional))

-----------------------------------------------------------------------------

(* prompted: the input line holds the prompt, once or several times.        *)
Init ==
    /\ session \in [mode : {"interactive", "stdin"}, role : Roles, pc : {"reading"},
                    exit : {0}, printed : {<<>>}, ran : {"nothing"}, last : {"none"},
                    open : {TRUE}, prompted : {FALSE}]
    /\ todo \in UNION {[1..n -> Lines] : n \in 0..MaxLines}
    /\ read = <<>>

(* readline reads on while the session is busy.                             *)
WithPrompt(line) ==
    [form |-> "words", words |-> <<Prompt>> \o IF line.form = "blank" THEN <<>> ELSE line.words]

Types ==
    /\ session.pc # "ended" /\ session.open /\ todo # <<>>
    /\ read' = Append(read, IF session.prompted THEN WithPrompt(Head(todo)) ELSE Head(todo))
    /\ session' = [session EXCEPT !.prompted = FALSE]
    /\ todo' = Tail(todo)

(* The stream ends, and what the input line holds is the last line; or the  *)
(* readline is closed from the keyboard, and it is not.                     *)
Closes ==
    /\ session.pc # "ended" /\ session.open /\ todo = <<>>
    /\ \/ session.prompted /\ read' = Append(read, WithPrompt([form |-> "blank"]))
       \/ UNCHANGED read
    /\ session' = [session EXCEPT !.open = FALSE, !.prompted = FALSE]
    /\ UNCHANGED todo

Current == Parsed(Head(read).words)

(* What a closed readline is given to write is lost.                        *)
Prompts == session.mode = "interactive" /\ session.open

(* The line is done with.                                                   *)
Prints(code, json) ==
    session' = [session EXCEPT !.pc = "reading", !.exit = ExitCode(code), !.last = code,
                               !.prompted = @ \/ Prompts,
                               !.printed = Append(@, Rendered(code, json))]

(* The help is followed by a prompt on the output, which is not read.       *)
Skips ==
    /\ session.pc = "reading" /\ read # <<>>
    /\ \/ /\ Head(read).form = "blank"
          /\ session' = [session EXCEPT !.prompted = @ \/ Prompts]
       \/ Head(read).form = "help" /\ session.mode = "interactive" /\ UNCHANGED session
    /\ read' = Tail(read) /\ UNCHANGED todo

(* mutant: what is not JSON ends the session                                *)
RejectsLineAndEnds ==
    /\ session.pc = "reading" /\ read # <<>> /\ session.mode = "stdin"
    /\ Head(read).form \in {"garbage", "object", "exit", "help"}
    /\ session' = [session EXCEPT !.pc = "ended", !.exit = 1]
    /\ UNCHANGED <<todo, read>>

(* A bare word is no JSON either.                                           *)
RejectsLine ==
    /\ session.pc = "reading" /\ read # <<>> /\ session.mode = "stdin"
    /\ \/ Head(read).form = "object" /\ Prints("USAGE", TRUE)
       \/ Head(read).form \in {"garbage", "exit", "help"} /\ Prints("INTERNAL", TRUE)
    /\ read' = Tail(read) /\ UNCHANGED todo

(* To the interactive session everything else is words.                     *)
Takes ==
    /\ session.pc = "reading" /\ read # <<>>
    /\ \/ Head(read).form = "words"
       \/ Head(read).form \in {"garbage", "object"} /\ session.mode = "interactive"
    /\ session' = [session EXCEPT !.pc = "running",
                                  !.ran = IF Dispatched(Current).runs THEN "handler" ELSE "nothing"]
    /\ UNCHANGED <<todo, read>>

Settles(code) ==
    /\ session.pc = "running" /\ code \in Dispatched(Current).codes
    /\ Prints(code, Current.json)
    /\ read' = Tail(read) /\ UNCHANGED todo

(* The end of the input, or the word for it, which forgets the exit code.   *)
Ends ==
    /\ session.pc = "reading"
    /\ \/ read = <<>> /\ ~session.open /\ session' = [session EXCEPT !.pc = "ended"]
       \/ /\ read # <<>> /\ session.mode = "interactive" /\ Head(read).form = "exit"
          /\ session' = [session EXCEPT !.pc = "ended", !.exit = 0, !.last = "exit"]
    /\ UNCHANGED <<todo, read>>

Next ==
    \/ Types \/ Closes \/ Skips \/ RejectsLine \/ Takes \/ Ends
    \/ \E code \in {"ok", "USAGE", "PERMISSION", "HERMES", "INTERNAL"} : Settles(code)

Spec == Init /\ [][Next]_vars

-----------------------------------------------------------------------------

(* The session keeps its shape.                                             *)
TypeOK ==
    /\ session.pc \in {"reading", "running", "ended"} /\ session.exit \in 0..3
    /\ \A i \in 1..Len(session.printed) : session.printed[i].stream \in {"stdout", "stderr"}
    /\ \A i \in 1..Len(todo) : todo[i].form \in Forms
    /\ \A i \in 1..Len(read) : read[i].form \in Forms

(* A session ends with every line handled, unless it was left by a word;    *)
(* its exit code is zero exactly if the last command succeeded or it was    *)
(* left so, and tells a refusal only of a command whose handler did not     *)
(* run; a line read with a prompt before it runs nothing, whatever was      *)
(* typed; and a viewer's commands never come to change the kernel           *)
(* (runInteractive(), runStdin(), dispatchInternal(), handleCommand()).     *)
SessionTellsWhatRan ==
    /\ session.pc = "ended" =>
          /\ todo # <<>> \/ read # <<>> =>
                session.mode = "interactive" /\ session.last = "exit"
          /\ session.exit = 0 <=> session.last \in {"none", "ok", "exit"}
          /\ session.exit = 3 => session.ran = "nothing" /\ session.role = "viewer"
    /\ session.pc = "running" /\ Prompt \in ToSet(Head(read).words) => session.ran = "nothing"
    /\ session.role = "viewer" =>
          \A i \in 1..Len(session.printed) : session.printed[i].code # "HERMES"
    /\ \A i \in 1..Len(session.printed) : LET out == session.printed[i] IN
          out.stream = "stderr" <=> out.code # "ok" /\ ~out.json
=============================================================================
