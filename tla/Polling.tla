------------------------------- MODULE Polling -------------------------------
(***************************************************************************)
(* A page of the dashboard that polls an endpoint: the hook usePolling.ts  *)
(* over the client's get() (apps/dashboard/src/dashboard/api/client.ts),   *)
(* which turns whatever the REST adapter says into an envelope and never   *)
(* throws.                                                                 *)
(***************************************************************************)
EXTENDS Naturals, FiniteSets

CONSTANTS
    Fetches,    \* the calls of fetchData()
    Responses   \* what may come back, [status, ok, data, value]: of the body, ok is
                \* "true", "false" or None, and None is what is not there

None == "none"

VARIABLES
    page,       \* "new", "shown", "gone"
    polling, fetches,
    data, loading, error,
    last        \* history: the last envelope that reached the page

vars == <<page, polling, fetches, data, loading, error, last>>

Envelope(ok, value, code) == [ok |-> ok, data |-> value, code |-> code]

(* mutant: a success without a value is taken for one                       *)
NormalizeLeniently(body) ==
    IF body.ok = None THEN Envelope(FALSE, None, "INVALID_RESPONSE")
    ELSE IF body.ok = "true" THEN Envelope(TRUE, body.data, None)
    ELSE Envelope(FALSE, None, "REST_ERROR")

(* A body without a boolean `ok` is no envelope, and a success needs a      *)
(* value.                                                                   *)
NormalizeResponse(body) ==
    IF body.ok = None THEN Envelope(FALSE, None, "INVALID_RESPONSE")
    ELSE IF body.ok = "false" THEN Envelope(FALSE, None, "REST_ERROR")
    ELSE IF body.data # None THEN Envelope(TRUE, body.data, None)
    ELSE IF body.value # None THEN Envelope(TRUE, body.value, None)
    ELSE Envelope(FALSE, None, "INVALID_RESPONSE")

(* get(): an exception and a bad status are envelopes too.                  *)
Get(response) ==
    CASE response.status = "exception" -> Envelope(FALSE, None, "NETWORK_ERROR")
      [] response.status = "refused" -> Envelope(FALSE, None, "HTTP")
      [] response.status = "success" -> NormalizeResponse(response)

Init ==
    /\ page = "new" /\ polling = FALSE
    /\ fetches = [f \in Fetches |-> "idle"]
    /\ data = None /\ loading = TRUE /\ error = None
    /\ last = Envelope(FALSE, None, None)

Starts(f) ==
    /\ fetches[f] = "idle"
    /\ fetches' = [fetches EXCEPT ![f] = "asking"]
    /\ UNCHANGED <<data, loading, error, last>>

Mount(f) == page = "new" /\ page' = "shown" /\ polling' = TRUE /\ Starts(f)

(* The page may stop polling and go on; mountedRef has an effect of its own.*)
Disable ==
    /\ polling /\ polling' = FALSE
    /\ UNCHANGED <<page, fetches, data, loading, error, last>>

Enable(f) == page = "shown" /\ ~polling /\ polling' = TRUE /\ Starts(f) /\ UNCHANGED page

(* The interval, or refresh(), which works on a page that does not poll.    *)
FetchData(f) == page = "shown" /\ Starts(f) /\ UNCHANGED <<page, polling>>

Leave ==
    /\ page = "shown" /\ page' = "gone" /\ polling' = FALSE
    /\ UNCHANGED <<fetches, data, loading, error, last>>

(* What was shown stays when an envelope has no data.                       *)
Settles(f, envelope) ==
    /\ fetches[f] = "asking"
    /\ fetches' = [fetches EXCEPT ![f] = "settled"]
    /\ IF page = "shown"
       THEN /\ data' = IF envelope.ok THEN envelope.data ELSE data
            /\ error' = envelope.code
            /\ loading' = FALSE /\ last' = envelope
       ELSE UNCHANGED <<data, error, loading, last>>
    /\ UNCHANGED <<page, polling>>

Next ==
    \/ Disable \/ Leave
    \/ \E f \in Fetches :
          \/ Mount(f) \/ Enable(f) \/ FetchData(f)
          \/ \E response \in Responses : Settles(f, Get(response))

Spec == Init /\ [][Next]_vars

-----------------------------------------------------------------------------

(* A page polls only while it is shown, and loads until something settles.  *)
TypeOK ==
    /\ page \in {"new", "shown", "gone"} /\ (polling => page = "shown")
    /\ loading \in BOOLEAN /\ (loading => data = None /\ error = None)

(* However answers overlap and whatever they look like: the page shows an   *)
(* error exactly while the last that reached it was one, and never loses    *)
(* what it shows to an answer without data (usePolling(), get(),            *)
(* normalizeResponse()).                                                    *)
DataOrError ==
    ~loading => /\ (error = None) = last.ok
                /\ last.ok => data # None /\ data = last.data
=============================================================================
