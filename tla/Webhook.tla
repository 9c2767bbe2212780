------------------------------- MODULE Webhook -------------------------------
(***************************************************************************)
(* What karydia's webhook makes of one HTTP request                        *)
(* (pkg/webhook/webhook.go), as operators on the variables of its handler. *)
(***************************************************************************)
EXTENDS Naturals, Sequences

CONSTANTS None, Patches

\* What an HTTP request looks like to Serve, by the first of its checks that
\* the request does not pass.
Paths == {"/healthz", "/webhook/mutating", "/webhook/validating"}
Bodies == {"notPosted", "notJson", "tooLarge", "empty", "undecodable", "review"}

\* What becomes of a request without the plugins: an HTTP error, or a closed
\* connection, since the answer to what cannot be decoded takes its UID from
\* a request that is nil.
StatusOf ==
    [notPosted |-> "methodNotAllowed", notJson |-> "unsupportedMediaType",
     tooLarge |-> "internalServerError", empty |-> "badRequest",
     undecodable |-> "closed"]
Statuses == {"ok", "methodNotAllowed", "unsupportedMediaType",
             "internalServerError", "badRequest", "closed"}

\* AdmissionResponse: a patch comes with an allowed mutating response only.
Denied == [allowed |-> FALSE, patch |-> None]
Allowed(patch) == [allowed |-> TRUE, patch |-> patch]
Responses == {Denied, Allowed(None)} \cup {Allowed(p) : p \in Patches}

\* What a plugin may respond.  A mutating response has a patch even if there
\* is nothing to change ("null"), unless the plugin lets the object through
\* before it looks at it.
ResponsesOf(path) ==
    IF path = "/webhook/mutating" THEN Responses ELSE {Denied, Allowed(None)}

\* The handler of a request: the plugin that is next (0 when none is to be
\* asked), the response that comes with patches, the answer when there is one,
\* and the HTTP status.
NoHandler == [next |-> 0, patched |-> None, answer |-> None, status |-> None]
Handlers == [next : Nat, patched : Responses \cup {None},
             answer : Responses \cup {None}, status : Statuses \cup {None}]

\* How the mux and Serve start on a request of shape s.
Served(s) ==
    IF s.path = "/healthz" THEN [NoHandler EXCEPT !.status = "ok"]
    ELSE IF s.body = "review" THEN [NoHandler EXCEPT !.next = 1]
    ELSE [NoHandler EXCEPT !.status = StatusOf[s.body]]

Answer(h, response) == [h EXCEPT !.answer = response, !.status = "ok"]

\* A variant that lets the last of several patches win.
AdmittedLast(h, response) ==
    IF ~response.allowed THEN Answer(h, response)
    ELSE [h EXCEPT !.next = @ + 1,
                   !.patched = IF response.patch # None THEN response ELSE @]

\* One round of the loop in admit: an error when there are patches already.
Admitted(h, response) ==
    IF ~response.allowed THEN Answer(h, response)
    ELSE IF response.patch = None THEN [h EXCEPT !.next = @ + 1]
    ELSE IF h.patched = None THEN [h EXCEPT !.next = @ + 1, !.patched = response]
    ELSE Answer(h, Denied)

\* After the last plugin.
Concluded(h) ==
    Answer(h, IF h.patched # None THEN h.patched ELSE Allowed(None))
=============================================================================
