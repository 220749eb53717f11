--------------------------- MODULE HttpRequests ---------------------------
(***************************************************************************)
(* RequestResponse (RequestResponce.cpp): requests in flight over boost    *)
(* asio, each a chain of completion handlers on the one asio thread, plain *)
(* or over TLS, ending in api::HttpRequest::complete, which completes the  *)
(* promise behind the library's HttpRequest.  The library then parses the  *)
(* body by calling readBody until it returns an empty chunk.               *)
(***************************************************************************)
EXTENDS Naturals

CONSTANTS
  Plain,    \* the requests with an http URL
  Tls,      \* the requests with an https URL
  None

ASSUME SchemesAssumption == Plain \intersect Tls = {}

Requests == Plain \union Tls

\* The operation each request has pending, or "idle" before execute() and
\* "over" when no handler of it will run any more.
Phases == {"idle", "resolve", "connect", "handshake", "write", "read", "shutdown", "over"}

\* What the promise is completed with: an api::ErrorCode, or "ok".
Outcomes == {"UNABLE_TO_CONNECT_TO_HOST", "NO_INTERNET_CONNECTIVITY", "ok"}
ASSUME NoneAssumption == None \notin Outcomes

Bodies == {"full", "empty"}

VARIABLES
  phase,       \* what the request is waiting for
  completions, \* calls of apiRequest_->complete
  outcome,     \* what the promise was completed with
  sent,        \* bytes of the request may have reached the server
  response,    \* res_.body(), or None
  body,        \* urlConnection->body
  reading,     \* the library is parsing the response
  chunks,      \* non-empty chunks readBody has returned
  aborted      \* an exception left the asio thread

vars == <<phase, completions, outcome, sent, response, body, reading, chunks, aborted>>

Init ==
  /\ phase = [r \in Requests |-> "idle"]
  /\ completions = [r \in Requests |-> 0]
  /\ outcome = [r \in Requests |-> None]
  /\ sent = [r \in Requests |-> FALSE]
  /\ response = [r \in Requests |-> None]
  /\ body = [r \in Requests |-> "empty"]
  /\ reading = [r \in Requests |-> FALSE]
  /\ chunks = [r \in Requests |-> 0]
  /\ aborted = FALSE

---------------------------------------------------------------------------
\* A handler of r runs, having waited for operation p.
Handler(r, p) == ~aborted /\ phase[r] = p
Goto(r, p) == phase' = [phase EXCEPT ![r] = p]

NotCompleted == UNCHANGED <<completions, outcome, reading, aborted>>
NotAnswered == UNCHANGED <<response, body, chunks>>

\* The first complete() of r; with an error there is nothing to read.
Complete(r, o) ==
  /\ completions' = [completions EXCEPT ![r] = 1]
  /\ outcome' = [outcome EXCEPT ![r] = o]
  /\ reading' = [reading EXCEPT ![r] = (o = "ok")]
  /\ UNCHANGED aborted

\* complete() with success and, in the same handler, again with an error: the
\* promise is completed already, so the second call throws out of the handler
\* and of the asio thread.
CompleteTwice(r) ==
  /\ completions' = [completions EXCEPT ![r] = 2]
  /\ outcome' = [outcome EXCEPT ![r] = "ok"]
  /\ reading' = [reading EXCEPT ![r] = TRUE]
  /\ aborted' = TRUE

---------------------------------------------------------------------------
(* Mutated forms, one plausible mistake each. *)

\* readBody returns a copy and keeps the original.
BodyKept(r) == UNCHANGED body
\* The body is never copied from the response to the connection.
BodyDropped(r, b) == response' = [response EXCEPT ![r] = b] /\ UNCHANGED body
\* The error code of the connection phase used after it.
FailAsUnreached(r) ==
  Complete(r, "UNABLE_TO_CONNECT_TO_HOST") /\ Goto(r, "over")
\* An error is ignored.
FailQuietly(r, o) == NotCompleted /\ Goto(r, "over")
\* The two lines ssl_handle_shutdown keeps commented out.
ShutdownCompletes(r) ==
  /\ Handler(r, "shutdown") /\ Goto(r, "over")
  /\ \/ NotCompleted
     \/ CompleteTwice(r)
  /\ NotAnswered /\ UNCHANGED sent

---------------------------------------------------------------------------
\* The operation failed: complete with this code and start nothing.
Fail(r, o) == Complete(r, o) /\ Goto(r, "over")
FailAfterSending(r) == Fail(r, "NO_INTERNET_CONNECTIVITY")

Execute(r) ==
  /\ Handler(r, "idle")
  /\ Goto(r, "resolve")
  /\ NotCompleted /\ NotAnswered /\ UNCHANGED sent

HandleResolve(r) ==
  /\ Handler(r, "resolve")
  /\ \/ Goto(r, "connect") /\ NotCompleted
     \/ Fail(r, "UNABLE_TO_CONNECT_TO_HOST")
  /\ NotAnswered /\ UNCHANGED sent

\* Connected (and, over TLS, the handshake done): the request is written.
StartWrite(r) ==
  Goto(r, "write") /\ NotCompleted /\ sent' = [sent EXCEPT ![r] = TRUE]

HandleConnect(r) ==
  /\ Handler(r, "connect") /\ r \in Plain
  /\ \/ StartWrite(r)
     \/ Fail(r, "UNABLE_TO_CONNECT_TO_HOST") /\ UNCHANGED sent
  /\ NotAnswered

SslHandleConnect(r) ==
  /\ Handler(r, "connect") /\ r \in Tls
  /\ \/ Goto(r, "handshake") /\ NotCompleted
     \/ Fail(r, "UNABLE_TO_CONNECT_TO_HOST")
  /\ NotAnswered /\ UNCHANGED sent

SslHandleHandshake(r) ==
  /\ Handler(r, "handshake")
  /\ \/ StartWrite(r)
     \/ Fail(r, "UNABLE_TO_CONNECT_TO_HOST") /\ UNCHANGED sent
  /\ NotAnswered

\* handle_write_request and ssl_handle_write_request are alike.
HandleWriteRequest(r) ==
  /\ Handler(r, "write")
  /\ \/ Goto(r, "read") /\ NotCompleted
     \/ FailAfterSending(r)
  /\ NotAnswered /\ UNCHANGED sent

StoreBody(r, b) ==
  /\ response' = [response EXCEPT ![r] = b]
  /\ body' = [body EXCEPT ![r] = b]

\* The response is handed over, then the socket is shut down in place; if
\* that fails with the peer still connected, complete() is called once more.
HandleReadResponse(r) ==
  /\ Handler(r, "read") /\ r \in Plain /\ Goto(r, "over")
  /\ \/ FailAfterSending(r) /\ UNCHANGED <<response, body>>
     \/ \E b \in Bodies : StoreBody(r, b) /\ Complete(r, "ok")
     \/ \E b \in Bodies : StoreBody(r, b) /\ CompleteTwice(r)
  /\ UNCHANGED <<sent, chunks>>

SslHandleReadResponse(r) ==
  /\ Handler(r, "read") /\ r \in Tls
  /\ \/ FailAfterSending(r) /\ UNCHANGED <<response, body>>
     \/ \E b \in Bodies : StoreBody(r, b) /\ Complete(r, "ok") /\ Goto(r, "shutdown")
  /\ UNCHANGED <<sent, chunks>>

\* Whatever became of the shutdown is ignored.
SslHandleShutdown(r) ==
  /\ Handler(r, "shutdown") /\ Goto(r, "over")
  /\ NotCompleted /\ NotAnswered /\ UNCHANGED sent

\* readBody empties the body: the next call returns no bytes, and the
\* library stops reading.
EmptyBody(r) == body' = [body EXCEPT ![r] = "empty"]

ReadBody(r) ==
  /\ ~aborted /\ reading[r]
  /\ IF body[r] = "full"
     THEN chunks' = [chunks EXCEPT ![r] = @ + 1] /\ UNCHANGED reading
     ELSE reading' = [reading EXCEPT ![r] = FALSE] /\ UNCHANGED chunks
  /\ EmptyBody(r)
  /\ UNCHANGED <<phase, completions, outcome, sent, response, aborted>>

\* The operations that end by themselves, and those only the server ends.
LocalStep(r) ==
  \/ HandleResolve(r) \/ HandleConnect(r) \/ SslHandleConnect(r)
  \/ HandleWriteRequest(r) \/ ReadBody(r)
ServerStep(r) ==
  \/ SslHandleHandshake(r) \/ HandleReadResponse(r)
  \/ SslHandleReadResponse(r) \/ SslHandleShutdown(r)

Next == \E r \in Requests : Execute(r) \/ LocalStep(r) \/ ServerStep(r)

SafetySpec == Init /\ [][Next]_vars

\* Resolving, connecting and writing a small request end or time out in the
\* operating system.  Nothing bounds a wait for the server: the code sets no
\* timeout on the handshake or the read, so ServerStep has no fairness.
Spec == SafetySpec /\ \A r \in Requests : WF_vars(LocalStep(r))

---------------------------------------------------------------------------
\* Types, with the bounds of the counters: a body is read in one chunk and
\* no request is completed a third time.
TypeOK ==
  /\ phase \in [Requests -> Phases]
  /\ completions \in [Requests -> 0..2]
  /\ outcome \in [Requests -> Outcomes \union {None}]
  /\ sent \in [Requests -> BOOLEAN]
  /\ response \in [Requests -> Bodies \union {None}]
  /\ body \in [Requests -> Bodies]
  /\ reading \in [Requests -> BOOLEAN]
  /\ chunks \in [Requests -> 0..1]
  /\ aborted \in BOOLEAN

\* The asio thread dies of a request only when a plain request that had
\* already succeeded fails to shut its socket down; every other path of the
\* handlers completes a request at most once, and exactly once when over.
CompletedOnce ==
  \A r \in Requests :
    /\ phase[r] \in {"over", "shutdown"} <=> completions[r] > 0
    /\ completions[r] = 2 => aborted /\ r \in Plain /\ outcome[r] = "ok"

\* The error code tells the caller whether the server may have acted on the
\* request: UNABLE_TO_CONNECT_TO_HOST never once bytes were written, and
\* NO_INTERNET_CONNECTIVITY only then.
ErrorTellsWhetherSent ==
  \A r \in Requests :
    /\ outcome[r] = "UNABLE_TO_CONNECT_TO_HOST" => ~sent[r]
    /\ outcome[r] \in {"NO_INTERNET_CONNECTIVITY", "ok"} => sent[r]

\* A reader that has seen readBody return nothing has seen the whole body of
\* the response once, even when it reads while the TLS shutdown is pending;
\* a failed request is not read.
WholeBodyRead ==
  \A r \in Requests :
    /\ reading[r] => outcome[r] = "ok" /\ (body[r] = "full" => chunks[r] = 0)
    /\ outcome[r] = "ok" /\ ~reading[r] => (chunks[r] = 1 <=> response[r] = "full")

\* As long as servers answer or close the connection, no request is left
\* waiting and what it got is read to the end, unless the thread died of
\* another request.
ServersAnswer == \A r \in Requests : WF_vars(ServerStep(r))
NoRequestLeftBehind ==
  ServersAnswer =>
    \A r \in Requests :
      phase[r] # "idle" ~> aborted \/ (completions[r] > 0 /\ ~reading[r])
===========================================================================
