-------------------------- MODULE RequestLifecycle --------------------------
(***************************************************************************)
(* One call of one File Tunnel client: a single HTTP exchange from the     *)
(* host's call to the value or error the host gets back.  The clients keep *)
(* no state between calls and never retry, so a call is the unit of their  *)
(* behaviour; what differs is which clock bounds which part of it, whether *)
(* a successful body is read at all, and how a response becomes a result.  *)
(*                                                                         *)
(* Rust, TypeScript and Swift arm one deadline for the whole call.  Dart   *)
(* arms it only until the response headers, and its deadline does not      *)
(* abort the request.  Java arms a fresh timer for the connect and for     *)
(* every read, and none for a write.                                       *)
(*                                                                         *)
(* The network and the server are external: bytes may stall for ever, the  *)
(* connection may break at any point, and the server may act on a complete *)
(* request after the host stopped waiting.                                 *)
(***************************************************************************)
EXTENDS Naturals

CONSTANTS
  Sdks,             \* the clients under study, a subset of AllSdks
  Timeout,          \* the configured request timeout, in ticks
  ConnectTimeout,   \* Rust's DEFAULT_CONNECT_TIMEOUT, in ticks
  RequestChunks,    \* writes it takes to send the request
  ResponseChunks,   \* bound: the most reads a response body takes
  MaxTime           \* bound: the clocks stop counting here

AllSdks == {"rust", "typescript", "dart", "java", "swift"}

ASSUME SdksKnown == Sdks \subseteq AllSdks
ASSUME TimeoutPositive == Timeout \in Nat \ {0} /\ ConnectTimeout \in Nat \ {0}
ASSUME ChunksPositive == RequestChunks \in Nat \ {0} /\ ResponseChunks \in Nat
ASSUME MaxTimeBeyondTimeout == MaxTime \in Nat /\ MaxTime > Timeout

VARIABLES
  sdk,       \* the client making the call
  op,        \* "json", "bytes" (download) or "ack" (upload, cancel)
  phase,     \* where the call stands, as the host's stack sees it
  wire,      \* the connection: "opening", "open" or "closed"
  written,   \* request chunks handed to the network
  received,  \* response body chunks read
  status,    \* status class of the response headers, or "none"
  effect,    \* what the server did with the request
  elapsed,   \* ticks since the call was made
  idle,      \* ticks since the connection last made progress
  result     \* what the host got

vars == <<sdk, op, phase, wire, written, received, status, effect,
          elapsed, idle, result>>

Ops == {"json", "bytes", "ack"}
Phases == {"connecting", "sending", "awaiting", "reading", "done"}
Statuses == {"2xx", "3xx", "4xx", "5xx"}

\* Response bodies as the decoders tell them apart: the expected JSON; JSON
\* of another shape; not JSON; and the expected JSON, but over the limits
\* (1 MiB of payload, 64 KiB of problem) that Java and Swift set.
Bodies == {"good", "wrongShape", "malformed", "oversize"}

\* "value", "apiCode" (the server's problem code), "apiDefault" (the code
\* "request_failed"), "timeout", "transport", "payload" (a decoding error) and
\* "unchecked" (a success built from JSON nobody validated).
Results == {"none", "value", "unchecked", "apiCode", "apiDefault",
            "timeout", "transport", "payload"}

-----------------------------------------------------------------------------
(* How each client turns a complete response into a result. *)

\* Every non-success is an Api error; a problem that does not decode leaves
\* the default code.
RustResult(o, s, body) ==
  LET decodes == body \in {"good", "oversize"}
  IN  IF s = "2xx" THEN IF o # "json" \/ decodes THEN "value" ELSE "payload"
                   ELSE IF decodes THEN "apiCode" ELSE "apiDefault"

\* fetch rejects a redirect; the JSON of a success is cast, never checked.
TypeScriptResult(o, s, body) ==
  LET success == CASE o # "json" \/ body \in {"good", "oversize"} -> "value"
                   [] o = "json" /\ body = "wrongShape"          -> "unchecked"
                   [] o = "json" /\ body = "malformed"           -> "payload"
      problem == IF body \in {"good", "oversize"} THEN "apiCode" ELSE "apiDefault"
  IN  IF s = "3xx" THEN "transport" ELSE IF s = "2xx" THEN success ELSE problem

\* Only a FormatException is caught around the problem body: JSON of another
\* shape leaves the client as a TypeError.
DartResult(o, s, body) ==
  LET success == IF o # "json" \/ body \in {"good", "oversize"} THEN "value" ELSE "payload"
      problem == CASE body \in {"good", "oversize"} -> "apiCode"
                   [] body = "wrongShape"           -> "payload"
                   [] body = "malformed"            -> "apiDefault"
  IN  IF s = "2xx" THEN success ELSE problem

\* A problem is cut at MAX_ERROR_BYTES and then no longer parses; a payload is
\* read whole and then refused above MAX_JSON_BYTES.
JavaResult(o, s, body) ==
  IF s = "2xx" THEN IF o # "json" \/ body = "good" THEN "value" ELSE "payload"
               ELSE IF body = "good" THEN "apiCode" ELSE "apiDefault"

\* Both size guards come before the decoders.
SwiftResult(o, s, body) ==
  CASE s # "2xx"                                    -> IF body = "good" THEN "apiCode" ELSE "apiDefault"
    [] s = "2xx" /\ o = "json" /\ body # "good"     -> "payload"
    [] s = "2xx" /\ (o # "json" \/ body = "good")   -> "value"

ResultOf(o, s, body) ==
  CASE sdk = "rust"       -> RustResult(o, s, body)
    [] sdk = "typescript" -> TypeScriptResult(o, s, body)
    [] sdk = "dart"       -> DartResult(o, s, body)
    [] sdk = "java"       -> JavaResult(o, s, body)
    [] sdk = "swift"      -> SwiftResult(o, s, body)

\* Rust and TypeScript return from upload and cancel on the headers alone, and
\* fetch rejects a redirect before its body.
EndsAtHeaders(s) ==
  \/ sdk \in {"rust", "typescript"} /\ op = "ack" /\ s = "2xx"
  \/ sdk = "typescript" /\ s = "3xx"

\* Fault: the catch-all also covers the body of a success.
SwallowsEveryBody ==
  /\ sdk \in {"rust", "typescript"}
  /\ phase = "reading"

\* Rust and TypeScript read the problem of a refused request inside a catch-all:
\* whatever ends that read leaves the Api error with the default code.
SwallowsBodyFailure ==
  /\ sdk \in {"rust", "typescript"}
  /\ phase = "reading"
  /\ status # "2xx"

-----------------------------------------------------------------------------
(* Which timer has run out. *)

\* One deadline for the call, and a shorter one for the connect.
RustExpired ==
  \/ elapsed >= Timeout
  \/ phase = "connecting" /\ elapsed >= ConnectTimeout

\* Fault: the signal is dropped once fetch resolves.
TypeScriptHeadersOnly == phase # "reading" /\ elapsed >= Timeout

\* AbortSignal.timeout covers the fetch and the reading of its body.
TypeScriptExpired == elapsed >= Timeout

\* Future.timeout wraps the send, which completes with the headers.
DartExpired == phase # "reading" /\ elapsed >= Timeout

\* setConnectTimeout and setReadTimeout bound one connect and one read each.
JavaExpired == phase # "sending" /\ idle >= Timeout

\* Fault: only timeoutIntervalForRequest is set.
SwiftSilenceOnly == idle >= Timeout

\* timeoutIntervalForResource bounds the call; timeoutIntervalForRequest, of
\* the same length, bounds the silence between two bytes and is never first.
SwiftExpired == elapsed >= Timeout

Expired ==
  /\ phase # "done"
  /\ \/ sdk = "rust"       /\ RustExpired
     \/ sdk = "typescript" /\ TypeScriptExpired
     \/ sdk = "dart"       /\ DartExpired
     \/ sdk = "java"       /\ JavaExpired
     \/ sdk = "swift"      /\ SwiftExpired

-----------------------------------------------------------------------------
Init ==
  /\ sdk \in Sdks
  /\ op \in Ops
  /\ phase = "connecting"
  /\ wire = "opening"
  /\ written = 0
  /\ received = 0
  /\ status = "none"
  /\ effect = "none"
  /\ elapsed = 0
  /\ idle = 0
  /\ result = "none"

\* The connection is up.  A Dart request whose host gave up connects too.
Connect ==
  /\ wire = "opening"
  /\ wire' = "open"
  /\ phase' = IF phase = "connecting" THEN "sending" ELSE phase
  /\ idle' = 0
  /\ UNCHANGED <<sdk, op, written, received, status, effect, elapsed, result>>

\* Fault: the end of the request is not noticed.
SendPastTheEnd ==
  /\ wire = "open"
  /\ written' = written + 1
  /\ phase' = IF phase = "sending" /\ written' = RequestChunks
              THEN "awaiting" ELSE phase
  /\ idle' = 0
  /\ UNCHANGED <<sdk, op, wire, received, status, effect, elapsed, result>>

\* One write of the request succeeds.
Send ==
  /\ wire = "open"
  /\ written < RequestChunks
  /\ written' = written + 1
  /\ phase' = IF phase = "sending" /\ written' = RequestChunks
              THEN "awaiting" ELSE phase
  /\ idle' = 0
  /\ UNCHANGED <<sdk, op, wire, received, status, effect, elapsed, result>>

\* The server, once it has the whole request, acts on it or refuses it; the
\* client may be gone by then.
ServerActs ==
  /\ written = RequestChunks
  /\ effect = "none"
  /\ effect' \in {"applied", "refused"}
  /\ UNCHANGED <<sdk, op, phase, wire, written, received, status, elapsed,
                 idle, result>>

\* Headers arrive.  A 5xx may come from anything on the path and says nothing
\* about what the server did.
Headers ==
  /\ phase = "awaiting"
  /\ \E s \in Statuses :
       /\ s = "2xx" => effect = "applied"
       /\ s \in {"3xx", "4xx"} => effect = "refused"
       /\ status' = s
       /\ IF EndsAtHeaders(s)
          THEN /\ phase' = "done"
               /\ wire' = "closed"
               /\ result' = ResultOf(op, s, "good")
          ELSE /\ phase' = "reading"
               /\ UNCHANGED <<wire, result>>
  /\ idle' = 0
  /\ UNCHANGED <<sdk, op, written, received, effect, elapsed>>

\* One read of the response body returns bytes.
Read ==
  /\ phase = "reading"
  /\ received < ResponseChunks
  /\ received' = received + 1
  /\ idle' = 0
  /\ UNCHANGED <<sdk, op, phase, wire, written, status, effect, elapsed, result>>

\* The body ends and the client turns the response into a result.
BodyEnds ==
  /\ phase = "reading"
  /\ \E body \in Bodies : result' = ResultOf(op, status, body)
  /\ phase' = "done"
  /\ wire' = "closed"
  /\ UNCHANGED <<sdk, op, written, received, status, effect, elapsed, idle>>

\* Fault: no client aborts its request.
ExpireWithoutAbort ==
  /\ Expired
  /\ result' = IF SwallowsBodyFailure THEN "apiDefault" ELSE "timeout"
  /\ phase' = "done"
  /\ UNCHANGED <<sdk, op, wire, written, received, status, effect, elapsed, idle>>

\* A timer fires.  All clients but Dart give the connection up with the call.
Expire ==
  /\ Expired
  /\ result' = IF SwallowsBodyFailure THEN "apiDefault" ELSE "timeout"
  /\ phase' = "done"
  /\ wire' = IF sdk = "dart" THEN wire ELSE "closed"
  /\ UNCHANGED <<sdk, op, written, received, status, effect, elapsed, idle>>

\* The connection breaks, at any point.
Break ==
  /\ wire # "closed"
  /\ wire' = "closed"
  /\ phase' = "done"
  /\ result' = CASE phase = "done"       -> result
                 [] SwallowsBodyFailure  -> "apiDefault"
                 [] OTHER                -> "transport"
  /\ UNCHANGED <<sdk, op, written, received, status, effect, elapsed, idle>>

Capped(n) == IF n < MaxTime THEN n + 1 ELSE n

\* A tick.  A timer that is due fires before the next tick.
Tick ==
  /\ phase # "done"
  /\ ~ Expired
  /\ elapsed' = Capped(elapsed)
  /\ idle' = Capped(idle)
  /\ UNCHANGED <<sdk, op, phase, wire, written, received, status, effect, result>>

Next ==
  \/ Connect \/ Send \/ Headers \/ Read \/ BodyEnds
  \/ Expire \/ Break \/ Tick
  \/ ServerActs

\* Clocks advance and due timers fire; the network and the server owe nothing.
Fairness == WF_vars(Tick) /\ WF_vars(Expire)

Spec == Init /\ [][Next]_vars /\ Fairness

-----------------------------------------------------------------------------
\* A call is one of the clients' operations, within its request and clocks.
TypeOK ==
  /\ sdk \in Sdks
  /\ op \in Ops
  /\ phase \in Phases
  /\ wire \in {"opening", "open", "closed"}
  /\ written \in 0..RequestChunks
  /\ received \in 0..ResponseChunks
  /\ status \in Statuses \cup {"none"}
  /\ effect \in {"none", "applied", "refused"}
  /\ elapsed \in 0..MaxTime
  /\ idle \in 0..MaxTime
  /\ result \in Results

\* The configured timeout bounds the whole call: a host never waits longer,
\* whichever part of the exchange is slow (README, "Request timeout").
CallBounded == phase # "done" => elapsed <= Timeout

\* Every call ends, though the network and the server may stop answering at
\* any point (README: timeouts surface to the host).
CallSettles == <>(phase = "done")

\* What a result says of the server is true.  A value, and a payload the client
\* could not decode, mean that the server acted; an Api error with a 3xx or 4xx
\* status means that it refused.  Only the other endings are ambiguous.
DefiniteAnswersAreTrue ==
  /\ result \in {"value", "unchecked", "payload"} => effect = "applied"
  /\ (result \in {"apiCode", "apiDefault"} /\ status # "5xx") => effect = "refused"

\* The strengthening that makes the safety properties inductive: how far the
\* call is, what has been heard and what the host was told agree.
CallConsistent ==
  /\ phase = "done" <=> result # "none"
  /\ phase \in {"connecting", "sending", "awaiting"} => status = "none"
  /\ phase = "reading" => status # "none"
  /\ status = "2xx" => effect = "applied"
  /\ status \in {"3xx", "4xx"} => effect = "refused"
  /\ (phase = "done" /\ status = "none") => result \in {"timeout", "transport"}

\* For the clients whose timer aborts the request: an ended call has no
\* connection left, and the server only ever acts on a complete request.
WireReleased ==
  /\ phase = "done" => wire = "closed"
  /\ effect # "none" => written = RequestChunks

\* A call the client gave up before its request was out stays without effect:
\* nothing more is sent, so the server never acts on it and a retry is the first
\* attempt the server sees.
AbandonedRequestNeverActs ==
  [][(phase = "done" /\ written < RequestChunks)
       => (written' = written /\ effect' = effect)]_vars

\* What the host knows, as BoundedCall names it.
Answer ==
  CASE result = "none"                                          -> "pending"
    [] result \in {"value", "unchecked"}                        -> "value"
    [] result \in {"apiCode", "apiDefault"} /\ status # "5xx"   -> "refused"
    [] OTHER                                                    -> "ambiguous"

\* The clients with a deadline for the whole call keep the promise of
\* BoundedCall: bounded, settled, and truthful when definite.
Promise == INSTANCE BoundedCall WITH answer <- Answer
KeepsPromise == Promise!Spec

=============================================================================
