--------------------------- MODULE TransferSession ---------------------------
(***************************************************************************)
(* One hand-over of one file through one client library: create, claim,    *)
(* declare, upload, download and cancel, each a call of RequestLifecycle   *)
(* of which only what the host is told matters here.  An ambiguous ending  *)
(* leaves the request on its way: the server may act on it later, also     *)
(* after the host has sent it again.                                       *)
(*                                                                         *)
(* The libraries decide which operation takes an idempotency key and what  *)
(* becomes of it.  External: the server, which answers a key it has seen   *)
(* with its first verdict, and the hosts, which retry by the README        *)
(* ("Retry policy") and order their calls by the integration guide.  A     *)
(* request that is lost is one the server never gets to.                   *)
(***************************************************************************)
EXTENDS Naturals

CONSTANTS
  Sdks,         \* the clients under study
  Keys,         \* what hosts pass for a key: "absent", "empty" or "text"
  MaxAttempts   \* bound: calls of one operation, retries included

ASSUME SessionBounds ==
  /\ Sdks \subseteq {"rust", "typescript", "dart", "java", "swift"}
  /\ Keys \subseteq {"absent", "empty", "text"}
  /\ MaxAttempts \in Nat \ {0}

VARIABLES
  sdk,      \* the client both hosts use
  key,      \* what the host passes wherever a key is taken
  told,     \* what the host knows of each operation
  tries,    \* calls made of each operation
  flight,   \* requests the server may still get to, <<operation, try>>
  reply,    \* the verdict on its way to the call that still waits
  done,     \* times each operation took effect
  memory,   \* the verdict the server will repeat
  live,     \* is the tunnel neither cancelled nor expired?
  seen,     \* what the last snapshot said of the slot's content
  stale     \* was a snapshot read with an upload still under way?

hostVars == <<told, tries, seen, stale>>
serverVars == <<done, memory, live>>
vars == <<sdk, key, hostVars, flight, reply, serverVars>>

Operations == {"create", "claim", "declare", "upload", "download", "cancel"}

-----------------------------------------------------------------------------
(* What becomes of the key: it is sent, left out, or the call is rejected. *)

\* Fault: the key of a declaration is forgotten.
TypeScriptKeyOfCreateOnly(o) ==
  IF o = "create" /\ key = "text" THEN "sent" ELSE "none"

\* createTunnel and declareFile test the key for truth: an empty one is left
\* out without a word.
TypeScriptKey(o) ==
  IF o \in {"create", "declare"} /\ key = "text" THEN "sent" ELSE "none"

\* Only declareFile takes a key; requireText rejects a blank one.
JavaKey(o) ==
  CASE o # "declare" \/ key = "absent" -> "none"
    [] o = "declare" /\ key = "empty"  -> "rejected"
    [] o = "declare" /\ key = "text"   -> "sent"

\* Only declareFile takes a key; the guard rejects an empty one.
SwiftKey(o) ==
  CASE o # "declare" \/ key = "absent" -> "none"
    [] o = "declare" /\ key = "empty"  -> "rejected"
    [] o = "declare" /\ key = "text"   -> "sent"

\* Rust and Dart take no key at all.
KeyOf(o) ==
  CASE sdk = "typescript"       -> TypeScriptKey(o)
    [] sdk = "java"             -> JavaKey(o)
    [] sdk = "swift"            -> SwiftKey(o)
    [] sdk \in {"rust", "dart"} -> "none"

\* The operations that have a parameter for a key.
TakesKey(o) ==
  \/ sdk = "typescript" /\ o \in {"create", "declare"}
  \/ sdk \in {"java", "swift"} /\ o = "declare"

-----------------------------------------------------------------------------
Init ==
  /\ sdk \in Sdks
  /\ key \in Keys
  /\ told = [o \in Operations |-> "idle"]
  /\ tries = [o \in Operations |-> 0]
  /\ flight = {}
  /\ reply = [o \in Operations |-> "none"]
  /\ done = [o \in Operations |-> 0]
  /\ memory = [o \in Operations |-> "none"]
  /\ live = TRUE
  /\ seen = "nothing"
  /\ stale = FALSE

\* The handles an operation needs come from answers of earlier ones; a download
\* waits until the file is complete, a cancel may come at any time.
Ready(o) ==
  CASE o = "create"   -> TRUE
    [] o = "claim"    -> told["create"] = "value"
    [] o = "declare"  -> told["claim"] = "value"
    [] o = "upload"   -> told["declare"] = "value"
    [] o = "download" -> told["create"] = "value" /\ done["upload"] > 0
    [] o = "cancel"   -> told["create"] = "value"

\* One call goes out, with the key or without, unless the client rejects it.
Send(o) ==
  IF KeyOf(o) = "rejected"
  THEN /\ told' = [told EXCEPT ![o] = "rejected"]
       /\ UNCHANGED <<tries, flight, reply>>
  ELSE /\ told' = [told EXCEPT ![o] = "pending"]
       /\ tries' = [tries EXCEPT ![o] = @ + 1]
       /\ flight' = flight \cup {<<o, tries'[o]>>}
       /\ reply' = [reply EXCEPT ![o] = "none"]

Call(o) ==
  /\ told[o] = "idle"
  /\ Ready(o)
  /\ Send(o)
  /\ UNCHANGED <<sdk, key, serverVars, seen, stale>>

\* README: creating and declaring may be retried only with a key, a whole upload
\* only while the slot has no published content.  A download changes nothing.
MayRetry(o) ==
  \/ TakesKey(o) /\ key # "absent"
  \/ o = "upload" /\ seen = "empty"
  \/ o = "download"

Retry(o) ==
  /\ told[o] = "ambiguous"
  /\ tries[o] < MaxAttempts
  /\ MayRetry(o)
  /\ Send(o)
  /\ seen' = IF o = "upload" THEN "nothing" ELSE seen
  /\ UNCHANGED <<sdk, key, serverVars, stale>>

UnderWay(o) == \E t \in 1..MaxAttempts : <<o, t>> \in flight

\* A snapshot, taken to find out about an ambiguous upload.
Look ==
  /\ told["upload"] = "ambiguous"
  /\ live
  /\ seen' = IF done["upload"] = 0 THEN "empty" ELSE "published"
  /\ stale' = (stale \/ UnderWay("upload"))
  /\ UNCHANGED <<sdk, key, told, tries, flight, reply, serverVars>>

\* The call ends without a verdict: a timeout, a broken connection, a 5xx.
EndsAmbiguous(o) ==
  /\ told[o] = "pending"
  /\ told' = [told EXCEPT ![o] = "ambiguous"]
  /\ reply' = [reply EXCEPT ![o] = "none"]
  /\ UNCHANGED <<sdk, key, tries, flight, serverVars, seen, stale>>

\* The host stops trying.
GiveUp(o) ==
  /\ told[o] = "ambiguous"
  /\ told' = [told EXCEPT ![o] = "unknown"]
  /\ UNCHANGED <<sdk, key, tries, flight, reply, serverVars, seen, stale>>

\* Fault: the host is handed what the server said, whatever that was.
AnsweredUnread(o) ==
  /\ told[o] = "pending"
  /\ reply[o] # "none"
  /\ told' = [told EXCEPT ![o] = reply[o]]
  /\ reply' = [reply EXCEPT ![o] = "none"]
  /\ UNCHANGED <<sdk, key, tries, flight, serverVars, seen, stale>>

\* Fault: the status is not looked at, every answer is a success.
AnsweredAlwaysWell(o) ==
  /\ told[o] = "pending"
  /\ reply[o] # "none"
  /\ told' = [told EXCEPT ![o] = "value"]
  /\ reply' = [reply EXCEPT ![o] = "none"]
  /\ UNCHANGED <<sdk, key, tries, flight, serverVars, seen, stale>>

\* The verdict arrives at the call that waits for it.
Answered(o) ==
  /\ told[o] = "pending"
  /\ reply[o] # "none"
  /\ told' = [told EXCEPT ![o] = IF reply[o] = "applied" THEN "value" ELSE "refused"]
  /\ reply' = [reply EXCEPT ![o] = "none"]
  /\ UNCHANGED <<sdk, key, tries, flight, serverVars, seen, stale>>

\* What the server may decide: it can refuse anything for reasons of its own, a
\* refusal stands, a key is answered as before, a secret pairs one phone.  What
\* a second upload of published content does is left open.
Verdicts(o) ==
  IF memory[o] # "none" THEN {memory[o]}
  ELSE IF \/ o # "create" /\ ~ live
          \/ o = "claim" /\ done["claim"] > 0
       THEN {"refused"}
       ELSE {"applied", "refused"}

\* The server gets to a request, of the call that waits or of one given up.
Act(o, t) ==
  /\ <<o, t>> \in flight
  /\ flight' = flight \ {<<o, t>>}
  /\ \E verdict \in Verdicts(o) :
       /\ done' = IF verdict = "applied" /\ memory[o] = "none"
                  THEN [done EXCEPT ![o] = @ + 1] ELSE done
       /\ memory' = IF done[o] = 0 /\ (verdict = "refused" \/ KeyOf(o) = "sent")
                    THEN [memory EXCEPT ![o] = verdict] ELSE memory
       /\ reply' = IF told[o] = "pending" /\ t = tries[o]
                   THEN [reply EXCEPT ![o] = verdict] ELSE reply
       /\ live' = (live /\ ~ (o = "cancel" /\ verdict = "applied"))
  /\ UNCHANGED <<sdk, key, hostVars>>

\* The tunnel's time is up.
Expire ==
  /\ live
  /\ done["create"] > 0
  /\ live' = FALSE
  /\ UNCHANGED <<sdk, key, hostVars, flight, reply, done, memory>>

Next ==
  \/ \E o \in Operations :
       \/ Call(o) \/ Retry(o) \/ EndsAmbiguous(o) \/ GiveUp(o) \/ Answered(o)
       \/ \E t \in 1..MaxAttempts : Act(o, t)
  \/ Look
  \/ Expire

Spec == Init /\ [][Next]_vars

-----------------------------------------------------------------------------
\* Hosts, client and server keep to their states, and tries to the bound.
TypeOK ==
  /\ sdk \in Sdks
  /\ key \in Keys
  /\ told \in [Operations -> {"idle", "pending", "ambiguous", "value", "refused",
                              "unknown", "rejected"}]
  /\ tries \in [Operations -> 0..MaxAttempts]
  /\ flight \subseteq Operations \X (1..MaxAttempts)
  /\ reply \in [Operations -> {"none", "applied", "refused"}]
  /\ done \in [Operations -> Nat]
  /\ memory \in [Operations -> {"none", "applied", "refused"}]
  /\ live \in BOOLEAN
  /\ seen \in {"nothing", "empty", "published"}
  /\ stale \in BOOLEAN

\* The two ways the retry policy fails its host: TypeScript drops an empty key,
\* and a snapshot may be older than an upload that is still on its way.
KeyDropped(o) == sdk = "typescript" /\ key = "empty" /\ o \in {"create", "declare"}
ReplayRaces(o) == o = "upload" /\ stale
Excepted(o) == KeyDropped(o) \/ ReplayRaces(o)

Changes == Operations \ {"download"}

\* However late the server gets to a request that was given up, and however
\* often a host that keeps to the README's retry policy sends it again, no
\* operation takes effect twice, except as named above.
TakesEffectOnce ==
  \A o \in Changes : done[o] <= 1 \/ Excepted(o)

\* The strengthening that makes this inductive.  With a key the server remembers
\* what it has applied; without one there is never a second request on its way,
\* none after the first took effect, and a replay follows only on a snapshot that
\* nothing can have overtaken.
Orderly(o) ==
  /\ done[o] <= 1
  /\ told[o] = "idle" => done[o] = 0 /\ ~ UnderWay(o)
  /\ KeyOf(o) = "sent" /\ done[o] > 0 => memory[o] = "applied"
  /\ KeyOf(o) = "rejected" => ~ UnderWay(o)
  /\ KeyOf(o) # "sent" =>
       \A t \in 1..MaxAttempts : <<o, t>> \in flight => t = tries[o] /\ done[o] = 0
  /\ o = "upload" /\ seen = "empty" => done[o] = 0 /\ ~ UnderWay(o)
  /\ reply[o] # "none" => told[o] = "pending"
  /\ reply[o] = "applied" \/ told[o] = "value" => done[o] > 0
  /\ reply[o] = "refused" \/ told[o] = "refused" => memory[o] = "refused"
SessionConsistent ==
  /\ told["upload"] = "idle" => seen = "nothing"
  /\ \A o \in Operations : /\ told[o] = "idle" => tries[o] = 0
                           /\ memory[o] = "refused" => done[o] = 0
                           /\ memory[o] = "applied" => done[o] > 0
SessionOrderly == SessionConsistent /\ \A o \in Changes : Excepted(o) \/ Orderly(o)

\* What the host knows and what happened, as BoundedCall names them: a call that
\* may still be repeated is pending.
Known(o) ==
  CASE told[o] \in {"idle", "pending", "ambiguous"} -> "pending"
    [] told[o] \in {"value", "refused"}             -> told[o]
    [] told[o] \in {"unknown", "rejected"}          -> "ambiguous"

Effect(o) ==
  CASE done[o] > 0                            -> "applied"
    [] done[o] = 0 /\ memory[o] = "refused"   -> "refused"
    [] done[o] = 0 /\ memory[o] # "refused"   -> "none"

Once(o) == INSTANCE BoundedCall
  WITH answer <- Known(o), effect <- Effect(o), elapsed <- 0, Timeout <- 0

\* With its retries, an operation is still one call: the server acts on it at
\* most once, and a value or a refusal that ends the last of the tries is true
\* of all of them (README: "Retry policy"; with the same exceptions).
RetriesDoNotShow ==
  /\ \A o \in Changes : Once(o)!Init
  /\ [][\A o \in Changes : \/ Once(o)!Next
                           \/ UNCHANGED <<Known(o), Effect(o)>>
                           \/ Excepted(o)']_vars
=============================================================================
