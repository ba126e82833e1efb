----------------------- MODULE RequestLifecycleProofs -----------------------
(***************************************************************************)
(* Proofs about RequestLifecycle, for every timeout, every number of       *)
(* chunks and every bound on the clock.                                    *)
(***************************************************************************)
EXTENDS RequestLifecycle, TLAPS

\* Every result the decoders produce is a result.
LEMMA ResultOfType ==
  ASSUME sdk \in Sdks, NEW o \in Ops, NEW s \in Statuses, NEW body \in Bodies
  PROVE  ResultOf(o, s, body) \in Results
<1>1. sdk \in AllSdks
  BY SdksKnown
<1> QED
  BY <1>1 DEF AllSdks, Statuses, Bodies, Results, ResultOf, RustResult,
     TypeScriptResult, DartResult, JavaResult, SwiftResult

\* The model's variables keep their types, whatever the clients and constants.
THEOREM TypeCorrect == Spec => []TypeOK
<1> USE SdksKnown, TimeoutPositive, ChunksPositive, MaxTimeBeyondTimeout
<1>1. Init => TypeOK
  BY DEF Init, TypeOK, Ops, Phases, Results
<1>2. TypeOK /\ [Next]_vars => TypeOK'
  <2> SUFFICES ASSUME TypeOK, [Next]_vars
               PROVE  TypeOK'
    OBVIOUS
  <2>1. CASE Connect
    BY <2>1 DEF Connect, TypeOK, Phases
  <2>2. CASE Send
    BY <2>2 DEF Send, TypeOK, Phases
  <2>3. CASE ServerActs
    BY <2>3 DEF ServerActs, TypeOK
  <2>4. CASE Headers
    <3> PICK s \in Statuses :
          /\ status' = s
          /\ IF EndsAtHeaders(s)
             THEN /\ phase' = "done"
                  /\ wire' = "closed"
                  /\ result' = ResultOf(op, s, "good")
             ELSE /\ phase' = "reading"
                  /\ UNCHANGED <<wire, result>>
      BY <2>4 DEF Headers
    <3>1. ResultOf(op, s, "good") \in Results
      BY ResultOfType DEF TypeOK, Bodies
    <3> QED
      BY <2>4, <3>1 DEF Headers, TypeOK, Phases
  <2>5. CASE Read
    BY <2>5 DEF Read, TypeOK
  <2>6. CASE BodyEnds
    <3> PICK body \in Bodies : result' = ResultOf(op, status, body)
      BY <2>6 DEF BodyEnds
    <3>1. CASE status \in Statuses
      BY <2>6, <3>1, ResultOfType DEF BodyEnds, TypeOK, Phases
    <3>2. CASE status = "none"
      <4>1. sdk \in AllSdks
        BY DEF TypeOK
      <4>2. result' \in Results
        BY <3>2, <4>1 DEF AllSdks, Results, Bodies, ResultOf, RustResult,
           TypeScriptResult, DartResult, JavaResult, SwiftResult
      <4> QED
        BY <2>6, <4>2 DEF BodyEnds, TypeOK, Phases
    <3> QED
      BY <3>1, <3>2 DEF TypeOK
  <2>7. CASE Expire
    BY <2>7 DEF Expire, TypeOK, Phases, Results
  <2>8. CASE Break
    BY <2>8 DEF Break, TypeOK, Phases, Results
  <2>9. CASE Tick
    BY <2>9 DEF Tick, TypeOK, Capped
  <2>10. CASE UNCHANGED vars
    BY <2>10 DEF vars, TypeOK
  <2> QED
    BY <2>1, <2>2, <2>3, <2>4, <2>5, <2>6, <2>7, <2>8, <2>9, <2>10 DEF Next
<1> QED
  BY <1>1, <1>2, PTL DEF Spec

-----------------------------------------------------------------------------
\* Where a result can come from: outside Dart, only a success gives a value or
\* a decoding error, and only another status gives an Api error.
LEMMA ResultOfSource ==
  ASSUME sdk \in Sdks, NEW o \in Ops, NEW s \in Statuses, NEW body \in Bodies
  PROVE  /\ ResultOf(o, s, body) # "none"
         /\ "dart" \notin Sdks =>
              /\ ResultOf(o, s, body) \in {"value", "unchecked", "payload"} => s = "2xx"
              /\ ResultOf(o, s, body) \in {"apiCode", "apiDefault"} => s # "2xx"
<1>1. sdk \in AllSdks
  BY SdksKnown
<1>2. ResultOf(o, s, body) # "none"
  <2>1. CASE sdk = "rust"
    BY <2>1 DEF ResultOf, RustResult
  <2>2. CASE sdk = "typescript"
    BY <2>2 DEF ResultOf, TypeScriptResult, Bodies
  <2>3. CASE sdk = "dart"
    BY <2>3 DEF ResultOf, DartResult, Bodies
  <2>4. CASE sdk = "java"
    BY <2>4 DEF ResultOf, JavaResult
  <2>5. CASE sdk = "swift"
    BY <2>5 DEF ResultOf, SwiftResult
  <2> QED
    BY <1>1, <2>1, <2>2, <2>3, <2>4, <2>5 DEF AllSdks
<1>3. ASSUME "dart" \notin Sdks
      PROVE  /\ ResultOf(o, s, body) \in {"value", "unchecked", "payload"} => s = "2xx"
             /\ ResultOf(o, s, body) \in {"apiCode", "apiDefault"} => s # "2xx"
  <2>1. CASE sdk = "rust"
    BY <2>1 DEF ResultOf, RustResult
  <2>2. CASE sdk = "typescript"
    BY <2>2 DEF ResultOf, TypeScriptResult, Bodies
  <2>3. CASE sdk = "java"
    BY <2>3 DEF ResultOf, JavaResult
  <2>4. CASE sdk = "swift"
    BY <2>4 DEF ResultOf, SwiftResult
  <2> QED
    BY <1>1, <1>3, <2>1, <2>2, <2>3, <2>4 DEF AllSdks
<1> QED
  BY <1>2, <1>3

\* Progress, response and result agree, for every client.
LEMMA Consistent == Spec => []CallConsistent
<1>1. Init => CallConsistent
  BY DEF Init, CallConsistent
<1>2. TypeOK /\ CallConsistent /\ [Next]_vars => CallConsistent'
  <2> SUFFICES ASSUME TypeOK, CallConsistent, [Next]_vars
               PROVE  CallConsistent'
    OBVIOUS
  <2> USE DEF CallConsistent
  <2>1. CASE Connect
    BY <2>1 DEF Connect
  <2>2. CASE Send
    BY <2>2 DEF Send
  <2>3. CASE ServerActs
    BY <2>3 DEF ServerActs
  <2>4. CASE Headers
    <3> PICK s \in Statuses :
          /\ s = "2xx" => effect = "applied"
          /\ s \in {"3xx", "4xx"} => effect = "refused"
          /\ status' = s
          /\ IF EndsAtHeaders(s)
             THEN /\ phase' = "done"
                  /\ wire' = "closed"
                  /\ result' = ResultOf(op, s, "good")
             ELSE /\ phase' = "reading"
                  /\ UNCHANGED <<wire, result>>
      BY <2>4 DEF Headers
    <3>1. ResultOf(op, s, "good") # "none"
      BY ResultOfSource DEF TypeOK, Bodies
    <3>2. effect' = effect /\ phase = "awaiting" /\ s # "none"
      BY <2>4 DEF Headers, Statuses
    <3> QED
      BY <3>1, <3>2
  <2>5. CASE Read
    BY <2>5 DEF Read
  <2>6. CASE BodyEnds
    <3> PICK body \in Bodies : result' = ResultOf(op, status, body)
      BY <2>6 DEF BodyEnds
    <3>1. status \in Statuses
      BY <2>6 DEF BodyEnds, TypeOK
    <3>2. result' # "none"
      BY <3>1, ResultOfSource DEF TypeOK
    <3> QED
      BY <2>6, <3>1, <3>2 DEF BodyEnds
  <2>7. CASE Expire
    BY <2>7 DEF Expire, SwallowsBodyFailure
  <2>8. CASE Break
    BY <2>8 DEF Break, SwallowsBodyFailure
  <2>9. CASE Tick
    BY <2>9 DEF Tick
  <2>10. CASE UNCHANGED vars
    BY <2>10 DEF vars
  <2> QED
    BY <2>1, <2>2, <2>3, <2>4, <2>5, <2>6, <2>7, <2>8, <2>9, <2>10 DEF Next
<1> QED
  BY <1>1, <1>2, TypeCorrect, PTL DEF Spec

-----------------------------------------------------------------------------
WholeCall == {"rust", "typescript", "swift"}

\* The timeout given to Rust, TypeScript or Swift bounds the whole call: while
\* one of them still waits, its deadline has not passed.
THEOREM WholeCallIsBounded ==
  ASSUME Sdks \subseteq WholeCall
  PROVE  Spec => []CallBounded
<1> USE TimeoutPositive, MaxTimeBeyondTimeout
<1>1. Init => CallBounded
  BY DEF Init, CallBounded
<1>2. TypeOK /\ CallBounded /\ [Next]_vars => CallBounded'
  <2> SUFFICES ASSUME TypeOK, CallBounded, [Next]_vars
               PROVE  CallBounded'
    OBVIOUS
  <2>1. ASSUME phase' # "done" => phase # "done", elapsed' = elapsed
        PROVE  CallBounded'
    BY <2>1 DEF CallBounded
  <2>2. CASE Connect
    BY <2>1, <2>2 DEF Connect
  <2>3. CASE Send
    BY <2>1, <2>3 DEF Send
  <2>4. CASE ServerActs
    BY <2>1, <2>4 DEF ServerActs
  <2>5. CASE Headers
    BY <2>1, <2>5 DEF Headers
  <2>6. CASE Read
    BY <2>1, <2>6 DEF Read
  <2>7. CASE BodyEnds \/ Expire \/ Break
    BY <2>1, <2>7 DEF BodyEnds, Expire, Break
  <2>8. CASE Tick
    <3>1. sdk \in WholeCall /\ elapsed \in Nat
      BY DEF TypeOK
    <3>2. elapsed < Timeout
      BY <2>8, <3>1 DEF Tick, Expired, WholeCall, RustExpired,
         TypeScriptExpired, SwiftExpired
    <3> QED
      BY <2>8, <3>1, <3>2 DEF Tick, Capped, CallBounded
  <2>9. CASE UNCHANGED vars
    BY <2>1, <2>9 DEF vars
  <2> QED
    BY <2>2, <2>3, <2>4, <2>5, <2>6, <2>7, <2>8, <2>9 DEF Next
<1> QED
  BY <1>1, <1>2, TypeCorrect, PTL DEF Spec

-----------------------------------------------------------------------------
\* Outside Dart, no step makes a definite result untrue.
LEMMA DefiniteStep ==
  ASSUME "dart" \notin Sdks
  PROVE  TypeOK /\ CallConsistent /\ DefiniteAnswersAreTrue /\ [Next]_vars
           => DefiniteAnswersAreTrue'
<1> SUFFICES ASSUME TypeOK, CallConsistent, DefiniteAnswersAreTrue, [Next]_vars
             PROVE  DefiniteAnswersAreTrue'
  OBVIOUS
<1> USE DEF CallConsistent, DefiniteAnswersAreTrue
<1>1. CASE Connect \/ Send \/ Read \/ Tick
  BY <1>1 DEF Connect, Send, Read, Tick
<1>2. CASE ServerActs
  BY <1>2 DEF ServerActs
<1>3. CASE Headers
  <2> PICK s \in Statuses :
        /\ s = "2xx" => effect = "applied"
        /\ s \in {"3xx", "4xx"} => effect = "refused"
        /\ status' = s
        /\ IF EndsAtHeaders(s)
           THEN /\ phase' = "done"
                /\ wire' = "closed"
                /\ result' = ResultOf(op, s, "good")
           ELSE /\ phase' = "reading"
                /\ UNCHANGED <<wire, result>>
    BY <1>3 DEF Headers
  <2>1. effect' = effect /\ result = "none"
    BY <1>3 DEF Headers
  <2>2. CASE EndsAtHeaders(s)
    BY <2>1, <2>2, ResultOfSource DEF TypeOK, Bodies, Statuses
  <2>3. CASE ~ EndsAtHeaders(s)
    BY <2>1, <2>3
  <2> QED
    BY <2>2, <2>3
<1>4. CASE BodyEnds
  <2> PICK body \in Bodies : result' = ResultOf(op, status, body)
    BY <1>4 DEF BodyEnds
  <2>1. status \in Statuses /\ UNCHANGED <<status, effect>>
    BY <1>4 DEF BodyEnds, TypeOK
  <2> QED
    BY <2>1, ResultOfSource DEF TypeOK, Statuses
<1>5. CASE Expire
  BY <1>5 DEF Expire, SwallowsBodyFailure, TypeOK, Statuses
<1>6. CASE Break
  BY <1>6 DEF Break, SwallowsBodyFailure, TypeOK, Statuses
<1>7. CASE UNCHANGED vars
  BY <1>7 DEF vars
<1> QED
  BY <1>1, <1>2, <1>3, <1>4, <1>5, <1>6, <1>7 DEF Next

\* For every client but Dart, what a definite result says of the server is true.
THEOREM DefiniteAnswers ==
  ASSUME "dart" \notin Sdks
  PROVE  Spec => []DefiniteAnswersAreTrue
<1>1. Init => DefiniteAnswersAreTrue
  BY DEF Init, DefiniteAnswersAreTrue
<1> QED
  BY <1>1, DefiniteStep, TypeCorrect, Consistent, PTL DEF Spec

-----------------------------------------------------------------------------
\* For every client but Dart, an ended call holds no connection.
LEMMA Released ==
  ASSUME "dart" \notin Sdks
  PROVE  Spec => []WireReleased
<1> USE ChunksPositive DEF WireReleased
<1>1. Init => WireReleased
  BY DEF Init
<1>2. TypeOK /\ WireReleased /\ [Next]_vars => WireReleased'
  <2> SUFFICES ASSUME TypeOK, WireReleased, [Next]_vars
               PROVE  WireReleased'
    OBVIOUS
  <2>1. CASE Connect \/ Tick
    BY <2>1 DEF Connect, Tick
  <2>2. CASE Send
    BY <2>2 DEF Send, TypeOK
  <2>3. CASE ServerActs
    BY <2>3 DEF ServerActs
  <2>4. CASE Headers
    BY <2>4 DEF Headers
  <2>5. CASE Read \/ BodyEnds
    BY <2>5 DEF Read, BodyEnds
  <2>6. CASE Expire
    BY <2>6 DEF Expire, TypeOK
  <2>7. CASE Break
    BY <2>7 DEF Break
  <2>8. CASE UNCHANGED vars
    BY <2>8 DEF vars
  <2> QED
    BY <2>1, <2>2, <2>3, <2>4, <2>5, <2>6, <2>7, <2>8 DEF Next
<1> QED
  BY <1>1, <1>2, TypeCorrect, PTL DEF Spec

\* For every client but Dart, a call given up before its request was out never
\* acts on the server.
THEOREM AbandonedNeverActs ==
  ASSUME "dart" \notin Sdks
  PROVE  Spec => AbandonedRequestNeverActs
<1>1. TypeOK /\ WireReleased /\ [Next]_vars
        => [(phase = "done" /\ written < RequestChunks)
              => (written' = written /\ effect' = effect)]_vars
  BY ChunksPositive DEF TypeOK, WireReleased, Next, vars, Connect, Send, ServerActs,
     Headers, Read, BodyEnds, Expire, Break, Tick
<1> QED
  BY <1>1, TypeCorrect, Released, PTL DEF Spec, AbandonedRequestNeverActs

-----------------------------------------------------------------------------
\* Rust, TypeScript and Swift implement BoundedCall, step by step: an ending of
\* the call is an Answer, a tick a Wait, the server's decision an Act, and every
\* other step is invisible.  (That the call does end is KeepsPromise's liveness,
\* which the runs check.)
THEOREM ImplementsBoundedCall ==
  ASSUME Sdks \subseteq WholeCall
  PROVE  Spec => Promise!Init /\ [][Promise!Next]_(Promise!vars)
<1>1. Init => Promise!Init
  BY DEF Init, Promise!Init, Answer
<1>2. "dart" \notin Sdks
  BY DEF WholeCall
<1>3. TypeOK /\ CallConsistent /\ DefiniteAnswersAreTrue /\ [Next]_vars
        => [Promise!Next]_(Promise!vars)
  <2> SUFFICES ASSUME TypeOK, CallConsistent, DefiniteAnswersAreTrue, [Next]_vars
               PROVE  [Promise!Next]_(Promise!vars)
    OBVIOUS
  <2>0. DefiniteAnswersAreTrue'
    BY <1>2, DefiniteStep
  <2> USE DEF Promise!vars, Promise!Next
  <2>1. CASE Connect \/ Send \/ Read
    BY <2>1 DEF Connect, Send, Read, Answer
  <2>2. CASE ServerActs
    BY <2>2 DEF ServerActs, Answer, Promise!Act
  <2>3. CASE Tick
    <3>1. Answer = "pending" /\ UNCHANGED <<Answer, effect>>
      BY <2>3 DEF Tick, Answer, CallConsistent
    <3>2. elapsed < Timeout
      <4>1. sdk \in WholeCall /\ elapsed \in Nat
        BY DEF TypeOK
      <4> QED
        BY <2>3, <4>1, TimeoutPositive DEF Tick, Expired, WholeCall, RustExpired,
           TypeScriptExpired, SwiftExpired
    <3> QED
      BY <2>3, <3>1, <3>2, MaxTimeBeyondTimeout, TimeoutPositive
         DEF Tick, Capped, Promise!Wait, TypeOK
  <2>4. ASSUME phase # "done", result' # "none", UNCHANGED <<elapsed, effect>>
        PROVE  Promise!Answer
    <3>1. Answer = "pending"
      BY <2>4 DEF Answer, CallConsistent
    <3>2. Answer' \in Promise!Answers \ {"pending"}
      BY <2>4 DEF Answer, Promise!Answers
    <3>3. /\ Answer' = "value" => effect = "applied"
          /\ Answer' = "refused" => effect = "refused"
      BY <2>0, <2>4 DEF Answer, DefiniteAnswersAreTrue
    <3> QED
      BY <2>4, <3>1, <3>2, <3>3 DEF Promise!Answer
  <2>5. CASE Headers
    <3> PICK s \in Statuses :
          /\ status' = s
          /\ IF EndsAtHeaders(s)
             THEN /\ phase' = "done"
                  /\ wire' = "closed"
                  /\ result' = ResultOf(op, s, "good")
             ELSE /\ phase' = "reading"
                  /\ UNCHANGED <<wire, result>>
      BY <2>5 DEF Headers
    <3>1. CASE EndsAtHeaders(s)
      <4>1. ResultOf(op, s, "good") # "none"
        BY ResultOfSource DEF TypeOK, Bodies
      <4> QED
        BY <2>4, <2>5, <3>1, <4>1 DEF Headers
    <3>2. CASE ~ EndsAtHeaders(s)
      BY <2>5, <3>2 DEF Headers, CallConsistent, Answer
    <3> QED
      BY <3>1, <3>2
  <2>6. CASE BodyEnds
    <3> PICK body \in Bodies : result' = ResultOf(op, status, body)
      BY <2>6 DEF BodyEnds
    <3>1. result' # "none"
      BY <2>6, ResultOfSource DEF BodyEnds, TypeOK, CallConsistent
    <3> QED
      BY <2>4, <2>6, <3>1 DEF BodyEnds
  <2>7. CASE Expire
    BY <2>4, <2>7 DEF Expire, Expired
  <2>8. CASE Break
    <3>1. CASE phase = "done"
      BY <2>8, <3>1 DEF Break, SwallowsBodyFailure, Answer
    <3>2. CASE phase # "done"
      BY <2>4, <2>8, <3>2 DEF Break, SwallowsBodyFailure
    <3> QED
      BY <3>1, <3>2
  <2>9. CASE UNCHANGED vars
    BY <2>9 DEF vars, Answer
  <2> QED
    BY <2>1, <2>2, <2>3, <2>5, <2>6, <2>7, <2>8, <2>9 DEF Next, Promise!Next
<1> QED
  BY <1>1, <1>2, <1>3, TypeCorrect, Consistent, DefiniteAnswers, PTL DEF Spec

=============================================================================
