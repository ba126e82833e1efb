------------------------ MODULE TransferSessionProofs ------------------------
(***************************************************************************)
(* Proofs about TransferSession: for every client, key and number of       *)
(* attempts, retries by the README's policy take effect once and cannot be *)
(* told from a single call.                                                *)
(***************************************************************************)
EXTENDS TransferSession, TLAPS

\* What the library made of the key is one of three things.
LEMMA KeyOfType ==
  ASSUME TypeOK, NEW o \in Operations
  PROVE  /\ KeyOf(o) \in {"sent", "none", "rejected"}
         /\ KeyOf(o) = "sent" => o \in {"create", "declare"}
  BY SessionBounds DEF TypeOK, KeyOf, TypeScriptKey, JavaKey, SwiftKey, Operations

\* What a call that goes out leaves: one try more and its request under way.
LEMMA SendFacts ==
  ASSUME TypeOK, NEW p \in Operations, tries[p] < MaxAttempts, Send(p)
  PROVE  /\ tries[p] + 1 \in 1..MaxAttempts
         /\ KeyOf(p) = "rejected" =>
              /\ told' = [told EXCEPT ![p] = "rejected"]
              /\ UNCHANGED <<tries, flight, reply>>
         /\ KeyOf(p) # "rejected" =>
              /\ told' = [told EXCEPT ![p] = "pending"]
              /\ tries' = [tries EXCEPT ![p] = tries[p] + 1]
              /\ flight' = flight \cup {<<p, tries[p] + 1>>}
              /\ reply' = [reply EXCEPT ![p] = "none"]
<1>1. tries[p] + 1 \in 1..MaxAttempts
  BY SessionBounds DEF TypeOK
<1>2. ASSUME KeyOf(p) # "rejected" PROVE tries'[p] = tries[p] + 1
  BY <1>2 DEF Send, TypeOK
<1> QED
  BY <1>1, <1>2 DEF Send

\* The types, and the little that holds of every operation, are kept.
LEMMA TypeStep == TypeOK /\ SessionConsistent /\ [Next]_vars => TypeOK' /\ SessionConsistent'
<1> SUFFICES ASSUME TypeOK, SessionConsistent, [Next]_vars
             PROVE  TypeOK' /\ SessionConsistent'
  OBVIOUS
<1> USE DEF SessionConsistent
<1> "upload" \in Operations
  BY DEF Operations
<1>1. ASSUME NEW o \in Operations, tries[o] < MaxAttempts, Send(o),
             UNCHANGED <<sdk, key, serverVars, stale>>,
             seen' \in {"nothing", "empty", "published"}, seen' \in {seen, "nothing"}
      PROVE  TypeOK' /\ SessionConsistent'
  <2>1. CASE KeyOf(o) = "rejected"
    BY <1>1, <2>1, SendFacts DEF TypeOK, serverVars
  <2>2. CASE KeyOf(o) # "rejected"
    <3>1. tries[o] + 1 \in 1..MaxAttempts
      BY <1>1, SendFacts
    <3>2. TypeOK'
      <4> tries[o] + 1 \in 0..MaxAttempts
        BY <3>1
      <4> QED
        BY <1>1, <2>2, <3>1, SendFacts DEF TypeOK, serverVars
    <3>3. SessionConsistent'
      BY <1>1, <2>2, <3>1, SendFacts DEF TypeOK, serverVars
    <3> QED
      BY <3>2, <3>3
  <2> QED
    BY <2>1, <2>2
<1>2. ASSUME NEW o \in Operations, Call(o) \/ Retry(o) PROVE TypeOK' /\ SessionConsistent'
  <2>1. CASE Call(o)
    <3> tries[o] < MaxAttempts
      BY <2>1, SessionBounds DEF Call
    <3> QED
      BY <1>1, <2>1 DEF Call, TypeOK
  <2>2. CASE Retry(o)
    BY <1>1, <2>2 DEF Retry, TypeOK
  <2> QED
    BY <1>2, <2>1, <2>2
<1>3. ASSUME NEW o \in Operations, EndsAmbiguous(o) \/ GiveUp(o) \/ Answered(o)
      PROVE  TypeOK' /\ SessionConsistent'
  BY <1>3 DEF EndsAmbiguous, GiveUp, Answered, TypeOK, serverVars
<1>4. ASSUME NEW o \in Operations, NEW t \in 1..MaxAttempts, Act(o, t)
      PROVE  TypeOK' /\ SessionConsistent'
  BY <1>4 DEF Act, Verdicts, TypeOK, hostVars
<1>5. CASE Look
  BY <1>5 DEF Look, TypeOK, serverVars
<1>6. CASE Expire
  BY <1>6 DEF Expire, TypeOK, hostVars
<1>7. CASE UNCHANGED vars
  BY <1>7 DEF vars, hostVars, serverVars, TypeOK
<1> QED
  BY <1>2, <1>3, <1>4, <1>5, <1>6, <1>7 DEF Next

\* A step about one operation leaves the others as orderly as they were.
LEMMA OthersStay ==
  ASSUME NEW o \in Changes, Orderly(o), UNCHANGED <<sdk, key>>,
         told'[o] = told[o], done'[o] = done[o], memory'[o] = memory[o],
         tries'[o] = tries[o], reply'[o] = reply[o],
         \A t \in 1..MaxAttempts : <<o, t>> \in flight' => <<o, t>> \in flight,
         o = "upload" /\ seen' = "empty" => seen = "empty"
  PROVE  Orderly(o)'
<1>1. KeyOf(o)' = KeyOf(o)
  BY DEF KeyOf, TypeScriptKey, JavaKey, SwiftKey
<1> QED
  BY <1>1 DEF Orderly, UnderWay

\* An exception, once there, stays.
LEMMA ExceptedStays ==
  ASSUME TypeOK, NEW o \in Changes, [Next]_vars, Excepted(o)
  PROVE  Excepted(o)'
<1>1. UNCHANGED <<sdk, key>>
  BY DEF Next, Call, Retry, EndsAmbiguous, GiveUp, Answered, Act, Look, Expire, vars
<1>2. stale => stale'
  BY DEF Next, Call, Retry, EndsAmbiguous, GiveUp, Answered, Act, Look, Expire,
         vars, hostVars
<1> QED
  BY <1>1, <1>2 DEF Excepted, KeyDropped, ReplayRaces

\* A call may go out only if nothing of its operation can still take effect, or
\* the server remembers: sending keeps the order.
LEMMA SendKeepsOrder ==
  ASSUME TypeOK, SessionOrderly, NEW p \in Operations, NEW o \in Changes, Orderly(o),
         Call(p) \/ Retry(p), ~ Excepted(o)
  PROVE  Orderly(o)'
<1>1. tries[p] < MaxAttempts /\ Send(p) /\ UNCHANGED <<sdk, key, serverVars, stale>>
  BY SessionBounds DEF Call, Retry, SessionOrderly, SessionConsistent
<1>2. KeyOf(o)' = KeyOf(o)
  BY <1>1 DEF KeyOf, TypeScriptKey, JavaKey, SwiftKey
<1>3. p \in Operations /\ o \in Operations
  BY DEF Changes
<1>4. CASE p # o
  <2>1. \A t \in 1..MaxAttempts : <<o, t>> \in flight' => <<o, t>> \in flight
    BY <1>1, <1>3, <1>4, SendFacts
  <2>2. told'[o] = told[o] /\ tries'[o] = tries[o] /\ reply'[o] = reply[o]
    BY <1>1, <1>3, <1>4, SendFacts DEF TypeOK
  <2>3. o = "upload" /\ seen' = "empty" => seen = "empty"
    BY <1>4 DEF Call, Retry
  <2> QED
    BY <1>1, <2>1, <2>2, <2>3, OthersStay DEF serverVars
<1>5. CASE p = o
  <2>1. told[o] \in {"idle", "ambiguous"} /\ reply[o] = "none"
    BY <1>3, <1>5 DEF Call, Retry, Orderly, TypeOK
  <2>2. seen' = "empty" /\ o = "upload" => seen = "empty" /\ told[o] = "idle"
    BY <1>5 DEF Call, Retry
  <2>3. CASE KeyOf(o) = "rejected"
    BY <1>1, <1>2, <1>3, <1>5, <2>1, <2>2, <2>3, SendFacts DEF Orderly, UnderWay, TypeOK, serverVars
  <2>6. ASSUME KeyOf(o) # "rejected"
        PROVE  /\ told' = [told EXCEPT ![o] = "pending"]
               /\ tries' = [tries EXCEPT ![o] = tries[o] + 1]
               /\ flight' = flight \cup {<<o, tries[o] + 1>>}
               /\ reply' = [reply EXCEPT ![o] = "none"]
               /\ told'[o] = "pending" /\ tries'[o] = tries[o] + 1 /\ reply'[o] = "none"
    BY <1>1, <1>3, <1>5, <2>6, SendFacts DEF TypeOK
  <2>4. CASE KeyOf(o) = "none"
    <3>1. ~ UnderWay(o) /\ done[o] = 0
      <4>1. CASE Call(p)
        BY <1>5, <4>1 DEF Call, Orderly
      <4>2. CASE Retry(p)
        <5>1. MayRetry(o) /\ o # "download"
          BY <1>5, <4>2 DEF Retry, Changes
        <5>2. CASE o = "upload" /\ seen = "empty"
          BY <5>2 DEF Orderly
        <5>3. CASE TakesKey(o) /\ key # "absent"
          BY <2>4, <5>3, SessionBounds DEF Excepted, KeyDropped, TakesKey, KeyOf,
             TypeScriptKey, JavaKey, SwiftKey, TypeOK
        <5> QED
          BY <5>1, <5>2, <5>3 DEF MayRetry
      <4> QED
        BY <4>1, <4>2
    <3>2. \A t \in 1..MaxAttempts : <<o, t>> \in flight' => t = tries'[o]
      BY <2>4, <2>6, <3>1 DEF UnderWay
    <3>3. ~ (o = "upload" /\ seen' = "empty")
      BY <1>5, <2>2 DEF Call, Retry, SessionOrderly, SessionConsistent
    <3> QED
      BY <1>1, <1>2, <2>1, <2>4, <2>6, <3>1, <3>2, <3>3 DEF Orderly, serverVars
  <2>5. CASE KeyOf(o) = "sent"
    <3>1. o # "upload"
      BY <1>3, <2>5, KeyOfType
    <3> QED
      BY <1>1, <1>2, <2>1, <2>5, <2>6, <3>1 DEF Orderly, serverVars
  <2> QED
    BY <1>3, <2>3, <2>4, <2>5, KeyOfType
<1> QED
  BY <1>4, <1>5

\* The server acts on a request under way: on the only one, or by its memory.
LEMMA ActKeepsOrder ==
  ASSUME TypeOK, SessionOrderly, NEW p \in Operations, NEW o \in Changes, Orderly(o),
         NEW t \in 1..MaxAttempts, Act(p, t)
  PROVE  Orderly(o)'
<1>1. KeyOf(o)' = KeyOf(o)
  BY DEF Act, KeyOf, TypeScriptKey, JavaKey, SwiftKey
<1>2. o \in Operations
  BY DEF Changes
<1>3. CASE p # o
  BY <1>2, <1>3, OthersStay DEF Act, TypeOK, hostVars
<1>4. CASE p = o
  <2>1. /\ <<o, t>> \in flight
        /\ flight' = flight \ {<<o, t>>}
        /\ UNCHANGED <<told, tries, seen>>
    BY <1>4 DEF Act, hostVars
  <2>2. PICK verdict \in Verdicts(o) :
           /\ done' = IF verdict = "applied" /\ memory[o] = "none"
                      THEN [done EXCEPT ![o] = @ + 1] ELSE done
           /\ memory' = IF done[o] = 0 /\ (verdict = "refused" \/ KeyOf(o) = "sent")
                        THEN [memory EXCEPT ![o] = verdict] ELSE memory
           /\ reply' = IF told[o] = "pending" /\ t = tries[o]
                       THEN [reply EXCEPT ![o] = verdict] ELSE reply
    BY <1>4 DEF Act
  <2>3. UnderWay(o) /\ told[o] # "idle" /\ KeyOf(o) # "rejected"
    BY <2>1 DEF UnderWay, Orderly
  <2>4. ~ (o = "upload" /\ seen = "empty")
    BY <2>3 DEF Orderly
  <2>5. /\ verdict \in {"applied", "refused"}
        /\ memory[o] # "none" => verdict = memory[o]
    BY <1>2, <2>2 DEF Verdicts, TypeOK
  <2>6. (memory[o] = "refused" => done[o] = 0) /\ (memory[o] = "applied" => done[o] > 0)
    BY <1>2 DEF SessionOrderly, SessionConsistent
  <2>7. CASE KeyOf(o) = "sent"
    <3>1. /\ done'[o] = IF verdict = "applied" /\ memory[o] = "none" THEN done[o] + 1 ELSE done[o]
          /\ memory'[o] = IF done[o] = 0 THEN verdict ELSE memory[o]
          /\ reply'[o] \in {reply[o], verdict}
          /\ reply'[o] # reply[o] => told[o] = "pending"
          /\ done[o] \in {0, 1}
      BY <1>2, <2>2, <2>7 DEF Orderly, TypeOK
    <3>2. done'[o] > 0 <=> memory'[o] = "applied"
      BY <1>2, <2>5, <2>6, <2>7, <3>1 DEF Orderly, TypeOK
    <3>3. done'[o] \in {0, 1} /\ done[o] <= done'[o]
      BY <2>5, <2>6, <2>7, <3>1 DEF Orderly
    <3>4. memory[o] = "refused" => memory'[o] = "refused"
      BY <2>5, <3>1
    <3>5. /\ reply'[o] = "applied" \/ told[o] = "value" => done'[o] > 0
          /\ reply'[o] = "refused" \/ told[o] = "refused" => memory'[o] = "refused"
          /\ reply'[o] # "none" => told[o] = "pending"
      BY <2>5, <2>6, <2>7, <3>1, <3>2, <3>3, <3>4 DEF Orderly
    <3> QED
      BY <1>1, <2>1, <2>3, <2>4, <2>7, <3>2, <3>3, <3>5 DEF Orderly, UnderWay
  <2>8. CASE KeyOf(o) = "none"
    <3>1. t = tries[o] /\ done[o] = 0
      BY <2>1, <2>8 DEF Orderly
    <3>2. \A n \in 1..MaxAttempts : <<o, n>> \notin flight'
      BY <2>1, <2>8, <3>1 DEF Orderly
    <3>3. /\ done'[o] \in {0, 1}
          /\ reply'[o] = "applied" => done'[o] = 1
          /\ reply'[o] = "refused" => memory'[o] = "refused"
      <4>1. done'[o] = IF verdict = "applied" /\ memory[o] = "none" THEN 1 ELSE 0
        BY <1>2, <2>2, <3>1 DEF TypeOK
      <4>2. memory'[o] = IF verdict = "refused" THEN verdict ELSE memory[o]
        BY <1>2, <2>2, <2>8, <3>1 DEF TypeOK
      <4>3. /\ reply'[o] = verdict \/ reply'[o] = reply[o]
            /\ memory[o] # "applied"
            /\ reply[o] # "applied"
        BY <1>2, <2>2, <2>6, <3>1 DEF Orderly, TypeOK
      <4> QED
        BY <2>5, <4>1, <4>2, <4>3 DEF Orderly
    <3>4. /\ told[o] = "value" => done'[o] > 0
          /\ told[o] = "refused" => memory'[o] = "refused"
          /\ reply'[o] # "none" => told[o] = "pending"
      BY <1>2, <2>2, <2>5, <3>1 DEF Orderly, TypeOK
    <3> QED
      BY <1>1, <2>1, <2>3, <2>4, <2>8, <3>2, <3>3, <3>4 DEF Orderly, UnderWay
  <2> QED
    BY <1>2, <2>3, <2>7, <2>8, KeyOfType
<1> QED
  BY <1>3, <1>4

\* What a host learns or gives up keeps the order, and so do a snapshot that
\* finds no upload under way and the end of the tunnel's time.
LEMMA QuietStepsKeepOrder ==
  ASSUME TypeOK, SessionOrderly, NEW o \in Changes, Orderly(o), ~ Excepted(o)',
         \/ \E p \in Operations : EndsAmbiguous(p) \/ GiveUp(p) \/ Answered(p)
         \/ Look \/ Expire \/ UNCHANGED vars
  PROVE  Orderly(o)'
<1>1. o \in Operations
  BY DEF Changes
<1>2. ASSUME NEW p \in Operations, EndsAmbiguous(p) \/ GiveUp(p) \/ Answered(p)
      PROVE  Orderly(o)'
  <2>1. CASE p # o
    BY <1>1, <1>2, <2>1, OthersStay
       DEF EndsAmbiguous, GiveUp, Answered, TypeOK, serverVars
  <2>2. CASE p = o
    <3>1. KeyOf(o)' = KeyOf(o)
      BY <1>2 DEF EndsAmbiguous, GiveUp, Answered, KeyOf, TypeScriptKey, JavaKey, SwiftKey
    <3>2. CASE EndsAmbiguous(o)
      BY <1>1, <3>1, <3>2 DEF EndsAmbiguous, Orderly, UnderWay, TypeOK, serverVars
    <3>3. CASE GiveUp(o)
      BY <1>1, <3>1, <3>3 DEF GiveUp, Orderly, UnderWay, TypeOK, serverVars
    <3>4. CASE Answered(o)
      BY <1>1, <3>1, <3>4 DEF Answered, Orderly, UnderWay, TypeOK, serverVars
    <3> QED
      BY <1>2, <2>2, <3>2, <3>3, <3>4
  <2> QED
    BY <2>1, <2>2
<1>3. CASE Look
  <2>1. KeyOf(o)' = KeyOf(o)
    BY <1>3 DEF Look, KeyOf, TypeScriptKey, JavaKey, SwiftKey
  <2>2. o = "upload" /\ seen' = "empty" => done[o] = 0 /\ ~ UnderWay(o)
    BY <1>3 DEF Look, Excepted, ReplayRaces
  <2> QED
    BY <1>3, <2>1, <2>2 DEF Look, Orderly, UnderWay, serverVars
<1>4. CASE Expire \/ UNCHANGED vars
  BY <1>4, OthersStay DEF Expire, vars, hostVars, serverVars
<1> QED
  BY <1>2, <1>3, <1>4

\* Every step keeps the invariant.
LEMMA OrderStep ==
  TypeOK /\ SessionOrderly /\ [Next]_vars => TypeOK' /\ SessionOrderly'
<1> SUFFICES ASSUME TypeOK, SessionOrderly, [Next]_vars PROVE TypeOK' /\ SessionOrderly'
  OBVIOUS
<1>1. TypeOK' /\ SessionConsistent'
  BY TypeStep DEF SessionOrderly
<1>2. ASSUME NEW o \in Changes, ~ Excepted(o)' PROVE Orderly(o)'
  <2>1. ~ Excepted(o)
    BY <1>2, ExceptedStays
  <2>2. Orderly(o)
    BY <2>1 DEF SessionOrderly
  <2> QED
    BY <1>2, <2>1, <2>2, SendKeepsOrder, ActKeepsOrder, QuietStepsKeepOrder DEF Next
<1> QED
  BY <1>1, <1>2 DEF SessionOrderly

\* Types and order hold in every state.
THEOREM SessionIsOrderly == Spec => [](TypeOK /\ SessionOrderly)
<1>1. Init => TypeOK /\ SessionOrderly
  <2> SUFFICES ASSUME Init PROVE TypeOK /\ SessionOrderly
    OBVIOUS
  <2>1. TypeOK
    <3>1. 0 \in 0..MaxAttempts
      BY SessionBounds
    <3>2. tries \in [Operations -> 0..MaxAttempts]
      BY <3>1 DEF Init
    <3>3. flight \subseteq Operations \X (1..MaxAttempts)
      BY DEF Init
    <3> QED
      BY <3>2, <3>3 DEF Init, TypeOK
  <2>2. SessionConsistent
    BY DEF Init, SessionConsistent, Operations
  <2>3. ASSUME NEW o \in Changes PROVE Orderly(o)
    BY DEF Init, Orderly, UnderWay, Changes
  <2> QED
    BY <2>1, <2>2, <2>3 DEF SessionOrderly
<1> QED
  BY <1>1, OrderStep, PTL DEF Spec

\* The variables of a hand-over keep their types.
THEOREM SessionTypeCorrect == Spec => []TypeOK
  BY SessionIsOrderly, PTL

\* Whatever the client, the key and the number of tries, retries by the README's
\* policy take effect once.
THEOREM NothingHappensTwice == Spec => []TakesEffectOnce
<1>1. TypeOK /\ SessionOrderly => TakesEffectOnce
  BY DEF SessionOrderly, Orderly, TakesEffectOnce
<1> QED
  BY <1>1, SessionIsOrderly, PTL


-----------------------------------------------------------------------------
\* What the host knows of an operation and what happened follow BoundedCall.
LEMMA OnceStep ==
  ASSUME TypeOK, SessionOrderly, [Next]_vars, NEW o \in Changes, ~ Excepted(o)'
  PROVE  Once(o)!Next \/ UNCHANGED <<Known(o), Effect(o)>>
<1> USE DEF Once!Next, Once!Act, Once!Wait, Once!Answer, Once!Answers
<1>1. o \in Operations
  BY DEF Changes
<1>2. ~ Excepted(o) /\ Orderly(o)
  BY ExceptedStays DEF SessionOrderly
<1>3. Orderly(o)'
  BY OrderStep DEF SessionOrderly
<1>4. (memory[o] = "refused" => done[o] = 0) /\ (memory'[o] = "refused" => done'[o] = 0)
  BY <1>1, TypeStep DEF SessionOrderly, SessionConsistent
<1>5. TypeOK'
  BY OrderStep
<1>6. ASSUME UNCHANGED <<done, memory>> PROVE UNCHANGED Effect(o)
  BY <1>6 DEF Effect
<1>7. ASSUME told'[o] = told[o] PROVE UNCHANGED Known(o)
  BY <1>7 DEF Known
<1>8. ASSUME NEW p \in Operations, Call(p) \/ Retry(p)
      PROVE  Once(o)!Next \/ UNCHANGED <<Known(o), Effect(o)>>
  <2>1. tries[p] < MaxAttempts /\ Send(p) /\ UNCHANGED <<done, memory>>
    BY <1>8, SessionBounds DEF Call, Retry, SessionOrderly, SessionConsistent, serverVars
  <2>2. told[o] \in {"idle", "ambiguous"} \/ told'[o] = told[o]
    BY <1>1, <1>8, <2>1, SendFacts DEF Call, Retry, TypeOK
  <2>3. told'[o] \in {"pending", "rejected"} \/ told'[o] = told[o]
    BY <1>1, <2>1, SendFacts DEF TypeOK
  <2>4. CASE told'[o] # told[o]
    <3>1. Known(o) = "pending" /\ Known(o)' \in {"pending", "ambiguous"}
      BY <2>2, <2>3, <2>4 DEF Known
    <3> QED
      BY <1>6, <2>1, <3>1
  <2> QED
    BY <1>6, <1>7, <2>1, <2>4
<1>9. ASSUME NEW p \in Operations, EndsAmbiguous(p) \/ GiveUp(p)
      PROVE  Once(o)!Next \/ UNCHANGED <<Known(o), Effect(o)>>
  <2>1. UNCHANGED <<done, memory>>
    BY <1>9 DEF EndsAmbiguous, GiveUp, serverVars
  <2>2. \/ told'[o] = told[o]
        \/ told[o] \in {"pending", "ambiguous"} /\ told'[o] \in {"ambiguous", "unknown"}
    BY <1>1, <1>9 DEF EndsAmbiguous, GiveUp, TypeOK
  <2>3. CASE told'[o] # told[o]
    <3>1. Known(o) = "pending" /\ Known(o)' \in {"pending", "ambiguous"}
      BY <2>2, <2>3 DEF Known
    <3> QED
      BY <1>6, <2>1, <3>1
  <2> QED
    BY <1>6, <1>7, <2>1, <2>3
<1>10. ASSUME NEW p \in Operations, Answered(p)
       PROVE  Once(o)!Next \/ UNCHANGED <<Known(o), Effect(o)>>
  <2>1. UNCHANGED <<done, memory>>
    BY <1>10 DEF Answered, serverVars
  <2>2. told'[o] = told[o] \/ (told[o] = "pending" /\ told'[o] \in {"value", "refused"})
    BY <1>1, <1>10 DEF Answered, TypeOK
  <2>3. CASE told'[o] # told[o]
    <3>1. Known(o) = "pending" /\ Known(o)' = told'[o]
      BY <2>2, <2>3 DEF Known
    <3>2. /\ told'[o] = "value" => Effect(o) = "applied"
          /\ told'[o] = "refused" => Effect(o) = "refused"
      BY <1>1, <1>3, <1>4, <2>1 DEF Orderly, Effect, TypeOK
    <3> QED
      BY <1>6, <2>1, <2>2, <2>3, <3>1, <3>2
  <2> QED
    BY <1>6, <1>7, <2>1, <2>3
<1>11. ASSUME NEW p \in Operations, NEW t \in 1..MaxAttempts, Act(p, t)
       PROVE  Once(o)!Next \/ UNCHANGED <<Known(o), Effect(o)>>
  <2>1. UNCHANGED Known(o)
    BY <1>7, <1>11 DEF Act, hostVars
  <2>2. done[o] <= done'[o] /\ (memory[o] = "refused" => memory'[o] = "refused")
    BY <1>1, <1>11 DEF Act, Verdicts, TypeOK
  <2>3. Effect(o) # "none" => Effect(o)' = Effect(o)
    BY <1>1, <1>4, <1>5, <2>2 DEF Effect, TypeOK
  <2>4. Effect(o)' \in {"none", "applied", "refused"}
    BY <1>1, <1>5 DEF Effect, TypeOK
  <2>5. Effect(o) \in {"none", "applied", "refused"}
    BY <1>1 DEF Effect, TypeOK
  <2> QED
    BY <2>1, <2>3, <2>4, <2>5
<1>12. ASSUME Look \/ Expire \/ UNCHANGED vars
       PROVE  Once(o)!Next \/ UNCHANGED <<Known(o), Effect(o)>>
  BY <1>6, <1>7, <1>12 DEF Look, Expire, vars, hostVars, serverVars
<1> QED
  BY <1>8, <1>9, <1>10, <1>11, <1>12 DEF Next

\* An operation with all its retries is, for the host and the server, one call.
THEOREM RetriesImplementOneCall == Spec => RetriesDoNotShow
<1>1. Init => \A o \in Changes : Once(o)!Init
  <2> SUFFICES ASSUME Init, NEW o \in Changes PROVE Once(o)!Init
    OBVIOUS
  <2>1. Known(o) = "pending" /\ Effect(o) = "none"
    BY DEF Init, Known, Effect, Changes
  <2> QED
    BY <2>1 DEF Once!Init
<1>2. TypeOK /\ SessionOrderly /\ [Next]_vars =>
        [\A o \in Changes : \/ Once(o)!Next
                            \/ UNCHANGED <<Known(o), Effect(o)>>
                            \/ Excepted(o)']_vars
  BY OnceStep
<1> QED
  BY <1>1, <1>2, SessionIsOrderly, PTL DEF Spec, RetriesDoNotShow

=============================================================================
