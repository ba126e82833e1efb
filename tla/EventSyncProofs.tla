--------------------------- MODULE EventSyncProofs ---------------------------
(***************************************************************************)
(* Proofs about a host that follows a tunnel, for any number of events,    *)
(* sockets and failed snapshots: the handler of EventSocket keeps its      *)
(* promises on every socket the host opens, and the picture the host makes *)
(* of events and snapshots never has a hole.                               *)
(***************************************************************************)
EXTENDS EventSync, SequenceTheorems, TLAPS

-----------------------------------------------------------------------------
(* The socket on its own, for every order in which numbers may arrive. *)

\* The handler's memory keeps its types.
THEOREM SocketTypeCorrect == SocketSpec => []SocketTypeOK
<1> USE SequencesPositive DEF SocketTypeOK
<1>1. NewSocket => SocketTypeOK
  BY DEF NewSocket
<1>2. SocketTypeOK /\ [SocketNext]_socketVars => SocketTypeOK'
  <2> SUFFICES ASSUME SocketTypeOK, [SocketNext]_socketVars
               PROVE  SocketTypeOK'
    OBVIOUS
  <2>1. CASE Reopen
    BY <2>1 DEF Reopen
  <2>2. ASSUME NEW n \in SequenceNumbers, Message(n)
        PROVE  SocketTypeOK'
    <3>1. lastSequence + 1 \in Nat
      OBVIOUS
    <3> QED
      BY <2>2, <3>1 DEF Message
  <2>3. CASE UNCHANGED socketVars
    BY <2>3 DEF socketVars
  <2> QED
    BY <2>1, <2>2, <2>3 DEF SocketNext
<1> QED
  BY <1>1, <1>2, PTL DEF SocketSpec

\* The mark is the greatest number this socket has delivered, whatever order
\* the numbers came in.
THEOREM MarkCorrect == SocketSpec => []MarkIsHighest
<1> USE SequencesPositive DEF MarkIsHighest
<1>1. NewSocket => MarkIsHighest
  BY DEF NewSocket
<1>2. SocketTypeOK /\ MarkIsHighest /\ [SocketNext]_socketVars => MarkIsHighest'
  <2> SUFFICES ASSUME SocketTypeOK, MarkIsHighest, [SocketNext]_socketVars
               PROVE  MarkIsHighest'
    OBVIOUS
  <2>1. CASE Reopen
    BY <2>1 DEF Reopen
  <2>2. ASSUME NEW n \in SequenceNumbers, Message(n)
        PROVE  MarkIsHighest'
    <3>1. n \in Nat /\ n > 0 /\ lastSequence \in Nat /\ delivered \subseteq Nat
      BY DEF SocketTypeOK
    <3>2. /\ lastSequence' = IF n > lastSequence THEN n ELSE lastSequence
          /\ delivered' = delivered \cup {n}
          /\ first' = IF first = 0 THEN n ELSE first
      BY <2>2 DEF Message
    <3>3. lastSequence' # 0 /\ first' # 0 /\ delivered' # {}
      BY <3>1, <3>2
    <3>4. lastSequence' \in delivered'
      BY <3>1, <3>2
    <3>5. \A d \in delivered' : d <= lastSequence'
      BY <3>1, <3>2
    <3> QED
      BY <3>3, <3>4, <3>5
  <2>3. CASE UNCHANGED socketVars
    BY <2>3 DEF socketVars
  <2> QED
    BY <2>1, <2>2, <2>3 DEF SocketNext
<1> QED
  BY <1>1, <1>2, SocketTypeCorrect, PTL DEF SocketSpec

-----------------------------------------------------------------------------
\* A socket never passes over an event silently once it has delivered one:
\* whatever lies between its first and its latest event was delivered, or a gap
\* naming it was reported.
THEOREM NoLossIsSilent == SocketSpec => []NoSilentLoss
<1> USE SequencesPositive
<1>1. NewSocket => NoSilentLoss
  BY DEF NewSocket, NoSilentLoss
<1>2. SocketTypeOK /\ MarkIsHighest /\ NoSilentLoss /\ [SocketNext]_socketVars
        => NoSilentLoss'
  <2> SUFFICES ASSUME SocketTypeOK, MarkIsHighest, NoSilentLoss,
                      [SocketNext]_socketVars
               PROVE  NoSilentLoss'
    OBVIOUS
  <2>1. CASE Reopen
    BY <2>1 DEF Reopen, NoSilentLoss
  <2>2. ASSUME NEW n \in SequenceNumbers, Message(n)
        PROVE  NoSilentLoss'
    <3> SUFFICES ASSUME NEW m \in SequenceNumbers,
                        first' < m, m < lastSequence'
                 PROVE  \/ m \in delivered'
                        \/ \E gap \in reported' : gap[1] <= m /\ m < gap[2]
      BY DEF NoSilentLoss
    <3>1. /\ n \in Nat /\ m \in Nat /\ n > 0
          /\ lastSequence \in Nat /\ first \in Nat
      BY DEF SocketTypeOK
    <3>2. delivered \subseteq delivered' /\ reported \subseteq reported'
      BY <2>2 DEF Message
    <3>3. CASE lastSequence = 0
      \* The first event of the socket: nothing lies before it.
      <4>1. first = 0
        BY <3>3 DEF MarkIsHighest
      <4>2. first' = n /\ lastSequence' = n
        BY <2>2, <3>1, <3>3, <4>1 DEF Message
      <4> QED
        BY <3>1, <4>2
    <3>4. CASE lastSequence # 0 /\ m < lastSequence
      <4>1. first # 0 /\ first' = first
        BY <2>2, <3>4 DEF MarkIsHighest, Message
      <4>2. \/ m \in delivered
            \/ \E gap \in reported : gap[1] <= m /\ m < gap[2]
        BY <3>4, <4>1 DEF NoSilentLoss
      <4> QED
        BY <3>2, <4>2
    <3>5. CASE lastSequence # 0 /\ m = lastSequence
      BY <3>2, <3>5 DEF MarkIsHighest
    <3>6. CASE lastSequence # 0 /\ lastSequence < m
      \* The number lies in the very gap this message reports.
      <4>1. lastSequence' = n /\ m < n
        BY <2>2, <3>1, <3>6 DEF Message
      <4>2. Skips(n)
        BY <3>1, <3>6, <4>1 DEF Skips
      <4>3. <<lastSequence + 1, n>> \in reported'
        BY <2>2, <4>2 DEF Message
      <4> QED
        BY <3>1, <3>6, <4>1, <4>3
    <3> QED
      BY <3>1, <3>3, <3>4, <3>5, <3>6
  <2>3. CASE UNCHANGED socketVars
    BY <2>3 DEF socketVars, NoSilentLoss
  <2> QED
    BY <2>1, <2>2, <2>3 DEF SocketNext
<1> QED
  BY <1>1, <1>2, SocketTypeCorrect, MarkCorrect, PTL DEF SocketSpec

-----------------------------------------------------------------------------
(* The socket with a service and a host. *)

\* What the channel delivers next is a sequence number, and one less is left.
LEMMA Delivered ==
  ASSUME channel \in Seq(SequenceNumbers), channel # <<>>
  PROVE  /\ Head(channel) \in SequenceNumbers
         /\ Head(channel) = channel[1] /\ 1 \in DOMAIN channel
         /\ Tail(channel) \in Seq(SequenceNumbers)
         /\ DOMAIN Tail(channel) = 1..(Len(channel) - 1)
         /\ DOMAIN channel = 1..Len(channel) /\ Len(channel) \in Nat \ {0}
         /\ \A i \in DOMAIN Tail(channel) :
              i + 1 \in DOMAIN channel /\ Tail(channel)[i] = channel[i + 1]
<1>1. /\ Head(channel) \in SequenceNumbers
      /\ Tail(channel) \in Seq(SequenceNumbers)
      /\ Len(Tail(channel)) = Len(channel) - 1
      /\ \A i \in 1..Len(Tail(channel)) : Tail(channel)[i] = channel[i + 1]
  BY HeadTailProperties
<1>2. Len(channel) \in Nat \ {0} /\ DOMAIN channel = 1..Len(channel)
  BY EmptySeq, LenProperties
<1>3. DOMAIN Tail(channel) = 1..(Len(channel) - 1)
  BY <1>1, LenProperties
<1>4. Head(channel) = channel[1]
  BY <1>2
<1> QED
  BY <1>1, <1>2, <1>3, <1>4

\* The host, the service and the socket between them keep to their bounds.
THEOREM SyncTypeCorrect == Spec => []TypeOK
<1> USE SequencesPositive, Bounds, Numbering
<1>1. Init => TypeOK
  <2>1. <<>> \in Seq(SequenceNumbers)
    BY EmptySeq
  <2>2. ASSUME Init PROVE TypeOK
    <3>1. /\ lastSequence \in SequenceNumbers \cup {0} /\ first \in SequenceNumbers \cup {0}
          /\ delivered \subseteq SequenceNumbers /\ reported \subseteq Nat \X SequenceNumbers
      BY <2>2 DEF Init, NewSocket
    <3>2. channel \in Seq(SequenceNumbers) /\ open \in BOOLEAN
      BY <2>1, <2>2 DEF Init
    <3>3. emitted \in 0..MaxEvents /\ sockets \in 0..MaxSockets
          /\ upto \in 0..MaxEvents /\ failures \in 0..MaxFailures
      BY <2>2 DEF Init
    <3>4. unheard = {} /\ held = {} /\ view = {} /\ fetch = "idle"
      BY <2>2 DEF Init
    <3> QED
      BY <3>1, <3>2, <3>3, <3>4 DEF TypeOK, SocketTypeOK
  <2> QED
    BY <2>2
<1>2. TypeOK /\ [Next]_vars => TypeOK'
  <2> SUFFICES ASSUME TypeOK, [Next]_vars
               PROVE  TypeOK'
    OBVIOUS
  <2> USE DEF TypeOK, SocketTypeOK
  <2>1. CASE Emit
    <3>1. emitted' \in SequenceNumbers /\ emitted' \in 0..MaxEvents
      BY <2>1 DEF Emit
    <3>2. channel' \in Seq(SequenceNumbers)
      BY <2>1, <3>1, AppendProperties DEF Emit
    <3>3. unheard' \subseteq SequenceNumbers
      BY <2>1, <3>1 DEF Emit
    <3> QED
      BY <2>1, <3>1, <3>2, <3>3 DEF Emit, socketVars, hostVars
  <2>2. CASE Connect
    BY <2>2 DEF Connect, Reopen
  <2>3. CASE Disconnect
    <3>1. channel' \in Seq(SequenceNumbers)
      BY <2>3, EmptySeq DEF Disconnect
    <3> QED
      BY <2>3, <3>1 DEF Disconnect, socketVars
  <2>4. CASE Deliver
    <3> DEFINE n == Head(channel)
    <3>1. n \in SequenceNumbers /\ channel' \in Seq(SequenceNumbers)
      BY <2>4, Delivered DEF Deliver
    <3>2. SocketTypeOK'
      <4>1. Message(n) /\ lastSequence + 1 \in Nat
        BY <2>4 DEF Deliver
      <4> HIDE DEF n
      <4> QED
        BY <3>1, <4>1 DEF Message
    <3>3. fetch' \in {"idle", "asked", "read"}
      BY <2>4 DEF Deliver, Handle, AfterGap
    <3>4. held' \subseteq SequenceNumbers /\ view' \subseteq SequenceNumbers
      BY <2>4, <3>1 DEF Deliver, Handle, Show
    <3> QED
      BY <2>4, <3>1, <3>2, <3>3, <3>4 DEF Deliver
  <2>5. CASE ReadSnapshot
    BY <2>5 DEF ReadSnapshot, socketVars
  <2>6. CASE Snapshot
    BY <2>6 DEF Snapshot, socketVars
  <2>7. CASE SnapshotFails
    BY <2>7 DEF SnapshotFails, socketVars
  <2>8. CASE UNCHANGED vars
    BY <2>8 DEF vars, socketVars, hostVars
  <2> QED
    BY <2>1, <2>2, <2>3, <2>4, <2>5, <2>6, <2>7, <2>8 DEF Next
<1> QED
  BY <1>1, <1>2, PTL DEF Spec

-----------------------------------------------------------------------------
\* Whatever host and service do, a socket's handler goes through the steps of
\* EventSocket and no others.
THEOREM SyncImplementsSocket == Spec => SocketSpec
<1>1. Init => NewSocket
  BY DEF Init
<1>2. TypeOK /\ [Next]_vars => [SocketNext]_socketVars
  <2> SUFFICES ASSUME TypeOK, [Next]_vars
               PROVE  [SocketNext]_socketVars
    OBVIOUS
  <2>1. CASE Connect
    BY <2>1 DEF Connect, SocketNext
  <2>2. CASE Deliver
    <3>1. Head(channel) \in SequenceNumbers
      BY <2>2, Delivered DEF Deliver, TypeOK
    <3> QED
      BY <2>2, <3>1 DEF Deliver, SocketNext
  <2>3. CASE Emit \/ Disconnect \/ ReadSnapshot \/ Snapshot \/ SnapshotFails
    BY <2>3 DEF Emit, Disconnect, ReadSnapshot, Snapshot, SnapshotFails
  <2>4. CASE UNCHANGED vars
    BY <2>4 DEF vars
  <2> QED
    BY <2>1, <2>2, <2>3, <2>4 DEF Next
<1> QED
  BY <1>1, <1>2, SyncTypeCorrect, PTL DEF Spec, SocketSpec

\* So on every socket of such a host no loss after the first event is silent.
THEOREM SyncLossIsNeverSilent == Spec => []NoSilentLoss
BY SyncImplementsSocket, NoLossIsSilent, PTL

-----------------------------------------------------------------------------
\* The channel keeps the order in which the service numbers events, nothing is
\* under way without a socket, and the host holds only what it was delivered.
InOrder ==
  /\ \A i \in DOMAIN channel : lastSequence < channel[i] /\ channel[i] <= emitted
  /\ \A i, j \in DOMAIN channel : i < j => channel[i] < channel[j]
  /\ lastSequence <= emitted
  /\ ~ open => channel = <<>> /\ fetch = "idle" /\ held = {}
  /\ \A n \in held : n <= lastSequence

\* Every step keeps the order.
LEMMA OrderStep ==
  ASSUME TypeOK, InOrder, [Next]_vars
  PROVE  InOrder'
<1> USE SequencesPositive, Bounds, Numbering DEF TypeOK, SocketTypeOK
<1>1. CASE Emit
  <2>1. emitted' = emitted + 1 /\ emitted' \in SequenceNumbers
    BY <1>1 DEF Emit
  <2>2. UNCHANGED <<lastSequence, open, fetch, held>>
    BY <1>1 DEF Emit, socketVars, hostVars
  <2>3. CASE open /\ channel' = Append(channel, emitted')
    <3>1. /\ Len(channel) \in Nat /\ DOMAIN channel = 1..Len(channel)
          /\ DOMAIN channel' = 1..(Len(channel) + 1)
          /\ channel'[Len(channel) + 1] = emitted + 1
          /\ \A i \in DOMAIN channel : channel'[i] = channel[i] /\ channel[i] \in SequenceNumbers
      BY <2>1, <2>3, AppendProperties, LenProperties, ElementOfSeq
    <3>2. \A i \in DOMAIN channel' : i \in DOMAIN channel \/ i = Len(channel) + 1
      BY <3>1
    <3> QED
      BY <2>1, <2>2, <2>3, <3>1, <3>2 DEF InOrder
  <2>4. CASE channel' = channel
    <3>1. \A i \in DOMAIN channel : channel[i] \in SequenceNumbers
      BY LenProperties, ElementOfSeq
    <3> QED
      BY <2>1, <2>2, <2>4, <3>1 DEF InOrder
  <2> QED
    BY <1>1, <2>3, <2>4 DEF Emit
<1>2. CASE Connect
  <2>1. channel' = <<>> /\ held' = {}
    BY <1>2 DEF Connect, InOrder
  <2>2. DOMAIN channel' = {}
    BY <2>1
  <2> QED
    BY <1>2, <2>1, <2>2 DEF Connect, Reopen, InOrder
<1>3. CASE Disconnect
  <2>1. DOMAIN channel' = {}
    BY <1>3 DEF Disconnect
  <2> QED
    BY <1>3, <2>1 DEF Disconnect, InOrder, socketVars
<1>4. CASE Deliver
  <2>1. channel # <<>> /\ channel' = Tail(channel) /\ emitted' = emitted /\ open' = open
    BY <1>4 DEF Deliver
  <2>2. Head(channel) \in Nat /\ lastSequence < Head(channel) /\ Head(channel) <= emitted
    BY <2>1, Delivered DEF InOrder
  <2>3. lastSequence' = Head(channel)
    BY <1>4, <2>2 DEF Deliver, Message
  <2>4. open
    BY <2>1 DEF InOrder
  <2>5. held' \subseteq held \cup {Head(channel)}
    BY <1>4 DEF Deliver, Handle, Show
  <2>6. \A i \in DOMAIN channel' :
          /\ i + 1 \in DOMAIN channel /\ channel'[i] = channel[i + 1]
          /\ channel[i + 1] \in Nat /\ 1 < i + 1
    BY <2>1, Delivered, ElementOfSeq
  <2>7. \A i \in DOMAIN channel' : lastSequence' < channel'[i] /\ channel'[i] <= emitted'
    BY <2>1, <2>3, <2>6, Delivered DEF InOrder
  <2>8. \A i, j \in DOMAIN channel' : i < j => channel'[i] < channel'[j]
    BY <2>1, <2>6, Delivered DEF InOrder
  <2>9. \A n \in held' : n <= lastSequence'
    BY <2>2, <2>3, <2>5 DEF InOrder
  <2> QED
    BY <2>1, <2>2, <2>3, <2>4, <2>7, <2>8, <2>9 DEF InOrder
<1>5. CASE ReadSnapshot \/ SnapshotFails
  BY <1>5 DEF ReadSnapshot, SnapshotFails, InOrder, socketVars
<1>6. CASE Snapshot
  BY <1>6 DEF Snapshot, InOrder, socketVars
<1>7. CASE UNCHANGED vars
  BY <1>7 DEF vars, socketVars, hostVars, InOrder
<1> QED
  BY <1>1, <1>2, <1>3, <1>4, <1>5, <1>6, <1>7 DEF Next

\* The host is always in order.
LEMMA OrderKept == Spec => []InOrder
<1>1. Init => InOrder
  BY Bounds DEF Init, NewSocket, InOrder
<1> QED
  BY <1>1, OrderStep, SyncTypeCorrect, PTL DEF Spec

-----------------------------------------------------------------------------
\* Each report lies behind the mark, so no later event can fall into it.
ReportsBehind == ReportsAreExact /\ \A gap \in reported : gap[2] <= lastSequence

\* Each report of onSequenceGap names exactly numbers that did not arrive.
THEOREM SyncReportsExact == Spec => []ReportsAreExact
<1> USE SequencesPositive, Bounds, Numbering
<1>1. Init => ReportsBehind
  BY DEF Init, NewSocket, ReportsBehind, ReportsAreExact
<1>2. TypeOK /\ InOrder /\ MarkIsHighest /\ ReportsBehind /\ [Next]_vars => ReportsBehind'
  <2> SUFFICES ASSUME TypeOK, InOrder, MarkIsHighest, ReportsBehind, [Next]_vars
               PROVE  ReportsBehind'
    OBVIOUS
  <2>1. CASE Deliver
    <3> DEFINE n == Head(channel)
    <3>1. n \in Nat /\ lastSequence \in Nat /\ lastSequence < n
      BY <2>1, Delivered DEF Deliver, InOrder, TypeOK, SocketTypeOK
    <3>2. lastSequence' = n /\ delivered' = delivered \cup {n}
      BY <2>1, <3>1 DEF Deliver, Message
    <3>3. reported' \subseteq reported \cup {<<lastSequence + 1, n>>}
      BY <2>1 DEF Deliver, Message
    <3>4. Skips(n) => lastSequence + 1 < n
      BY <3>1 DEF Skips
    <3>5. ~ Skips(n) => reported' = reported
      BY <2>1 DEF Deliver, Message
    <3>6. \A gap \in reported : gap[1] \in Nat /\ gap[2] \in Nat
      BY DEF TypeOK, SocketTypeOK
    <3>7. \A d \in delivered : d <= lastSequence /\ d \in Nat
      BY DEF MarkIsHighest, TypeOK, SocketTypeOK
    <3> HIDE DEF n
    <3>8. ASSUME NEW gap \in reported
          PROVE  gap[1] < gap[2] /\ gap[2] <= n /\ gap[1]..(gap[2] - 1) \cap delivered' = {}
      BY <3>1, <3>2, <3>6 DEF ReportsBehind, ReportsAreExact
    <3>9. (lastSequence + 1)..(n - 1) \cap delivered' = {}
      BY <3>1, <3>2, <3>7
    <3>10. ASSUME Skips(n), NEW gap \in {<<lastSequence + 1, n>>}
           PROVE  gap[1] < gap[2] /\ gap[2] <= n /\ gap[1]..(gap[2] - 1) \cap delivered' = {}
      BY <3>1, <3>4, <3>9, <3>10
    <3> QED
      BY <3>2, <3>3, <3>5, <3>8, <3>10 DEF ReportsBehind, ReportsAreExact
  <2>2. CASE Connect
    BY <2>2 DEF Connect, Reopen, ReportsBehind, ReportsAreExact
  <2>3. CASE UNCHANGED socketVars
    BY <2>3 DEF socketVars, ReportsBehind, ReportsAreExact
  <2> QED
    BY <2>1, <2>2, <2>3
    DEF Next, Emit, Disconnect, ReadSnapshot, Snapshot, SnapshotFails, vars
<1>3. ReportsBehind => ReportsAreExact
  BY DEF ReportsBehind
<1> QED
  BY <1>1, <1>2, <1>3, SyncTypeCorrect, OrderKept, SyncImplementsSocket, MarkCorrect, PTL
  DEF Spec

-----------------------------------------------------------------------------
\* How far the open socket has come: nothing up to here arrives any more
\* without a report.
Passed ==
  IF lastSequence # 0 THEN lastSequence
  ELSE IF channel = <<>> THEN emitted ELSE Head(channel) - 1

\* The event is in the picture, or will be when the fetch under way ends, or
\* nobody can know of it.
Accounted(k) ==
  \/ k \in unheard
  \/ fetch = "asked"
  \/ fetch = "read" /\ (k <= upto \/ k \in held)
  \/ fetch = "idle" /\ k \in view

NothingMissing == open => \A k \in 1..Passed : Accounted(k)

\* Every step keeps both the picture and what it is built from.
LEMMA PictureStep ==
  ASSUME TypeOK, InOrder, MarkIsHighest, NothingMissing, PictureHasNoHoles, [Next]_vars
  PROVE  NothingMissing' /\ PictureHasNoHoles'
<1> USE SequencesPositive, Bounds, Numbering
<1>1. /\ lastSequence \in Nat /\ emitted \in Nat /\ upto \in Nat
      /\ view \subseteq Nat \ {0} /\ held \subseteq Nat \ {0}
  BY DEF TypeOK, SocketTypeOK
<1>2. CASE Emit
  <2>1. /\ emitted' = emitted + 1 /\ unheard \subseteq unheard'
        /\ UNCHANGED <<lastSequence, delivered, open, fetch, upto, held, view>>
    BY <1>2 DEF Emit, socketVars, hostVars
  <2>2. PictureHasNoHoles'
    BY <2>1 DEF PictureHasNoHoles
  <2>3. ASSUME open, NEW k \in 1..Passed' PROVE Accounted(k)'
    <3>1. CASE lastSequence # 0
      BY <2>1, <2>3, <3>1 DEF NothingMissing, Passed, Accounted
    <3>2. CASE lastSequence = 0 /\ channel # <<>>
      <4>1. channel' # <<>> /\ Head(channel') = Head(channel)
        <5>1. CASE channel' = Append(channel, emitted')
          <6>1. emitted' \in SequenceNumbers
            BY <1>2 DEF Emit, TypeOK
          <6>2. channel' # <<>> /\ channel'[1] = channel[1] /\ channel' \in Seq(SequenceNumbers)
            BY <3>2, <5>1, <6>1, AppendProperties, Delivered, LenProperties DEF TypeOK
          <6> QED
            BY <3>2, <6>2, Delivered DEF TypeOK
        <5>2. CASE channel' = channel
          BY <3>2, <5>2
        <5> QED
          BY <1>2, <5>1, <5>2 DEF Emit
      <4>2. Passed' = Passed
        BY <2>1, <3>2, <4>1 DEF Passed
      <4> QED
        BY <2>1, <2>3, <4>2 DEF NothingMissing, Accounted
    <3>3. CASE lastSequence = 0 /\ channel = <<>>
      <4>1. Passed = emitted /\ delivered = {}
        BY <3>3 DEF Passed, MarkIsHighest
      <4>2. CASE channel' = Append(channel, emitted')
        <5>1. channel' = <<emitted + 1>>
          BY <2>1, <3>3, <4>2
        <5>2. Passed' = emitted
          BY <1>1, <2>1, <3>3, <5>1 DEF Passed
        <5> QED
          BY <2>1, <2>3, <4>1, <5>2 DEF NothingMissing, Accounted
      <4>3. CASE channel' = channel /\ unheard' = unheard \cup {emitted'}
        <5>1. Passed' = emitted + 1
          BY <2>1, <3>3, <4>3 DEF Passed
        <5>2. k \in 1..Passed \/ k = emitted'
          BY <1>1, <2>1, <2>3, <4>1, <5>1
        <5> QED
          BY <2>1, <2>3, <4>3, <5>2 DEF NothingMissing, Accounted
      <4> QED
        BY <1>2, <2>3, <3>3, <4>1, <4>2, <4>3 DEF Emit
    <3> QED
      BY <3>1, <3>2, <3>3
  <2> QED
    BY <2>1, <2>2, <2>3 DEF NothingMissing
<1>3. CASE Connect
  BY <1>3 DEF Connect, NothingMissing, Accounted, PictureHasNoHoles
<1>4. CASE Disconnect
  BY <1>4 DEF Disconnect, NothingMissing, PictureHasNoHoles
<1>5. CASE Deliver
  <2> DEFINE n == Head(channel)
  <2>1. /\ n \in Nat \ {0} /\ lastSequence < n /\ channel # <<>>
        /\ open /\ open' = open /\ unheard' = unheard /\ upto' = upto
    BY <1>5, Delivered DEF Deliver, InOrder, TypeOK
  <2>2. lastSequence' = n
    BY <1>1, <1>5, <2>1 DEF Deliver, Message
  <2>3. Passed' = n
    BY <2>1, <2>2 DEF Passed
  <2>4. CASE Skips(n)
    <3>1. fetch' = "asked" /\ view' = view
      BY <1>5, <2>4 DEF Deliver, Handle, AfterGap, Show
    <3> QED
      BY <2>1, <3>1 DEF NothingMissing, Accounted, PictureHasNoHoles
  <2>5. CASE ~ Skips(n)
    <3>1. Passed = n - 1
      BY <1>1, <2>1, <2>5 DEF Passed, Skips
    <3>2. fetch' = fetch
      BY <1>5, <2>5 DEF Deliver, Handle, AfterGap
    <3>3. IF fetch # "idle" THEN held' = held \cup {n} /\ view' = view
                            ELSE view' = view \cup {n} /\ held' = held
      BY <1>5, <3>2 DEF Deliver, Handle, Show
    <3>4. \A k \in 1..n : k \in 1..Passed \/ k = n
      BY <2>1, <3>1
    <3>5. fetch \in {"idle", "asked", "read"}
      BY DEF TypeOK
    <3> HIDE DEF n
    <3>6. \A k \in 1..Passed : Accounted(k)'
      BY <2>1, <3>2, <3>3 DEF NothingMissing, Accounted
    <3>7. \A k \in {n} : Accounted(k)'
      BY <3>2, <3>3, <3>5 DEF Accounted
    <3>8. NothingMissing'
      BY <2>3, <3>4, <3>6, <3>7 DEF NothingMissing
    <3>9. CASE fetch = "idle"
      <4>1. \A k \in 1..n : k \in view' \cup unheard'
        BY <3>2, <3>4, <3>6, <3>7, <3>9 DEF Accounted
      <4> QED
        BY <2>1, <3>3, <3>8, <3>9, <4>1 DEF PictureHasNoHoles
    <3>10. CASE fetch # "idle"
      BY <2>1, <3>3, <3>8, <3>10 DEF PictureHasNoHoles
    <3> QED
      BY <3>9, <3>10
  <2> QED
    BY <2>4, <2>5
<1>6. CASE ReadSnapshot
  \* The answer reflects all there is, and that is no less than what is passed.
  <2>1. /\ fetch' = "read" /\ upto' = emitted /\ Passed' = Passed
        /\ UNCHANGED <<unheard, open, held, view>>
    BY <1>6 DEF ReadSnapshot, Passed, socketVars
  <2>2. Passed <= emitted /\ Passed \in Int
    BY <1>1, Delivered DEF Passed, InOrder, TypeOK
  <2>3. \A k \in 1..Passed : k <= emitted
    BY <1>1, <2>2
  <2> QED
    BY <2>1, <2>3 DEF NothingMissing, Accounted, PictureHasNoHoles
<1>7. CASE Snapshot
  <2>1. /\ fetch = "read" /\ fetch' = "idle" /\ view' = 1..upto \cup held /\ Passed' = Passed
        /\ UNCHANGED <<unheard, open, lastSequence>>
    BY <1>7 DEF Snapshot, Passed, socketVars
  <2>2. open
    BY <2>1 DEF InOrder
  <2>3. \A k \in 1..Passed : k \in view' \cup unheard
    BY <1>1, <2>1, <2>2 DEF NothingMissing, Accounted, Passed
  <2>4. NothingMissing'
    BY <2>1, <2>3 DEF NothingMissing, Accounted
  <2>5. ASSUME NEW n \in view', NEW k \in 1..n PROVE k \in view' \cup unheard'
    <3>1. CASE n \in 1..upto
      BY <1>1, <2>1, <3>1
    <3>2. CASE n \in held
      <4>1. n \in Nat \ {0} /\ n <= lastSequence /\ Passed = lastSequence
        BY <1>1, <3>2 DEF InOrder, Passed
      <4> QED
        BY <1>1, <2>1, <2>3, <4>1
    <3> QED
      BY <2>1, <3>1, <3>2
  <2> QED
    BY <2>4, <2>5 DEF PictureHasNoHoles
<1>8. CASE SnapshotFails
  BY <1>8 DEF SnapshotFails, NothingMissing, Accounted, PictureHasNoHoles
<1>9. CASE UNCHANGED vars
  BY <1>9 DEF vars, socketVars, hostVars, NothingMissing, Passed, Accounted, PictureHasNoHoles
<1> QED
  BY <1>2, <1>3, <1>4, <1>5, <1>6, <1>7, <1>8, <1>9 DEF Next

\* The host's picture of the tunnel never shows an event without those before
\* it, but for events shed before a socket's first: reports of skips and
\* snapshots are enough, however many events, sockets and failures there are.
THEOREM PictureNeverHasHoles == Spec => []PictureHasNoHoles
<1>1. Init => NothingMissing /\ PictureHasNoHoles
  BY DEF Init, NothingMissing, PictureHasNoHoles
<1> QED
  BY <1>1, PictureStep, SyncTypeCorrect, OrderKept, SyncImplementsSocket, MarkCorrect, PTL
  DEF Spec

=============================================================================
