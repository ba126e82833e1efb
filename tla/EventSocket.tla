---------------------------- MODULE EventSocket ----------------------------
(***************************************************************************)
(* The message handler of the TypeScript client's connectEvents: what one  *)
(* event socket remembers, reports and passes on.  Which numbers arrive,   *)
(* and in which order, is left open: events may be lost, repeated or       *)
(* overtaken.                                                              *)
(***************************************************************************)
EXTENDS Naturals

CONSTANT SequenceNumbers   \* the sequence numbers events carry

\* lastSequence doubles as "nothing yet" when it is 0: the handler relies on
\* the service numbering events from 1.
ASSUME SequencesPositive == SequenceNumbers \subseteq Nat \ {0}

VARIABLES
  lastSequence,  \* the closure's high-water mark
  first,         \* the first sequence number this socket delivered, or 0
  delivered,     \* numbers passed to onEvent by this socket
  reported       \* <<expected, received>> pairs passed to onSequenceGap

socketVars == <<lastSequence, first, delivered, reported>>

NewSocket == lastSequence = 0 /\ first = 0 /\ delivered = {} /\ reported = {}

\* connectEvents again: a new closure, which remembers nothing.
Reopen ==
  /\ lastSequence' = 0
  /\ first' = 0
  /\ delivered' = {}
  /\ reported' = {}

\* Fault: a skip of a single event is not noticed.
SkipsByTwo(n) == lastSequence # 0 /\ n > lastSequence + 2

\* Fault: the next event in order counts as a skip.
SkipsAlways(n) == lastSequence # 0 /\ n # lastSequence

\* Would the handler call onSequenceGap for this number?
Skips(n) == lastSequence # 0 /\ n # lastSequence + 1

\* One message: report the skip, raise the mark, pass the event on.
Message(n) ==
  /\ reported' = IF Skips(n) THEN reported \cup {<<lastSequence + 1, n>>} ELSE reported
  /\ lastSequence' = IF n > lastSequence THEN n ELSE lastSequence
  /\ delivered' = delivered \cup {n}
  /\ first' = IF first = 0 THEN n ELSE first

SocketNext == Reopen \/ \E n \in SequenceNumbers : Message(n)

SocketSpec == NewSocket /\ [][SocketNext]_socketVars

-----------------------------------------------------------------------------
\* The handler remembers sequence numbers and passes on what it was given.
SocketTypeOK ==
  /\ lastSequence \in SequenceNumbers \cup {0}
  /\ first \in SequenceNumbers \cup {0}
  /\ delivered \subseteq SequenceNumbers
  /\ reported \subseteq Nat \X SequenceNumbers

\* The mark is the greatest number delivered.
MarkIsHighest ==
  /\ lastSequence = 0 <=> delivered = {}
  /\ first = 0 <=> delivered = {}
  /\ delivered # {} => lastSequence \in delivered
  /\ \A n \in delivered : n <= lastSequence

\* No loss between the first event of a socket and its latest goes unnoticed:
\* each number in between was delivered or lies in a reported gap, however
\* events were lost, repeated or overtaken (connectEvents' onSequenceGap).
NoSilentLoss ==
  \A n \in SequenceNumbers :
    (first < n /\ n < lastSequence) =>
      \/ n \in delivered
      \/ \E gap \in reported : gap[1] <= n /\ n < gap[2]

=============================================================================
