------------------------------ MODULE EventSync ------------------------------
(***************************************************************************)
(* A desktop host that follows a tunnel: the service numbers events and    *)
(* pushes them down the open socket, the client's handler (EventSocket)    *)
(* reports skips, and the host fetches a snapshot after every connect and  *)
(* every reported skip.  A snapshot carries no sequence number, so a host  *)
(* that must not step back holds events while a snapshot is on its way.    *)
(*                                                                         *)
(* External: the service, which may shed events of a slow socket, and the  *)
(* host, which does what the repository's integration guide asks of it.    *)
(***************************************************************************)
EXTENDS EventSocket, Sequences

CONSTANTS
  MaxEvents,        \* bound: events of the tunnel
  MaxSockets,       \* bound: sockets the host opens
  MaxFailures       \* bound: snapshots that end without an answer

ASSUME Bounds ==
  MaxEvents \in Nat /\ MaxSockets \in Nat /\ MaxFailures \in Nat
ASSUME Numbering == SequenceNumbers = 1..MaxEvents

VARIABLES
  emitted,   \* events the service has numbered
  unheard,   \* events it shed from an open socket that had heard none yet
  channel,   \* numbers on their way down the open socket, in order
  open,      \* is a socket open?
  sockets,   \* sockets opened so far
  fetch,     \* the snapshot call: "idle", "asked" or "read"
  upto,      \* what the snapshot reflects, once read
  held,      \* events the host holds back during a fetch
  view,      \* events the host's picture of the tunnel reflects
  failures   \* snapshots that failed so far

hostVars == <<fetch, upto, held, view, failures>>
vars == <<socketVars, emitted, unheard, channel, open, sockets, hostVars>>

-----------------------------------------------------------------------------
Init ==
  /\ NewSocket
  /\ emitted = 0 /\ unheard = {} /\ channel = <<>> /\ open = FALSE /\ sockets = 0
  /\ fetch = "idle" /\ upto = 0 /\ held = {} /\ view = {} /\ failures = 0

\* The tunnel changes.  The event goes to the open socket, or is shed.
Emit ==
  /\ emitted < MaxEvents
  /\ emitted' = emitted + 1
  /\ \/ open /\ channel' = Append(channel, emitted') /\ UNCHANGED unheard
     \/ /\ unheard' = IF open /\ channel = <<>> /\ delivered = {}
                       THEN unheard \cup {emitted'} ELSE unheard
        /\ UNCHANGED channel
  /\ UNCHANGED <<socketVars, open, sockets, hostVars>>

\* The host connects: a ticket, a socket, and then a snapshot.
Connect ==
  /\ ~ open
  /\ sockets < MaxSockets
  /\ open' = TRUE
  /\ sockets' = sockets + 1
  /\ Reopen
  /\ fetch' = "asked"
  /\ UNCHANGED <<emitted, unheard, channel, upto, held, view, failures>>

\* The socket closes; what it carried is gone, and so is a fetch under way.
Disconnect ==
  /\ open
  /\ open' = FALSE
  /\ channel' = <<>>
  /\ fetch' = "idle"
  /\ held' = {}
  /\ UNCHANGED <<socketVars, emitted, unheard, sockets, upto, view, failures>>

\* onSequenceGap makes the host ask again, even if a snapshot was on its way.
AfterGap(n) == IF Skips(n) THEN "asked" ELSE fetch

\* onEvent: shown at once, or held while a snapshot is awaited.
Show(n, awaiting) ==
  IF awaiting # "idle" THEN held' = held \cup {n} /\ UNCHANGED view
                       ELSE view' = view \cup {n} /\ UNCHANGED held

\* Fault: the client passes the event on before it reports the gap.
HandleEventFirst(n) ==
  /\ Show(n, fetch)
  /\ fetch' = AfterGap(n)

\* What the host sees of one message: the gap first, then the event.
Handle(n) ==
  /\ fetch' = AfterGap(n)
  /\ Show(n, fetch')

Deliver ==
  /\ channel # <<>>
  /\ Message(Head(channel))
  /\ Handle(Head(channel))
  /\ channel' = Tail(channel)
  /\ UNCHANGED <<emitted, unheard, open, sockets, upto, failures>>

\* The service reads the tunnel for the snapshot.
ReadSnapshot ==
  /\ fetch = "asked"
  /\ fetch' = "read"
  /\ upto' = emitted
  /\ UNCHANGED <<socketVars, emitted, unheard, channel, open, sockets, held, view, failures>>

\* The snapshot arrives; the host shows it with the events it held.
Snapshot ==
  /\ fetch = "read"
  /\ fetch' = "idle"
  /\ view' = 1..upto \cup held
  /\ held' = {}
  /\ UNCHANGED <<socketVars, emitted, unheard, channel, open, sockets, upto, failures>>

\* The snapshot call ends in an error or a timeout; the host asks again.
SnapshotFails ==
  /\ fetch # "idle"
  /\ failures < MaxFailures
  /\ failures' = failures + 1
  /\ fetch' = "asked"
  /\ UNCHANGED <<socketVars, emitted, unheard, channel, open, sockets, upto, held, view>>

Next ==
  \/ Emit \/ Connect \/ Disconnect \/ Deliver
  \/ ReadSnapshot \/ Snapshot \/ SnapshotFails

\* An open socket delivers what it carries and a snapshot call is answered;
\* nothing obliges the tunnel to change or the host to connect.
Spec == Init /\ [][Next]_vars
        /\ WF_vars(Deliver) /\ WF_vars(ReadSnapshot) /\ WF_vars(Snapshot)

-----------------------------------------------------------------------------
\* The host and the service keep to the bounds, and the socket to its types.
TypeOK ==
  /\ SocketTypeOK
  /\ emitted \in 0..MaxEvents /\ unheard \subseteq SequenceNumbers
  /\ channel \in Seq(SequenceNumbers)
  /\ open \in BOOLEAN
  /\ sockets \in 0..MaxSockets
  /\ fetch \in {"idle", "asked", "read"}
  /\ upto \in 0..MaxEvents
  /\ held \subseteq SequenceNumbers
  /\ view \subseteq SequenceNumbers
  /\ failures \in 0..MaxFailures

\* The host's picture has no hole: it never shows an event without all events
\* before it (integration guide: after a skip, a fresh snapshot before the UI),
\* except for events shed before a socket's first one: lastSequence is 0 then,
\* and a first number is no skip.
PictureHasNoHoles == \A n \in view : 1..n \subseteq view \cup unheard

\* On a socket that keeps the order, each report names exactly numbers that did
\* not arrive: onSequenceGap is never called for a gap that is not there.
ReportsAreExact ==
  \A gap \in reported : /\ gap[1] < gap[2]
                        /\ gap[1]..(gap[2] - 1) \cap delivered = {}

\* Whatever a socket has passed by, delivered or lost after its first event, is
\* in the picture in the end, unless the socket closes first.
CaughtUp == \A n \in SequenceNumbers :
  (open /\ n <= lastSequence) ~> (n \in view \cup unheard \/ ~ open)

=============================================================================
