---------------------------- MODULE RequireSend ----------------------------
(***************************************************************************)
(* The two analysers of the house rule "a log event that is built must be  *)
(* sent": the scanner of .ores-lint/require-send.mjs, for Rust, Dart and   *)
(* Gleam, and the ESLint rule of .ores-lint/eslint/plugin.mjs, for         *)
(* TypeScript.  Both walk a program once and keep a stack of scopes, each  *)
(* with the events that are still pending by name.                         *)
(*                                                                         *)
(* The program is written while it is analysed, one construct a step, so   *)
(* that every program within the bounds is.  Next to the analysers stands  *)
(* what the program means: the blocks that are open, what each name is     *)
(* bound to in them, and how each event left the program's hands.          *)
(*                                                                         *)
(* Constructs that build an event and send it, return it or pass it on in  *)
(* one expression leave both analysers as they were, and comments that     *)
(* silence a finding are not written.                                      *)
(***************************************************************************)
EXTENDS Integers, Sequences, FiniteSets

CONSTANTS
  Locals,       \* names of local variables
  Fields,       \* names of fields, such as self.e, known in the whole file
  LastPart,     \* the last part of the name of a field
  TypeName,     \* the type a binding may be annotated with
  MaxEvents,    \* events built
  MaxDepth,     \* blocks open at a time, the file's own included
  MaxLines      \* constructs in a program

ASSUME NamesAssumption ==
  /\ Locals \cap Fields = {}
  /\ LastPart \in [Fields -> Locals]
  /\ TypeName \notin Locals \cup Fields
ASSUME BoundsAssumption == {MaxEvents, MaxDepth, MaxLines} \subseteq Nat \ {0}

Names == Locals \cup Fields
Keys == Names \cup {TypeName}
EventIds == 1 .. MaxEvents

\* What a name stands for when it is not an event.
Unbound == -1
Plain == 0

VARIABLES
  blocks,       \* the open blocks, the innermost one last
  events,       \* the events built so far, in order
  lines,        \* constructs written so far
  ended,        \* the end of the file was reached
  strays,       \* names used while they stood for something else than an event
                \* built under that name
  scanner,      \* the scanner: its scopes and the events it has reported
  lint          \* the same of the ESLint rule

vars == <<blocks, events, lines, ended, strays, scanner, lint>>

Block == [function : BOOLEAN, bound : [Names -> {Unbound, Plain} \cup EventIds]]
\* name, home: the variable it was assigned to and the block of that variable;
\* key: what the scanner files it by; fate: how it left, the first time it
\* did; direct: it left through that variable, not through another.
Event == [name : Names, home : 1 .. MaxDepth, key : Keys, direct : BOOLEAN,
          fate : {"kept", "sent", "chained", "handed"}]
Analyser == [scopes : Seq([Keys -> 0 .. MaxEvents]), found : SUBSET EventIds]

TypeOK ==
  /\ blocks \in Seq(Block) /\ Len(blocks) \in 1 .. MaxDepth
  /\ events \in Seq(Event) /\ Len(events) <= MaxEvents
  /\ lines \in 0 .. MaxLines
  /\ ended \in BOOLEAN
  /\ strays \subseteq Names
  /\ scanner \in Analyser /\ lint \in Analyser
  /\ \A a \in {scanner, lint} : ~ended <=> a.scopes # <<>>

(***************************************************************************)
(* The scopes of an analyser.                                              *)
(***************************************************************************)
NothingPending == [k \in Keys |-> 0]

Enter(a) == [a EXCEPT !.scopes = Append(@, NothingPending)]

PendingIn(scope) == {scope[k] : k \in Keys} \ {0}

\* Leaving a scope reports whatever is still pending in it.
Leave(a) ==
  LET n == Len(a.scopes)
  IN [scopes |-> SubSeq(a.scopes, 1, n - 1),
      found |-> a.found \cup PendingIn(a.scopes[n])]

\* A name is pending in the innermost scope from here on.
Mark(a, k, e) == [a EXCEPT !.scopes[Len(a.scopes)][k] = e]

\* A use of the name settles the innermost one that is pending.
Clear(a, k) ==
  LET Known == {i \in DOMAIN a.scopes : a.scopes[i][k] # 0}
  IN IF Known = {} THEN a
     ELSE [a EXCEPT !.scopes[CHOOSE i \in Known : \A j \in Known : j <= i][k] = 0]

\* Fault: only the innermost scope is looked at.
ConsumeInnermost(a, k) == Mark(a, k, 0)

\* A statement that is a call consumes the name as a statement and once more
\* as a call: two scopes lose it where both have it pending.
Consume(a, k) == Clear(Clear(a, k), k)

(***************************************************************************)
(* What the program means.                                                 *)
(***************************************************************************)
Holders(x) == {i \in DOMAIN blocks : blocks[i].bound[x] # Unbound}
Holder(x) == CHOOSE i \in Holders(x) : \A j \in Holders(x) : j <= i
Visible(x) == Holders(x) # {}
Value(x) == blocks[Holder(x)].bound[x]

Innermost == Len(blocks)
Bind(i, x, v) == blocks' = [blocks EXCEPT ![i].bound[x] = v]

Writes == ~ended /\ lines < MaxLines /\ lines' = lines + 1 /\ UNCHANGED ended

Init ==
  /\ blocks = <<[function |-> TRUE,
                 bound |-> [x \in Names |-> IF x \in Fields THEN Plain ELSE Unbound]]>>
  /\ events = <<>>
  /\ lines = 0
  /\ ended = FALSE
  /\ strays = {}
  /\ scanner = [scopes |-> <<NothingPending>>, found |-> {}]
  /\ lint = scanner

\* A brace opens: a scope for the scanner whatever it is, for ESLint only if
\* it is the body of a function.
Open(isFunction) ==
  /\ Writes
  /\ Len(blocks) < MaxDepth
  /\ blocks' = Append(blocks, [function |-> isFunction, bound |-> [x \in Names |-> Unbound]])
  /\ scanner' = Enter(scanner)
  /\ lint' = IF isFunction THEN Enter(lint) ELSE lint
  /\ UNCHANGED <<events, strays>>

\* Fault: ESLint drops the scope of a function without a look at it.
CloseUnseen ==
  /\ Writes
  /\ Len(blocks) > 1
  /\ blocks' = SubSeq(blocks, 1, Len(blocks) - 1)
  /\ scanner' = Leave(scanner)
  /\ lint' = IF blocks[Innermost].function THEN [Leave(lint) EXCEPT !.found = lint.found]
             ELSE lint
  /\ UNCHANGED <<events, strays>>

Close ==
  /\ Writes
  /\ Len(blocks) > 1
  /\ blocks' = SubSeq(blocks, 1, Len(blocks) - 1)
  /\ scanner' = Leave(scanner)
  /\ lint' = IF blocks[Innermost].function THEN Leave(lint) ELSE lint
  /\ UNCHANGED <<events, strays>>

\* precedingAssignment: the identifier before the '=', which is the last
\* part of a field and the type of an annotated variable.
Assigned(x, annotated) ==
  IF x \in Fields THEN LastPart[x] ELSE IF annotated THEN TypeName ELSE x

\* A level method is called and the event assigned, to a new variable of the
\* innermost block or to a variable or field known there.
Build(x, isNew, annotated) ==
  LET e == Len(events) + 1
      key == Assigned(x, annotated)
      home == IF isNew THEN Innermost ELSE Holder(x)
  IN /\ Writes
     /\ e \in EventIds
     /\ isNew => x \in Locals
     /\ annotated => isNew
     /\ ~isNew => Visible(x)
     /\ Bind(home, x, e)
     /\ events' = Append(events, [name |-> x, home |-> home, key |-> key,
                                   direct |-> FALSE, fate |-> "kept"])
     /\ scanner' = Mark(scanner, key, e)
     /\ lint' = Mark(lint, x, e)
     /\ UNCHANGED strays

\* `let x = y...;`: the same event by another name, or another value
\* altogether; neither analyser looks at it.
Rename(x, v) ==
  /\ Writes
  /\ x \in Locals
  /\ v = Plain \/ \E y \in Names : Visible(y) /\ Value(y) = v
  /\ Bind(Innermost, x, v)
  /\ UNCHANGED <<events, strays, scanner, lint>>

\* A name is used in a way that takes the event it stands for off the hands
\* of the program.
Use(x, fate) ==
  LET v == Value(x)
  IN /\ Writes
     /\ Visible(x)
     /\ events' = IF v \in EventIds /\ events[v].fate = "kept"
                  THEN [events EXCEPT ![v].fate = fate,
                                      ![v].direct = x = events[v].name /\ Holder(x) = events[v].home]
                  ELSE events
     /\ strays' = IF v \in EventIds /\ events[v].name = x THEN strays ELSE strays \cup {x}
     /\ UNCHANGED blocks

\* Fault: the scanner looks in the innermost scope only.
SendInScope(x) ==
  /\ Use(x, "sent")
  /\ scanner' = Mark(scanner, x, 0)
  /\ lint' = Consume(lint, x)

\* x.send(); or send(x);
Send(x) ==
  /\ Use(x, "sent")
  /\ scanner' = Clear(scanner, x)
  /\ lint' = Consume(lint, x)

\* x.with(...).send(); or x |> with(...) |> send: the scanner looks for an
\* identifier before the dot and finds a parenthesis.
SendThroughChain(x) ==
  /\ Use(x, "chained")
  /\ lint' = Consume(lint, x)
  /\ UNCHANGED scanner

\* Passed to another function in a statement of its own, or returned.
HandOver(x, returned) ==
  /\ Use(x, "handed")
  /\ lint' = IF returned THEN Clear(lint, x) ELSE Consume(lint, x)
  /\ UNCHANGED scanner

\* Fault: the file ends and nobody looks at what the scanner has left.
EndWithoutFlush ==
  /\ ~ended /\ Len(blocks) = 1
  /\ ended' = TRUE
  /\ scanner' = [scanner EXCEPT !.scopes = <<>>]
  /\ lint' = Leave(lint)
  /\ UNCHANGED <<blocks, events, lines, strays>>

EndOfFile ==
  /\ ~ended /\ Len(blocks) = 1
  /\ ended' = TRUE
  /\ scanner' = Leave(scanner)
  /\ lint' = Leave(lint)
  /\ UNCHANGED <<blocks, events, lines, strays>>

Next ==
  \/ \E isFunction \in BOOLEAN : Open(isFunction)
  \/ Close
  \/ \E x \in Names, isNew, annotated \in BOOLEAN : Build(x, isNew, annotated)
  \/ \E x \in Locals, v \in {Plain} \cup EventIds : Rename(x, v)
  \/ \E x \in Names : Send(x) \/ SendThroughChain(x)
  \/ \E x \in Names, returned \in BOOLEAN : HandOver(x, returned)
  \/ EndOfFile

Spec == Init /\ [][Next]_vars

(***************************************************************************)
(* Properties.                                                             *)
(***************************************************************************)
Kept(e) == events[e].fate = "kept"
Pending(a) == UNION {PendingIn(a.scopes[i]) : i \in DOMAIN a.scopes}
Reports(a) == a'.found \ a.found

\* A field is filed by its last part, as if it were the variable of that name.
FiledByField(k) == \E e \in DOMAIN events : events[e].name \in Fields /\ events[e].key = k

\* A second event was assigned to a variable or field of this name.
SharesName(e) == \E d \in DOMAIN events \ {e} : events[d].name = events[e].name

\* ESLint never reports an event that was sent, in a chain or not, or handed
\* over, through the variable it was assigned to, unless a second event has
\* its name: a block of a function is no scope of its own there.
LintReportsUnsent ==
  [][\A e \in Reports(lint) : Kept(e) \/ ~events[e].direct \/ SharesName(e)]_vars

\* The scanner never reports an event that was sent directly through the
\* variable it was assigned to, unless it or another event of that key is
\* filed by the last part of a field, or by a type.
ScannerReportsUnsent ==
  [][\A e \in Reports(scanner) :
       \/ events[e].fate # "sent" \/ ~events[e].direct
       \/ events[e].key # events[e].name \/ FiledByField(events[e].key)]_vars

\* ESLint loses sight of an event that was never sent only if its name was
\* given to a second event, or used while it stood for something else.
LintForgetsNothing ==
  \A e \in DOMAIN events :
    Kept(e) => \/ e \in lint.found \cup Pending(lint)
               \/ events[e].name \in strays
               \/ SharesName(e)

\* The same of the scanner and the name it files the event by.
ScannerForgetsNothing ==
  \A e \in DOMAIN events :
    Kept(e) => \/ e \in scanner.found \cup Pending(scanner)
               \/ events[e].key \in strays
               \/ \E d \in DOMAIN events \ {e} : events[e].key \in {events[d].key, events[d].name}
=============================================================================
