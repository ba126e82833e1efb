--------------------------- MODULE FpConformance ---------------------------
(***************************************************************************)
(* tools/fp-conformance/fp_conformance.py: how a file is masked, line by   *)
(* line, so that rules see code and neither comments nor strings, how the  *)
(* findings of a rule are counted, and how the gate of continuous          *)
(* integration compares the count with the recorded budget.                *)
(*                                                                         *)
(* Next to the scanner stands a lexer of the languages it scans: what in a *)
(* line is code, and whether a block comment is open at its end.  Quotes   *)
(* are of one kind, strings end on their line, and block comments do not   *)
(* nest, which is where the languages agree.                               *)
(*                                                                         *)
(* One rule stands for all: it finds one character in the code of a line,  *)
(* and reports a line once.                                                *)
(***************************************************************************)
EXTENDS Naturals, Sequences, FiniteSets

CONSTANTS
  MaxLength,    \* bound: characters of a line
  MaxFileLines  \* bound: lines of a file

ASSUME ScanBounds == {MaxLength, MaxFileLines} \subseteq Nat \ {0}

Chars == {"/", "*", "quote", "backslash", ":", "x"}
Found == "x"                    \* what the rule looks for
Lines == UNION {[1 .. n -> Chars] : n \in 0 .. MaxLength}

VARIABLES
  raw,        \* the line being masked
  text,       \* what is left of it: characters, with their place in the line
  cursor,     \* where the search for strings goes on
  phase,      \* the step the line, the file or the gate is at
  in_block,   \* the scanner: inside a block comment
  truth,      \* the lexer: "code" or "block" where the line starts
  agreed,     \* did the two agree there?
  exact,      \* have they agreed in this file, on lines without a trap?
  scanned,    \* lines read of this file
  fits,       \* has the file no more than 20000 lines?
  seen,       \* lines with a finding, as the scanner counts them
  real,       \* lines with a finding in their code
  budget      \* budget.json: findings it records, none at first

lineVars == <<raw, text, cursor, agreed>>
fileVars == <<truth, exact, scanned, fits, seen, real>>
scanVars == <<lineVars, phase, in_block, fileVars, budget>>

Phases == {"read", "inside", "block", "comment", "string", "emit",
           "report", "passed", "failed"}

\* A character of the masked text; at is 0 for one the mask has put there.
Cell == [c : Chars \cup {"blank"}, at : 0 .. MaxLength]

ScanTypeOK ==
  /\ raw \in Lines
  /\ text \in Seq(Cell) /\ Len(text) <= Len(raw)
  /\ cursor \in 0 .. MaxLength + 1
  /\ phase \in Phases
  /\ {in_block, agreed, exact, fits} \subseteq BOOLEAN
  /\ truth \in {"code", "block"}
  /\ scanned \in 0 .. MaxFileLines
  /\ seen \in 0 .. scanned /\ real \in 0 .. scanned
  /\ budget \in 0 .. MaxFileLines

(***************************************************************************)
(* The lexer.                                                              *)
(***************************************************************************)
At(line, i) == IF i \in DOMAIN line THEN line[i] ELSE "end"

\* The state after a character c that is followed by n.  "opening" and
\* "closing": the second character of the mark is still to come.
After(mode, c, n) ==
  CASE mode = "code" /\ c = "/" /\ n = "/"      -> "line"
    [] mode = "code" /\ c = "/" /\ n = "*"      -> "opening"
    [] mode = "code" /\ c = "quote"             -> "string"
    [] mode = "opening"                         -> "block"
    [] mode = "block" /\ c = "*" /\ n = "/"     -> "closing"
    [] mode = "closing"                         -> "code"
    [] mode = "string" /\ c = "backslash"       -> "escaped"
    [] mode = "string" /\ c = "quote"           -> "code"
    [] mode = "escaped"                         -> "string"
    [] OTHER                                    -> mode

\* The state before each character of a line, and after the last one.
Modes(line, start) ==
  LET m[i \in 1 .. Len(line) + 1] ==
        IF i = 1 THEN start ELSE After(m[i - 1], line[i - 1], At(line, i))
  IN m

End(line, start) == Modes(line, start)[Len(line) + 1]

CodeAt(line, start) ==
  {i \in DOMAIN line : /\ Modes(line, start)[i] = "code"
                       /\ line[i] # "quote"
                       /\ ~ (line[i] = "/" /\ At(line, i + 1) \in {"/", "*"})}

Has(line, i, a, b) == line[i] = a /\ At(line, i + 1) = b
AfterColon(line, i) == At(line, i - 1) = ":"

\* A line with a mark of a comment in a string, a mark of a block in a line
\* comment, or a line comment right after a colon.
Trap(line, start) ==
  LET mode == Modes(line, start)
  IN \E i \in DOMAIN line :
       \/ Has(line, i, "/", "*") /\ mode[i] \in {"string", "escaped", "line"}
       \/ Has(line, i, "/", "/") /\ mode[i] \in {"string", "escaped"} /\ ~ AfterColon(line, i)
       \/ Has(line, i, "/", "/") /\ mode[i] = "code" /\ AfterColon(line, i)

(***************************************************************************)
(* strip_noise, one replacement a step.                                    *)
(***************************************************************************)
Blanks(n) == [i \in 1 .. n |-> [c |-> "blank", at |-> 0]]
Quote == [c |-> "quote", at |-> 0]

Marks(a, b) == {i \in 1 .. Len(text) - 1 : text[i].c = a /\ text[i + 1].c = b}
Opens == Marks("/", "*")
Closes == Marks("*", "/")

Earliest(S) == CHOOSE i \in S : \A j \in S : i <= j
Upto(i) == SubSeq(text, 1, i)
From(i) == SubSeq(text, i, Len(text))

ScanInit ==
  /\ raw = <<>> /\ text = <<>> /\ cursor = 0
  /\ phase = "read" /\ in_block = FALSE
  /\ truth = "code" /\ agreed = TRUE /\ exact = TRUE
  /\ scanned = 0 /\ fits \in BOOLEAN /\ seen = 0 /\ real = 0
  /\ budget = 0

ReadLine ==
  /\ phase = "read" /\ scanned < MaxFileLines
  /\ raw' \in {line \in Lines : End(line, truth) \notin {"string", "escaped"}}
  /\ text' = [i \in DOMAIN raw' |-> [c |-> raw'[i], at |-> i]]
  /\ cursor' = 1
  /\ agreed' = (in_block = (truth = "block"))
  /\ scanned' = scanned + 1
  /\ phase' = IF in_block THEN "inside" ELSE "block"
  /\ UNCHANGED <<in_block, truth, exact, fits, seen, real, budget>>

\* The whole line lies in a block comment.
StayInside ==
  /\ phase = "inside" /\ Closes = {}
  /\ text' = <<>>
  /\ phase' = "emit"
  /\ UNCHANGED <<raw, cursor, agreed, in_block, fileVars, budget>>

LeaveBlock ==
  /\ phase = "inside" /\ Closes # {}
  /\ LET end == Earliest(Closes) + 1 IN text' = Blanks(end) \o From(end + 1)
  /\ in_block' = FALSE
  /\ phase' = "block"
  /\ UNCHANGED <<raw, cursor, agreed, fileVars, budget>>

\* Fault: the star of the opening mark may close it.
ClosesAtOnce(o) == {i \in Closes : i > o}

\* Where the block comment that opens at o may close.
ClosesAfter(o) == {i \in Closes : i > o + 1}

\* A block comment that ends on its line is blanked ...
RemoveInline ==
  /\ phase = "block" /\ Opens # {}
  /\ LET o == Earliest(Opens)
         end == Earliest(ClosesAfter(o)) + 1
     IN /\ ClosesAfter(o) # {}
        /\ text' = Upto(o - 1) \o Blanks(end - o + 1) \o From(end + 1)
  /\ UNCHANGED <<raw, cursor, agreed, phase, in_block, fileVars, budget>>

\* ... and one that does not is cut off.
OpenBlock ==
  /\ phase = "block" /\ Opens # {}
  /\ LET o == Earliest(Opens)
     IN /\ ClosesAfter(o) = {}
        /\ text' = Upto(o - 1)
  /\ in_block' = TRUE
  /\ phase' = "comment"
  /\ UNCHANGED <<raw, cursor, agreed, fileVars, budget>>

NoBlock ==
  /\ phase = "block" /\ Opens = {}
  /\ phase' = "comment"
  /\ UNCHANGED <<lineVars, in_block, fileVars, budget>>

\* _LINE_COMMENT: two slashes that do not follow a colon.
CutLineComment ==
  /\ phase = "comment"
  /\ LET starts == {i \in Marks("/", "/") : i = 1 \/ text[i - 1].c # ":"}
     IN text' = IF starts = {} THEN text ELSE Upto(Earliest(starts) - 1)
  /\ phase' = "string"
  /\ UNCHANGED <<raw, cursor, agreed, in_block, fileVars, budget>>

\* Is the quote at k one that ends the string that starts at i?
Ends(i, k) ==
  LET backslashes == {j \in i + 1 .. k - 1 : \A l \in j .. k - 1 : text[l].c = "backslash"}
  IN text[k].c = "quote" /\ Cardinality(backslashes) % 2 = 0

\* The strings that start where the search goes on, as <<first, last>>.
Strings == {s \in (cursor .. Len(text)) \X (cursor .. Len(text)) :
              s[1] < s[2] /\ text[s[1]].c = "quote" /\ Ends(s[1], s[2])}

\* _STRINGS: the next string becomes an empty one.
MaskString ==
  /\ phase = "string" /\ Strings # {}
  /\ LET first == Earliest({s[1] : s \in Strings})
         last == Earliest({s[2] : s \in {t \in Strings : t[1] = first}})
     IN /\ text' = Upto(first - 1) \o <<Quote, Quote>> \o From(last + 1)
        /\ cursor' = first + 2
  /\ UNCHANGED <<raw, agreed, phase, in_block, fileVars, budget>>

NoString ==
  /\ phase = "string" /\ Strings = {}
  /\ phase' = "emit"
  /\ UNCHANGED <<lineVars, in_block, fileVars, budget>>

Shown == {text[i].at : i \in DOMAIN text} \ {0}

\* The masked line is kept and the rule looks at it.
Emit ==
  /\ phase = "emit"
  /\ seen' = IF \E i \in DOMAIN text : text[i].c = Found THEN seen + 1 ELSE seen
  /\ real' = IF \E i \in CodeAt(raw, truth) : raw[i] = Found THEN real + 1 ELSE real
  /\ exact' = (exact /\ agreed /\ ~ Trap(raw, truth))
  /\ truth' = IF End(raw, truth) = "block" THEN "block" ELSE "code"
  /\ raw' = <<>> /\ text' = <<>> /\ cursor' = 0 /\ agreed' = TRUE
  /\ phase' = "read"
  /\ UNCHANGED <<in_block, scanned, fits, budget>>

(***************************************************************************)
(* main.                                                                   *)
(***************************************************************************)
\* A file of more than 20000 lines is skipped, and with it what it holds.
FileRead ==
  /\ phase = "read"
  /\ phase' = "report"
  /\ seen' = IF fits THEN seen ELSE 0
  /\ UNCHANGED <<lineVars, in_block, truth, exact, scanned, fits, real, budget>>

\* Fault: one finding more than the budget is let through.
Tolerates == seen <= budget + 1

\* No rule has more findings than the budget records for it.
WithinBudget == seen <= budget

\* --budget: the gate.
Gate ==
  /\ phase = "report"
  /\ phase' = IF WithinBudget THEN "passed" ELSE "failed"
  /\ UNCHANGED <<lineVars, in_block, fileVars, budget>>

\* Fault: the recorded count starts from the old one.
AddToBudget ==
  /\ phase = "report"
  /\ budget' = budget + seen
  /\ phase' = "passed"
  /\ UNCHANGED <<lineVars, in_block, fileVars>>

\* --write-budget records whatever was counted.
WriteBudget ==
  /\ phase = "report"
  /\ budget' = seen
  /\ phase' = "passed"
  /\ UNCHANGED <<lineVars, in_block, fileVars>>

\* The file is edited and scanned again, from its first line.
Rescan ==
  /\ phase \in {"passed", "failed"}
  /\ phase' = "read" /\ in_block' = FALSE
  /\ truth' = "code" /\ exact' = TRUE /\ fits' \in BOOLEAN
  /\ scanned' = 0 /\ seen' = 0 /\ real' = 0
  /\ UNCHANGED <<lineVars, budget>>

ScanNext ==
  \/ ReadLine \/ StayInside \/ LeaveBlock \/ RemoveInline \/ OpenBlock \/ NoBlock
  \/ CutLineComment \/ MaskString \/ NoString \/ Emit
  \/ FileRead \/ Gate \/ WriteBudget \/ Rescan

ScanSpec == ScanInit /\ [][ScanNext]_scanVars

(***************************************************************************)
(* Properties.                                                             *)
(***************************************************************************)
\* Comments and strings are blanked and nothing else is, and the scanner knows
\* whether a block comment goes on, unless the line has a trap or the scanner
\* was already wrong about it.
MaskIsExact ==
  (phase = "emit" /\ agreed /\ ~ Trap(raw, truth)) =>
     /\ Shown = CodeAt(raw, truth)
     /\ in_block = (End(raw, truth) = "block")

\* The gate lets no file pass that has more findings in its code than the
\* budget says, as long as no line of it has a trap and it is scanned at all.
GateCatchesGrowth == (phase = "passed" /\ exact /\ fits) => real <= budget

\* "The existing backlog blocks nobody; new violations do.": no file passes
\* the gate with more findings in its code than the budget says, if it is scanned.
NewViolationsBlock == (phase = "passed" /\ fits) => real <= budget
=============================================================================
