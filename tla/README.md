# File Tunnel clients: a verification project

TLA+ models of `file-tunnel/ftnl-clients`, the TLC runs that check them on small
instances, and TLAPS proofs of what matters most. Every definition of a model
is translated from the code under `src/`; `PROJECT.json` names, for each of
them, the lines it stands for.

Contents: [the system](#1-the-system), [the plan](#2-the-plan),
[the modules](#3-the-modules), [the runs](#4-the-runs),
[the proofs](#5-the-proofs), [what the models leave out](#6-what-the-models-leave-out).

## 1. The system

The repository holds the client libraries ("SDKs") of one HTTP service, File
Tunnel: a desktop host creates a tunnel and shows a pairing code, a phone claims
it and uploads files, and the desktop follows the tunnel by events and
snapshots and downloads the files. Around the SDKs there are the scripts that
keep a score of client packages in step with one API surface, and the house's
own lint tools.

| component | state it keeps | operations | what makes it hard | correct when |
|---|---|---|---|---|
| **Request exchange** (`clients/rust`, `typescript`, `dart`, `java`, `swift`) | none between calls; during one: connection, timers, what has been read | send, read head, read body, decode value or problem | a peer that stops at any point; five different arrangements of timers; a server that acts after the caller has given up | every call ends in time, and what it tells the host of the server is true |
| **Event stream** (`connectEvents`, TypeScript) | `lastSequence` per socket | ticket, open, message, close | events lost, late or repeated; a new socket forgets | no loss goes unnoticed; the host's picture has no hole |
| **Event URIs** (other SDKs) | none | mint a ticket, return a URI or a raw channel | the host counts for itself | one ticket, one socket |
| **Transfer operations** | a host's tunnel id, capabilities and keys | create, claim, declare, upload, download, cancel | retries after an ambiguous ending | what was done once is not done twice |
| **Base URL, timeout and pairing policy**, **Gleam builders**, **generic transports**, **placeholder clients** | none | checks, parsing, building requests | text | – |
| **Contract hardener: layout** (`scripts/harden_client_contract.py`) | `.zpkg.toml`, directories, markers | choose a directory per target, create, rewrite, mark, verify | manifests of any age, links, killed runs, a verify that selects again from what the run has changed | every target has a root of its own inside the repository; two runs settle it |
| **Contract hardener: contents** | generated files, `api-surface.json`, its fingerprint, markers, `contract-manifest.json` | fill, normalise, fingerprint, mark, record, verify | kills inside a write, edits between runs, loops that take a directory for finished | hand-written files stay; drift is never accepted; a second run writes nothing |
| **API surface** (`clients/api-surface.json`, kept by the hardener) | symbols with their members and metadata | add the standard symbols, enrich, refuse, write | metadata that one run pins and a later edit contradicts; maintainers who use a standard name | a run settles, adds only, and refuses for known reasons |
| **Contract verifier** (`scripts/verify_client_contract.py`) | none | compare everything the hardener maintains | a second implementation of what the hardener's `verify` reads, with other rules for links and places | it passes what a run leaves, and nothing `verify` would not but for what it never reads |
| **Client contract boundary** (`scripts/client_contract_boundary.py`) | none | collect public fragments and private names | members of either visibility in symbols of either visibility | with the run's checks, nothing private is reached from what is public over references the scripts look up |
| **Package and matrix validators** | none | compare manifest and directories with tables | the tables are not the hardener's | a run takes nothing away that they accepted |
| **FP conformance scanner** (`tools/fp-conformance`) | a budget file | mask comments and strings, match rules, compare with the budget | the order of the masks | no finding invented or hidden, none left out of the count |
| **require-send scanner and ESLint rule** (`.ores-lint`) | scopes with pending events | walk a program once | shadowing, nesting, fields, closures | what is reported was not sent |
| **Lint drivers, workflows, packaging, validation consumers, agent guides** | – | – | – | – |

How they interact:

- an SDK call is a function call of the host and one exchange with the server;
  SDKs never call each other and never retry: retrying is the host's;
- `connectEvents` calls the host back (`onSequenceGap`, `onEvent`, both in the
  same turn); the host answers with calls of the request exchange (a snapshot, a
  new ticket). The integration guide under `agents/skills` says what it must do;
- the hardener and the two verifiers share the file tree only; maintainers edit
  that tree between runs; the nightly job runs the hardener, the gate of CI runs
  the verifier;
- the hardener's `verify` calls the selection again, from the manifest and the
  tree its own run has written;
- `lint.sh` runs the scanner and ESLint on the same rule for different languages.

`PROJECT.json` lists every component with its status, and the hazards of this
code, each at its line, with the properties that would catch it going wrong.

## 2. The plan

The order is that of how much a failure costs and how little a test can reach.

| step | modules | abstract specification | status |
|---|---|---|---|
| 1 | `RequestLifecycle` | `BoundedCall`: what one call promises | done, proved |
| 2 | `EventSocket`, composed into `EventSync` with a service and a host | `EventSocket` alone, which the composition implements | done; safety proved |
| 3 | `TargetSelection`, composed into `HardenLayout` with a run around it | `TargetSelection` alone: a run starts it from where earlier runs ended | done, proved |
| 4 | `HardenContent` (which takes the directories as settled by 3) | – | done, proved |
| 5 | `RequireSend`: both analysers over one program | the program's own meaning is the reference | done, proved |
| 6 | `FpConformance`: the masks of the scanner, a step at a time, and the budget | a lexer of the scanned languages is the reference | done, proved |
| 7 | `TransferSession`: create, claim, declare, upload, download and cancel, with idempotency keys and the retry policy of the README | `BoundedCall` again, one instance per operation: retries do not show | done, proved |
| 8 | `ContractGate`: the hardener's `verify` and the stand-alone gate over one tree, with extension clients, links, shared directories and the entries of `.zpkg.toml` | each verifier is the other's reference | done, proved |
| 9 | `ApiSurface`: the symbols of the surface and the boundary test | what a user of the public surface sees is the reference | done, proved |
| 10 | the package validators in `HardenLayout` | – | done, proved |

Every safety invariant of the runs that pass is a theorem, for every value of the constants
(`SecondRunMarksAll` as far as links leave the canonical directories apart); section 5 says
along which argument, and what stays with TLC.

## 3. The modules

Names follow the source where TLA+ allows. Definitions under a comment `Fault:`
are no part of a model: each is a plausible mistake in the definition below it,
kept to show that a property would notice.

### BoundedCall and RequestLifecycle

`RequestLifecycle` is one call of one SDK. `sdk` is a variable that never
changes, so that a run compares the SDKs in `Sdks`. `phase` is where the host's
stack stands (`connecting`, `sending`, `awaiting` the head, `reading` the body,
`done`), `wire` the connection, `written` and `received` count chunks, `effect`
is what the server did, `elapsed` and `idle` are the two clocks a timer can be
on, and `result` is what the host got.

| in the model | in the code |
|---|---|
| `RustExpired` | reqwest's `timeout` and `connect_timeout` on the client builder |
| `TypeScriptExpired` | `AbortSignal.timeout` given to `fetch` |
| `DartExpired` | `Future.timeout` around `send`, which completes with the head |
| `JavaExpired` | `setConnectTimeout` and `setReadTimeout`, a fresh timer each |
| `SwiftExpired` | `timeoutIntervalForRequest` and `timeoutIntervalForResource` |
| `RustResult` … `SwiftResult` | how status and body become a value or an error |
| `SwallowsBodyFailure` | the catch-all around a problem document (Rust, TypeScript) |
| `EndsAtHeaders` | uploads and cancels whose answer is not read |
| `Expire`, `Break` | a timer fires; the connection breaks |

`BoundedCall` says the same without HTTP: a call ends within the timeout, and a
definite answer (a value, a refusal) is true of the server. `RequestLifecycle`
implements it under `Answer`, which maps a result and a status to `value`,
`refused` or `ambiguous`.

External, and assumed: the server decides only on a complete request; it answers
2xx only if it applied the request, 3xx and 4xx only if it refused it; a 5xx may
come from anything on the way and says nothing. Swift is modelled with the
session it builds itself, not with one the host passes in.

### EventSocket and EventSync

`EventSocket` is the message listener: `Message(n)` reports a skip, raises the
mark and passes the event on, in the order of the code. Any number may arrive at
any time, so the theorems about it hold for every order, loss and repetition.

`EventSync` composes it with a service that numbers events and may shed them for
a slow socket, a channel that keeps order, and a host that does what the
integration guide asks: a snapshot after every connect and every reported skip,
and events held back while one is under way, since a snapshot carries no number.
`unheard` collects the events that are shed from an open socket before it has
delivered any: with `lastSequence` at 0 the first number is never a skip
(`index.ts:234`), so that such a hole stays until the next snapshot, and the two
properties of the picture name it as their exception.
Service and host are external; only `EventSocket` is the repository's code.

### TargetSelection and HardenLayout

`TargetSelection` is the loop of `choose_target_dirs`, one target a step.
`choose_dir`, `Options`, `ReservedForAnother` and `Usable` are its helpers and
its checks; what a repository looks like (its manifest, what exists, where links
lead) is an input, `Starts`.

`HardenLayout` is a run of `--write` around that loop: `Selected`, `MakeDir`,
`EnsureManifest` (`Mature`, `Rewritten`), `Mark`, then `Verify`, which selects
again; `Finish` says what it found. `Kill` ends a run between any two steps.

`MatrixAccepts` and `PackageAccepts` are what `validate_client_matrix.py` and
`validate-zed-package.py` ask of the same manifest and directories. Their table
has places that the hardener would not choose for a new repository (`clients/go`
where it would make `clients/golang`); that the two live together rests on the
selection keeping what is declared, and on `Rewritten` declaring what was
selected. Two things seen on the way: a repository that only the hardener has
filled never passes the matrix validator, and where `clients/typescript` is
missing a run makes it as the parent of a runtime, passes the matrix validator
for a moment, and then declares the package elsewhere.

One run is not enough to leave every marker where `verify` looks: directories
it makes change what `verify` selects (`harden_client_contract.py:828`), which is
why `SecondRunMarksAll` speaks of two. Proving it showed two repositories for which
two are not enough either, and TLC confirmed both. A mature manifest is never
rewritten (`:785`); if it declares, for one target, the place where another is
repaired, that place is refused while the other's is not made and the choice
moves on once it is, so that each such entry can cost a run more (`Crossed` in
`MCHardenLayout`). And where another path is a link to `clients/typescript`, the run
leaves the marker of the shared package by the path it selected and `verify`
looks for it by the path that resolves (`:684`, `:1377`): no number of runs helps.
`Uncrossed` and `SharedUnlinked` exclude exactly these, and the instance has both.
`PackagingIsKept` has a condition of the same kind: if `clients/go` is a
link out of the repository, both validators accept it, as they ask only whether
it is a directory, and a run moves the target to `clients/golang`. `DeclaredInPlace`
says what must hold of the declared places when a run starts.

Two assumptions describe the inputs. `TableShape` is read off `TARGETS`: published targets
come first and have names that are nobody's alias, unpublished ones fall back on
`clients/typescript` and nothing else, and above a canonical directory there is
at most that one (`clients` itself is no place a target can have and is left
out of `Paths`). `TreesWellFormed` is what a file system gives: what is above
an existing directory exists, links that are followed need not be followed again, and
paths that lead to one missing place have the missing part in common.

### HardenContent

What the files hold: a cell is a file of a target's baseline, and holds nothing,
a torn write, an older template, the baseline, or what a maintainer wrote.
Surfaces are numbered versions, so that a fingerprint, a marker or a record is
the number of the surface it was made of. The steps of a `--write` run are those of
`run`: `EnterTarget` asks `has_product` once per target, `WriteFile` writes one
file, then `NormaliseSurface`, `WriteFingerprint`, `Mark` per target (which also
collects the evidence of its directory), `WriteRecord`, `Verify`. `--check` goes
straight to `Verify`. `CheckPasses` is the hardener's verification, `GatePasses`
that of `verify_client_contract.py`. `Kill` may strike anywhere, also inside a
write, which `Path.write_text` has then truncated.

### TransferSession

One hand-over through one client: six operations, of which each has what the host
was `told`, the `tries`, requests in `flight` and a `reply` on its way. What the
clients decide is in `KeyOf` (is a key sent, left out or rejected), `TakesKey`
and `Ready` (which handles come from which answers); the server and the hosts are
external: `Act` lets the server get to any request in flight at any time,
`MayRetry` is the retry policy of the README, `Look` the snapshot it asks for
before an upload is replayed.

Java and Swift take a key for `declareFile` only, TypeScript for creating too,
Rust and Dart take none, so that what may be retried differs by client. The two
exceptions the properties name are what the policy does not cover: `KeyDropped`
(TypeScript tests the key for truth, `index.ts:119`), and `ReplayRaces` (a
snapshot says that nothing is published while an upload that timed out is still
on its way).

### ContractGate

The tree between two verifiers. `stuff` is what a directory holds, `linked` which
directories are links, `place` where the selection puts a target; `direct`,
`nested` and `record` are what a run writes, and so are `manifest` (the targets of
`.zpkg.toml`), `matrix` and `schema`. A run has three stages, `Scaffold`, `Declare`
(`ensure_manifest` and `ensure_matrix`) and `Harden` (`ensure_contract`), and may be
killed after each of the first two. `HardenerErrors` is what the hardener's
`verify` says, by what it is about (`Complains`); `GateAccepts` is `main` of
`verify_client_contract.py`, both with the
places in which they differ: links, directories outside `clients/`, extension
clients of one kebab name, directories in which nothing counts as a source, and a
marker in a directory beside one in its `.zed-contracts`. The maintainers move,
change, remove, link and tamper; they declare further names, edit or remove the
schema and the matrix, and put an error into the surface (`Flaw`), with which a run
raises once the schema is copied.

`RunLeavesNoErrors` has three exceptions. A shared package that is a link; a mature
manifest, which `ensure_manifest` returns from without a look at its entries
(`:785`); and a name that is no target's (`Foreign`), which no run drops. The last two can leave two
entries with one directory, or an entry that leads outside, and then `verify`
has an error after every run (`:1356-1373`) that no run repairs.

The gate takes directories from the record and never from the manifest: after a
target is declared elsewhere it stays green until the next run, which is the
condition of `GateIsStricter`. It never reads the canonical schema, the matrix or the
entries of the manifest: a repository that passes it may have a schema that was edited, a matrix of
another fleet and two names for one directory, all of which `verify` refuses; the
conclusion of `GateIsStricter` names these three. In the full table a `MarkerLeftOver` takes a
repository in which all four TypeScript targets have once lived outside
`clients/typescript`.

`Apart` says that each target has a directory of its own. It is what the selection
gives (`RootsAreSound` of `TargetSelection`), so it is assumed of `Starts`
(`StartsWellFormed`) and asked of `Move`; without it one marker would have to name two
targets.

### ApiSurface

`symbols` is the file, in order, because an identifier is made of the place of a
declaration. `baseline_symbols`, `Merged`, `Enriched` and `Refused` are the
functions of the hardener; `Run` puts them together as `ensure_contract` does, and
writes nothing when the surface is refused. The identifier of a member is made of the
places on the way and its own name; its symbol's name is no part of it, since
`enrich_surface` recurses with the path (`:534`). `PublicFragments`, `PrivateNames`,
`Leaks` and `private_leak_canary` are `client_contract_boundary.py`. The
maintainers add, remove and rename symbols, show or hide them, add methods, make
them asynchronous, deprecate, and rename the package.

A name is a namespace, or none, and a word of `Words`. `SymbolType`, `MemberType` and
`RefType` are what `client-api.schema.json` lets a surface hold, and `SurfaceShape`
that what the maintainers write is of these types. `IdentifiersAreGiven` says that
they write no `documentationId` themselves: the script makes it from the place of
a declaration, and a surface from before the first run has none twice.

`RefusesOnlyFor` names two reasons that are not the maintainers' mistakes: a run
pins `documentationId` and `behavior`, so that a declaration that comes to the
place of an older one of its name gets an identifier that is taken, and a method
made asynchronous contradicts what was recorded of it. For the first an
overload put before an older method is enough, and so is one edit that looks
harmless: a class with a method `health`, inserted before `FtnlClient`.

`PublicViewIsClosed` is what the run and the boundary test give together. The test
alone does not: it collects names and looks them up among the private ones, and a
name that is declared nowhere is the run's to refuse. Neither of the two looks at the
name of a generic type or at the names in `implements`, although the docstring
of `boundary_errors` says that an empty result "means the public surface does not
name private types" (`client_contract_boundary.py:65`). The instance has a public class
that implements a private symbol, and the property excludes exactly these two forms.

### RequireSend

A program is written while it is analysed, one construct a step: a brace, an
event built and assigned, a second name for it, a send, a send at the end of a
chain, handing it over, the end of the file. `blocks` and `events` are what
the program means; `scanner` and `lint` are the scopes and the findings of
`require-send.mjs` and of `ores/require-send`. The two differ in what is a scope
(every brace, or functions only), in the name an event is filed by (`Assigned`:
the identifier before the `=`), in whether they look through chains and
arguments, and in that ESLint visits a call in a statement twice (`Consume`).

### FpConformance

`strip_noise` on one file, one replacement a step. `text` is what is left of a
line, each character with its place in the line (or none, for what a mask has put
there), `phase` the loop or `sub` that is next, `in_block` the only thing that passes
from line to line. Beside it runs a lexer (`After`): which characters are code,
and in `truth` whether a block comment is open. `Emit` looks for one character
in the masked line and in the code. `Gate` is `--budget` of `main`, `WriteBudget` is
`--write-budget`, and `Rescan` the next run, on a file that may have changed.

The masks can be right only on lines without a `Trap`: a comment's mark in a
string, a block's mark in a line comment, a line comment right after a
colon. `MaskIsExact` says that these are all the exceptions. A file is masked
wrongly for as long as the scanner is wrong about being in a block, so
`GateCatchesGrowth` asks for a file without traps (`exact`). It also asks for one
that is scanned: a file of more than 20000 lines is skipped (`fits`).

## 4. The runs

Every module with parameters has an `MC` module that gives them values.

| run | question | result |
|---|---|---|
| `request_whole_call` | do Rust, TypeScript and Swift bound the whole call, end it, tell the truth of the server, leave an abandoned request without effect, and keep the promise of `BoundedCall`? | yes (for Java, the two about the server: section 5) |
| `request_dart_stall` | does a Dart call always end? | no: the timeout ends with the response head, and a body that stalls is awaited for ever (`ftnl_client.dart:257`) |
| `event_sync` | with a host that follows the guide, is no loss silent, does the picture have no hole, is every report exact, and does the host catch up? | yes, except for what is shed before a socket's first event |
| `harden_layout` | from every manifest and tree of the instance: are roots distinct, inside, and kept for repair, does the selection never raise, do two runs mark everything unless manifest entries are crossed or the shared package is linked to, does a settled repository stay so, and do the package validators accept at every moment what they accepted at the start? | yes |
| `harden_content` | over three runs, kills, torn writes and two edits: does a complete run satisfy both verifiers, is no edit let through, does a run on a repository in order write nothing, do hand-written files stay? | yes |
| `harden_baseline` | does a run end with complete baselines? | no: one file of a baseline makes a target a product, and what a killed run left out stays out (`:870`) |
| `require_send` | do the analysers report only what was not sent, and forget only what shares its name? | yes, with the exceptions the properties name |
| `fp_conformance` | do the masks leave exactly the code, and does the gate catch what is new? | yes, on lines without a trap in files that are scanned |
| `transfer_session` | however late the server is and however often a host retries by the policy, does an operation take effect once, and are its retries together one call of `BoundedCall`? | yes, but for an empty key in TypeScript and an upload replayed on a snapshot that was overtaken |
| `contract_gate` | does a run leave nothing for its own `verify` to say, does the gate pass what a run leaves, and does `verify` pass what the gate passes? | yes, with the exceptions the properties name: a linked shared package and manifest entries no run repairs; five kinds of tree; a target declared elsewhere, and the three files the gate never reads |
| `api_surface` | does what a run adds settle at once, take nothing away and keep the boundary closed, does a run refuse for known reasons only, and is nothing private reached from the public surface? | yes; names of `implements` and of generic types are looked up by nothing |
| `fp_hidden` | and on any line? | no: a `/*` inside a string or a line comment hides the lines that follow (`fp_conformance.py:173`), as it does in the Rust and the Dart client |

The three runs that answer "no" are findings; `PROJECT.json` quotes for each the
sentence of the repository that says otherwise. The clients whose timer does not
bound a call are left out of `request_whole_call`: Dart, and Java, whose read timer
starts again with every byte and whose writes no timer covers
(`FtnlClient.java:174`), so that a call may outlive its timeout. The exceptions of
`ScannerReportsUnsent` are one more observation: the scanner of require-send
files an event assigned to a field by the field's last part and looks for it by
its full name (`require-send.mjs:332`), so that it reports one that was sent.

### Bounds, and why they are enough

- Requests: a timeout of 3 ticks, a connect timeout of 2, two chunks each way
  and clocks that stop at 8. A timer that is on progress and one that is on the
  whole call differ once there are two reads; 8 is past twice the timeout, so that
  a call that outlives it is seen to. The theorems have no such bounds.
- Events: five events, two sockets and one failed snapshot: a loss on each side
  of a snapshot, one between two sockets, and a skip noticed while another
  snapshot is under way.
- Layout: three rows of the table, chosen because each takes another way through
  the code (an alias directory, the owner of the shared TypeScript package, an
  unpublished runtime), some eighty manifests, all trees of six directories that are closed
  upwards. Some trees have a link: it joins two canonical directories, leads a
  canonical or a declared one out of the repository, or leads to the shared package.
  A mature manifest has three directories here and 13 in the code; one declares the
  places where others are repaired. One more manifest is
  as the package validators want it, with any tree. Each condition of the properties was
  dropped in turn, and TLC then found the repository it is there for. Three runs:
  two to settle and one to show that it lasts.
- Contents: the C target (three files, two of them sources) and the Zig target
  (a build file with an older template, a source), four trees, three runs, two
  edits. `HandFilesKept` and its companions are proved for any table and number.
- Hand-over: every client, a key that is absent, empty or proper, two tries of each
  operation: one request given up and one that follows it. The theorems have no bound.
- Gate: an ordinary target, a runtime with three possible places, two extensions
  whose names differ in case, five starts, three edits. A mature manifest has three
  directories here and 13 in the code; one start has such a manifest that declares the
  shared package twice, three more have an alias or an early name of the repository. An exception of
  `GateFollowsRun` takes at most two edits; each was dropped in turn, and TLC then
  found the tree it stands for.
- Surface: the nine standard symbols, two starts, three new symbols, three methods, two
  edits before, between or after runs. Each pinned reason of a refusal takes one edit
  after a run; two show how they combine.
- Programs: six constructs, two variables and a field, two events, three levels
  of blocks; at seven constructs (2.5 million states) the properties hold as well.

- Scanned files: two lines of up to five characters (four for `fp_hidden`), over
  the six kinds of characters the masks tell apart. Five hold a string with a
  comment's mark behind a colon, or a comment that opens, closes and is followed
  by code. `in_block`, `truth` and the counts are all that passes from one line to
  the next, so that two lines show every way they can meet.

`CHECK_DEADLOCK FALSE` is in the configurations whose behaviours end: a call that is
over, a bound that is used up, a program at its end.

### Fairness

- `RequestLifecycle` assumes of the runtime that time passes (`WF(Tick)`) and that a
  timer which is due fires (`WF(Expire)`); a tick is not possible while one is due. It
  assumes nothing of the network or the server: that a call ends (`KeepsPromise`,
  which includes the fairness of `BoundedCall`, and `CallSettles`) must come from the
  timers alone, which is what the README's request timeout is for.
- `EventSync` assumes that an open socket delivers what it carries and that a
  snapshot call is answered (which the timers of step 1 justify: it ends, and
  ends without an answer only `MaxFailures` times). Nothing makes the tunnel
  change or the host connect, and a socket may close at any time, which
  `CaughtUp` allows for.
- `TransferSession` assumes no fairness: hosts may give up, requests may be lost.
- The scripts and analysers have no liveness properties: a run may always be killed.

## 5. The proofs

All hold for every value of the constants that satisfies the `ASSUME`s of the
module; TLC evaluates those on its instances.

**RequestLifecycleProofs.** `TypeCorrect`. `WholeCallIsBounded`: if `Sdks` are
those with one deadline, `elapsed` never passes `Timeout`, since a tick is possible only
while no timer is due. `DefiniteAnswers`, for every SDK but Dart: the invariant
`CallConsistent` ties the phase, the status heard and the server's act together,
since what a result says of the server is only as true as the status it was
made from. `AbandonedNeverActs` for the SDKs that abort: `WireReleased` says that an
ended call has no connection and that the server acts on complete requests only.
`ImplementsBoundedCall`: initial states and steps of the SDKs with one deadline
are initial states, steps or stutters of `BoundedCall`.

**EventSyncProofs**, first of `EventSocket`. `SocketTypeCorrect`; `MarkCorrect`: the mark is the
highest number delivered; with it `NoLossIsSilent`: a number between a socket's
first and its mark was delivered or lies in a reported gap. If a message raises
the mark, everything between the old mark and the new one is in the gap it
reports; if not, nothing new is in question.

Then of the composition. `SyncImplementsSocket`: it implements `EventSocket`,
whose theorems therefore hold of it (`SyncLossIsNeverSilent`). What the environment adds is
order: `InOrder` says that a channel carries ascending numbers above the mark
and that a closed socket leaves nothing behind, from which `SyncReportsExact`
follows. `PictureNeverHasHoles` needs to know why the picture will be complete
before it is: `NothingMissing` says that each number up to where the socket stands
(`Passed`) is `Accounted` for: it is in the picture, or in the snapshot or the held
events about to become it, or the snapshot has not been taken yet, or the event was shed
unheard. A report of a skip asks for a snapshot in the step that creates the hole,
which is why the order inside the listener matters.

**HardenLayoutProofs**, first of `TargetSelection`. `SelectionTypeCorrect`, and `RootsSound` (distinct and
inside), for any table, manifest and links. `RepairPlacesAreKept`: as long as
no links join canonical directories, no target takes one that is another's.
`SelectionNeverRaises` rests on it: if a target must fall back to its canonical
directory, nobody before it has taken that.

Then the same three of whole runs: `LayoutRootsSound`,
`LayoutRepairPlacesKept`, `LayoutNeverRaises`, with `LayoutTypeCorrect`. A selection in
a run starts from a manifest and a tree that the run before has left, killed or not,
so the lemmas are stated of one step of `TargetSelection` from any typed state.
`LayoutInv` adds what a run keeps between its selections (`Complete`: while it makes
directories and writes markers, each target has its own, and no manifest is
rewritten from a half-filled selection) and which runs count (`Counted`).

The other three are about runs in a row: `TwoRunsAreEnough` (of `SecondRunMarksAll`, while
links leave the canonical directories apart), `RunsStaySettled` and
`RunsKeepPackaging`. The question behind them is when a selection that is made again
comes out the same, though making directories, rewriting the manifest and other
targets' choices lie in between. `PickFrom(i, claimed)` is the choice of one target as a
function of the tree, the manifest and what is taken, and a selection `V` that it
reproduces is `Fixed`, or `Steady` if only the places agree. The invariant `RunInv`
says of each phase what is known of it:

- `Selecting`: the loop has so far chosen what `PickFrom` says, and wherever a steady
  selection exists it is on the way there, by induction over the table.
- `Making`: what is selected exists or is a canonical directory. So `mkdir` makes nothing
  new but canonical directories and the shared package (`MakeCases`).
- `Keeping`: making a canonical directory moves no choice of a selection that has
  the target there (`OwnPlace`), which needs `Uncrossed`; making the shared package can,
  which is the one thing a first run may do to the next selection.
- `Prepares`: after a run the manifest declares existing directories and no alias
  (`Pinned`), or it is mature, and then the shared package exists or nothing is left to
  make. A killed run may leave neither, whence `completed` and not `runs`.
- `Marking`: in a second run the selection is steady once the manifest is written, so
  that `verify` arrives at the same places, and each marker is still there, since
  targets with roots of their own have markers of their own (`MarkersApart`).
- `Settled`: what verify was content with is fixed, and no alias is declared that
  a rewritten manifest would drop (`Migrated`).
- `Accepting`: an accepted manifest that is not mature selects each published target
  where it is declared (`AcceptedPicked`), and is then rewritten to itself
  (`RewritesNothing`).

`Rooted` carries `TreesWellFormed` along: a directory that exists is made again without
a change. TLC checked every part as an invariant of the instance before it was proved. In
`TwoRunsAreEnough`, `CanonicalDistinct` is the hypothesis that `RepairPlacesKept` and
`NeverRaises` state too; where links join canonical directories, that two runs are
enough stays with TLC.

**HardenContentProofs.** `RunsAreOrderly` proves the invariant `IInv`. The
properties are not inductive: a killed run renews part of the evidence, and one
must know that what is outdated stays so. `IInv` therefore says that the loops are where
their tables allow (`Loops`), that without an edit or a torn write since the last
record everything shows the current surface and contents (`Synced`), that an edit the
record does not show stays visible (`Shown`), that a repository in order when a run started still
is and the run has written nothing (`InOrder`, `Quiet`), and that a baseline file of the
sources makes a target a product (`Native`). The key lemmas are that contents
only ever grow (absent, then torn or older, then baseline, then a maintainer's), so that a
directory that differs from what was recorded differs for ever
(`OutdatedStays`), and one that is filled stays filled (`FilledStays`). From it:
`ContentTypeCorrect`, `CompleteRunsPass`, `GateSeesEveryEdit`,
`RerunsWriteNothing`, `HandFilesAreKept`.

**TransferSessionProofs.** `SessionTypeCorrect`; `NothingHappensTwice`;
`RetriesImplementOneCall`, the refinement of `BoundedCall` by an operation with all
its tries. That an operation has taken effect at most once is not inductive; what
makes it so (`SessionOrderly`) is where else a second effect could come from: with
a key the server remembers what it applied; without one only the last try can be in
flight, and nothing is once it took effect; and after a snapshot that says "empty"
no upload is under way, unless that is the exception. Verdicts on their way agree with what
the server remembers, which is what the refinement needs.

**LintProofs**, first of `RequireSend`. `AnalysersTypeCorrect`, `LintNeverForgets`,
`ScannerNeverForgets`, `LintIsRight` and `ScannerIsRight`, for programs of any size and depth, from
`AnalyserInv`. Its parts: the scopes of an analyser are as many as the open blocks it
sees (`Nested`, a count of a set for ESLint, which sees functions only), so that no
step closes a scope that is not there; names stand for events that exist
(`BoundBuilt`); an event is pending under its own name and in one place (`Filed`), so
that a use can settle no event but those of the name used; and what is pending is what
ESLint may report (`LintPendingRight`). The lemmas `ClearEffect`, `ConsumeEffect`,
`LeaveEffect` and `MarkEffect` say once what an operation does to a stack of scopes.
`ScannerIsRight` needs more (`ScannerInv`), because the scanner settles the innermost
event of a name and the name may stand for another one. Of two events pending under
the name they were assigned to, the one further in was built later and its variable
is not declared further out (`InOrder`); and a variable declared outside
the scope where its event is pending stands for that event or a later one
(`HomeKnown`), since a renaming binds in the innermost block only. Were an event sent
through its own variable and a later one settled instead, the later one would be that
same variable's, which then could not stand for the earlier one (`SendSettles`).

Then of `FpConformance`, for lines of any length and files of any number of lines:
`ScanTypeCorrect`, `MasksAreExact` and `GateCatches`, from `ScanInvariant`. That the
scanner and the lexer agree at the end of a line says nothing of the steps before it, so
`MaskedSoFar` says of each phase what must be left of a line without a trap when it is
reached:

- `Untouched`, before a block that was open is looked for: everything.
- `Unblocked`, while block comments are removed: up to some place `q` where the lexer is in
  code, everything but the block comments, which are blanks; from `q` on, everything.
- `Bare`, before line comments are cut: everything but block comments, and a block that
  stays open is cut off.
- `Masked`, while strings are replaced: the code of the line up to some place `p` is what
  the text shows before the cursor; behind the cursor comes what the earlier steps have left of the
  rest, moved by what the strings before it have lost; what was cut off has no code.
- `Exactly`: the code, and `in_block` is what the lexer says.

Each step is shown to lead from one to the next by a lemma about sequences (`RemovesInline`,
`OpensBlock`, `CutsLine`, `MasksString`, ...) and one about the state (`RemoveInlineStep`,
...). The first kind needs to know what the lexer makes of the characters that a
step has passed over: `ModesWalk` gives its modes as a walk from character to character, and
`BlockStays`, `BlockCloses`, `OutsideStays`, `LineStays` and `QuietStays` say how far a mode
lasts. This is where a trap would bite: `NoTrap` is used for the first mark that a step
finds, which is then in code. For strings, the scanner asks whether the run of backslashes before
a quote is even (`EndsIn`), the lexer whether the quote is escaped: `StringParity` shows the
two to be the same, a character at a time. `Counts` carries `seen = real` from
line to line while the masks have been exact, which is what the gate compares.

The modes of a line are a recursive function, and the library's theorems about induction and
recursive definitions are out of the provers' reach. What holds at each place of a line is
proved by taking the first place where it does not (`Climb`, from `Least`), and
`ModesEquation`, that `Modes` satisfies its own equation, by extending a function that
satisfies it on a prefix by one place.
TLC checked `ScanInv` on every file of two lines of up to five characters before it was proved.

**ContractGateProofs.** `GateTypeCorrect`, `CompleteRunsLeaveNoErrors`,
`GatePassesRuns` and `GateImpliesHardener`, for any table, directories, manifests and
number of edits, from `GateInv`. What a complete run has written is a function of the tree it
found as long as nothing was touched (`Written`), which holds because a scaffold leaves
nothing for another one to do (`Made`): `Harden` then records the evidence of
the tree that the verifiers will read. What it has left in `.zpkg.toml` is
`Registered`: a mature manifest, or each published target where it lives and no
alias, so that two names with one directory have a `Foreign` one among them. `GateIsStricter` must hold after edits, too.
It needs to know what a record can look like whatever became of the tree
(`RecordShape`: an entry is of a target or of an extension, and none of a
target lives below an extension), and which markers can be left over (`MarkersMade`). The
step from the gate to the hardener's `verify` is a counting argument: the gate
has accepted as many entries as there are targets and extensions (`PassedCount`), so
none that `verify` will ask for is missing.

**ApiSurfaceProofs.** `RunsSettle`, `SurfaceTypeCorrect`, `RunsOnlyAdd`,
`PublicViewClosed`, `RunsKeepBoundary` and `RefusalsExplained`, for surfaces of any length,
any edits and any number of them, from `SurfaceInvariant`. The inductive invariant
`SurfaceInv` is small: types, no two declarations with one identifier, and what
a run has left a run would neither change nor refuse (whence `PublicViewClosed`). That edits keep identifiers apart is
shown by following each declaration to the one it was (`IdsComeFrom`, `IdsKept`). The
rest are lemmas about what the functions of the script compute: `Extends` is what
`Merged` makes of a surface, by counting the standard names that are new
(`Counting`); `Enriches` what `Enriched` makes of a declaration; `HardenedOnce` that both
together are idempotent, on which `RunsSettle` and `SurfaceTypeCorrect` rest;
`EnrichedFrom` and `MergedFrom` say where a declaration of a hardened surface comes
from, by which each reason to refuse it is traced back to the surface before
the run (`HardenedNamesDiffer` to `HardenedIdsDiffer`, `NothingMissing`). `StandardAre`
says of the nine standard symbols what the others need: their kinds, and that what is
public among them refers to public ones.

**Only model-checked**: the liveness of `CaughtUp` and `KeepsPromise` (TLAPS has no
rules for fairness and ENABLED that would carry them), as `CallSettles` is only
refuted; and `SecondRunMarksAll` of `HardenLayout` where links join canonical directories. The
types of `EventSync`, `HardenLayout` and `RequireSend` are proved and left out of the runs. No
module declares a recursive operator.

## 6. What the models leave out

- Text: host names, paths, JSON documents, tokens and messages are members of
  small sets. A body is good, of the wrong shape, malformed or too big; a surface
  is raw, normal or invalid.
- In `RequestLifecycle`: which exception type carries an error, the headers,
  the second request of `connectEvents` (a ticket is one call like any other), and which
  3xx is a redirect to `fetch` (`redirect: "error"`): all are, in TypeScript. In
  `EventSocket`: messages that are no JSON, and an `onSequenceGap` that throws.
- In `HardenLayout`: the repository-wide target and the advisory lists. In
  `HardenContent`: the text of the templates (which files a target has is a table, with
  two targets in the instance), and what `ContractGate` and `HardenLayout` have: the schema
  copy, a maintainer's deletions, `ensure_manifest` and `ensure_matrix`. A target with an older template next to the sources of the
  same release is never migrated (`harden_client_contract.py:945` behind the
  return at `:870`); the run `harden_baseline` shows the return at work, but none
  states the migration.
- In `TransferSession`: the contents of descriptors and handles, and the events, which
  are `EventSync`'s. What the server does with a second upload of published content
  is left open.
- In `ContractGate`: contents of files (two sources that differ are `baseline` and
  `edited`), kills inside a write and a fingerprint that was edited (`HardenContent` has
  them), how a directory is selected from what the manifest declares
  (`TargetSelection`: a declared name moves no target but its own), a `.zpkg.toml` or a
  JSON document that is missing or malformed (the scripts raise, or report that and
  stop). An edited surface is one that a run refuses or it is not edited; an edited
  schema keeps its `$id`, and the surface is valid against it. In `ApiSurface`: types other
  than by the names they refer to, `auth`, values that the JSON schema refuses.
- Of the validators: native manifests, adapters, `clients/sdk-matrix.json`, packed
  artifacts, the lock file, and the imports of the validation consumers.
- In `RequireSend`: the tokenizer, suppressing comments, chains that are complete in one
  expression, and which roots are taken for loggers.
- In `FpConformance`: the patterns of the rules (one rule that looks for one
  character stands for all), which files are scanned and which paths are
  softened, long functions and oversized modules,
  `--fail-on`, a budget file that is missing (nothing is compared then); of the
  languages, quotes of more than one kind, strings over several lines and nested
  block comments.
- Components with status `not_modelled` in `PROJECT.json`, each with its reason: pure
  parsing and policy, generated placeholders, workflows and shell drivers have no
  state whose order could be wrong; the generic transports make one blocking call each,
  and what their one timeout covers is decided inside the library they call.
