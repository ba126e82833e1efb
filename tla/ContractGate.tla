----------------------------- MODULE ContractGate -----------------------------
(***************************************************************************)
(* Two verifiers over one tree: the hardener's own verify, which ends each *)
(* of its runs, and the stand-alone gate, verify_client_contract.py.       *)
(* Maintainers move targets, add and remove client directories, put links  *)
(* in them, declare further names in the manifest and edit what a run has  *)
(* generated; a run rewrites the manifest and the matrix and writes the    *)
(* schema, a marker per directory and the record both verifiers read.      *)
(* HardenContent has the contents of the files and the kills inside a      *)
(* write, TargetSelection and HardenLayout the choice of a directory (here *)
(* "place"); this module has what they leave out: shared and nested        *)
(* directories, extension clients, links, the dependencies and the entries *)
(* of the manifest that no run touches.                                    *)
(***************************************************************************)
EXTENDS Naturals, FiniteSets

CONSTANTS
  Rows,        \* the targets of the standard matrix
  RuntimeOf,   \* [Rows -> runtimes]: the spec's runtime, or NoRuntime
  NoRuntime,
  Dirs,        \* the directories in play
  Under,       \* [Dirs -> SUBSET Dirs]: a directory with those inside it
  Clients,     \* the directories below clients/
  Children,    \* the directories immediately below clients/
  Shared,      \* clients/typescript
  Kebab,       \* [Children -> names]: kebab of the directory's name
  Places,      \* [Rows -> SUBSET Dirs]: where the selection may put a target
  Names,       \* the names of targets in .zpkg.toml
  Published,   \* the targets a run declares there, each under its name
  Aliases,     \* the names it drops
  MatureAt,    \* MINIMUM_TARGETS - 2: directories of a mature manifest
  NoDir, Outside, Root,  \* no directory, one outside the repository, "."
  Starts,      \* what the first run may find: [place, stuff, linked, manifest]
  MaxEdits     \* bound: the maintainers' edits

\* The matrix is a table, in which no two targets have one runtime; a child of
\* clients/ holds no other, and what is below a client is below clients/.
ASSUME GateShape ==
  /\ IsFiniteSet(Rows) /\ IsFiniteSet(Dirs)
  /\ RuntimeOf \in [Rows -> STRING] /\ NoRuntime \in STRING
  /\ \A r, q \in Rows : RuntimeOf[r] = RuntimeOf[q] => r = q \/ RuntimeOf[r] = NoRuntime
  /\ Under \in [Dirs -> SUBSET Dirs] /\ \A d \in Dirs : d \in Under[d]
  /\ Children \subseteq Clients /\ Clients \subseteq Dirs /\ Shared \in Children
  /\ \A d \in Clients : Under[d] \subseteq Clients
  /\ \A c, d \in Children : c \in Under[d] => c = d
  /\ Kebab \in [Children -> STRING]
  /\ Places \in [Rows -> SUBSET Dirs]
  /\ MaxEdits \in Nat /\ MatureAt \in Nat
  /\ Published \subseteq Rows \cap Names /\ Aliases \subseteq Names \ Published
  /\ "repository" \in Names /\ "repository" \notin Published \cup Aliases
  /\ "contract" \notin Published \cup Aliases
  /\ {NoDir, Outside, Root} \cap Dirs = {}
  /\ NoDir # Outside /\ NoDir # Root /\ Outside # Root

VARIABLES
  place,     \* the directory the selection gives each target
  stuff,     \* what a directory holds, or "absent"
  linked,    \* directories that are links to a place elsewhere in the repository
  deps,      \* the *-interfaces dependencies of .zpkg.toml
  surface,   \* the dependencies api-surface.json was made for, or "absent"
  direct,    \* the marker in a directory
  nested,    \* the markers in clients/typescript/.zed-contracts, by runtime
  record,    \* contract-manifest.json
  manifest,  \* .zpkg.toml: the directory of each name
  matrix,    \* client-contract-matrix.json: the standard fleet, another or none
  schema,    \* client-api.schema.json, against the canonical one
  flawed,    \* has api-surface.json been edited into one that a run refuses?
  stage,     \* "idle", or what a run has done: "scaffolded", "declared"
  fresh,     \* has nothing been touched since the last complete run?
  edits      \* edits so far

tree == <<place, stuff, linked>>
contract == <<surface, direct, nested, record>>
metadata == <<manifest, matrix, schema, flawed>>
vars == <<tree, deps, contract, metadata, stage, fresh, edits>>

\* "notes": files in a source root that are no source; "link": sources, one of
\* them a link.
Stuff == {"absent", "nothing", "notes", "baseline", "edited", "link"}
Versions == {"v1", "v2"}
Matrices == {"fleet", "other", "absent"}
\* "edited": valid, of the same $id, and what the surface is valid against.
Schemas == {"canonical", "edited", "absent"}
Directories == Dirs \cup {NoDir, Outside, Root}

\* A marker names its target and its surface; "intact" is FALSE once a field that
\* the hardener does not compare has been edited.
None == [target |-> <<"none", "none">>, surface |-> "none", intact |-> FALSE]
MarkerOf(t, s) == [target |-> t, surface |-> s, intact |-> TRUE]

Exists(d) == stuff[d] # "absent"

\* The selection gives each target a directory of its own.
Apart(p) == \A r, q \in Rows : p[r] = p[q] => r = q

ASSUME StartsWellFormed ==
  \A start \in Starts :
    /\ start.place \in [Rows -> Dirs] /\ Apart(start.place)
    /\ start.stuff \in [Dirs -> Stuff] /\ start.linked \subseteq Dirs
    /\ start.manifest \in [Names -> Directories]

-----------------------------------------------------------------------------
(* What both scripts compute from the tree. *)

\* Files that count: SOURCE_SUFFIXES and the metadata names, through links to
\* files but not through links to directories.
Evidence(d) ==
  {<<x, stuff[x]>> : x \in {y \in Under[d] : /\ stuff[y] \in {"baseline", "edited", "link"}
                                            /\ y \notin linked \ {d}}}

\* Client directories no standard target lives in or below.
Extensions == {d \in Children : Exists(d) /\ \A r \in Rows : place[r] \notin Under[d]}

\* A runtime in the shared TypeScript package has its marker in a directory of
\* its own there.
Nests(r, d) == RuntimeOf[r] # NoRuntime /\ d = Shared

ExtensionName(d) == <<"extension", Kebab[d]>>
TargetName(r) == <<"standard", r>>

\* Children that neither hold nor are a directory of the record.
Uncovered == {d \in Children : Exists(d) /\ \A e \in record.entries : e.dir \notin Under[d]}

-----------------------------------------------------------------------------
(* The hardener. *)

\* Fault: a directory that is not there is not made.
ScaffoldedIfThere(d, own) ==
  IF d \in own /\ stuff[d] = "nothing" THEN "baseline" ELSE stuff[d]

\* Directories are made, and empty ones get a baseline, but the shared package.
Scaffolded(d, own) ==
  IF d \in own /\ stuff[d] \in {"absent", "nothing"}
  THEN IF \E r \in Rows : place[r] = d /\ Nests(r, d) THEN "nothing" ELSE "baseline"
  ELSE stuff[d]

Scaffold ==
  /\ stage = "idle"
  /\ stage' = "scaffolded"
  /\ stuff' = [d \in Dirs |-> Scaffolded(d, {place[r] : r \in Rows})]
  /\ UNCHANGED <<place, linked, deps, contract, metadata, fresh, edits>>

Configured == {n \in Names : manifest[n] \notin {NoDir, Root}}

\* A manifest with enough directories, all below clients/, is left alone.
Mature ==
  /\ Cardinality(Configured) >= MatureAt
  /\ \A n \in Configured : manifest[n] \in Clients

\* Fault: aliases stay.
RewrittenWithAliases ==
  [n \in Names |->
    CASE n = "repository"                        -> Root
      [] n \in Published                         -> place[n]
      [] n = "contract" /\ manifest[n] = Root    -> NoDir
      [] OTHER                                   -> manifest[n]]

\* Published targets are declared where they live, aliases go, and so does an
\* early name for the whole repository; every other name stays what it is.
Rewritten ==
  [n \in Names |->
    CASE n = "repository"                        -> Root
      [] n \in Published                         -> place[n]
      [] n \in Aliases                           -> NoDir
      [] n = "contract" /\ manifest[n] = Root    -> NoDir
      [] OTHER                                   -> manifest[n]]

\* ensure_manifest and ensure_matrix.
Declare ==
  /\ stage = "scaffolded"
  /\ stage' = "declared"
  /\ manifest' = IF Mature THEN manifest ELSE Rewritten
  /\ matrix' = "fleet"
  /\ UNCHANGED <<tree, deps, contract, schema, flawed, fresh, edits>>

EntryOf(target, runtime, d) ==
  [target |-> target, runtime |-> runtime, dir |-> d, evidence |-> Evidence(d)]

\* ensure_contract: the schema, and unless it raises the surface, a marker per
\* target and extension and the record.  Markers of an earlier layout are left
\* where they are.
Harden ==
  /\ stage = "declared"
  /\ stage' = "idle"
  /\ schema' = "canonical"
  /\ IF deps = "none" \/ flawed
     THEN UNCHANGED <<contract, fresh>>
     ELSE /\ surface' = deps
          /\ direct' = [d \in Dirs |->
               IF d \in Extensions THEN MarkerOf(ExtensionName(d), deps)
               ELSE IF \E r \in Rows : place[r] = d /\ ~ Nests(r, d)
                    THEN MarkerOf(TargetName(CHOOSE r \in Rows : place[r] = d), deps)
                    ELSE direct[d]]
          /\ nested' = [r \in Rows |-> IF Nests(r, place[r])
                                       THEN MarkerOf(TargetName(r), deps) ELSE nested[r]]
          /\ record' = [surface |-> deps,
                        entries |-> {EntryOf(TargetName(r), RuntimeOf[r], place[r]) : r \in Rows}
                               \cup {EntryOf(ExtensionName(d), d, d) : d \in Extensions}]
          /\ fresh' = TRUE
  /\ UNCHANGED <<tree, deps, manifest, matrix, flawed, edits>>

\* A run that is killed on the way.
Kill ==
  /\ stage \in {"scaffolded", "declared"}
  /\ stage' = "idle"
  /\ UNCHANGED <<tree, deps, contract, metadata, fresh, edits>>

\* Where verify looks for a target's marker: it has resolved the directory.
VerifiedMarker(r) ==
  IF Nests(r, place[r]) /\ place[r] \notin linked THEN nested[r] ELSE direct[place[r]]

\* The fields of a marker that verify compares.
Matches(marker, target) ==
  marker.target = target /\ marker.surface = surface /\ ~ flawed

\* The directories whose evidence the record no longer matches.
Drifted == {e \in record.entries : Exists(e.dir) /\ e.evidence # Evidence(e.dir)}

\* A name that leads outside the repository or where another leads.
Unsound(n) ==
  \/ manifest[n] = Outside
  \/ manifest[n] # NoDir /\ \E m \in Names \ {n} : manifest[m] = manifest[n]

\* What verify can say, and when it says it.
Complaints == {"schema", "surface", "entries", "targets", "extensions", "record",
               "drift", "coverage", "matrix"}
Complains(about) ==
  \/ about = "schema" /\ schema # "canonical"
  \/ about = "surface" /\ flawed
  \/ about = "entries" /\ \E n \in Names : Unsound(n)
  \/ about = "targets" /\ \E r \in Rows :
        ~ (Exists(place[r]) /\ Matches(VerifiedMarker(r), TargetName(r)))
  \/ about = "extensions" /\ \E d \in Extensions : ~ Matches(direct[d], ExtensionName(d))
  \/ about = "record"
       /\ Cardinality(record.entries) # Cardinality(Rows) + Cardinality(Extensions)
  \/ about = "drift" /\ Drifted # {}
  \/ about = "coverage" /\ Uncovered # {}
  \/ about = "matrix" /\ matrix # "fleet"

\* Without a schema or a surface verify says that and no more.
HardenerErrors ==
  IF schema = "absent" THEN {"schema"}
  ELSE IF surface = "absent" THEN {"surface"}
  ELSE {about \in Complaints : Complains(about)}

-----------------------------------------------------------------------------
(* The gate. *)

\* resolve_inside: below clients/, and no link on the way.
ResolvesInside(d) == d \in Clients /\ d \notin linked

\* implementation_evidence: no link at all among what it looks at.
FreeOfLinks(d) ==
  \A x \in Under[d] : Exists(x) => stuff[x] # "link" /\ x \notin linked

\* Fault: the markers in the shared package are not looked for.
DirectMarker(e) == direct[e.dir]

\* marker_root: a marker in the directory itself comes before a nested one.
GateMarker(e) ==
  LET runtimes == {r \in Rows : e.dir = Shared /\ RuntimeOf[r] = e.runtime /\ nested[r] # None}
  IN  IF direct[e.dir] = None /\ runtimes # {}
      THEN nested[CHOOSE r \in runtimes : TRUE] ELSE direct[e.dir]

\* Fault: what the record says of a directory is taken on trust.
EntryTrusted(e) ==
  /\ ResolvesInside(e.dir) /\ Exists(e.dir) /\ FreeOfLinks(e.dir)
  /\ e.target[1] = "standard" => e.evidence # {}
  /\ GateMarker(e) = MarkerOf(e.target, surface)

EntryAccepted(e) ==
  /\ ResolvesInside(e.dir) /\ Exists(e.dir) /\ FreeOfLinks(e.dir)
  /\ e.target[1] = "standard" => e.evidence # {}
  /\ e.evidence = Evidence(e.dir)
  /\ GateMarker(e) = MarkerOf(e.target, surface)

\* The surface is valid against the schema that is there, and has its fingerprint;
\* neither the canonical schema, nor the matrix, nor the manifest's targets are read.
GateAccepts ==
  /\ schema # "absent" /\ surface # "absent" /\ ~ flawed
  /\ record.surface = surface
  /\ deps = surface
  /\ \A e, f \in record.entries : e.target = f.target => e = f
  /\ \A e \in record.entries : EntryAccepted(e)
  /\ Uncovered = {}

-----------------------------------------------------------------------------
(* The maintainers, between runs. *)

Edit ==
  /\ stage = "idle"
  /\ edits < MaxEdits
  /\ edits' = edits + 1
  /\ fresh' = FALSE
  /\ UNCHANGED stage

\* A target is declared at another directory that exists and is no other target's.
Move(r, d) ==
  /\ Edit
  /\ r \in Published /\ d \in Places[r] \ {place[r]} /\ Exists(d)
  /\ place' = [place EXCEPT ![r] = d]
  /\ Apart(place')
  /\ manifest' = [manifest EXCEPT ![r] = d]
  /\ UNCHANGED <<stuff, linked, deps, contract, matrix, schema, flawed>>

\* A name that is no target's, and that no run drops.
Foreign == Names \ (Published \cup Aliases \cup {"repository"})

\* Such a name is declared, declared elsewhere or removed.
Name(n, d) ==
  /\ Edit
  /\ n \in Foreign /\ d # manifest[n]
  /\ manifest' = [manifest EXCEPT ![n] = d]
  /\ UNCHANGED <<tree, deps, contract, matrix, schema, flawed>>

\* The generated files that only verify compares are edited or removed.
EditSchema(v) ==
  /\ Edit
  /\ v \in Schemas \ {"canonical", schema}
  /\ schema' = v
  /\ UNCHANGED <<tree, deps, contract, manifest, matrix, flawed>>

EditMatrix(v) ==
  /\ Edit
  /\ v \in Matrices \ {"fleet", matrix}
  /\ matrix' = v
  /\ UNCHANGED <<tree, deps, contract, manifest, schema, flawed>>

\* The surface gets an error, or loses the one it had.
Flaw ==
  /\ Edit
  /\ surface # "absent"
  /\ flawed' = ~ flawed
  /\ UNCHANGED <<tree, deps, contract, manifest, matrix, schema>>

\* Files come, go and change; a directory appears where there was none.
Change(d, s) ==
  /\ Edit
  /\ s \in {"nothing", "notes", "edited", "link"} \ {stuff[d]}
  /\ \A x \in Dirs \ {d} : d \in Under[x] => Exists(x)
  /\ stuff' = [stuff EXCEPT ![d] = s]
  /\ UNCHANGED <<place, linked, deps, contract, metadata>>

\* A directory no target lives in is removed, with its marker.
Remove(d) ==
  /\ Edit
  /\ Exists(d) /\ \A r \in Rows : place[r] \notin Under[d]
  /\ d # Shared
  /\ stuff' = [x \in Dirs |-> IF x \in Under[d] THEN "absent" ELSE stuff[x]]
  /\ direct' = [x \in Dirs |-> IF x \in Under[d] THEN None ELSE direct[x]]
  /\ linked' = linked \ Under[d]
  /\ UNCHANGED <<place, deps, surface, nested, record, metadata>>

\* A directory moves elsewhere and leaves a link behind.
Link(d) ==
  /\ Edit
  /\ Exists(d) /\ d \notin linked
  /\ linked' = linked \cup {d}
  /\ UNCHANGED <<place, stuff, deps, contract, metadata>>

\* A generated marker is edited by hand.
Tamper(d) ==
  /\ Edit
  /\ direct[d].intact
  /\ direct' = [direct EXCEPT ![d].intact = FALSE]
  /\ UNCHANGED <<tree, deps, surface, nested, record, metadata>>

\* The interfaces the package depends on change.
Depend(v) ==
  /\ Edit
  /\ v \in Versions \cup {"none"} /\ v # deps
  /\ deps' = v
  /\ UNCHANGED <<tree, contract, metadata>>

-----------------------------------------------------------------------------
Init ==
  /\ \E start \in Starts : /\ place = start.place
                           /\ stuff = start.stuff
                           /\ linked = start.linked
                           /\ manifest = start.manifest
  /\ deps = "v1" /\ surface = "absent"
  /\ direct = [d \in Dirs |-> None]
  /\ nested = [r \in Rows |-> None]
  /\ record = [surface |-> "absent", entries |-> {}]
  /\ matrix = "absent" /\ schema = "absent" /\ flawed = FALSE
  /\ stage = "idle" /\ fresh = FALSE /\ edits = 0

Next ==
  \/ Scaffold \/ Declare \/ Harden \/ Kill
  \/ \E r \in Rows, d \in Dirs : Move(r, d)
  \/ \E d \in Dirs : \/ Remove(d) \/ Link(d) \/ Tamper(d)
                     \/ \E s \in Stuff : Change(d, s)
  \/ \E v \in Versions \cup {"none"} : Depend(v)
  \/ \E n \in Names, d \in Directories : Name(n, d)
  \/ (\E v \in Schemas : EditSchema(v)) \/ (\E v \in Matrices : EditMatrix(v)) \/ Flaw

Spec == Init /\ [][Next]_vars

-----------------------------------------------------------------------------
(* Properties *)

Targets == {TargetName(r) : r \in Rows} \cup {ExtensionName(d) : d \in Children}
Markers == {None} \cup [target : Targets, surface : Versions, intact : BOOLEAN]
Entries == [target : Targets, runtime : {RuntimeOf[r] : r \in Rows} \cup Children,
            dir : Dirs, evidence : SUBSET (Dirs \X Stuff)]

\* Values have their types; the record and the surface appear together; in the
\* middle of a run every target has its directory.
TypeOK ==
  /\ place \in [Rows -> Dirs] /\ stuff \in [Dirs -> Stuff] /\ linked \subseteq Dirs
  /\ deps \in Versions \cup {"none"}
  /\ surface \in Versions \cup {"absent"}
  /\ direct \in [Dirs -> Markers] /\ nested \in [Rows -> Markers]
  /\ record.surface = surface /\ record.entries \subseteq Entries
  /\ manifest \in [Names -> Directories]
  /\ matrix \in Matrices /\ schema \in Schemas /\ flawed \in BOOLEAN
  /\ stage \in {"idle", "scaffolded", "declared"}
  /\ fresh \in BOOLEAN /\ edits \in 0..MaxEdits
  /\ stage # "idle" => \A r \in Rows : Exists(place[r])

\* The shared package is a link: the run compares its name with
\* clients/typescript, verify the name of what the link leads to.
SharedIsLink == \E r \in Rows : Nests(r, place[r]) /\ place[r] \in linked

\* After a complete run verify has nothing to say, wherever the targets live,
\* whatever was there before and whatever earlier runs have left: ensure_contract
\* writes, for shared, nested and extension directories alike, what verify reads.
\* The exceptions are a shared TypeScript package behind a link and manifest
\* entries no run repairs: those of a mature manifest, which it leaves as it is,
\* and a name of no target that leads outside or where another name leads.
RunLeavesNoErrors ==
  fresh /\ ~ SharedIsLink =>
    /\ HardenerErrors \subseteq {"entries"}
    /\ "entries" \in HardenerErrors => Mature \/ \E n \in Foreign : Unsound(n)

\* Why the gate may reject what a run has just written and verified: a link in
\* the tree, a target outside clients/, two client directories of one kebab name,
\* a target without a file that counts (the scaffold sees any file, the evidence
\* only sources), or a marker left from when clients/typescript was an extension.
LinkInTree == \E d \in Clients : d \in linked \/ stuff[d] = "link"
OutsideClients == \E r \in Rows : place[r] \notin Clients
KebabClash == \E d, e \in Extensions : d # e /\ Kebab[d] = Kebab[e]
NothingCounts == \E r \in Rows : Evidence(place[r]) = {}
MarkerLeftOver == \E r \in Rows : Nests(r, place[r]) /\ direct[Shared] # None

\* The gate passes a tree that a complete run has left, which the two scripts
\* promise by sharing the record, with the five exceptions named above and no
\* other.
GateFollowsRun ==
  fresh => \/ GateAccepts
           \/ LinkInTree \/ OutsideClients \/ KebabClash \/ NothingCounts \/ MarkerLeftOver

\* Is every target in the record, at the directory where it lives?
InPlace ==
  \A r \in Rows : \E e \in record.entries : e.target = TargetName(r) /\ e.dir = place[r]

\* In a tree that the gate passes verify finds nothing wrong with the surface, the
\* markers, the record and the sources either, after any edits, as long as no
\* target was declared at another directory: the gate reads the directories from
\* the record and not from the manifest.  What verify may still say is of the
\* three things the gate never looks at: an edited schema, the names in the
\* manifest and the matrix.
GateIsStricter ==
  GateAccepts /\ InPlace => HardenerErrors \subseteq {"schema", "entries", "matrix"}
=============================================================================
