------------------------- MODULE ContractGateProofs -------------------------
(***************************************************************************)
(* Proofs about the two verifiers for every matrix, every tree and any     *)
(* number of edits and runs.                                               *)
(***************************************************************************)
EXTENDS ContractGate, FiniteSetTheorems, FunctionTheorems, TLAPS

\* What a complete run has written, as long as nothing was touched since.
Written ==
  fresh =>
    /\ deps # "none" /\ surface = deps /\ schema = "canonical" /\ ~ flawed
    /\ \A d \in Extensions : direct[d] = MarkerOf(ExtensionName(d), deps)
    /\ \A r \in Rows : ~ Nests(r, place[r]) => direct[place[r]] = MarkerOf(TargetName(r), deps)
    /\ \A r \in Rows : Nests(r, place[r]) => nested[r] = MarkerOf(TargetName(r), deps)
    /\ record.entries = {EntryOf(TargetName(r), RuntimeOf[r], place[r]) : r \in Rows}
                   \cup {EntryOf(ExtensionName(d), d, d) : d \in Extensions}

\* The scaffold has left nothing for another one to do.
Made ==
  fresh \/ stage # "idle" =>
    \A r \in Rows : /\ Exists(place[r])
                    /\ stuff[place[r]] = "nothing" => Nests(r, place[r])

\* The matrix is the fleet's, and the manifest mature or what a run makes of it.
Registered ==
  fresh \/ stage = "declared" => matrix = "fleet" /\ (Mature \/ manifest = Rewritten)

\* An entry is of a target or of an extension, and no target of the record
\* lives in or below an extension of the record.
OfRow(e, r) == e.target = TargetName(r) /\ e.runtime = RuntimeOf[r]
OfExtension(e) == e.dir \in Children /\ e.target = ExtensionName(e.dir)
RecordShape ==
  /\ \A e \in record.entries : OfExtension(e) \/ \E r \in Rows : OfRow(e, r)
  /\ \A e, f \in record.entries : \A r \in Rows :
       OfRow(e, r) /\ OfExtension(f) => e.dir \notin Under[f.dir]

\* Only a runtime has a nested marker, and it has no other in the shared package.
MarkersMade ==
  /\ \A r \in Rows : nested[r] # None => /\ nested[r].target = TargetName(r)
                                         /\ RuntimeOf[r] # NoRuntime
  /\ \A d \in Dirs, r \in Rows : direct[d].target = TargetName(r) => ~ Nests(r, d)

GateInv ==
  TypeOK /\ Apart(place) /\ Written /\ Made /\ Registered /\ RecordShape /\ MarkersMade

-----------------------------------------------------------------------------
(* Names, markers and evidence. *)

\* Names of targets differ from each other, and from those of extensions.
LEMMA NamesApart ==
  /\ \A r, q : TargetName(r) = TargetName(q) => r = q
  /\ \A r, d : TargetName(r) # ExtensionName(d)
  /\ \A r : TargetName(r) # None.target
BY DEF TargetName, ExtensionName, None

\* A marker keeps what it was made of, and differs from none.
LEMMA MarkerFields ==
  \A t, s : /\ MarkerOf(t, s).target = t /\ MarkerOf(t, s).surface = s
            /\ MarkerOf(t, s).intact = TRUE /\ MarkerOf(t, s) # None
<1> SUFFICES ASSUME NEW t, NEW s
             PROVE  /\ MarkerOf(t, s).target = t /\ MarkerOf(t, s).surface = s
                    /\ MarkerOf(t, s).intact = TRUE /\ MarkerOf(t, s) # None
  OBVIOUS
<1>1. MarkerOf(t, s).target = t /\ MarkerOf(t, s).surface = s /\ MarkerOf(t, s).intact = TRUE
  BY DEF MarkerOf
<1>2. None.intact = FALSE
  BY DEF None
<1> QED
  BY <1>1, <1>2

\* A marker of a target and a surface is a marker.
LEMMA MarkerTyped ==
  ASSUME NEW t \in Targets, NEW s \in Versions
  PROVE  MarkerOf(t, s) \in Markers
BY DEF MarkerOf, Markers

\* The names of the table's targets and of the extensions are targets.
LEMMA TargetTyped ==
  /\ \A r \in Rows : TargetName(r) \in Targets
  /\ \A d \in Children : ExtensionName(d) \in Targets
BY DEF Targets

\* An entry has what it was made of.
LEMMA EntryFields ==
  \A t, u, d : LET e == EntryOf(t, u, d) IN
    e.target = t /\ e.runtime = u /\ e.dir = d /\ e.evidence = Evidence(d)
BY DEF EntryOf

\* Evidence is a set of files with their contents.
LEMMA EvidenceTyped ==
  ASSUME TypeOK
  PROVE  \A d \in Dirs : Evidence(d) \in SUBSET (Dirs \X Stuff)
BY GateShape DEF TypeOK, Evidence

\* An extension is a directory with something in it where no target lives.
LEMMA ExtensionsAre ==
  /\ Extensions \subseteq Children /\ Extensions \subseteq Dirs
  /\ \A d \in Extensions : Exists(d) /\ \A r \in Rows : place[r] \notin Under[d] /\ place[r] # d
BY GateShape DEF Extensions

\* A union of two families without repetition has as many members as both.
LEMMA TwoFamilies ==
  ASSUME NEW A, NEW B, IsFiniteSet(A), IsFiniteSet(B), NEW f, NEW g,
         \A a, b \in A : f[a] = f[b] => a = b,
         \A a, b \in B : g[a] = g[b] => a = b,
         \A a \in A, b \in B : f[a] # g[b]
  PROVE  Cardinality({f[a] : a \in A} \cup {g[b] : b \in B}) = Cardinality(A) + Cardinality(B)
<1> DEFINE F == {f[a] : a \in A}
           G == {g[b] : b \in B}
<1>1. IsFiniteSet(F) /\ Cardinality(F) = Cardinality(A)
  <2>1. [a \in A |-> f[a]] \in Bijection(A, F)
    BY DEF Bijection, Injection, Surjection, IsInjective
  <2> QED
    BY <2>1, FS_Bijection DEF ExistsBijection
<1>2. IsFiniteSet(G) /\ Cardinality(G) = Cardinality(B)
  <2>1. [b \in B |-> g[b]] \in Bijection(B, G)
    BY DEF Bijection, Injection, Surjection, IsInjective
  <2> QED
    BY <2>1, FS_Bijection DEF ExistsBijection
<1>3. Cardinality(F \cap G) = 0
  <2>1. F \cap G = {}
    OBVIOUS
  <2> HIDE DEF F, G
  <2> QED
    BY <2>1, FS_EmptySet
<1>4. Cardinality(A) \in Nat /\ Cardinality(B) \in Nat
  BY FS_CardinalityType
<1> HIDE DEF F, G
<1>5. Cardinality(F \cup G) = Cardinality(F) + Cardinality(G) - Cardinality(F \cap G)
  BY <1>1, <1>2, FS_Union
<1>6. Cardinality(F \cup G) = Cardinality(A) + Cardinality(B)
  BY <1>1, <1>2, <1>3, <1>4, <1>5
<1> QED
  BY <1>6 DEF F, G

-----------------------------------------------------------------------------
(* The types. *)

\* What all edits have in common.
LEMMA EditEffect ==
  ASSUME TypeOK, Edit
  PROVE  /\ stage = "idle" /\ stage' = "idle" /\ fresh' = FALSE
         /\ edits' \in 0..MaxEdits
BY GateShape DEF TypeOK, Edit

\* What a run makes of a manifest, name by name.
LEMMA RewrittenIs ==
  /\ Rewritten["repository"] = Root
  /\ \A n \in Published : Rewritten[n] = place[n]
  /\ \A n \in Aliases : Rewritten[n] = NoDir
  /\ \A n \in Foreign : Rewritten[n] = IF n = "contract" /\ manifest[n] = Root
                                       THEN NoDir ELSE manifest[n]
BY GateShape DEF Rewritten, Foreign

\* It is a manifest again.
LEMMA RewrittenTyped ==
  ASSUME TypeOK
  PROVE  Rewritten \in [Names -> Directories]
<1>1. \A n \in Names : n = "repository" \/ n \in Published \/ n \in Aliases \/ n \in Foreign
  BY DEF Foreign
<1>2. \A n \in Names : Rewritten[n] \in Directories
  BY <1>1, RewrittenIs, GateShape DEF TypeOK, Directories
<1>3. Rewritten = [n \in Names |-> Rewritten[n]]
  BY DEF Rewritten
<1> HIDE DEF Rewritten
<1> QED
  BY <1>2, <1>3

\* A second rewriting changes nothing.
LEMMA RewrittenTwice ==
  ASSUME TypeOK, manifest' = Rewritten, place' = place
  PROVE  manifest' = Rewritten'
<1>1. \A n \in Names : n = "repository" \/ n \in Published \/ n \in Aliases \/ n \in Foreign
  BY DEF Foreign
<1>2. /\ Rewritten'["repository"] = Root
      /\ \A n \in Published : Rewritten'[n] = place'[n]
      /\ \A n \in Aliases : Rewritten'[n] = NoDir
      /\ \A n \in Foreign : Rewritten'[n] = IF n = "contract" /\ manifest'[n] = Root
                                           THEN NoDir ELSE manifest'[n]
  BY GateShape DEF Rewritten, Foreign
<1>3. \A n \in Foreign : ~ (n = "contract" /\ manifest'[n] = Root)
  BY RewrittenIs, GateShape DEF Foreign
<1>4. \A n \in Names : Rewritten'[n] = manifest'[n]
  BY <1>1, <1>2, <1>3, RewrittenIs
<1>5. manifest' \in [Names -> Directories]
  BY RewrittenTyped
<1>6. Rewritten' = [n \in Names |-> Rewritten'[n]]
  BY DEF Rewritten
<1> HIDE DEF Rewritten
<1> QED
  BY <1>4, <1>5, <1>6

\* Every step keeps the types.
LEMMA TypeStep ==
  ASSUME TypeOK, Apart(place), [Next]_vars
  PROVE  TypeOK'
<1> USE DEF TypeOK
<1>1. CASE Scaffold
  <2>1. stuff' \in [Dirs -> Stuff]
    BY <1>1 DEF Scaffold, Scaffolded, Stuff
  <2>2. \A r \in Rows : Exists(place[r])'
    BY <1>1 DEF Scaffold, Scaffolded, Exists
  <2> QED
    BY <1>1, <2>1, <2>2 DEF Scaffold, contract, metadata
<1>2. CASE Harden
  <2>0. schema' \in Schemas /\ UNCHANGED <<manifest, matrix, flawed>> /\ stage' = "idle"
    BY <1>2 DEF Harden, Schemas
  <2>1. CASE deps = "none" \/ flawed
    BY <1>2, <2>0, <2>1 DEF Harden, contract, tree, Exists
  <2>2. CASE ~ (deps = "none" \/ flawed)
    <3>1. deps \in Versions
      BY <2>2
    <3>2. direct' \in [Dirs -> Markers]
      <4>1. \A d \in Dirs : direct'[d] =
               IF d \in Extensions THEN MarkerOf(ExtensionName(d), deps)
               ELSE IF \E r \in Rows : place[r] = d /\ ~ Nests(r, d)
                    THEN MarkerOf(TargetName(CHOOSE r \in Rows : place[r] = d), deps)
                    ELSE direct[d]
        BY <1>2, <2>2 DEF Harden
      <4>2. \A d \in Extensions : MarkerOf(ExtensionName(d), deps) \in Markers
        BY <3>1, ExtensionsAre, TargetTyped, MarkerTyped
      <4>3. \A r \in Rows : MarkerOf(TargetName(r), deps) \in Markers
        BY <3>1, TargetTyped, MarkerTyped
      <4>4. \A d \in Dirs : (\E r \in Rows : place[r] = d /\ ~ Nests(r, d)) =>
               (CHOOSE r \in Rows : place[r] = d) \in Rows
        OBVIOUS
      <4>5. ASSUME NEW d \in Dirs
            PROVE  direct'[d] \in Markers
        <5>1. CASE d \in Extensions
          BY <4>1, <4>2, <5>1
        <5>2. CASE d \notin Extensions /\ \E r \in Rows : place[r] = d /\ ~ Nests(r, d)
          <6>1. direct'[d] = MarkerOf(TargetName(CHOOSE r \in Rows : place[r] = d), deps)
            BY <4>1, <5>2
          <6> QED
            BY <4>3, <4>4, <5>2, <6>1
        <5>3. CASE d \notin Extensions /\ ~ \E r \in Rows : place[r] = d /\ ~ Nests(r, d)
          <6>1. direct'[d] = direct[d]
            BY <4>1, <5>3
          <6> QED
            BY <6>1
        <5> QED
          BY <5>1, <5>2, <5>3
      <4> QED
        BY <1>2, <2>2, <4>5 DEF Harden
    <3>3. nested' \in [Rows -> Markers]
      <4>1. \A r \in Rows : MarkerOf(TargetName(r), deps) \in Markers
        BY <3>1, TargetTyped, MarkerTyped
      <4> QED
        BY <1>2, <2>2, <4>1 DEF Harden
    <3>4. record'.entries \subseteq Entries
      <4>1. \A r \in Rows : EntryOf(TargetName(r), RuntimeOf[r], place[r]) \in Entries
        BY TargetTyped, EvidenceTyped DEF EntryOf, Entries
      <4>2. \A d \in Extensions : EntryOf(ExtensionName(d), d, d) \in Entries
        BY TargetTyped, EvidenceTyped, ExtensionsAre DEF EntryOf, Entries
      <4> QED
        BY <1>2, <2>2, <4>1, <4>2 DEF Harden
    <3>5. /\ record'.surface = surface' /\ surface' \in Versions \cup {"absent"}
          /\ fresh' = TRUE /\ stage' = "idle" /\ UNCHANGED <<tree, deps, edits>>
      BY <1>2, <2>2, <3>1 DEF Harden
    <3> QED
      BY <2>0, <3>2, <3>3, <3>4, <3>5 DEF tree, Exists
  <2> QED
    BY <2>1, <2>2
<1>3. CASE Kill
  BY <1>3 DEF Kill, tree, contract, metadata, Exists
<1>4. ASSUME NEW r \in Rows, NEW d \in Dirs, Move(r, d)
      PROVE  TypeOK'
  <2>1. /\ Edit /\ place' = [place EXCEPT ![r] = d] /\ manifest' = [manifest EXCEPT ![r] = d]
        /\ UNCHANGED <<stuff, linked, deps, contract, matrix, schema, flawed>>
    BY <1>4 DEF Move
  <2>2. place' \in [Rows -> Dirs] /\ manifest' \in [Names -> Directories]
    BY <2>1 DEF Directories
  <2> QED
    BY <2>1, <2>2, EditEffect DEF contract
<1>5. ASSUME NEW d \in Dirs, Remove(d)
      PROVE  TypeOK'
  <2>1. None \in Markers /\ "absent" \in Stuff
    BY DEF Markers, Stuff
  <2>2. stuff' \in [Dirs -> Stuff] /\ direct' \in [Dirs -> Markers]
    BY <1>5, <2>1 DEF Remove
  <2> QED
    BY <1>5, <2>2, EditEffect DEF Remove, metadata
<1>6. ASSUME NEW d \in Dirs, Link(d)
      PROVE  TypeOK'
  BY <1>6, EditEffect DEF Link, contract, metadata
<1>7. ASSUME NEW d \in Dirs, Tamper(d)
      PROVE  TypeOK'
  <2>1. direct[d] # None
    BY <1>7 DEF Tamper, None
  <2>2. [direct[d] EXCEPT !.intact = FALSE] \in Markers
    BY <2>1 DEF Markers
  <2>3. direct' \in [Dirs -> Markers]
    BY <1>7, <2>2 DEF Tamper
  <2> QED
    BY <1>7, <2>3, EditEffect DEF Tamper, tree, metadata
<1>8. ASSUME NEW d \in Dirs, NEW s \in Stuff, Change(d, s)
      PROVE  TypeOK'
  BY <1>8, EditEffect DEF Change, contract, metadata
<1>9. ASSUME NEW v \in Versions \cup {"none"}, Depend(v)
      PROVE  TypeOK'
  BY <1>9, EditEffect DEF Depend, tree, contract, metadata
<1>10. CASE UNCHANGED vars
  BY <1>10 DEF vars, tree, contract, metadata, Exists
<1>11. CASE Declare
  <2>1. manifest' \in [Names -> Directories]
    BY <1>11, RewrittenTyped DEF Declare
  <2>2. matrix' \in Matrices
    BY <1>11 DEF Declare, Matrices
  <2> QED
    BY <1>11, <2>1, <2>2 DEF Declare, tree, contract, Exists
<1>12. ASSUME NEW n \in Names, NEW d \in Directories, Name(n, d)
       PROVE  TypeOK'
  BY <1>12, EditEffect DEF Name, tree, contract
<1>13. ASSUME NEW v \in Schemas, EditSchema(v)
       PROVE  TypeOK'
  BY <1>13, EditEffect DEF EditSchema, tree, contract
<1>14. ASSUME NEW v \in Matrices, EditMatrix(v)
       PROVE  TypeOK'
  BY <1>14, EditEffect DEF EditMatrix, tree, contract
<1>15. CASE Flaw
  BY <1>15, EditEffect DEF Flaw, tree, contract
<1> QED
  BY <1>1, <1>2, <1>3, <1>4, <1>5, <1>6, <1>7, <1>8, <1>9, <1>10, <1>11, <1>12, <1>13, <1>14,
     <1>15 DEF Next

-----------------------------------------------------------------------------
(* The invariant. *)

\* What is written stays so while nothing it depends on changes.
LEMMA WrittenKept ==
  ASSUME Written, UNCHANGED <<tree, deps, contract, flawed, fresh>>,
         schema' = schema \/ schema' = "canonical"
  PROVE  Written'
<1>1. Extensions' = Extensions
  BY DEF Extensions, Exists, tree
<1>2. \A d \in Dirs : Evidence(d)' = Evidence(d)
  BY DEF Evidence, tree
<1>3. \A t, u, d : EntryOf(t, u, d)' = EntryOf(t, u, d)
  BY DEF EntryOf, Evidence, tree
<1>4. \A d : Nests(d, place[d])' = Nests(d, place[d])
  BY DEF Nests, tree
<1> QED
  BY <1>1, <1>3, <1>4 DEF Written, tree, contract

\* So does the manifest.
LEMMA RegisteredKept ==
  ASSUME Registered, UNCHANGED <<place, manifest, matrix>>,
         fresh' \/ stage' = "declared" => fresh \/ stage = "declared"
  PROVE  Registered'
<1>1. Mature' = Mature
  BY DEF Mature, Configured
<1>2. Rewritten' = Rewritten
  BY DEF Rewritten
<1> QED
  BY <1>1, <1>2 DEF Registered

\* The maintainers change nothing of the record, and no marker but to another
\* marker of the same target or to none.
LEMMA EditStep ==
  ASSUME GateInv, Edit, Apart(place'), UNCHANGED <<record, nested>>,
         \A d \in Dirs : direct'[d].target = direct[d].target \/ direct'[d] = None
  PROVE  Apart(place)' /\ Written' /\ Made' /\ Registered' /\ RecordShape' /\ MarkersMade'
<1>1. Written' /\ Made' /\ Registered'
  BY EditEffect DEF GateInv, Written, Made, Registered
<1>2. RecordShape'
  BY DEF GateInv, RecordShape, OfRow, OfExtension
<1>3. MarkersMade'
  BY NamesApart DEF GateInv, MarkersMade, Nests
<1>4. Apart(place)'
  BY DEF Apart
<1> QED
  BY <1>1, <1>2, <1>3, <1>4

\* The first half of a run changes directories only, and none that an earlier
\* run has left in order.
LEMMA ScaffoldStep ==
  ASSUME GateInv, Scaffold
  PROVE  Apart(place)' /\ Written' /\ Made' /\ Registered' /\ RecordShape' /\ MarkersMade'
<1>1. /\ stuff' = [d \in Dirs |-> Scaffolded(d, {place[r] : r \in Rows})]
      /\ stage' = "scaffolded"
      /\ UNCHANGED <<place, linked, deps, contract, metadata, fresh, edits>>
  BY DEF Scaffold
<1>2. ASSUME NEW r \in Rows
      PROVE  /\ stuff'[place[r]] # "absent"
             /\ stuff'[place[r]] = "nothing" => Nests(r, place[r])
  <2>1. place[r] \in Dirs /\ stuff'[place[r]] = Scaffolded(place[r], {place[q] : q \in Rows})
    BY <1>1 DEF GateInv, TypeOK
  <2>2. \A q \in Rows : place[q] = place[r] => q = r
    BY DEF GateInv, Apart
  <2> QED
    BY <2>1, <2>2 DEF Scaffolded
<1>3. Made'
  BY <1>1, <1>2 DEF Made, Exists, Nests
<1>4. Written'
  <2>1. CASE fresh
    <3>1. ASSUME NEW d \in Dirs
          PROVE  Scaffolded(d, {place[r] : r \in Rows}) = stuff[d]
      BY <2>1 DEF GateInv, Made, Scaffolded, Exists
    <3>2. stuff' = stuff
      BY <1>1, <3>1 DEF GateInv, TypeOK
    <3> QED
      BY <1>1, <3>2, WrittenKept DEF GateInv, tree, metadata
  <2>2. CASE ~ fresh
    BY <1>1, <2>2 DEF Written
  <2> QED
    BY <2>1, <2>2
<1>5. RecordShape' /\ MarkersMade'
  BY <1>1 DEF GateInv, RecordShape, OfRow, OfExtension, MarkersMade, Nests, contract
<1>6. Apart(place)'
  BY <1>1 DEF GateInv, Apart
<1>7. Registered'
  BY <1>1, RegisteredKept DEF GateInv, metadata
<1> QED
  BY <1>3, <1>4, <1>5, <1>6, <1>7

\* The manifest is mature and stays, or is rewritten.
LEMMA DeclareStep ==
  ASSUME GateInv, Declare
  PROVE  Apart(place)' /\ Written' /\ Made' /\ Registered' /\ RecordShape' /\ MarkersMade'
<1>1. /\ manifest' = (IF Mature THEN manifest ELSE Rewritten) /\ matrix' = "fleet"
      /\ stage = "scaffolded" /\ stage' = "declared"
      /\ UNCHANGED <<tree, deps, contract, schema, flawed, fresh, edits>>
  BY DEF Declare
<1>2. Mature' \/ manifest' = Rewritten'
  <2>1. CASE Mature
    BY <1>1, <2>1 DEF Mature, Configured
  <2>2. CASE ~ Mature
    BY <1>1, <2>2, RewrittenTwice DEF GateInv, tree
  <2> QED
    BY <2>1, <2>2
<1>3. Registered'
  BY <1>1, <1>2 DEF Registered
<1>4. Written'
  BY <1>1, WrittenKept DEF GateInv
<1>5. Made'
  BY <1>1 DEF GateInv, Made, Exists, Nests, tree
<1>6. RecordShape' /\ MarkersMade' /\ Apart(place)'
  BY <1>1 DEF GateInv, RecordShape, OfRow, OfExtension, MarkersMade, Nests, Apart, tree, contract
<1> QED
  BY <1>3, <1>4, <1>5, <1>6

\* The second half writes markers and the record for the tree as it is.
LEMMA HardenStep ==
  ASSUME GateInv, Harden, ~ (deps = "none" \/ flawed)
  PROVE  Apart(place)' /\ Written' /\ Made' /\ Registered' /\ RecordShape' /\ MarkersMade'
<1> DEFINE standard == {EntryOf(TargetName(r), RuntimeOf[r], place[r]) : r \in Rows}
           extra == {EntryOf(ExtensionName(d), d, d) : d \in Extensions}
<1>1. /\ surface' = deps /\ fresh' = TRUE /\ stage = "declared" /\ schema' = "canonical"
      /\ UNCHANGED <<tree, deps, manifest, matrix, flawed, edits>>
      /\ record'.entries = standard \cup extra
      /\ \A r \in Rows : nested'[r] = IF Nests(r, place[r])
                                      THEN MarkerOf(TargetName(r), deps) ELSE nested[r]
  BY DEF Harden
<1>2. \A d \in Dirs : direct'[d] =
         IF d \in Extensions THEN MarkerOf(ExtensionName(d), deps)
         ELSE IF \E r \in Rows : place[r] = d /\ ~ Nests(r, d)
              THEN MarkerOf(TargetName(CHOOSE r \in Rows : place[r] = d), deps)
              ELSE direct[d]
  BY DEF Harden
<1>3. \A r \in Rows : place[r] \in Dirs /\ place[r] \notin Extensions
                      /\ (CHOOSE q \in Rows : place[q] = place[r]) = r
  BY ExtensionsAre DEF GateInv, TypeOK, Apart
<1>4. \A r \in Rows : ~ Nests(r, place[r]) => direct'[place[r]] = MarkerOf(TargetName(r), deps)
  BY <1>2, <1>3
<1>5. \A d \in Extensions : direct'[d] = MarkerOf(ExtensionName(d), deps)
  BY <1>2, ExtensionsAre
<1>6. Extensions' = Extensions
  BY <1>1 DEF Extensions, Exists, tree
<1>7. \A t, u, d : EntryOf(t, u, d)' = EntryOf(t, u, d)
  BY <1>1 DEF EntryOf, Evidence, tree
<1>8. Written'
  <2>1. record'.entries = {EntryOf(TargetName(r), RuntimeOf[r], place[r])' : r \in Rows}
                     \cup {EntryOf(ExtensionName(d), d, d)' : d \in Extensions}
    <3>1. \A r \in Rows : EntryOf(TargetName(r), RuntimeOf[r], place[r])' =
                          EntryOf(TargetName(r), RuntimeOf[r], place[r])
      BY <1>1, <1>7 DEF tree
    <3>2. \A d \in Extensions : EntryOf(ExtensionName(d), d, d)' = EntryOf(ExtensionName(d), d, d)
      BY <1>7
    <3> QED
      BY <1>1, <3>1, <3>2
  <2>2. place' = place /\ deps' = deps
    BY <1>1 DEF tree
  <2> QED
    BY <1>1, <1>4, <1>5, <1>6, <1>7, <2>2 DEF Written, Nests
<1>9. Made'
  BY <1>1 DEF GateInv, Made, Exists, Nests, tree
<1>10. RecordShape'
  <2>1. \A e \in standard : (\E r \in Rows : OfRow(e, r)) /\ \E r \in Rows : e.dir = place[r]
    BY EntryFields DEF OfRow
  <2>2. \A e \in extra : OfExtension(e) /\ e.dir \in Extensions
    BY EntryFields, ExtensionsAre DEF OfExtension
  <2>3. \A e \in extra : \A r \in Rows : ~ OfRow(e, r)
    BY <2>2, NamesApart DEF OfRow, OfExtension
  <2>4. \A e \in standard : ~ OfExtension(e)
    BY <2>1, NamesApart DEF OfRow, OfExtension
  <2>5. \A e \in standard, f \in extra : e.dir \notin Under[f.dir]
    BY <2>1, <2>2, ExtensionsAre
  <2> HIDE DEF standard, extra
  <2>6. \A e \in record'.entries : OfExtension(e) \/ \E r \in Rows : OfRow(e, r)
    BY <1>1, <2>1, <2>2
  <2>7. \A e, f \in record'.entries : \A r \in Rows :
          OfRow(e, r) /\ OfExtension(f) => e.dir \notin Under[f.dir]
    BY <1>1, <2>3, <2>4, <2>5
  <2> QED
    BY <2>6, <2>7 DEF RecordShape, OfRow, OfExtension
<1>11. MarkersMade'
  <2>1. \A r \in Rows : nested'[r] # None => nested'[r].target = TargetName(r) /\ RuntimeOf[r] # NoRuntime
    BY <1>1, MarkerFields DEF GateInv, MarkersMade, Nests
  <2>2. ASSUME NEW d \in Dirs, NEW r \in Rows, direct'[d].target = TargetName(r)
        PROVE  ~ Nests(r, d)
    <3>1. CASE d \in Extensions
      BY <1>2, <2>2, <3>1, NamesApart, MarkerFields
    <3>2. CASE d \notin Extensions /\ \E q \in Rows : place[q] = d /\ ~ Nests(q, d)
      <4>1. PICK q \in Rows : place[q] = d /\ ~ Nests(q, d)
        BY <3>2
      <4>2. direct'[d] = MarkerOf(TargetName(q), deps)
        BY <1>3, <1>4, <4>1
      <4>3. q = r
        BY <2>2, <4>2, NamesApart, MarkerFields
      <4> QED
        BY <4>1, <4>3
    <3>3. CASE d \notin Extensions /\ ~ \E q \in Rows : place[q] = d /\ ~ Nests(q, d)
      BY <1>2, <2>2, <3>3 DEF GateInv, MarkersMade
    <3> QED
      BY <3>1, <3>2, <3>3
  <2> QED
    BY <2>1, <2>2 DEF MarkersMade, Nests
<1>12. Apart(place)'
  BY <1>1 DEF GateInv, Apart, tree
<1>13. Registered'
  BY <1>1, RegisteredKept DEF GateInv, tree
<1> QED
  BY <1>8, <1>9, <1>10, <1>11, <1>12, <1>13

\* The invariant of every history of runs and edits.
THEOREM GateInvariant == Spec => []GateInv
<1>1. Init => GateInv
  <2> SUFFICES ASSUME Init
               PROVE  GateInv
    OBVIOUS
  <2>1. TypeOK
    <3>1. place \in [Rows -> Dirs] /\ stuff \in [Dirs -> Stuff] /\ linked \subseteq Dirs
      BY StartsWellFormed DEF Init
    <3>2. direct \in [Dirs -> Markers] /\ nested \in [Rows -> Markers]
      BY DEF Init, Markers
    <3>3. record.surface = surface /\ record.entries \subseteq Entries
      BY DEF Init
    <3>4. edits \in 0..MaxEdits
      BY GateShape DEF Init
    <3>5. manifest \in [Names -> Directories] /\ matrix \in Matrices /\ schema \in Schemas
      BY StartsWellFormed DEF Init, Matrices, Schemas
    <3> QED
      BY <3>1, <3>2, <3>3, <3>4, <3>5 DEF Init, TypeOK, Versions
  <2>2. Apart(place)
    BY StartsWellFormed DEF Init
  <2>3. Written /\ Made /\ Registered /\ RecordShape
    BY DEF Init, Written, Made, Registered, RecordShape
  <2>4. MarkersMade
    BY NamesApart DEF Init, MarkersMade
  <2> QED
    BY <2>1, <2>2, <2>3, <2>4 DEF GateInv
<1>2. ASSUME GateInv, [Next]_vars
      PROVE  GateInv'
  <2>1. TypeOK'
    BY <1>2, TypeStep DEF GateInv
  <2>2. CASE Harden
    <3>1. CASE deps = "none" \/ flawed
      <4>1. /\ schema' = "canonical" /\ stage = "declared" /\ stage' = "idle"
            /\ UNCHANGED <<tree, deps, contract, manifest, matrix, flawed, fresh, edits>>
        BY <2>2, <3>1 DEF Harden
      <4>2. Written' /\ Registered'
        BY <1>2, <4>1, WrittenKept, RegisteredKept DEF GateInv, tree
      <4> QED
        BY <1>2, <2>1, <4>1, <4>2
        DEF GateInv, Made, RecordShape, MarkersMade, OfRow, OfExtension, Nests, Exists, Apart,
            tree, contract
    <3> QED
      BY <1>2, <2>1, <2>2, <3>1, HardenStep DEF GateInv
  <2>3. CASE Kill
    <3>1. /\ stage # "idle" /\ stage' = "idle"
          /\ UNCHANGED <<tree, deps, contract, metadata, fresh, edits>>
      BY <2>3 DEF Kill
    <3>2. Written' /\ Registered'
      BY <1>2, <3>1, WrittenKept, RegisteredKept DEF GateInv, tree, metadata
    <3> QED
      BY <1>2, <2>1, <3>1, <3>2
      DEF GateInv, Made, RecordShape, MarkersMade, OfRow, OfExtension, Nests, Exists, Apart,
          tree, contract
  <2>4. ASSUME NEW r \in Rows, NEW d \in Dirs, Move(r, d)
        PROVE  GateInv'
    BY <1>2, <2>1, <2>4, EditStep DEF GateInv, Move, contract
  <2>5. ASSUME NEW d \in Dirs, Remove(d)
        PROVE  GateInv'
    BY <1>2, <2>1, <2>5, EditStep DEF GateInv, Remove
  <2>6. ASSUME NEW d \in Dirs, Link(d)
        PROVE  GateInv'
    BY <1>2, <2>1, <2>6, EditStep DEF GateInv, Link, contract
  <2>7. ASSUME NEW d \in Dirs, Tamper(d)
        PROVE  GateInv'
    <3>1. \A x \in Dirs : direct'[x].target = direct[x].target \/ direct'[x] = None
      BY <1>2, <2>7 DEF GateInv, TypeOK, Tamper, Markers, None
    <3> QED
      BY <1>2, <2>1, <2>7, <3>1, EditStep DEF GateInv, Tamper, tree
  <2>8. ASSUME NEW d \in Dirs, NEW s \in Stuff, Change(d, s)
        PROVE  GateInv'
    BY <1>2, <2>1, <2>8, EditStep DEF GateInv, Change, contract
  <2>9. ASSUME NEW v \in Versions \cup {"none"}, Depend(v)
        PROVE  GateInv'
    BY <1>2, <2>1, <2>9, EditStep DEF GateInv, Depend, tree, contract
  <2>10. CASE UNCHANGED vars
    <3>1. UNCHANGED <<tree, deps, contract, metadata, stage, fresh, edits>>
      BY <2>10 DEF vars
    <3>2. Written' /\ Registered'
      BY <1>2, <3>1, WrittenKept, RegisteredKept DEF GateInv, tree, metadata
    <3> QED
      BY <1>2, <2>1, <3>1, <3>2
      DEF GateInv, Made, RecordShape, MarkersMade, OfRow, OfExtension, Nests, Exists, Apart,
          tree, contract
  <2>11. CASE Scaffold
    BY <1>2, <2>1, <2>11, ScaffoldStep DEF GateInv
  <2>12. CASE Declare
    BY <1>2, <2>1, <2>12, DeclareStep DEF GateInv
  <2>13. ASSUME NEW n \in Names, NEW d \in Directories, Name(n, d)
         PROVE  GateInv'
    BY <1>2, <2>1, <2>13, EditStep DEF GateInv, Name, tree, contract
  <2>14. ASSUME NEW v \in Schemas, EditSchema(v)
         PROVE  GateInv'
    BY <1>2, <2>1, <2>14, EditStep DEF GateInv, EditSchema, tree, contract
  <2>15. ASSUME NEW v \in Matrices, EditMatrix(v)
         PROVE  GateInv'
    BY <1>2, <2>1, <2>15, EditStep DEF GateInv, EditMatrix, tree, contract
  <2>16. CASE Flaw
    BY <1>2, <2>1, <2>16, EditStep DEF GateInv, Flaw, tree, contract
  <2> QED
    BY <1>2, <2>2, <2>3, <2>4, <2>5, <2>6, <2>7, <2>8, <2>9, <2>10, <2>11, <2>12, <2>13, <2>14,
       <2>15, <2>16 DEF Next
<1> QED
  BY <1>1, <1>2, PTL DEF Spec

-----------------------------------------------------------------------------
(* What a run leaves. *)

\* After a complete run, the entries of the record, one by one.
LEMMA FreshEntries ==
  ASSUME GateInv, fresh, NEW e \in record.entries
  PROVE  \/ \E r \in Rows : /\ e.target = TargetName(r) /\ e.runtime = RuntimeOf[r]
                            /\ e.dir = place[r] /\ e.evidence = Evidence(place[r])
         \/ \E d \in Extensions : /\ e.target = ExtensionName(d) /\ e.runtime = d
                                  /\ e.dir = d /\ e.evidence = Evidence(d)
<1>1. record.entries = {EntryOf(TargetName(r), RuntimeOf[r], place[r]) : r \in Rows}
                  \cup {EntryOf(ExtensionName(d), d, d) : d \in Extensions}
  BY DEF GateInv, Written
<1>2. CASE \E r \in Rows : e = EntryOf(TargetName(r), RuntimeOf[r], place[r])
  BY <1>2, EntryFields
<1>3. CASE \E d \in Extensions : e = EntryOf(ExtensionName(d), d, d)
  BY <1>3, EntryFields
<1> QED
  BY <1>1, <1>2, <1>3

\* After a complete run there is an entry for each target and each extension,
\* and as many as these.
LEMMA FreshCount ==
  ASSUME GateInv, fresh
  PROVE  Cardinality(record.entries) = Cardinality(Rows) + Cardinality(Extensions)
<1> DEFINE f == [r \in Rows |-> EntryOf(TargetName(r), RuntimeOf[r], place[r])]
           g == [d \in Extensions |-> EntryOf(ExtensionName(d), d, d)]
<1>1. record.entries = {f[r] : r \in Rows} \cup {g[d] : d \in Extensions}
  BY DEF GateInv, Written
<1>2. /\ \A r \in Rows : f[r].target = TargetName(r)
      /\ \A d \in Extensions : g[d].target = ExtensionName(d) /\ g[d].dir = d
  BY EntryFields
<1>3. IsFiniteSet(Rows) /\ IsFiniteSet(Extensions)
  BY GateShape, ExtensionsAre, FS_Subset
<1> HIDE DEF f, g
<1>4. /\ \A r, q \in Rows : f[r] = f[q] => r = q
      /\ \A d, x \in Extensions : g[d] = g[x] => d = x
      /\ \A r \in Rows, d \in Extensions : f[r] # g[d]
  BY <1>2, NamesApart
<1>5. Cardinality({f[r] : r \in Rows} \cup {g[d] : d \in Extensions}) =
        Cardinality(Rows) + Cardinality(Extensions)
  BY <1>3, <1>4, TwoFamilies
<1> QED
  BY <1>1, <1>5

\* After a complete run no child of clients/ is left out of the record.
LEMMA FreshCovers ==
  ASSUME GateInv, fresh
  PROVE  Uncovered = {}
<1> SUFFICES ASSUME NEW d \in Children, Exists(d)
             PROVE  \E e \in record.entries : e.dir \in Under[d]
  BY DEF Uncovered
<1>1. /\ \A r \in Rows : EntryOf(TargetName(r), RuntimeOf[r], place[r]) \in record.entries
      /\ \A x \in Extensions : EntryOf(ExtensionName(x), x, x) \in record.entries
  BY DEF GateInv, Written
<1>2. CASE \E r \in Rows : place[r] \in Under[d]
  BY <1>1, <1>2, EntryFields
<1>3. CASE ~ \E r \in Rows : place[r] \in Under[d]
  <2>1. d \in Extensions /\ d \in Under[d]
    BY <1>3, GateShape DEF Extensions
  <2> QED
    BY <1>1, <2>1, EntryFields
<1> QED
  BY <1>2, <1>3

\* In a manifest that a run has rewritten only names of no target can be unsound.
LEMMA RewrittenSound ==
  ASSUME TypeOK, Apart(place), manifest = Rewritten, NEW n \in Names, Unsound(n)
  PROVE  \E m \in Foreign : Unsound(m)
<1>1. /\ manifest["repository"] = Root
      /\ \A m \in Published : m \in Rows /\ manifest[m] = place[m] /\ place[m] \in Dirs
      /\ \A m \in Aliases : manifest[m] = NoDir
  BY RewrittenIs, GateShape DEF TypeOK
<1>2. /\ Root # NoDir /\ Root # Outside /\ NoDir # Outside
      /\ Root \notin Dirs /\ NoDir \notin Dirs /\ Outside \notin Dirs
  BY GateShape
<1>3. SUFFICES ASSUME n \notin Foreign
               PROVE  \E m \in Foreign : Unsound(m)
  OBVIOUS
<1>4. n = "repository" \/ n \in Published \/ n \in Aliases
  BY <1>3 DEF Foreign
<1>5. manifest[n] # Outside /\ manifest[n] # NoDir /\ n \notin Aliases
  BY <1>1, <1>2, <1>4 DEF Unsound
<1>6. PICK m \in Names \ {n} : manifest[m] = manifest[n]
  BY <1>5 DEF Unsound
<1>7. m \notin Aliases
  BY <1>1, <1>5, <1>6
<1>8. ~ (m \in Published \cup {"repository"})
  BY <1>1, <1>2, <1>4, <1>5, <1>6 DEF Apart
<1>9. m \in Foreign
  BY <1>7, <1>8 DEF Foreign
<1>10. Unsound(m)
  BY <1>5, <1>6 DEF Unsound
<1> QED
  BY <1>9, <1>10

\* What verify says when there is a schema and a surface.
LEMMA ErrorsAre ==
  ASSUME schema # "absent", surface # "absent"
  PROVE  HardenerErrors = {about \in Complaints : Complains(about)}
BY DEF HardenerErrors

\* The hardener finds nothing wrong with what it has written, but entries of the
\* manifest that it leaves alone.
LEMMA FreshAccepted == GateInv => RunLeavesNoErrors
<1> SUFFICES ASSUME GateInv, fresh, ~ SharedIsLink
             PROVE  /\ HardenerErrors \subseteq {"entries"}
                    /\ "entries" \in HardenerErrors => Mature \/ \E n \in Foreign : Unsound(n)
  BY DEF RunLeavesNoErrors
<1>1. /\ surface = deps /\ deps # "none" /\ surface # "absent"
      /\ schema = "canonical" /\ ~ flawed /\ matrix = "fleet"
  BY DEF GateInv, TypeOK, Written, Registered, Versions
<1>2. ASSUME NEW r \in Rows
      PROVE  Exists(place[r]) /\ Matches(VerifiedMarker(r), TargetName(r))
  <2>1. Exists(place[r])
    BY DEF GateInv, Made
  <2>2. VerifiedMarker(r) = MarkerOf(TargetName(r), deps)
    BY DEF GateInv, Written, VerifiedMarker, SharedIsLink
  <2> QED
    BY <1>1, <2>1, <2>2, MarkerFields DEF Matches
<1>3. ASSUME NEW d \in Extensions
      PROVE  Matches(direct[d], ExtensionName(d))
  BY <1>1, <1>3, MarkerFields DEF GateInv, Written, Matches
<1>4. Drifted = {}
  BY FreshEntries DEF Drifted
<1>5. HardenerErrors = {about \in Complaints : Complains(about)}
  BY <1>1, ErrorsAre
<1>6. \A about \in Complaints : Complains(about) =>
        about = "entries" /\ \E n \in Names : Unsound(n)
  BY <1>1, <1>2, <1>3, <1>4, FreshCount, FreshCovers DEF Complains
<1>7. (\E n \in Names : Unsound(n)) => Mature \/ \E n \in Foreign : Unsound(n)
  <2>1. Mature \/ manifest = Rewritten
    BY DEF GateInv, Registered
  <2> QED
    BY <2>1, RewrittenSound DEF GateInv
<1> QED
  BY <1>5, <1>6, <1>7

\* Where none of the five exceptions holds, an entry of a complete run is
\* accepted.
LEMMA FreshEntryPasses ==
  ASSUME GateInv, fresh, NEW e \in record.entries,
         ~ LinkInTree, ~ OutsideClients, ~ NothingCounts, ~ MarkerLeftOver
  PROVE  EntryAccepted(e)
<1>1. surface = deps
  BY DEF GateInv, Written
<1>2. \A d \in Clients : ResolvesInside(d) /\ FreeOfLinks(d)
  BY GateShape DEF LinkInTree, ResolvesInside, FreeOfLinks
<1>3. ASSUME NEW r \in Rows, e.target = TargetName(r), e.runtime = RuntimeOf[r],
             e.dir = place[r], e.evidence = Evidence(place[r])
      PROVE  EntryAccepted(e)
  <2>1. place[r] \in Clients /\ Evidence(place[r]) # {}
    BY DEF OutsideClients, NothingCounts
  <2>2. Exists(place[r])
    BY DEF GateInv, Made
  <2>3. GateMarker(e) = MarkerOf(TargetName(r), deps)
    <3>1. CASE ~ Nests(r, place[r])
      <4>1. direct[e.dir] = MarkerOf(TargetName(r), deps)
        BY <1>3, <3>1 DEF GateInv, Written
      <4> QED
        BY <4>1, MarkerFields DEF GateMarker
    <3>2. CASE Nests(r, place[r])
      <4> DEFINE runtimes == {q \in Rows : e.dir = Shared /\ RuntimeOf[q] = e.runtime /\ nested[q] # None}
      <4>1. nested[r] = MarkerOf(TargetName(r), deps) /\ RuntimeOf[r] # NoRuntime
        BY <3>2 DEF GateInv, Written, Nests
      <4>2. direct[e.dir] = None /\ e.dir = Shared
        BY <1>3, <3>2 DEF MarkerLeftOver, Nests
      <4>3. r \in runtimes
        BY <1>3, <4>1, <4>2, MarkerFields
      <4>4. \A q \in runtimes : q = r
        BY <1>3, <4>1, GateShape
      <4>5. (CHOOSE q \in runtimes : TRUE) = r
        BY <4>3, <4>4
      <4> QED
        BY <4>1, <4>2, <4>3, <4>5 DEF GateMarker
    <3> QED
      BY <3>1, <3>2
  <2> QED
    BY <1>1, <1>2, <1>3, <2>1, <2>2, <2>3 DEF EntryAccepted
<1>4. ASSUME NEW d \in Extensions, e.target = ExtensionName(d), e.runtime = d,
             e.dir = d, e.evidence = Evidence(d)
      PROVE  EntryAccepted(e)
  <2>1. d \in Clients /\ Exists(d)
    BY ExtensionsAre, GateShape
  <2>2. direct[d] = MarkerOf(ExtensionName(d), deps)
    BY DEF GateInv, Written
  <2>3. GateMarker(e) = MarkerOf(ExtensionName(d), deps)
    BY <1>4, <2>2, MarkerFields DEF GateMarker
  <2>4. e.target[1] # "standard"
    BY <1>4 DEF ExtensionName
  <2> QED
    BY <1>1, <1>2, <1>4, <2>1, <2>3, <2>4 DEF EntryAccepted
<1> QED
  BY <1>3, <1>4, FreshEntries

\* The gate accepts it too, where none of the exceptions holds.
LEMMA FreshPasses == GateInv => GateFollowsRun
<1> SUFFICES ASSUME GateInv, fresh, ~ LinkInTree, ~ OutsideClients, ~ KebabClash,
                    ~ NothingCounts, ~ MarkerLeftOver
             PROVE  GateAccepts
  BY DEF GateFollowsRun
<1>1. /\ surface # "absent" /\ record.surface = surface /\ deps = surface
      /\ schema # "absent" /\ ~ flawed
  BY DEF GateInv, TypeOK, Written, Versions
<1>2. ASSUME NEW e \in record.entries, NEW f \in record.entries, e.target = f.target
      PROVE  e = f
  <2> DEFINE S(r) == EntryOf(TargetName(r), RuntimeOf[r], place[r])
             X(d) == EntryOf(ExtensionName(d), d, d)
  <2>1. (\E r \in Rows : e = S(r)) \/ (\E d \in Extensions : e = X(d))
    BY DEF GateInv, Written
  <2>2. (\E r \in Rows : f = S(r)) \/ (\E d \in Extensions : f = X(d))
    BY DEF GateInv, Written
  <2>3. (\A r : S(r).target = TargetName(r)) /\ (\A d : X(d).target = ExtensionName(d))
    BY EntryFields
  <2>4. \A d, x \in Extensions : ExtensionName(d) = ExtensionName(x) => d = x
    BY DEF ExtensionName, KebabClash
  <2> HIDE DEF S, X
  <2> QED
    BY <1>2, <2>1, <2>2, <2>3, <2>4, NamesApart
<1> QED
  BY <1>1, <1>2, FreshEntryPasses, FreshCovers DEF GateAccepts

-----------------------------------------------------------------------------
(* What the gate passes. *)

\* The marker the gate reads for a target is the one verify reads.
LEMMA SameMarker ==
  ASSUME GateInv, NEW r \in Rows, NEW e \in record.entries, EntryAccepted(e),
         e.target = TargetName(r), e.dir = place[r]
  PROVE  VerifiedMarker(r) = MarkerOf(TargetName(r), surface)
<1>1. GateMarker(e) = MarkerOf(TargetName(r), surface) /\ place[r] \notin linked
  BY DEF EntryAccepted, ResolvesInside
<1>2. place[r] \in Dirs /\ e.runtime = RuntimeOf[r]
  <2>1. ~ OfExtension(e)
    BY NamesApart DEF OfExtension
  <2>2. PICK q \in Rows : OfRow(e, q)
    BY <2>1 DEF GateInv, RecordShape
  <2>3. q = r
    BY <2>2, NamesApart DEF OfRow
  <2> QED
    BY <2>2, <2>3 DEF OfRow, GateInv, TypeOK
<1>3. CASE Nests(r, place[r])
  <2>1. direct[e.dir].target # TargetName(r)
    BY <1>2, <1>3 DEF GateInv, MarkersMade
  <2>2. GateMarker(e) # direct[e.dir]
    BY <1>1, <2>1, MarkerFields
  <2> DEFINE runtimes == {q \in Rows : e.dir = Shared /\ RuntimeOf[q] = e.runtime /\ nested[q] # None}
  <2>3. runtimes # {} /\ GateMarker(e) = nested[CHOOSE q \in runtimes : TRUE]
    BY <2>2 DEF GateMarker
  <2>4. \A q \in runtimes : q = r
    BY <1>2, <1>3, GateShape DEF Nests
  <2>5. (CHOOSE q \in runtimes : TRUE) = r
    BY <2>3, <2>4
  <2> QED
    BY <1>1, <1>3, <2>3, <2>5 DEF VerifiedMarker
<1>4. CASE ~ Nests(r, place[r])
  <2>1. ASSUME NEW q \in Rows, e.dir = Shared, RuntimeOf[q] = e.runtime, nested[q] # None
        PROVE  FALSE
    BY <1>2, <1>4, <2>1 DEF GateInv, MarkersMade, Nests
  <2>2. GateMarker(e) = direct[e.dir]
    BY <2>1 DEF GateMarker
  <2> QED
    BY <1>1, <1>4, <2>2 DEF VerifiedMarker
<1> QED
  BY <1>3, <1>4

\* So is that of an extension.
LEMMA SameExtensionMarker ==
  ASSUME GateInv, NEW e \in record.entries, EntryAccepted(e), OfExtension(e)
  PROVE  direct[e.dir] = MarkerOf(e.target, surface)
<1>1. GateMarker(e) = MarkerOf(e.target, surface)
  BY DEF EntryAccepted
<1>2. \A q \in Rows : nested[q].target = TargetName(q) => nested[q] # GateMarker(e)
  BY <1>1, NamesApart, MarkerFields DEF OfExtension
<1> DEFINE runtimes == {q \in Rows : e.dir = Shared /\ RuntimeOf[q] = e.runtime /\ nested[q] # None}
<1>3. runtimes # {} => (CHOOSE q \in runtimes : TRUE) \in runtimes
  OBVIOUS
<1>4. GateMarker(e) = direct[e.dir]
  <2>1. \A q \in runtimes : nested[q] # GateMarker(e)
    BY <1>2 DEF GateInv, MarkersMade
  <2>2. \/ GateMarker(e) = direct[e.dir]
        \/ runtimes # {} /\ GateMarker(e) = nested[CHOOSE q \in runtimes : TRUE]
    BY DEF GateMarker
  <2> HIDE DEF runtimes
  <2> QED
    BY <1>3, <2>1, <2>2
<1> QED
  BY <1>1, <1>4

\* In a tree the gate passes, with targets where the record has them, an entry
\* is a target's where it lives or an extension's.
LEMMA PassedEntries ==
  ASSUME GateInv, GateAccepts, InPlace
  PROVE  /\ \A e \in record.entries :
              \/ \E r \in Rows : e.target = TargetName(r) /\ e.dir = place[r]
              \/ OfExtension(e) /\ e.dir \in Extensions
         /\ \A d \in Extensions : \E e \in record.entries : OfExtension(e) /\ e.dir = d
<1>1. ASSUME NEW e \in record.entries, NEW r \in Rows, e.target = TargetName(r)
      PROVE  e.dir = place[r] /\ OfRow(e, r)
  <2>1. PICK f \in record.entries : f.target = TargetName(r) /\ f.dir = place[r]
    BY DEF InPlace
  <2>2. e = f
    BY <1>1, <2>1 DEF GateAccepts
  <2>3. ~ OfExtension(e)
    BY <1>1, NamesApart DEF OfExtension
  <2>4. \E q \in Rows : OfRow(e, q)
    BY <2>3 DEF GateInv, RecordShape
  <2>5. OfRow(e, r)
    BY <1>1, <2>4, NamesApart DEF OfRow
  <2> QED
    BY <2>1, <2>2, <2>5
<1>2. ASSUME NEW e \in record.entries, OfExtension(e)
      PROVE  e.dir \in Extensions
  <2>1. e.dir \in Children /\ Exists(e.dir)
    BY <1>2 DEF OfExtension, GateAccepts, EntryAccepted
  <2>2. ASSUME NEW r \in Rows
        PROVE  place[r] \notin Under[e.dir]
    <3>1. PICK f \in record.entries : f.target = TargetName(r) /\ f.dir = place[r]
      BY DEF InPlace
    <3>2. OfRow(f, r)
      BY <1>1, <3>1
    <3> QED
      BY <1>2, <3>1, <3>2 DEF GateInv, RecordShape
  <2> QED
    BY <2>1, <2>2 DEF Extensions
<1>3. ASSUME NEW d \in Extensions
      PROVE  \E e \in record.entries : OfExtension(e) /\ e.dir = d
  <2>1. d \in Children /\ Exists(d) /\ \A r \in Rows : place[r] \notin Under[d]
    BY ExtensionsAre
  <2>2. PICK e \in record.entries : e.dir \in Under[d]
    BY <2>1 DEF GateAccepts, Uncovered
  <2>3. \A r \in Rows : e.target # TargetName(r)
    BY <1>1, <2>1, <2>2
  <2>4. OfExtension(e)
    BY <2>3 DEF GateInv, RecordShape, OfRow
  <2>5. e.dir = d
    BY <2>1, <2>2, <2>4, GateShape DEF OfExtension
  <2> QED
    BY <2>4, <2>5
<1>4. \A e \in record.entries :
        \/ \E r \in Rows : e.target = TargetName(r)
        \/ OfExtension(e)
  BY DEF GateInv, RecordShape, OfRow
<1> QED
  BY <1>1, <1>2, <1>3, <1>4

\* There are as many entries as targets and extensions.
LEMMA PassedCount ==
  ASSUME GateInv, GateAccepts, InPlace
  PROVE  Cardinality(record.entries) = Cardinality(Rows) + Cardinality(Extensions)
<1>0. PICK f, g :
        /\ f = [r \in Rows |-> CHOOSE e \in record.entries : e.target = TargetName(r)]
        /\ g = [d \in Extensions |-> CHOOSE e \in record.entries : OfExtension(e) /\ e.dir = d]
  OBVIOUS
<1>1. /\ \A r \in Rows : f[r] \in record.entries /\ f[r].target = TargetName(r)
      /\ \A d \in Extensions : /\ g[d] \in record.entries /\ OfExtension(g[d]) /\ g[d].dir = d
                               /\ g[d].target = ExtensionName(d)
  <2>1. \A r \in Rows : f[r] \in record.entries /\ f[r].target = TargetName(r)
    BY <1>0 DEF InPlace
  <2>2. \A d \in Extensions : g[d] \in record.entries /\ OfExtension(g[d]) /\ g[d].dir = d
    BY <1>0, PassedEntries
  <2> QED
    BY <2>1, <2>2 DEF OfExtension
<1>2. IsFiniteSet(Rows) /\ IsFiniteSet(Extensions)
  BY GateShape, ExtensionsAre, FS_Subset
<1>3. record.entries = {f[r] : r \in Rows} \cup {g[d] : d \in Extensions}
  <2>1. ASSUME NEW e \in record.entries
        PROVE  e \in {f[r] : r \in Rows} \cup {g[d] : d \in Extensions}
    <3>1. CASE \E r \in Rows : e.target = TargetName(r)
      BY <1>1, <3>1 DEF GateAccepts
    <3>2. CASE OfExtension(e) /\ e.dir \in Extensions
      <4>1. e.target = g[e.dir].target /\ g[e.dir] \in record.entries
        BY <1>1, <3>2 DEF OfExtension
      <4>2. e = g[e.dir]
        BY <4>1 DEF GateAccepts
      <4> QED
        BY <3>2, <4>2
    <3> QED
      BY <3>1, <3>2, PassedEntries
  <2> QED
    BY <1>1, <2>1
<1>4. /\ \A r, q \in Rows : f[r] = f[q] => r = q
      /\ \A d, x \in Extensions : g[d] = g[x] => d = x
      /\ \A r \in Rows, d \in Extensions : f[r] # g[d]
  BY <1>1, NamesApart
<1>5. \A r, q \in Rows : f[r] = f[q] => r = q
  BY <1>4
<1>6. \A d, x \in Extensions : g[d] = g[x] => d = x
  BY <1>4
<1>7. \A r \in Rows, d \in Extensions : f[r] # g[d]
  BY <1>4
<1>8. Cardinality({f[r] : r \in Rows} \cup {g[d] : d \in Extensions}) =
        Cardinality(Rows) + Cardinality(Extensions)
  BY <1>2, <1>5, <1>6, <1>7, TwoFamilies
<1> QED
  BY <1>3, <1>8

\* In what the gate passes verify finds fault with no more than the three things
\* the gate does not look at.
LEMMA PassedAccepted == GateInv => GateIsStricter
<1> SUFFICES ASSUME GateInv, GateAccepts, InPlace
             PROVE  HardenerErrors \subseteq {"schema", "entries", "matrix"}
  BY DEF GateIsStricter
<1>1. /\ schema # "absent" /\ surface # "absent" /\ ~ flawed /\ Uncovered = {}
      /\ \A e \in record.entries : EntryAccepted(e)
  BY DEF GateAccepts
<1>2. ASSUME NEW r \in Rows
      PROVE  Exists(place[r]) /\ Matches(VerifiedMarker(r), TargetName(r))
  <2>1. PICK e \in record.entries : e.target = TargetName(r) /\ e.dir = place[r]
    BY DEF InPlace
  <2>2. VerifiedMarker(r) = MarkerOf(TargetName(r), surface)
    BY <1>1, <2>1, SameMarker
  <2>3. Exists(place[r])
    BY <1>1, <2>1 DEF EntryAccepted
  <2> QED
    BY <1>1, <2>2, <2>3, MarkerFields DEF Matches
<1>3. ASSUME NEW d \in Extensions
      PROVE  Matches(direct[d], ExtensionName(d))
  <2>1. PICK e \in record.entries : OfExtension(e) /\ e.dir = d
    BY PassedEntries
  <2>2. direct[d] = MarkerOf(ExtensionName(d), surface)
    BY <1>1, <2>1, SameExtensionMarker DEF OfExtension
  <2> QED
    BY <1>1, <2>2, MarkerFields DEF Matches
<1>4. Drifted = {}
  BY <1>1 DEF Drifted, EntryAccepted
<1>5. HardenerErrors = {about \in Complaints : Complains(about)}
  BY <1>1, ErrorsAre
<1>6. \A about \in Complaints : Complains(about) => about \in {"schema", "entries", "matrix"}
  BY <1>1, <1>2, <1>3, <1>4, PassedCount DEF Complains
<1> QED
  BY <1>5, <1>6

-----------------------------------------------------------------------------
\* The types of the tree, the markers and the record, for any number of edits.
THEOREM GateTypeCorrect == Spec => []TypeOK
<1>1. GateInv => TypeOK
  BY DEF GateInv
<1> QED
  BY <1>1, GateInvariant, PTL

\* After a complete run verify has nothing to say, wherever the targets live and
\* whatever came before, unless the shared TypeScript package is a link, but that
\* entries clash or escape in a manifest the run left alone, or with a name of no
\* target.
THEOREM CompleteRunsLeaveNoErrors == Spec => []RunLeavesNoErrors
BY FreshAccepted, GateInvariant, PTL

\* The gate passes what a complete run leaves, with the five exceptions that
\* GateFollowsRun names and no other.
THEOREM GatePassesRuns == Spec => []GateFollowsRun
BY FreshPasses, GateInvariant, PTL

\* In what the gate passes verify can only find fault with the schema, the names in
\* the manifest and the matrix, whatever was edited, as long as the record has the
\* targets where they are.
THEOREM GateImpliesHardener == Spec => []GateIsStricter
BY PassedAccepted, GateInvariant, PTL

=============================================================================
