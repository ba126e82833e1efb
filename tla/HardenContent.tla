---------------------------- MODULE HardenContent ----------------------------
(***************************************************************************)
(* Runs of harden_client_contract.py, as far as file contents go, for      *)
(* targets whose directories are settled (HardenLayout): a --write run     *)
(* fills empty targets with a baseline, normalises the API surface, leaves *)
(* a fingerprint and a marker per target, and records in                   *)
(* contract-manifest.json what each directory holds.  --check and the      *)
(* stand-alone verify_client_contract.py read all that back.               *)
(*                                                                         *)
(* Between runs the maintainers edit the surface and the sources.  A run   *)
(* may be killed at any point, also inside a write: Path.write_text first  *)
(* truncates the file, so that a killed write leaves it torn.              *)
(***************************************************************************)
EXTENDS Naturals, Sequences

CONSTANTS
  TARGETS,    \* the targets, in the order of the table
  Baseline,   \* the files scaffold_target writes for each, in order
  Starts,     \* what the target directories hold at first
  MaxRuns,    \* bound: runs started
  MaxEdits    \* bound: edits by the maintainers

Targets == {TARGETS[k] : k \in DOMAIN TARGETS}
Files(t) == DOMAIN Baseline[t]
Cells == UNION {{<<t, f>> : f \in Files(t)} : t \in Targets}

\* "torn" is what a killed write leaves; "legacy" a file exactly as an earlier
\* template had it; "hand" one the maintainers wrote.
Contents == {"absent", "torn", "legacy", "baseline", "hand"}

\* native: the file lies where has_product_implementation looks for sources.
\* migrates: it is written with write_generated_text and has older templates.
BaselineFile == [native : BOOLEAN, migrates : BOOLEAN]

ASSUME BaselineWellFormed ==
  /\ TARGETS \in Seq(Targets)
  /\ \A t \in Targets : Baseline[t] \in Seq(BaselineFile) /\ Baseline[t] # <<>>
ASSUME StartsWellFormed == Starts \subseteq [Cells -> Contents]
ASSUME Bounds == MaxRuns \in Nat /\ MaxEdits \in Nat

VARIABLES
  disk,         \* the baseline files of every target
  own,          \* a target's other sources: [version, native], version 0 if none
  surface,      \* api-surface.json: [version, form]
  fingerprint,  \* clients/.api-surface.sha256, as the version it is of
  marker,       \* the two marker files of each target, likewise
  record,       \* contract-manifest.json: [version, holds], version 0 if torn
  phase,        \* where the run is
  at,           \* index of the target a loop is at
  file,         \* index of the baseline file, 0 before has_product is asked
  collected,    \* what the run has seen in the directories so far
  edits, runs,  \* counters for the bounds
  dirty,        \* edited since the last complete --write run?
  settled,      \* was everything in order when this run started?
  wrote         \* has this run changed a file?

diskVars == <<disk, own, surface, fingerprint, marker, record>>
runVars == <<phase, at, file, collected>>
ghostVars == <<edits, runs, dirty, settled, wrote>>
vars == <<diskVars, runVars, ghostVars>>

\* "raw": as a maintainer left it; "normal": as json.dumps writes it; "invalid":
\* not JSON, or refused by the schema or by semantic_errors.
Forms == {"raw", "normal", "invalid"}
Phases == {"idle", "scaffold", "surface", "fingerprint", "mark",
           "verify", "passed", "failed"}

\* implementation_evidence: a digest of whatever the directory holds.
Evidence(t) == <<[f \in Files(t) |-> disk[<<t, f>>]], own[t]>>
Nothing == [t \in Targets |-> <<>>]

-----------------------------------------------------------------------------
(* The two verifiers. *)

Recorded == record.version # 0 /\ \A t \in Targets : record.holds[t] = Evidence(t)
Marked == \A t \in Targets : marker[t] = surface.version

\* verify of harden_client_contract.py.
CheckPasses == surface.form # "invalid" /\ Marked /\ Recorded

\* Fault: the recorded surface is not compared.
GateWithoutRecord == CheckPasses /\ fingerprint = surface.version

\* main of verify_client_contract.py.
GatePasses ==
  /\ surface.form # "invalid" /\ Marked /\ Recorded
  /\ fingerprint = surface.version
  /\ record.version = surface.version
  /\ \A t \in Targets : own[t].version > 0 \/ \E f \in Files(t) : disk[<<t, f>>] # "absent"

-----------------------------------------------------------------------------
\* Does the target already own source code in its native layout?
has_product(t) ==
  own[t].native \/ \E f \in Files(t) : Baseline[t][f].native /\ disk[<<t, f>>] # "absent"

\* Fault: what is there is not looked at.
OverwritesAll(t, f) == TRUE

\* write_text(missing_only) and write_generated_text.
Overwrites(t, f) ==
  \/ disk[<<t, f>>] = "absent"
  \/ Baseline[t][f].migrates /\ disk[<<t, f>>] = "legacy"

Here == TARGETS[at]

-----------------------------------------------------------------------------
Init ==
  /\ disk \in Starts
  /\ own = [t \in Targets |-> [version |-> 0, native |-> FALSE]]
  /\ surface = [version |-> 1, form |-> "raw"]
  /\ fingerprint = 0
  /\ marker = [t \in Targets |-> 0]
  /\ record = [version |-> 0, holds |-> Nothing]
  /\ phase = "idle" /\ at = 1 /\ file = 0 /\ collected = Nothing
  /\ edits = 0 /\ runs = 0 /\ dirty = TRUE /\ settled = FALSE /\ wrote = FALSE

Idle == phase \in {"idle", "passed", "failed"}

\* A maintainer edits the surface, well or badly ...
EditSurface ==
  /\ Idle /\ edits < MaxEdits
  /\ \E form \in {"raw", "invalid"} :
       surface' = [version |-> surface.version + 1, form |-> form]
  /\ edits' = edits + 1 /\ dirty' = TRUE /\ phase' = "idle"
  /\ UNCHANGED <<disk, own, fingerprint, marker, record, at, file, collected,
                 runs, settled, wrote>>

\* ... or the sources of a target: a file of its own, or one of the baseline's.
EditSources(t) ==
  /\ Idle /\ edits < MaxEdits
  /\ \/ /\ \E native \in BOOLEAN :
             own' = [own EXCEPT ![t] = [version |-> @.version + 1,
                                        native |-> @.native \/ native]]
        /\ UNCHANGED disk
     \/ /\ \E f \in Files(t) : disk[<<t, f>>] # "hand" /\ disk' = [disk EXCEPT ![<<t, f>>] = "hand"]
        /\ UNCHANGED own
  /\ edits' = edits + 1 /\ dirty' = TRUE /\ phase' = "idle"
  /\ UNCHANGED <<surface, fingerprint, marker, record, at, file, collected,
                 runs, settled, wrote>>

\* --write starts with the first target; --check goes straight to verify.
Start ==
  /\ Idle /\ runs < MaxRuns
  /\ runs' = runs + 1
  /\ phase' \in {"scaffold", "verify"}
  /\ at' = 1 /\ file' = 0 /\ collected' = Nothing
  /\ settled' = GatePasses /\ wrote' = FALSE
  /\ UNCHANGED <<diskVars, edits, dirty>>

\* scaffold_target looks at the directory once, before its first write.
EnterTarget ==
  /\ phase = "scaffold" /\ at <= Len(TARGETS) /\ file = 0
  /\ IF has_product(Here) THEN at' = at + 1 /\ UNCHANGED file
                          ELSE file' = 1 /\ UNCHANGED at
  /\ UNCHANGED <<diskVars, phase, collected, ghostVars>>

WriteFile ==
  /\ phase = "scaffold" /\ at <= Len(TARGETS) /\ file \in 1..Len(Baseline[Here])
  /\ disk' = IF Overwrites(Here, file) THEN [disk EXCEPT ![<<Here, file>>] = "baseline"] ELSE disk
  /\ wrote' = (wrote \/ disk' # disk)
  /\ file' = file + 1
  /\ UNCHANGED <<own, surface, fingerprint, marker, record, phase, at, collected,
                 edits, runs, dirty, settled>>

\* Fault: the next target's files are counted from where this one's ended.
LeaveTargetCounting ==
  /\ phase = "scaffold" /\ at <= Len(TARGETS) /\ file = Len(Baseline[Here]) + 1
  /\ at' = at + 1
  /\ UNCHANGED <<diskVars, file, phase, collected, ghostVars>>

LeaveTarget ==
  /\ phase = "scaffold" /\ at <= Len(TARGETS) /\ file = Len(Baseline[Here]) + 1
  /\ at' = at + 1 /\ file' = 0
  /\ UNCHANGED <<diskVars, phase, collected, ghostVars>>

Scaffolded ==
  /\ phase = "scaffold" /\ at = Len(TARGETS) + 1
  /\ phase' = "surface"
  /\ UNCHANGED <<diskVars, at, file, collected, ghostVars>>

\* Fault: enriching a surface that already is enriched adds to it.
NormaliseSurfaceAgain ==
  /\ phase = "surface" /\ surface.form # "invalid"
  /\ phase' = "fingerprint" /\ wrote' = TRUE
  /\ surface' = [version |-> surface.version + 1, form |-> "normal"]
  /\ UNCHANGED <<disk, own, fingerprint, marker, record, at, file, collected,
                 edits, runs, dirty, settled>>

\* ensure_contract refuses a bad surface and rewrites a raw one.
NormaliseSurface ==
  /\ phase = "surface"
  /\ phase' = IF surface.form = "invalid" THEN "failed" ELSE "fingerprint"
  /\ surface' = IF surface.form = "raw" THEN [surface EXCEPT !.form = "normal"] ELSE surface
  /\ wrote' = (wrote \/ surface' # surface)
  /\ UNCHANGED <<disk, own, fingerprint, marker, record, at, file, collected,
                 edits, runs, dirty, settled>>

\* Fault: the fingerprint is written only when it is missing.
WriteFingerprintOnce ==
  /\ phase = "fingerprint"
  /\ fingerprint' = IF fingerprint = 0 THEN surface.version ELSE fingerprint
  /\ wrote' = (wrote \/ fingerprint' # fingerprint)
  /\ phase' = "mark" /\ at' = 1
  /\ UNCHANGED <<disk, own, surface, marker, record, file, collected, edits, runs,
                 dirty, settled>>

WriteFingerprint ==
  /\ phase = "fingerprint"
  /\ fingerprint' = surface.version
  /\ wrote' = (wrote \/ fingerprint' # fingerprint)
  /\ phase' = "mark" /\ at' = 1
  /\ UNCHANGED <<disk, own, surface, marker, record, file, collected, edits, runs,
                 dirty, settled>>

\* The markers of one target, and then a look at its directory.
Mark ==
  /\ phase = "mark" /\ at <= Len(TARGETS)
  /\ marker' = [marker EXCEPT ![Here] = surface.version]
  /\ wrote' = (wrote \/ marker' # marker)
  /\ collected' = [collected EXCEPT ![Here] = Evidence(Here)]
  /\ at' = at + 1
  /\ UNCHANGED <<disk, own, surface, fingerprint, record, phase, file, edits, runs,
                 dirty, settled>>

\* contract-manifest.json comes last.
WriteRecord ==
  /\ phase = "mark" /\ at = Len(TARGETS) + 1
  /\ record' = [version |-> surface.version, holds |-> collected]
  /\ wrote' = (wrote \/ record' # record)
  /\ dirty' = FALSE
  /\ phase' = "verify"
  /\ UNCHANGED <<disk, own, surface, fingerprint, marker, at, file, collected, edits,
                 runs, settled>>

\* A run ends with verify.
Verify ==
  /\ phase = "verify"
  /\ phase' = IF CheckPasses THEN "passed" ELSE "failed"
  /\ UNCHANGED <<diskVars, at, file, collected, ghostVars>>

\* The run is killed, perhaps inside a write, which leaves a torn file: a
\* baseline file, the surface, the fingerprint, a marker or the record.
Kill ==
  /\ ~ Idle
  /\ phase' = "idle"
  /\ \/ UNCHANGED diskVars
     \/ /\ phase = "scaffold" /\ at <= Len(TARGETS) /\ file \in 1..Len(Baseline[Here])
        /\ Overwrites(Here, file)
        /\ disk' = [disk EXCEPT ![<<Here, file>>] = "torn"]
        /\ UNCHANGED <<own, surface, fingerprint, marker, record>>
     \/ /\ phase = "surface" /\ surface.form = "raw"
        /\ surface' = [surface EXCEPT !.form = "invalid"]
        /\ UNCHANGED <<disk, own, fingerprint, marker, record>>
     \/ /\ phase = "fingerprint" /\ fingerprint # surface.version
        /\ fingerprint' = 0
        /\ UNCHANGED <<disk, own, surface, marker, record>>
     \/ /\ phase = "mark" /\ at <= Len(TARGETS) /\ marker[Here] # surface.version
        /\ marker' = [marker EXCEPT ![Here] = 0]
        /\ UNCHANGED <<disk, own, surface, fingerprint, record>>
     \/ /\ phase = "mark" /\ at = Len(TARGETS) + 1
        /\ record # [version |-> surface.version, holds |-> collected]
        /\ record' = [version |-> 0, holds |-> Nothing]
        /\ UNCHANGED <<disk, own, surface, fingerprint, marker>>
  /\ wrote' = (wrote \/ diskVars' # diskVars)
  /\ dirty' = (dirty \/ diskVars' # diskVars)
  /\ UNCHANGED <<at, file, collected, edits, runs, settled>>

Next ==
  \/ EditSurface \/ \E t \in Targets : EditSources(t)
  \/ Start \/ EnterTarget \/ WriteFile \/ LeaveTarget \/ Scaffolded
  \/ NormaliseSurface \/ WriteFingerprint \/ Mark \/ WriteRecord
  \/ Verify \/ Kill

Spec == Init /\ [][Next]_vars

-----------------------------------------------------------------------------
\* Files have contents, nothing is of a surface that is still to come, and loops
\* stay in their tables.
TypeOK ==
  /\ disk \in [Cells -> Contents]
  /\ own \in [Targets -> [version : Nat, native : BOOLEAN]]
  /\ surface \in [version : Nat, form : Forms]
  /\ fingerprint \in 0..surface.version
  /\ marker \in [Targets -> 0..surface.version]
  /\ record.version \in 0..surface.version
  /\ phase \in Phases
  /\ at \in 1..(Len(TARGETS) + 1)
  /\ file \in 0..(IF phase = "scaffold" /\ at <= Len(TARGETS)
                 THEN Len(Baseline[Here]) + 1 ELSE file)

\* The script never touches what a maintainer wrote: "it never replaces existing
\* product implementation files".
HandFilesKept ==
  [][\A t \in Targets : \A f \in Files(t) :
       disk[<<t, f>>] = "hand" => disk'[<<t, f>>] = "hand"]_vars

\* A --write run that gets as far as the record leaves what both verifiers
\* accept, whatever runs were killed before it, and it stays so until an edit or
\* a torn write.
CompleteRunPasses == ~ dirty => GatePasses

\* verify_client_contract.py never lets an edit through that no complete run has
\* recorded, though a killed run may have renewed part of the evidence
\* ("fail closed when any client language drifts").
GateSeesEdits == GatePasses => ~ dirty

\* A run on a repository in order changes nothing: "deterministic and safe to
\* run repeatedly".
RerunWritesNothing == settled => ~ wrote

\* After a run, a target to which no maintainer contributed holds the whole
\* baseline: "missing runtime packages get a small compileable baseline".
BaselineComplete ==
  phase = "passed" /\ ~ dirty =>
    \A t \in Targets :
      (own[t].version = 0 /\ \A f \in Files(t) : disk[<<t, f>>] \notin {"hand", "legacy"})
        => \A f \in Files(t) : disk[<<t, f>>] = "baseline"

=============================================================================
