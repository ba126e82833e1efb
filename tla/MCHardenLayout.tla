--------------------------- MODULE MCHardenLayout ---------------------------
(***************************************************************************)
(* HardenLayout for TLC: three rows of the table -- a target with an alias *)
(* directory, the owner of the shared TypeScript package and a runtime     *)
(* that is not published -- with manifests that are empty, partly filled   *)
(* or mature (three directories here, 13 in the code), any closed set of   *)
(* directories, and three runs.  In a few repositories a link joins two    *)
(* canonical directories, or leads one out of the repository.              *)
(***************************************************************************)
EXTENDS HardenLayout

Row(zed, dir, others, names, published, rt) ==
  [zed_target |-> zed, canonical_dir |-> dir, aliases |-> others,
   zed_aliases |-> names, publish |-> published, runtime |-> rt]

MCTargets == <<
  Row("golang", "clients/golang", <<"clients/go">>, <<"go">>, TRUE, "none"),
  Row("nodejs", "clients/typescript/nodejs", <<"clients/typescript">>,
      <<"typescript">>, TRUE, "nodejs"),
  Row("nodejs", "clients/typescript/deno", <<"clients/typescript">>,
      <<"deno">>, FALSE, "deno") >>

MCShared == "clients/typescript"
MCNames == {"repository", "contract", "golang", "go", "nodejs", "typescript", "deno"}
MCSafe == {"clients/golang", "clients/go", "clients/typescript",
           "clients/typescript/nodejs", "clients/typescript/deno", "clients/sdk"}
MCPaths == MCSafe \cup {".", "../elsewhere"}
MCInRepo == MCSafe \cup {"."}
MCAbove == [p \in MCPaths |->
  IF p \in {"clients/typescript/nodejs", "clients/typescript/deno"}
  THEN {"clients/typescript"} ELSE {}]

Straight == [p \in MCPaths |-> p]

Closed(dirs) == \A p \in dirs : MCAbove[p] \subseteq dirs
Trees == {q \cup {".", "../elsewhere"} : q \in {d \in SUBSET MCSafe : Closed(d)}}

Manifests ==
  { [repository |-> NoDir, contract |-> ".", golang |-> a, go |-> b, nodejs |-> c,
     typescript |-> d, deno |-> e] :
      a \in {NoDir, "clients/golang"},
      b \in {NoDir, "clients/sdk"},
      c \in {NoDir, "clients/typescript", "clients/sdk", "../elsewhere", "."},
      d \in {NoDir, "clients/typescript"},
      e \in {NoDir, "clients/sdk"} }

\* A link from p to q: q exists, and so does what is above p.
Link(p, q) == [Straight EXCEPT ![p] = q]
Holding(p, q) == {d \in Trees : {q} \cup MCAbove[p] \subseteq d}

\* The shared package has sources of the runtime deno, if it is there.
StartsIn(trees, ms, r) ==
  { [manifest |-> m, present |-> d, resolve |-> r,
     runtimes |-> IF MCShared \in d THEN {"deno"} ELSE {}] : m \in ms, d \in trees }
StartsWith(ms) == StartsIn(Trees, ms, Straight)
StartsLinked(ms, p, q) == StartsIn(Holding(p, q), ms, Link(p, q))

Empty == [n \in MCNames |-> NoDir]

\* The manifest as the package validators want it.
MCRequired == [golang |-> "clients/go", nodejs |-> "clients/typescript"]
MCForbidden == {"typescript", "deno"}
MCPackaged == [Empty EXCEPT !.repository = ".", !.golang = "clients/go",
                          !.nodejs = "clients/typescript"]

\* A mature manifest that declares the places where others are repaired.
Crossed == [Empty EXCEPT !.golang = "clients/typescript/nodejs",
                         !.nodejs = "clients/typescript/deno", !.go = "clients/sdk"]

MCStarts ==
  UNION { StartsWith(Manifests),
          StartsWith({[Empty EXCEPT !.typescript = "clients/typescript/deno"], MCPackaged, Crossed}),
          StartsLinked({Empty, [Empty EXCEPT !.golang = "clients/sdk"]},
                       "clients/golang", "clients/typescript/deno"),
          StartsLinked({Empty}, "clients/typescript/deno", "../elsewhere"),
          StartsLinked({MCPackaged}, "clients/go", "../elsewhere"),
          StartsLinked({[Empty EXCEPT !.nodejs = "clients/sdk"]}, "clients/sdk", MCShared) }

=============================================================================
