------------------------------ MODULE ApiSurface ------------------------------
(***************************************************************************)
(* clients/api-surface.json: the symbols every client promises.  The       *)
(* maintainers edit them, each run of the hardener adds the standard       *)
(* symbols that are missing and the metadata a declaration lacks, refuses  *)
(* what makes no sense and writes the rest; the boundary test then asks    *)
(* whether a public symbol names a private one.                            *)
(* A surface is a sequence of symbols, a symbol a declaration with members *)
(* (fields, constructors and methods), each a declaration with the names   *)
(* it refers to.  Values that the JSON schema refuses are left out.        *)
(***************************************************************************)
EXTENDS Naturals, Sequences, FiniteSets

CONSTANTS
  Namespaces,  \* values of package.namespace
  Words,       \* what names are made of
  Starts,      \* [symbols, namespace]: surfaces before the first run; no symbols
               \* for a repository that has none
  NewSymbols,  \* symbols the maintainers may add
  NewMethods,  \* methods they may add
  NewNames,    \* names they may give to a symbol
  MaxEdits     \* bound: the maintainers' edits

VARIABLES
  symbols,     \* the symbols of the file
  written,     \* is the file there?
  namespace,   \* package.namespace
  fresh,       \* has nothing been touched since the last run that wrote?
  edits        \* edits so far

vars == <<symbols, written, namespace, fresh, edits>>

Visibilities == {"public", "private"}
Groups == {"fields", "constructors", "methods"}
NoId == <<>>

\* A name is a namespace, or none, and a word; an identifier is the place of a
\* declaration and its own name: a member's has the place of its symbol in it and
\* not what the symbol is called.
Names == (Namespaces \cup {""}) \X Words
Kinds == {"class", "interface", "type", "function", "field", "method"}
RefType == [form : {"named", "generic", "implements"}, to : Names]
Ids == {NoId} \cup (Nat \X Names) \cup (Nat \X Groups \X Nat \X Names)

\* Declarations with members of the given type; a member has none.
DeclarationType(members) ==
  [name : Names, kind : Kinds, visibility : Visibilities, runs : {"sync", "async"},
   refs : SUBSET RefType, id : Ids,
   stability : {"unset", "stable", "deprecated"}, deprecation : {"unset", "null", "since"},
   behavior : {"unset", "sync", "async"}, members : members]
MemberType == DeclarationType({[g \in Groups |-> <<>>]})
SymbolType == DeclarationType([Groups -> Seq(MemberType)])

\* The words of the standard symbols and their members.
StandardWords ==
  {"ClientOptions", "baseUrl", "bearerToken", "_RequestContext", "requestId", "Transport",
   "send", "_TelemetrySink", "record", "ClientError", "Client", "options", "new", "health",
   "_request", "_RequestBuilder", "build", "create", "_normalize"}

\* Values are as the JSON schema has them.
ASSUME SurfaceShape ==
  /\ StandardWords \subseteq Words /\ NewNames \subseteq Names /\ MaxEdits \in Nat
  /\ NewSymbols \subseteq SymbolType /\ NewMethods \subseteq MemberType
  /\ \A start \in Starts : start.symbols \in Seq(SymbolType) /\ start.namespace \in Namespaces

-----------------------------------------------------------------------------
(* The symbols every surface starts with. *)

Plain(name) == <<"", name>>
Refs(form, names) == {[form |-> form, to |-> n] : n \in names}
Declared(name, kind, visibility, runs, refs) ==
  [name |-> name, kind |-> kind, visibility |-> visibility, runs |-> runs, refs |-> refs,
   id |-> NoId, stability |-> "unset", deprecation |-> "unset", behavior |-> "unset",
   members |-> [g \in Groups |-> <<>>]]
Field(name, visibility, names) ==
  Declared(Plain(name), "field", visibility, "sync", Refs("named", names))
Method(name, visibility, runs, names) ==
  Declared(Plain(name), "method", visibility, runs, Refs("named", names))
Symbol(name, kind, visibility, refs, fields, constructors, methods) ==
  [Declared(name, kind, visibility, "sync", refs) EXCEPT !.members =
     [fields |-> fields, constructors |-> constructors, methods |-> methods]]

baseline_symbols(cap) ==
  LET client == <<cap, "Client">>              options == <<cap, "ClientOptions">>
      error == <<cap, "ClientError">>          request == <<cap, "_RequestContext">>
      builder == <<cap, "_RequestBuilder">>
  IN <<
  Symbol(options, "type", "public", {},
    <<Field("baseUrl", "public", {}), Field("bearerToken", "public", {})>>, <<>>, <<>>),
  Symbol(request, "type", "private", {}, <<Field("requestId", "private", {})>>, <<>>, <<>>),
  Symbol(<<cap, "Transport">>, "interface", "public", {},
    <<>>, <<>>, <<Method("send", "public", "async", {error})>>),
  Symbol(<<cap, "_TelemetrySink">>, "interface", "private", {},
    <<>>, <<>>, <<Method("record", "private", "sync", {})>>),
  Symbol(error, "type", "public", {}, <<>>, <<>>, <<>>),
  Symbol(client, "class", "public", {}, <<Field("options", "private", {options})>>,
    <<Method("new", "public", "sync", {options, client, error})>>,
    <<Method("health", "public", "async", {error}),
      Method("_request", "private", "async", {request, error})>>),
  Symbol(builder, "class", "private", {}, <<>>,
    <<Method("new", "private", "sync", {builder})>>, <<Method("build", "private", "sync", {})>>),
  Symbol(<<cap, "create">>, "function", "public",
    Refs("named", {options, client, error}), <<>>, <<>>, <<>>),
  Symbol(<<cap, "_normalize">>, "function", "private",
    Refs("named", {error}), <<>>, <<>>, <<>>) >>

-----------------------------------------------------------------------------
(* Reading a surface. *)

Named(doc) == {doc[i].name : i \in DOMAIN doc}

\* Every member, with its place: symbol, group, position.
MemberPlaces(doc) ==
  UNION {{<<i, g, j>> : j \in DOMAIN doc[i].members[g]} : i \in DOMAIN doc, g \in Groups}
Member(doc, p) == doc[p[1]].members[p[2]][p[3]]

\* The names a declaration refers to in the form the scripts look at: a generic
\* type's own name and the names of "implements" are of other forms.
NamedRefs(decl) == {r.to : r \in {x \in decl.refs : x.form = "named"}}

Calls(decl) == decl.kind \in {"function", "method"}

-----------------------------------------------------------------------------
(* The run. *)

\* merge_standard_symbols
Merged(doc, ns) ==
  LET standard == baseline_symbols(ns)
      new == {k \in DOMAIN standard : standard[k].name \notin Named(doc)}
      nth(j) == CHOOSE k \in new : Cardinality(new \cap (1..k)) = j
  IN  doc \o [j \in 1..Cardinality(new) |-> standard[nth(j)]]

\* Fault: the default replaces what was set.
DefaultAlways(value, unset, default) == default

\* Fault: nothing is set.
DefaultNever(value, unset, default) == value

\* set_default
Default(value, unset, default) == IF value = unset THEN default ELSE value

\* enrich_contract_metadata on one declaration.
Enriched(decl, ownId) ==
  [decl EXCEPT !.id = Default(@, NoId, ownId),
               !.stability = Default(@, "unset", "stable"),
               !.deprecation = Default(@, "unset", "null"),
               !.behavior = IF Calls(decl) THEN Default(@, "unset", decl.runs) ELSE @]

\* What is written for a member is found by place alone: the recursion takes the
\* path along, without the names it has passed.
EnrichedMembers(doc, i) ==
  [g \in Groups |-> [j \in DOMAIN doc[i].members[g] |->
     LET m == doc[i].members[g][j] IN Enriched(m, <<i, g, j, m.name>>)]]

EnrichedAll(doc) ==
  [i \in DOMAIN doc |->
     [Enriched(doc[i], <<i, doc[i].name>>) EXCEPT !.members = EnrichedMembers(doc, i)]]

\* Fault: what is added is not enriched.
HardenedTooEarly(doc, ns) == Merged(EnrichedAll(doc), ns)

\* The surface a run arrives at.
Hardened(doc, ns) == EnrichedAll(Merged(doc, ns))

\* semantic_errors
DuplicateNames(doc) == Cardinality(Named(doc)) # Len(doc)
Declarations(doc) == {<<<<i>>, doc[i]>> : i \in DOMAIN doc}
                       \cup {<<p, Member(doc, p)>> : p \in MemberPlaces(doc)}
Unresolved(doc) == \E d \in Declarations(doc) : ~ NamedRefs(d[2]) \subseteq Named(doc)
Missing(doc) ==
  \E v \in Visibilities :
    \/ \E k \in {"class", "interface", "type", "function"} : \A i \in DOMAIN doc : doc[i].kind # k \/ doc[i].visibility # v
    \/ \A p \in MemberPlaces(doc) : p[2] # "methods" \/ Member(doc, p).visibility # v
Contradicted(doc) ==
  \E d \in Declarations(doc) : /\ Calls(d[2])
                               /\ d[2].behavior \notin {"unset", d[2].runs}
Undated(doc) ==
  \E d \in Declarations(doc) : /\ d[2].stability = "deprecated"
                               /\ d[2].deprecation \in {"unset", "null"}
\* Fault: overloads count as one.
DuplicateIdsByName(doc) ==
  \E p, q \in MemberPlaces(doc) : p # q /\ p[1] = q[1] /\ Member(doc, p).name = Member(doc, q).name

DuplicateIds(doc) ==
  \E d, e \in Declarations(doc) : d[1] # e[1] /\ d[2].id = e[2].id /\ d[2].id # NoId

\* Identifiers are the script's: the maintainers write none, and before the first
\* run no two declarations have the same.
ASSUME IdentifiersAreGiven ==
  /\ \A s \in NewSymbols : \A d \in Declarations(<<s>>) : d[2].id = NoId
  /\ \A m \in NewMethods : m.id = NoId
  /\ \A start \in Starts : ~ DuplicateIds(start.symbols)

Refused(doc) ==
  \/ DuplicateNames(doc) \/ Unresolved(doc) \/ Missing(doc)
  \/ Contradicted(doc) \/ Undated(doc) \/ DuplicateIds(doc)

\* ensure_contract: the surface is written unless it is refused; a run that
\* refuses it ends before it has written anything.
Run ==
  LET new == Hardened(symbols, namespace) IN
  IF Refused(new)
  THEN UNCHANGED vars
  ELSE /\ symbols' = new
       /\ written' = TRUE
       /\ fresh' = TRUE
       /\ UNCHANGED <<namespace, edits>>

-----------------------------------------------------------------------------
(* The boundary test. *)

\* Fault: members count whatever their visibility.
AllFragments(s) ==
  IF s.visibility # "public" THEN {}
  ELSE {s} \cup UNION {{s.members[g][j] : j \in DOMAIN s.members[g]} : g \in Groups}

\* Fault: methods are not looked at.
FieldFragments(s) ==
  IF s.visibility # "public" THEN {}
  ELSE {s} \cup {s.members["fields"][j] : j \in DOMAIN s.members["fields"]}

\* public_fragments
PublicFragments(s) ==
  IF s.visibility # "public" THEN {}
  ELSE {s} \cup UNION {{m \in {s.members[g][j] : j \in DOMAIN s.members[g]} :
                          m.visibility = "public"} : g \in Groups}

PrivateNames(doc) ==
  {doc[i].name : i \in {j \in DOMAIN doc : doc[j].visibility = "private"}}

PublicRefs(doc) ==
  UNION {NamedRefs(f) : f \in UNION {PublicFragments(doc[i]) : i \in DOMAIN doc}}

\* boundary_errors: the private names that a public fragment refers to.
Leaks(doc) == PublicRefs(doc) \cap PrivateNames(doc)

private_leak_canary(doc) ==
  doc \o << Symbol(Plain("__private_boundary_canary"), "opaque", "private", {}, <<>>, <<>>, <<>>),
           Symbol(Plain("__public_boundary_canary"), "function", "public",
                  Refs("named", {Plain("__private_boundary_canary")}), <<>>, <<>>, <<>>) >>

-----------------------------------------------------------------------------
(* The maintainers. *)

Edit(new) ==
  /\ edits < MaxEdits
  /\ edits' = edits + 1
  /\ fresh' = FALSE
  /\ symbols' = new
  /\ UNCHANGED written

InsertAt(s, i, x) == SubSeq(s, 1, i - 1) \o <<x>> \o SubSeq(s, i, Len(s))
Without(s, i) == SubSeq(s, 1, i - 1) \o SubSeq(s, i + 1, Len(s))

AddSymbol ==
  \E s \in NewSymbols, i \in 1..(Len(symbols) + 1) :
    Edit(InsertAt(symbols, i, s)) /\ UNCHANGED namespace

RemoveSymbol ==
  \E i \in DOMAIN symbols : Edit(Without(symbols, i)) /\ UNCHANGED namespace

RenameSymbol ==
  \E i \in DOMAIN symbols, n \in NewNames :
    /\ symbols[i].name # n
    /\ Edit([symbols EXCEPT ![i].name = n]) /\ UNCHANGED namespace

\* A symbol is made public or private.
ShowOrHide ==
  \E i \in DOMAIN symbols, v \in Visibilities :
    /\ symbols[i].visibility # v
    /\ Edit([symbols EXCEPT ![i].visibility = v]) /\ UNCHANGED namespace

\* A method is added, an overload perhaps, before or after the others.
AddMethod ==
  \E i \in {k \in DOMAIN symbols : symbols[k].kind = "class"}, m \in NewMethods :
    \E j \in 1..(Len(symbols[i].members["methods"]) + 1) :
      /\ Edit([symbols EXCEPT ![i].members["methods"] = InsertAt(@, j, m)])
      /\ UNCHANGED namespace

\* A method becomes asynchronous, or stops being so.
ChangeRuns ==
  \E p \in {q \in MemberPlaces(symbols) : q[2] = "methods"} :
    /\ Edit([symbols EXCEPT ![p[1]].members[p[2]][p[3]].runs =
                IF @ = "async" THEN "sync" ELSE "async"])
    /\ UNCHANGED namespace

\* A symbol is deprecated, with or without saying since when.
Deprecate ==
  \E i \in DOMAIN symbols : \E d \in {"since", symbols[i].deprecation} :
    /\ symbols[i].stability # "deprecated"
    /\ Edit([symbols EXCEPT ![i].stability = "deprecated", ![i].deprecation = d])
    /\ UNCHANGED namespace

RenamePackage ==
  \E ns \in Namespaces \ {namespace} : written /\ Edit(symbols) /\ namespace' = ns

-----------------------------------------------------------------------------
Init ==
  /\ \E s \in Starts : symbols = s.symbols /\ written = (s.symbols # <<>>)
                      /\ namespace = s.namespace
  /\ fresh = FALSE /\ edits = 0

Next ==
  \/ Run
  \/ written /\ (\/ AddSymbol \/ RemoveSymbol \/ RenameSymbol \/ ShowOrHide \/ AddMethod
                 \/ ChangeRuns \/ Deprecate \/ RenamePackage)

Spec == Init /\ [][Next]_vars

-----------------------------------------------------------------------------
(* Properties *)

\* Values have their types, and a surface that a run has written is complete.
TypeOK ==
  /\ written \in BOOLEAN /\ fresh \in BOOLEAN
  /\ namespace \in Namespaces /\ edits \in 0..MaxEdits
  /\ symbols \in Seq(SymbolType)
  /\ fresh => \A d \in Declarations(symbols) :
       /\ d[2].id # NoId /\ "unset" \notin {d[2].stability, d[2].deprecation}
       /\ Calls(d[2]) => d[2].behavior # "unset"

\* A second run over what a run has written changes nothing: it finds every
\* standard symbol and every default that the first one has added.
RunSettles == fresh => Hardened(symbols, namespace) = symbols

\* Is old a declaration of the maintainers that new keeps?
Keeps(new, old) ==
  /\ [new EXCEPT !.id = old.id, !.stability = old.stability,
                 !.deprecation = old.deprecation, !.behavior = old.behavior] = old
  /\ old.id \in {NoId, new.id} /\ old.stability \in {"unset", new.stability}
  /\ old.deprecation \in {"unset", new.deprecation}
  /\ old.behavior \in {"unset", new.behavior}

\* A run adds and never takes away: every symbol and member of the maintainers is
\* in its place afterwards, with all they have said of it; an identifier that was
\* given once stays with its declaration when that is moved or renamed.
RunOnlyAdds ==
  [][Run => LET new == symbols' IN
       \A i \in DOMAIN symbols :
         /\ Keeps([new[i] EXCEPT !.members = symbols[i].members], symbols[i])
         /\ \A g \in Groups : \A j \in DOMAIN symbols[i].members[g] :
              Keeps(new[i].members[g][j], symbols[i].members[g][j])]_vars

\* Why a run may refuse what the maintainers have left: besides their own mistakes
\* because metadata that an earlier run has pinned no longer fits.
MethodVisibilities(s) ==
  {s.members["methods"][j].visibility : j \in DOMAIN s.members["methods"]}
StandardNameTaken ==
  \E k \in DOMAIN baseline_symbols(namespace), i \in DOMAIN symbols :
    LET s == baseline_symbols(namespace)[k] IN
    /\ symbols[i].name = s.name
    /\ \/ symbols[i].kind # s.kind \/ symbols[i].visibility # s.visibility
       \/ ~ MethodVisibilities(s) \subseteq MethodVisibilities(symbols[i])
PinnedBehavior ==
  \E d \in Declarations(symbols) : Calls(d[2]) /\ d[2].behavior \notin {"unset", d[2].runs}
OwnId(d) ==
  LET p == d[1] IN
  IF Len(p) = 1 THEN <<p[1], d[2].name>> ELSE <<p[1], p[2], p[3], d[2].name>>
PinnedId(doc) ==
  \E d, e \in Declarations(doc) : /\ d[2].id \notin {NoId, OwnId(d)}
                                  /\ e[2].id = NoId /\ d[2].id = OwnId(e)

\* A run refuses a surface only for a name declared twice, a name declared
\* nowhere, a deprecation without a date, a standard name declared as something
\* else (or without its public or private methods), a call whose pinned behavior its
\* new "async" contradicts, or a declaration that has come to the place, and has the
\* name, an older one took its identifier from (the maintainers' or a standard symbol
\* the run adds).  A method is enough for that: a symbol inserted before another
\* moves its members' places, and one of its own may be called as theirs.  In
\* particular no kind of symbol is ever missing otherwise.
RefusesOnlyFor ==
  LET merged == Merged(symbols, namespace) IN
  Refused(Hardened(symbols, namespace)) =>
    \/ DuplicateNames(symbols) \/ Unresolved(merged) \/ Undated(symbols)
    \/ StandardNameTaken \/ PinnedBehavior \/ PinnedId(merged)

\* A run does not open the boundary: what the boundary test passes, it passes
\* after the next run too, unless a standard name is declared as something else (of
\* another kind or visibility, or without the standard methods' visibilities), or
\* some declaration, public or not, names a private standard symbol that the run adds.
RunKeepsBoundary ==
  LET standard == baseline_symbols(namespace)
      hidden == {standard[k].name : k \in {j \in DOMAIN standard : standard[j].visibility = "private"}}
  IN  Leaks(symbols) = {} =>
        \/ Leaks(Hardened(symbols, namespace)) = {}
        \/ StandardNameTaken
        \/ \E d \in Declarations(symbols) : NamedRefs(d[2]) \cap (hidden \ Named(symbols)) # {}

\* What a user of the public surface sees: no private symbol, no private member.
PublicView(doc) ==
  {d \in Declarations(doc) : d[2].visibility = "public" /\ doc[d[1][1]].visibility = "public"}

\* The run and the boundary test together: from a surface that a run has written
\* and the boundary test passes, nobody who starts at a public symbol or member and
\* follows references comes to a private symbol, or to none, unless over a name of
\* "implements" or a generic type's own, which neither of the two scripts looks up.
\* With the canary the boundary test always fails, whatever the maintainers have
\* written.
PublicViewIsClosed ==
  LET public == {symbols[i].name : i \in {j \in DOMAIN symbols : symbols[j].visibility = "public"}}
  IN  /\ fresh /\ Leaks(symbols) = {} =>
           \A d \in PublicView(symbols) : \A r \in d[2].refs :
             r.to \in public \/ r.form \in {"implements", "generic"}
      /\ Leaks(private_leak_canary(symbols)) # {}
=============================================================================
