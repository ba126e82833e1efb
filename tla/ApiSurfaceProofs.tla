-------------------------- MODULE ApiSurfaceProofs --------------------------
(***************************************************************************)
(* What the runs check of ApiSurface, for every list of symbols, every     *)
(* change the maintainers may make and any number of them.                 *)
(***************************************************************************)
EXTENDS ApiSurface, FiniteSetTheorems, SequenceTheorems, TLAPS

-----------------------------------------------------------------------------
(* Declarations and their places. *)

\* A symbol and a member are declarations of the surface.
LEMMA IsDeclaration ==
  ASSUME NEW doc, NEW i \in DOMAIN doc
  PROVE  /\ <<<<i>>, doc[i]>> \in Declarations(doc)
         /\ \A g \in Groups : \A j \in DOMAIN doc[i].members[g] :
              /\ <<i, g, j>> \in MemberPlaces(doc)
              /\ Member(doc, <<i, g, j>>) = doc[i].members[g][j]
              /\ <<<<i, g, j>>, doc[i].members[g][j]>> \in Declarations(doc)
<1>1. ASSUME NEW g \in Groups, NEW j \in DOMAIN doc[i].members[g]
      PROVE  <<i, g, j>> \in MemberPlaces(doc)
  <2> DEFINE Group == {<<i, g, k>> : k \in DOMAIN doc[i].members[g]}
             All == {{<<a, b, k>> : k \in DOMAIN doc[a].members[b]} : a \in DOMAIN doc, b \in Groups}
  <2>1. <<i, g, j>> \in Group
    OBVIOUS
  <2>2. Group \in All
    OBVIOUS
  <2>3. MemberPlaces(doc) = UNION All
    BY DEF MemberPlaces
  <2> HIDE DEF Group, All
  <2> QED
    BY <2>1, <2>2, <2>3
<1>2. \A g \in Groups : \A j \in DOMAIN doc[i].members[g] :
        Member(doc, <<i, g, j>>) = doc[i].members[g][j]
  BY DEF Member
<1> QED
  BY <1>1, <1>2 DEF Declarations

\* There are no others.
LEMMA DeclarationsAre ==
  ASSUME NEW doc
  PROVE  /\ \A p \in MemberPlaces(doc) : \E i \in DOMAIN doc, g \in Groups :
              \E j \in DOMAIN doc[i].members[g] : p = <<i, g, j>>
         /\ \A d \in Declarations(doc) :
              \/ \E i \in DOMAIN doc : d = <<<<i>>, doc[i]>>
              \/ \E i \in DOMAIN doc, g \in Groups : \E j \in DOMAIN doc[i].members[g] :
                   d = <<<<i, g, j>>, doc[i].members[g][j]>>
<1>1. \A p \in MemberPlaces(doc) : \E i \in DOMAIN doc, g \in Groups :
         \E j \in DOMAIN doc[i].members[g] : p = <<i, g, j>>
  BY DEF MemberPlaces
<1>2. ASSUME NEW p \in MemberPlaces(doc)
      PROVE  \E i \in DOMAIN doc, g \in Groups : \E j \in DOMAIN doc[i].members[g] :
               <<p, Member(doc, p)>> = <<<<i, g, j>>, doc[i].members[g][j]>>
  BY <1>1 DEF Member
<1> QED
  BY <1>1, <1>2 DEF Declarations

\* Two declarations with the same parts are the same.
LEMMA SameParts ==
  ASSUME NEW members, NEW a \in DeclarationType(members), NEW b \in DeclarationType(members),
         a.name = b.name, a.kind = b.kind, a.visibility = b.visibility, a.runs = b.runs,
         a.refs = b.refs, a.id = b.id, a.stability = b.stability,
         a.deprecation = b.deprecation, a.behavior = b.behavior, a.members = b.members
  PROVE  a = b
BY DEF DeclarationType

\* The public fragments of a public symbol are itself and its public members.
LEMMA FragmentsAre ==
  ASSUME NEW s
  PROVE  /\ \A f \in PublicFragments(s) :
              /\ s.visibility = "public"
              /\ \/ f = s
                 \/ \E g \in Groups : \E j \in DOMAIN s.members[g] :
                      f = s.members[g][j] /\ f.visibility = "public"
         /\ s.visibility = "public" =>
              /\ s \in PublicFragments(s)
              /\ \A g \in Groups : \A j \in DOMAIN s.members[g] :
                   s.members[g][j].visibility = "public" => s.members[g][j] \in PublicFragments(s)
<1>1. ASSUME NEW g \in Groups, NEW j \in DOMAIN s.members[g],
             s.visibility = "public", s.members[g][j].visibility = "public"
      PROVE  s.members[g][j] \in PublicFragments(s)
  <2> DEFINE Group == {m \in {s.members[g][k] : k \in DOMAIN s.members[g]} : m.visibility = "public"}
             All == {{m \in {s.members[h][k] : k \in DOMAIN s.members[h]} : m.visibility = "public"} :
                       h \in Groups}
  <2>1. s.members[g][j] \in Group
    BY <1>1
  <2>2. Group \in All
    OBVIOUS
  <2>3. PublicFragments(s) = {s} \cup UNION All
    BY <1>1 DEF PublicFragments
  <2> HIDE DEF Group, All
  <2> QED
    BY <2>1, <2>2, <2>3
<1>2. \A f \in PublicFragments(s) :
        /\ s.visibility = "public"
        /\ \/ f = s
           \/ \E g \in Groups : \E j \in DOMAIN s.members[g] :
                f = s.members[g][j] /\ f.visibility = "public"
  BY DEF PublicFragments
<1>3. s.visibility = "public" => s \in PublicFragments(s)
  BY DEF PublicFragments
<1> QED
  BY <1>1, <1>2, <1>3

-----------------------------------------------------------------------------
(* The standard symbols. *)

\* A declaration that has nothing the script gives.
Bare(decl) ==
  /\ decl.id = NoId /\ decl.stability = "unset"
  /\ decl.deprecation = "unset" /\ decl.behavior = "unset"
BareSymbol(s) ==
  Bare(s) /\ \A g \in Groups : \A j \in DOMAIN s.members[g] : Bare(s.members[g][j])

\* The names and references of the standard symbols are of their types.
LEMMA StandardNames ==
  ASSUME NEW ns \in Namespaces, NEW w \in StandardWords
  PROVE  <<ns, w>> \in Names /\ Plain(w) \in Names
BY SurfaceShape DEF Names, Plain

\* References to names are references.
LEMMA NamedRefsTyped ==
  ASSUME NEW names \in SUBSET Names
  PROVE  Refs("named", names) \in SUBSET RefType
BY DEF Refs, RefType

\* A field is what it is declared to be.
LEMMA FieldIs ==
  ASSUME NEW w \in StandardWords, NEW v \in Visibilities, NEW names \in SUBSET Names,
         Plain(w) \in Names
  PROVE  LET f == Field(w, v, names) IN
         f \in MemberType /\ Bare(f) /\ f.visibility = v /\ f.refs = Refs("named", names)
BY NamedRefsTyped
DEF Field, Declared, MemberType, DeclarationType, Bare, Kinds, Ids

\* And a method.
LEMMA MethodIs ==
  ASSUME NEW w \in StandardWords, NEW v \in Visibilities, NEW runs \in {"sync", "async"},
         NEW names \in SUBSET Names, Plain(w) \in Names
  PROVE  LET m == Method(w, v, runs, names) IN
         m \in MemberType /\ Bare(m) /\ m.visibility = v /\ m.refs = Refs("named", names)
BY NamedRefsTyped
DEF Method, Declared, MemberType, DeclarationType, Bare, Kinds, Ids

\* So is a symbol.
LEMMA SymbolIs ==
  ASSUME NEW name \in Names, NEW kind \in Kinds, NEW v \in Visibilities,
         NEW names \in SUBSET Names, NEW refs, refs = Refs("named", names),
         NEW fields \in Seq(MemberType), NEW constructors \in Seq(MemberType),
         NEW methods \in Seq(MemberType),
         NEW s, s = Symbol(name, kind, v, refs, fields, constructors, methods)
  PROVE  /\ s \in SymbolType /\ Bare(s)
         /\ s.name = name /\ s.kind = kind /\ s.visibility = v /\ s.refs = refs
         /\ s.members["fields"] = fields /\ s.members["constructors"] = constructors
         /\ s.members["methods"] = methods
BY NamedRefsTyped
DEF Symbol, Declared, SymbolType, DeclarationType, Bare, Groups, Ids

\* The names that the public standard declarations refer to.
Opened(ns) == {<<ns, "ClientOptions">>, <<ns, "Client">>, <<ns, "ClientError">>}

\* The members and the symbols the standard ones are made of.
StandardMember(ns) ==
  {m \in MemberType : Bare(m) /\ (m.visibility = "public" => NamedRefs(m) \subseteq Opened(ns))}
StandardSymbol(ns) ==
  {s \in SymbolType : BareSymbol(s) /\ \A f \in PublicFragments(s) : NamedRefs(f) \subseteq Opened(ns)}

\* A declaration made with named references refers to these names.
LEMMA NamedRefsAre ==
  ASSUME NEW decl, NEW names, decl.refs = Refs("named", names)
  PROVE  NamedRefs(decl) = names
<1>1. ASSUME NEW n \in names
      PROVE  n \in NamedRefs(decl)
  <2>1. [form |-> "named", to |-> n] \in {x \in decl.refs : x.form = "named"}
    BY DEF Refs
  <2> QED
    BY <2>1 DEF NamedRefs
<1> QED
  BY <1>1 DEF NamedRefs, Refs

\* The fields that are declared with opened names are standard members.
LEMMA StandardFieldIs ==
  ASSUME NEW ns \in Namespaces, NEW w \in StandardWords, NEW v \in Visibilities,
         NEW names \in SUBSET Opened(ns)
  PROVE  /\ Field(w, v, names) \in StandardMember(ns)
         /\ Field(w, v, names).visibility = v
<1>1. names \in SUBSET Names /\ Plain(w) \in Names
  BY StandardNames DEF Opened, StandardWords
<1> QED
  BY <1>1, FieldIs, NamedRefsAre DEF StandardMember

\* So are the methods, the private ones whatever they refer to.
LEMMA StandardMethodIs ==
  ASSUME NEW ns \in Namespaces, NEW w \in StandardWords, NEW v \in Visibilities,
         NEW runs \in {"sync", "async"}, NEW names \in SUBSET Names,
         v = "public" => names \subseteq Opened(ns)
  PROVE  /\ Method(w, v, runs, names) \in StandardMember(ns)
         /\ Method(w, v, runs, names).visibility = v
<1>1. Plain(w) \in Names
  BY StandardNames
<1> QED
  BY <1>1, MethodIs, NamedRefsAre DEF StandardMember

StandardIs(s, ns, name, kind, v) ==
  s \in StandardSymbol(ns) /\ s.name = name /\ s.kind = kind /\ s.visibility = v

\* A symbol made of standard members is a standard symbol.
LEMMA StandardSymbolIs ==
  ASSUME NEW ns \in Namespaces, NEW name \in Names, NEW kind \in Kinds, NEW v \in Visibilities,
         NEW names \in SUBSET Opened(ns), NEW refs, refs = Refs("named", names),
         NEW fields \in Seq(StandardMember(ns)), NEW constructors \in Seq(StandardMember(ns)),
         NEW methods \in Seq(StandardMember(ns)),
         NEW s, s = Symbol(name, kind, v, refs, fields, constructors, methods)
  PROVE  StandardIs(s, ns, name, kind, v)
<1>1. names \in SUBSET Names
  BY StandardNames DEF Opened, StandardWords
<1>2. /\ fields \in Seq(MemberType) /\ constructors \in Seq(MemberType)
      /\ methods \in Seq(MemberType)
  <2>1. StandardMember(ns) \subseteq MemberType
    BY DEF StandardMember
  <2> QED
    BY <2>1
<1>3. /\ s \in SymbolType /\ Bare(s)
      /\ s.name = name /\ s.kind = kind /\ s.visibility = v /\ s.refs = Refs("named", names)
      /\ s.members["fields"] = fields /\ s.members["constructors"] = constructors
      /\ s.members["methods"] = methods
  BY <1>1, <1>2, SymbolIs
<1>4. NamedRefs(s) = names
  BY <1>3, NamedRefsAre
<1>5. \A g \in Groups : \A j \in DOMAIN s.members[g] : s.members[g][j] \in StandardMember(ns)
  <2>1. \A q \in Seq(StandardMember(ns)) : \A j \in DOMAIN q : q[j] \in StandardMember(ns)
    OBVIOUS
  <2> QED
    BY <1>3, <2>1 DEF Groups
<1>6. BareSymbol(s)
  BY <1>3, <1>5 DEF BareSymbol, StandardMember
<1>7. ASSUME NEW f \in PublicFragments(s)
      PROVE  NamedRefs(f) \subseteq Opened(ns)
  <2>1. CASE f = s
    BY <1>4, <2>1
  <2>2. CASE \E g \in Groups : \E j \in DOMAIN s.members[g] :
               f = s.members[g][j] /\ f.visibility = "public"
    BY <1>5, <2>2 DEF StandardMember
  <2> QED
    BY <2>1, <2>2, FragmentsAre
<1> QED
  BY <1>3, <1>6, <1>7 DEF StandardIs, StandardSymbol

\* The methods of a symbol are those it is declared with.
LEMMA MethodsOf ==
  ASSUME NEW name, NEW kind, NEW v, NEW refs, NEW fields, NEW constructors, NEW methods
  PROVE  Symbol(name, kind, v, refs, fields, constructors, methods).members["methods"] = methods
BY DEF Symbol, Declared

\* The standard symbols one by one.
LEMMA StandardAre ==
  ASSUME NEW ns \in Namespaces, NEW b, b = baseline_symbols(ns)
  PROVE  /\ b \in Seq(StandardSymbol(ns)) /\ Len(b) = 9
         /\ StandardIs(b[1], ns, <<ns, "ClientOptions">>, "type", "public")
         /\ StandardIs(b[2], ns, <<ns, "_RequestContext">>, "type", "private")
         /\ StandardIs(b[3], ns, <<ns, "Transport">>, "interface", "public")
         /\ StandardIs(b[4], ns, <<ns, "_TelemetrySink">>, "interface", "private")
         /\ StandardIs(b[5], ns, <<ns, "ClientError">>, "type", "public")
         /\ StandardIs(b[6], ns, <<ns, "Client">>, "class", "public")
         /\ StandardIs(b[7], ns, <<ns, "_RequestBuilder">>, "class", "private")
         /\ StandardIs(b[8], ns, <<ns, "create">>, "function", "public")
         /\ StandardIs(b[9], ns, <<ns, "_normalize">>, "function", "private")
         /\ \E j \in DOMAIN b[3].members["methods"] : b[3].members["methods"][j].visibility = "public"
         /\ \E j \in DOMAIN b[4].members["methods"] : b[4].members["methods"][j].visibility = "private"
<1> DEFINE client == <<ns, "Client">>           options == <<ns, "ClientOptions">>
           error == <<ns, "ClientError">>       request == <<ns, "_RequestContext">>
           builder == <<ns, "_RequestBuilder">> transport == <<ns, "Transport">>
           sink == <<ns, "_TelemetrySink">>     create == <<ns, "create">>
           normalize == <<ns, "_normalize">>
           Members == StandardMember(ns)
<1>1. {client, options, error, request, builder, transport, sink, create, normalize} \subseteq Names
  BY StandardNames DEF StandardWords
<1>2. {options, client, error} = Opened(ns)
  BY DEF Opened
<1>3. {} = Refs("named", {})
  BY DEF Refs
<1> HIDE DEF client, options, error, request, builder, transport, sink, create, normalize
<1>4. StandardIs(b[1], ns, options, "type", "public")
  <2>1. Field("baseUrl", "public", {}) \in Members
    BY <1>1, <1>2, StandardFieldIs DEF StandardWords, Visibilities
  <2>2. Field("bearerToken", "public", {}) \in Members
    BY <1>1, <1>2, StandardFieldIs DEF StandardWords, Visibilities
  <2>3. PICK s, fields, constructors, methods :
         /\ s = b[1]
         /\ fields = <<Field("baseUrl", "public", {}), Field("bearerToken", "public", {})>>
         /\ constructors = <<>>
         /\ methods = <<>>
    OBVIOUS
  <2>4. fields \in Seq(Members) /\ constructors \in Seq(Members) /\ methods \in Seq(Members)
    BY <2>1, <2>2, <2>3
  <2>5. s = Symbol(options, "type", "public", {}, fields, constructors, methods)
    BY <2>3 DEF baseline_symbols, client, options, error, request, builder,
                  transport, sink, create, normalize
  <2>6. /\ "type" \in Kinds /\ "public" \in Visibilities
       /\ {} \in SUBSET Opened(ns) /\ {} = Refs("named", {})
    BY <1>2, <1>3 DEF Kinds, Visibilities
  <2>7. StandardIs(s, ns, options, "type", "public")
    BY <1>1, <2>4, <2>5, <2>6, StandardSymbolIs
  <2> HIDE DEF Members
  <2> QED
    BY <2>3, <2>7
<1>5. StandardIs(b[2], ns, request, "type", "private")
  <2>1. Field("requestId", "private", {}) \in Members
    BY <1>1, <1>2, StandardFieldIs DEF StandardWords, Visibilities
  <2>2. PICK s, fields, constructors, methods :
         /\ s = b[2]
         /\ fields = <<Field("requestId", "private", {})>>
         /\ constructors = <<>>
         /\ methods = <<>>
    OBVIOUS
  <2>3. fields \in Seq(Members) /\ constructors \in Seq(Members) /\ methods \in Seq(Members)
    BY <2>1, <2>2
  <2>4. s = Symbol(request, "type", "private", {}, fields, constructors, methods)
    BY <2>2 DEF baseline_symbols, client, options, error, request, builder,
                  transport, sink, create, normalize
  <2>5. /\ "type" \in Kinds /\ "private" \in Visibilities
       /\ {} \in SUBSET Opened(ns) /\ {} = Refs("named", {})
    BY <1>2, <1>3 DEF Kinds, Visibilities
  <2>6. StandardIs(s, ns, request, "type", "private")
    BY <1>1, <2>3, <2>4, <2>5, StandardSymbolIs
  <2> HIDE DEF Members
  <2> QED
    BY <2>2, <2>6
<1>6. /\ StandardIs(b[3], ns, transport, "interface", "public")
      /\ \E j \in DOMAIN b[3].members["methods"] : b[3].members["methods"][j].visibility = "public"
  <2>1. Method("send", "public", "async", {error}) \in Members /\ Method("send", "public", "async", {error}).visibility = "public"
    BY <1>1, <1>2, StandardMethodIs DEF StandardWords, Visibilities
  <2>2. PICK s, fields, constructors, methods :
         /\ s = b[3]
         /\ fields = <<>>
         /\ constructors = <<>>
         /\ methods = <<Method("send", "public", "async", {error})>>
    OBVIOUS
  <2>3. fields \in Seq(Members) /\ constructors \in Seq(Members) /\ methods \in Seq(Members)
    BY <2>1, <2>2
  <2>4. s = Symbol(transport, "interface", "public", {}, fields, constructors, methods)
    BY <2>2 DEF baseline_symbols, client, options, error, request, builder,
                  transport, sink, create, normalize
  <2>5. /\ "interface" \in Kinds /\ "public" \in Visibilities
       /\ {} \in SUBSET Opened(ns) /\ {} = Refs("named", {})
    BY <1>2, <1>3 DEF Kinds, Visibilities
  <2>6. StandardIs(s, ns, transport, "interface", "public")
    BY <1>1, <2>3, <2>4, <2>5, StandardSymbolIs
  <2>7. s.members["methods"] = methods
    BY <2>4, MethodsOf
  <2>8. 1 \in DOMAIN methods /\ methods[1].visibility = "public"
    BY <2>1, <2>2
  <2> HIDE DEF Members
  <2> QED
    BY <2>2, <2>6, <2>7, <2>8
<1>7. /\ StandardIs(b[4], ns, sink, "interface", "private")
      /\ \E j \in DOMAIN b[4].members["methods"] : b[4].members["methods"][j].visibility = "private"
  <2>1. Method("record", "private", "sync", {}) \in Members /\ Method("record", "private", "sync", {}).visibility = "private"
    BY <1>1, <1>2, StandardMethodIs DEF StandardWords, Visibilities
  <2>2. PICK s, fields, constructors, methods :
         /\ s = b[4]
         /\ fields = <<>>
         /\ constructors = <<>>
         /\ methods = <<Method("record", "private", "sync", {})>>
    OBVIOUS
  <2>3. fields \in Seq(Members) /\ constructors \in Seq(Members) /\ methods \in Seq(Members)
    BY <2>1, <2>2
  <2>4. s = Symbol(sink, "interface", "private", {}, fields, constructors, methods)
    BY <2>2 DEF baseline_symbols, client, options, error, request, builder,
                  transport, sink, create, normalize
  <2>5. /\ "interface" \in Kinds /\ "private" \in Visibilities
       /\ {} \in SUBSET Opened(ns) /\ {} = Refs("named", {})
    BY <1>2, <1>3 DEF Kinds, Visibilities
  <2>6. StandardIs(s, ns, sink, "interface", "private")
    BY <1>1, <2>3, <2>4, <2>5, StandardSymbolIs
  <2>7. s.members["methods"] = methods
    BY <2>4, MethodsOf
  <2>8. 1 \in DOMAIN methods /\ methods[1].visibility = "private"
    BY <2>1, <2>2
  <2> HIDE DEF Members
  <2> QED
    BY <2>2, <2>6, <2>7, <2>8
<1>8. StandardIs(b[5], ns, error, "type", "public")
  <2>1. PICK s, fields, constructors, methods :
         /\ s = b[5]
         /\ fields = <<>>
         /\ constructors = <<>>
         /\ methods = <<>>
    OBVIOUS
  <2>2. fields \in Seq(Members) /\ constructors \in Seq(Members) /\ methods \in Seq(Members)
    BY <2>1
  <2>3. s = Symbol(error, "type", "public", {}, fields, constructors, methods)
    BY <2>1 DEF baseline_symbols, client, options, error, request, builder,
                  transport, sink, create, normalize
  <2>4. /\ "type" \in Kinds /\ "public" \in Visibilities
       /\ {} \in SUBSET Opened(ns) /\ {} = Refs("named", {})
    BY <1>2, <1>3 DEF Kinds, Visibilities
  <2>5. StandardIs(s, ns, error, "type", "public")
    BY <1>1, <2>2, <2>3, <2>4, StandardSymbolIs
  <2> HIDE DEF Members
  <2> QED
    BY <2>1, <2>5
<1>9. StandardIs(b[6], ns, client, "class", "public")
  <2>1. Field("options", "private", {options}) \in Members
    BY <1>1, <1>2, StandardFieldIs DEF StandardWords, Visibilities
  <2>2. Method("new", "public", "sync", {options, client, error}) \in Members
    BY <1>1, <1>2, StandardMethodIs DEF StandardWords, Visibilities
  <2>3. Method("health", "public", "async", {error}) \in Members
    BY <1>1, <1>2, StandardMethodIs DEF StandardWords, Visibilities
  <2>4. Method("_request", "private", "async", {request, error}) \in Members
    BY <1>1, <1>2, StandardMethodIs DEF StandardWords, Visibilities
  <2>5. PICK s, fields, constructors, methods :
         /\ s = b[6]
         /\ fields = <<Field("options", "private", {options})>>
         /\ constructors = <<Method("new", "public", "sync", {options, client, error})>>
         /\ methods = <<Method("health", "public", "async", {error}), Method("_request", "private", "async", {request, error})>>
    OBVIOUS
  <2>6. fields \in Seq(Members) /\ constructors \in Seq(Members) /\ methods \in Seq(Members)
    BY <2>1, <2>2, <2>3, <2>4, <2>5
  <2>7. s = Symbol(client, "class", "public", {}, fields, constructors, methods)
    BY <2>5 DEF baseline_symbols, client, options, error, request, builder,
                  transport, sink, create, normalize
  <2>8. /\ "class" \in Kinds /\ "public" \in Visibilities
       /\ {} \in SUBSET Opened(ns) /\ {} = Refs("named", {})
    BY <1>2, <1>3 DEF Kinds, Visibilities
  <2>9. StandardIs(s, ns, client, "class", "public")
    BY <1>1, <2>6, <2>7, <2>8, StandardSymbolIs
  <2> HIDE DEF Members
  <2> QED
    BY <2>5, <2>9
<1>10. StandardIs(b[7], ns, builder, "class", "private")
  <2>1. Method("new", "private", "sync", {builder}) \in Members
    BY <1>1, <1>2, StandardMethodIs DEF StandardWords, Visibilities
  <2>2. Method("build", "private", "sync", {}) \in Members
    BY <1>1, <1>2, StandardMethodIs DEF StandardWords, Visibilities
  <2>3. PICK s, fields, constructors, methods :
         /\ s = b[7]
         /\ fields = <<>>
         /\ constructors = <<Method("new", "private", "sync", {builder})>>
         /\ methods = <<Method("build", "private", "sync", {})>>
    OBVIOUS
  <2>4. fields \in Seq(Members) /\ constructors \in Seq(Members) /\ methods \in Seq(Members)
    BY <2>1, <2>2, <2>3
  <2>5. s = Symbol(builder, "class", "private", {}, fields, constructors, methods)
    BY <2>3 DEF baseline_symbols, client, options, error, request, builder,
                  transport, sink, create, normalize
  <2>6. /\ "class" \in Kinds /\ "private" \in Visibilities
       /\ {} \in SUBSET Opened(ns) /\ {} = Refs("named", {})
    BY <1>2, <1>3 DEF Kinds, Visibilities
  <2>7. StandardIs(s, ns, builder, "class", "private")
    BY <1>1, <2>4, <2>5, <2>6, StandardSymbolIs
  <2> HIDE DEF Members
  <2> QED
    BY <2>3, <2>7
<1>11. StandardIs(b[8], ns, create, "function", "public")
  <2>1. PICK s, fields, constructors, methods :
         /\ s = b[8]
         /\ fields = <<>>
         /\ constructors = <<>>
         /\ methods = <<>>
    OBVIOUS
  <2>2. fields \in Seq(Members) /\ constructors \in Seq(Members) /\ methods \in Seq(Members)
    BY <2>1
  <2>3. s = Symbol(create, "function", "public", Refs("named", {options, client, error}), fields, constructors, methods)
    BY <2>1 DEF baseline_symbols, client, options, error, request, builder,
                  transport, sink, create, normalize
  <2>4. /\ "function" \in Kinds /\ "public" \in Visibilities
       /\ {options, client, error} \in SUBSET Opened(ns) /\ Refs("named", {options, client, error}) = Refs("named", {options, client, error})
    BY <1>2, <1>3 DEF Kinds, Visibilities
  <2>5. StandardIs(s, ns, create, "function", "public")
    BY <1>1, <2>2, <2>3, <2>4, StandardSymbolIs
  <2> HIDE DEF Members
  <2> QED
    BY <2>1, <2>5
<1>12. StandardIs(b[9], ns, normalize, "function", "private")
  <2>1. PICK s, fields, constructors, methods :
         /\ s = b[9]
         /\ fields = <<>>
         /\ constructors = <<>>
         /\ methods = <<>>
    OBVIOUS
  <2>2. fields \in Seq(Members) /\ constructors \in Seq(Members) /\ methods \in Seq(Members)
    BY <2>1
  <2>3. s = Symbol(normalize, "function", "private", Refs("named", {error}), fields, constructors, methods)
    BY <2>1 DEF baseline_symbols, client, options, error, request, builder,
                  transport, sink, create, normalize
  <2>4. /\ "function" \in Kinds /\ "private" \in Visibilities
       /\ {error} \in SUBSET Opened(ns) /\ Refs("named", {error}) = Refs("named", {error})
    BY <1>2, <1>3 DEF Kinds, Visibilities
  <2>5. StandardIs(s, ns, normalize, "function", "private")
    BY <1>1, <2>2, <2>3, <2>4, StandardSymbolIs
  <2> HIDE DEF Members
  <2> QED
    BY <2>1, <2>5
<1>13. Len(b) = 9
  BY DEF baseline_symbols
<1>14. \A k \in 1..9 : b[k] \in StandardSymbol(ns)
  BY <1>4, <1>5, <1>6, <1>7, <1>8, <1>9, <1>10, <1>11, <1>12 DEF StandardIs
<1>15. PICK s1, s2, s3, s4, s5, s6, s7, s8, s9 : b = <<s1, s2, s3, s4, s5, s6, s7, s8, s9>>
  BY DEF baseline_symbols
<1>16. b \in Seq(StandardSymbol(ns))
  BY <1>14, <1>15
<1> QED
  BY <1>4, <1>5, <1>6, <1>7, <1>8, <1>9, <1>10, <1>11, <1>12, <1>13, <1>16
  DEF client, options, error, request, builder, transport, sink, create, normalize

\* No two of them have the same name.
LEMMA StandardNamesDiffer ==
  ASSUME NEW ns \in Namespaces, NEW b, b = baseline_symbols(ns)
  PROVE  \A k, l \in 1..9 : b[k].name = b[l].name => k = l
<1>1. /\ b[1].name = <<ns, "ClientOptions">>    /\ b[2].name = <<ns, "_RequestContext">>
      /\ b[3].name = <<ns, "Transport">>        /\ b[4].name = <<ns, "_TelemetrySink">>
      /\ b[5].name = <<ns, "ClientError">>      /\ b[6].name = <<ns, "Client">>
      /\ b[7].name = <<ns, "_RequestBuilder">>  /\ b[8].name = <<ns, "create">>
      /\ b[9].name = <<ns, "_normalize">>
  BY StandardAre DEF StandardIs
<1>2. \A k \in 1..9 : b[k].name[2] = <<"ClientOptions", "_RequestContext", "Transport",
                        "_TelemetrySink", "ClientError", "Client", "_RequestBuilder", "create",
                        "_normalize">>[k]
  BY <1>1
<1> QED
  BY <1>2

-----------------------------------------------------------------------------
(* What a run merges. *)

\* Among the numbers up to nine, the elements of a set are counted one by one.
LEMMA Counting ==
  ASSUME NEW new \in SUBSET (1..9)
  PROVE  /\ Cardinality(new) \in 0..9
         /\ \A j \in 1..Cardinality(new) : \E k \in new : Cardinality(new \cap (1..k)) = j
         /\ \A k \in new : Cardinality(new \cap (1..k)) \in 1..Cardinality(new)
         /\ \A k, l \in new : Cardinality(new \cap (1..k)) = Cardinality(new \cap (1..l)) => k = l
<1> DEFINE upTo(k) == new \cap (1..k)
           c(k) == Cardinality(upTo(k))
<1>1. ASSUME NEW k \in 1..9
      PROVE  c(k) = IF k \in new THEN c(k - 1) + 1 ELSE c(k - 1)
  <2>1. IsFiniteSet(upTo(k - 1)) /\ k \notin upTo(k - 1)
    <3>1. IsFiniteSet(1..(k - 1))
      BY FS_Interval
    <3>2. upTo(k - 1) \subseteq 1..(k - 1) /\ k \notin upTo(k - 1)
      OBVIOUS
    <3> QED
      BY <3>1, <3>2, FS_Subset
  <2>2. upTo(k) = IF k \in new THEN upTo(k - 1) \cup {k} ELSE upTo(k - 1)
    OBVIOUS
  <2> HIDE DEF upTo
  <2> QED
    BY <2>1, <2>2, FS_AddElement
<1>2. c(0) = 0
  <2>1. upTo(0) = {}
    OBVIOUS
  <2> QED
    BY <2>1, FS_EmptySet
<1>3. c(9) = Cardinality(new)
  <2>1. upTo(9) = new
    OBVIOUS
  <2> QED
    BY <2>1
<1> HIDE DEF c
<1>4. /\ c(1) = IF 1 \in new THEN c(0) + 1 ELSE c(0)
      /\ c(2) = IF 2 \in new THEN c(1) + 1 ELSE c(1)
      /\ c(3) = IF 3 \in new THEN c(2) + 1 ELSE c(2)
      /\ c(4) = IF 4 \in new THEN c(3) + 1 ELSE c(3)
      /\ c(5) = IF 5 \in new THEN c(4) + 1 ELSE c(4)
      /\ c(6) = IF 6 \in new THEN c(5) + 1 ELSE c(5)
      /\ c(7) = IF 7 \in new THEN c(6) + 1 ELSE c(6)
      /\ c(8) = IF 8 \in new THEN c(7) + 1 ELSE c(7)
      /\ c(9) = IF 9 \in new THEN c(8) + 1 ELSE c(8)
  BY <1>1
<1>5. \A k \in new : k = 1 \/ k = 2 \/ k = 3 \/ k = 4 \/ k = 5 \/ k = 6 \/ k = 7 \/ k = 8 \/ k = 9
  OBVIOUS
<1>6. c(9) \in 0..9
  BY <1>2, <1>4
<1>7. ASSUME NEW j \in 1..c(9)
      PROVE  \E k \in new : c(k) = j
  BY <1>2, <1>4, <1>6
<1>8. \A k \in new : c(k) \in 1..c(9)
  BY <1>2, <1>4, <1>5
<1>9. \A k, l \in new : c(k) = c(l) => k = l
  BY <1>2, <1>4, <1>5
<1> QED
  BY <1>3, <1>6, <1>7, <1>8, <1>9 DEF c

\* The symbols of doc in their places, and after them those of b whose names are
\* not there, each once.
Extends(m, doc, b) ==
  /\ Len(doc) \in Nat /\ Len(m) \in Nat /\ Len(doc) <= Len(m)
  /\ \A i \in 1..Len(doc) : m[i] = doc[i]
  /\ \A i \in (Len(doc) + 1)..Len(m) : \E k \in 1..9 : m[i] = b[k] /\ b[k].name \notin Named(doc)
  /\ \A k \in 1..9 : b[k].name \notin Named(doc) => \E i \in 1..Len(m) : m[i] = b[k]
  /\ \A i, j \in (Len(doc) + 1)..Len(m) : m[i].name = m[j].name => i = j
  /\ (\A k \in 1..9 : b[k].name \in Named(doc)) => m = doc

\* That is the surface a run enriches.
LEMMA MergedIs ==
  ASSUME NEW doc \in Seq(SymbolType), NEW ns \in Namespaces,
         NEW b, b = baseline_symbols(ns), NEW m, m = Merged(doc, ns)
  PROVE  m \in Seq(SymbolType) /\ Extends(m, doc, b)
<1> DEFINE new == {k \in DOMAIN b : b[k].name \notin Named(doc)}
           nth(j) == CHOOSE k \in new : Cardinality(new \cap (1..k)) = j
           n == Cardinality(new)
           added == [j \in 1..n |-> b[nth(j)]]
<1>1. b \in Seq(StandardSymbol(ns)) /\ Len(b) = 9
  BY StandardAre
<1>2. DOMAIN b = 1..9 /\ \A k \in 1..9 : b[k] \in SymbolType
  <2>1. \A S : \A q \in Seq(S) : DOMAIN q = 1..Len(q) /\ \A k \in 1..Len(q) : q[k] \in S
    OBVIOUS
  <2>2. DOMAIN b = 1..9 /\ \A k \in 1..9 : b[k] \in StandardSymbol(ns)
    BY <1>1, <2>1
  <2> QED
    BY <2>2 DEF StandardSymbol
<1>3. m = doc \o added
  BY DEF Merged
<1>4. new \in SUBSET (1..9)
  BY <1>2
<1>5. /\ n \in 0..9
      /\ \A j \in 1..n : \E k \in new : Cardinality(new \cap (1..k)) = j
      /\ \A k \in new : Cardinality(new \cap (1..k)) \in 1..n
      /\ \A k, l \in new : Cardinality(new \cap (1..k)) = Cardinality(new \cap (1..l)) => k = l
  <2> HIDE DEF new
  <2> QED
    BY <1>4, Counting
<1>6. \A k \in new : k \in 1..9 /\ b[k].name \notin Named(doc)
  BY <1>2
<1>7. \A k \in 1..9 : b[k].name \notin Named(doc) => k \in new
  BY <1>2
<1> HIDE DEF new
<1>8. \A j \in 1..n : nth(j) \in new /\ Cardinality(new \cap (1..nth(j))) = j
  BY <1>5
<1>9. \A k \in new : \E j \in 1..n : nth(j) = k
  BY <1>5, <1>8
<1> HIDE DEF nth, n
<1>10. added \in Seq(SymbolType) /\ Len(added) = n
  <2>1. n \in Nat
    BY <1>5
  <2>2. \A j \in 1..n : nth(j) \in 1..9
    BY <1>6, <1>8
  <2>3. \A j \in 1..n : b[nth(j)] \in SymbolType
    BY <1>2, <2>2
  <2> QED
    BY <2>1, <2>3
<1>11. \A j \in 1..n : added[j] = b[nth(j)]
  OBVIOUS
<1> HIDE DEF added
<1>12. /\ m \in Seq(SymbolType) /\ Len(m) = Len(doc) + n
       /\ \A i \in 1..Len(doc) : m[i] = doc[i]
       /\ \A i \in (Len(doc) + 1)..Len(m) : m[i] = added[i - Len(doc)]
  BY <1>3, <1>5, <1>10
<1>13. Len(doc) \in Nat
  OBVIOUS
<1>14. ASSUME NEW i \in (Len(doc) + 1)..Len(m)
       PROVE  i - Len(doc) \in 1..n /\ m[i] = b[nth(i - Len(doc))]
  BY <1>5, <1>11, <1>12, <1>13
<1>15. \A i \in (Len(doc) + 1)..Len(m) : \E k \in 1..9 : m[i] = b[k] /\ b[k].name \notin Named(doc)
  BY <1>6, <1>8, <1>14
<1>16. ASSUME NEW k \in 1..9, b[k].name \notin Named(doc)
       PROVE  \E i \in 1..Len(m) : m[i] = b[k]
  <2>1. PICK j \in 1..n : nth(j) = k
    BY <1>7, <1>9, <1>16
  <2>2. Len(doc) + j \in (Len(doc) + 1)..Len(m) /\ Len(doc) + j \in 1..Len(m)
    BY <1>5, <1>12, <1>13
  <2>3. m[Len(doc) + j] = b[k]
    BY <1>13, <1>14, <2>1, <2>2
  <2> QED
    BY <2>2, <2>3
<1>17. ASSUME NEW i \in (Len(doc) + 1)..Len(m), NEW j \in (Len(doc) + 1)..Len(m), m[i].name = m[j].name
       PROVE  i = j
  <2>1. PICK k, l \in new : k = nth(i - Len(doc)) /\ l = nth(j - Len(doc))
    BY <1>8, <1>14
  <2>2. b[k].name = b[l].name
    BY <1>14, <1>17, <2>1
  <2>3. nth(i - Len(doc)) = nth(j - Len(doc))
    BY <1>6, <2>1, <2>2, StandardNamesDiffer
  <2>4. i - Len(doc) = j - Len(doc)
    BY <1>8, <1>14, <2>3
  <2> QED
    BY <1>13, <2>4
<1>18. ASSUME \A k \in 1..9 : b[k].name \in Named(doc)
       PROVE  m = doc
  <2>1. new = {}
    BY <1>6, <1>18
  <2>2. n = 0
    BY <2>1, FS_EmptySet DEF n
  <2>3. Len(m) = Len(doc)
    BY <1>12, <1>13, <2>2
  <2> QED
    BY <1>12, <1>13, <2>3
<1> QED
  BY <1>5, <1>12, <1>13, <1>15, <1>16, <1>17, <1>18 DEF Extends

-----------------------------------------------------------------------------
(* What a run enriches. *)

\* Is new what enriching old makes of it, members apart?
Enriches(new, old, ownId) ==
  /\ new.name = old.name /\ new.kind = old.kind /\ new.visibility = old.visibility
  /\ new.runs = old.runs /\ new.refs = old.refs
  /\ new.id = Default(old.id, NoId, ownId)
  /\ new.stability = Default(old.stability, "unset", "stable")
  /\ new.deprecation = Default(old.deprecation, "unset", "null")
  /\ new.behavior = IF Calls(old) THEN Default(old.behavior, "unset", old.runs) ELSE old.behavior

\* Enriched gives a declaration the defaults it lacks and keeps its type and members.
LEMMA EnrichedIs ==
  ASSUME NEW members, NEW d \in DeclarationType(members), NEW ownId \in Ids,
         NEW e, e = Enriched(d, ownId)
  PROVE  e \in DeclarationType(members) /\ e.members = d.members /\ Enriches(e, d, ownId)
<1>1. e \in DeclarationType(members)
  <2>1. /\ Default(d.id, NoId, ownId) \in Ids
        /\ Default(d.stability, "unset", "stable") \in {"unset", "stable", "deprecated"}
        /\ Default(d.deprecation, "unset", "null") \in {"unset", "null", "since"}
        /\ (IF Calls(d) THEN Default(d.behavior, "unset", d.runs) ELSE d.behavior)
              \in {"unset", "sync", "async"}
    BY DEF DeclarationType, Default
  <2> QED
    BY <2>1 DEF Enriched, DeclarationType
<1>2. e.members = d.members /\ Enriches(e, d, ownId)
  BY DEF Enriched, DeclarationType, Calls, Enriches
<1> QED
  BY <1>1, <1>2

\* A symbol of a surface and its members, and their identifiers, have their types.
LEMMA SymbolsTyped ==
  ASSUME NEW doc \in Seq(SymbolType), NEW i \in 1..Len(doc)
  PROVE  /\ doc[i] \in SymbolType /\ doc[i].name \in Names /\ <<i, doc[i].name>> \in Ids
         /\ doc[i].members \in [Groups -> Seq(MemberType)]
         /\ \A g \in Groups : \A j \in DOMAIN doc[i].members[g] :
              /\ j \in Nat /\ doc[i].members[g][j] \in MemberType
              /\ <<i, g, j, doc[i].members[g][j].name>> \in Ids
<1>1. i \in Nat /\ doc[i] \in SymbolType
  OBVIOUS
<1>2. doc[i].name \in Names /\ doc[i].members \in [Groups -> Seq(MemberType)]
  BY <1>1 DEF SymbolType, DeclarationType
<1>3. ASSUME NEW g \in Groups, NEW j \in DOMAIN doc[i].members[g]
      PROVE  j \in Nat /\ doc[i].members[g][j] \in MemberType
  <2>1. doc[i].members[g] \in Seq(MemberType)
    BY <1>2
  <2> QED
    BY <2>1
<1>4. \A x \in MemberType : x.name \in Names
  BY DEF MemberType, DeclarationType
<1>5. <<i, doc[i].name>> \in Ids
  BY <1>1, <1>2 DEF Ids
<1>6. \A g \in Groups : \A j \in DOMAIN doc[i].members[g] :
         <<i, g, j, doc[i].members[g][j].name>> \in Ids
  BY <1>1, <1>2, <1>3, <1>4 DEF Ids
<1> QED
  BY <1>1, <1>2, <1>3, <1>5, <1>6

\* What enriching a surface makes of its symbols and of their members.
EnrichesAll(e, doc) ==
  /\ Len(e) = Len(doc)
  /\ \A i \in 1..Len(doc) :
       /\ Enriches(e[i], doc[i], <<i, doc[i].name>>)
       /\ \A g \in Groups :
            /\ DOMAIN e[i].members[g] = DOMAIN doc[i].members[g]
            /\ \A j \in DOMAIN doc[i].members[g] :
                 Enriches(e[i].members[g][j], doc[i].members[g][j],
                          <<i, g, j, doc[i].members[g][j].name>>)

\* EnrichedAll does so to every symbol and member, and keeps their types.
LEMMA EnrichedAllIs ==
  ASSUME NEW doc \in Seq(SymbolType), NEW e, e = EnrichedAll(doc)
  PROVE  e \in Seq(SymbolType) /\ EnrichesAll(e, doc)
<1> DEFINE One(i) == Enriched(doc[i], <<i, doc[i].name>>)
           New(i) == [One(i) EXCEPT !.members = EnrichedMembers(doc, i)]
<1>1. e = [i \in 1..Len(doc) |-> New(i)]
  BY DEF EnrichedAll
<1>2. ASSUME NEW i \in 1..Len(doc)
      PROVE  /\ New(i) \in SymbolType
             /\ Enriches(New(i), doc[i], <<i, doc[i].name>>)
             /\ \A g \in Groups :
                  /\ DOMAIN New(i).members[g] = DOMAIN doc[i].members[g]
                  /\ \A j \in DOMAIN doc[i].members[g] :
                       Enriches(New(i).members[g][j], doc[i].members[g][j],
                                <<i, g, j, doc[i].members[g][j].name>>)
  <2> DEFINE mem == EnrichedMembers(doc, i)
             own(g, j) == <<i, g, j, doc[i].members[g][j].name>>
  <2>1. \A g \in Groups : mem[g] = [j \in DOMAIN doc[i].members[g] |->
                                      Enriched(doc[i].members[g][j], own(g, j))]
    BY DEF EnrichedMembers
  <2>2. ASSUME NEW g \in Groups, NEW j \in DOMAIN doc[i].members[g]
        PROVE  mem[g][j] \in MemberType /\ Enriches(mem[g][j], doc[i].members[g][j], own(g, j))
    <3>1. doc[i].members[g][j] \in DeclarationType({[h \in Groups |-> <<>>]}) /\ own(g, j) \in Ids
      BY SymbolsTyped DEF MemberType
    <3> HIDE DEF own, mem
    <3>2. mem[g][j] = Enriched(doc[i].members[g][j], own(g, j))
      BY <2>1
    <3> QED
      BY <3>1, <3>2, EnrichedIs DEF MemberType
  <2>3. mem \in [Groups -> Seq(MemberType)]
    <3>1. mem = [g \in Groups |-> mem[g]]
      BY DEF EnrichedMembers
    <3>2. ASSUME NEW g \in Groups
          PROVE  mem[g] \in Seq(MemberType)
      <4>1. \A q \in Seq(MemberType) : Len(q) \in Nat /\ DOMAIN q = 1..Len(q)
        OBVIOUS
      <4>2. Len(doc[i].members[g]) \in Nat /\ DOMAIN doc[i].members[g] = 1..Len(doc[i].members[g])
        BY <4>1, SymbolsTyped
      <4> DEFINE k == Len(doc[i].members[g])
      <4>3. k \in Nat /\ mem[g] \in [1..k -> MemberType]
        BY <2>1, <2>2, <4>2
      <4> HIDE DEF k, mem
      <4> QED
        BY <4>3
    <3> HIDE DEF mem
    <3> QED
      BY <3>1, <3>2
  <2> HIDE DEF mem, own
  <2>4. One(i) \in SymbolType /\ Enriches(One(i), doc[i], <<i, doc[i].name>>)
    <3>1. doc[i] \in DeclarationType([Groups -> Seq(MemberType)]) /\ <<i, doc[i].name>> \in Ids
      BY SymbolsTyped DEF SymbolType
    <3> QED
      BY <3>1, EnrichedIs DEF SymbolType
  <2> DEFINE one == One(i)
             new == [one EXCEPT !.members = mem]
  <2>5. New(i) = new
    BY DEF mem
  <2> HIDE DEF one
  <2>6. new \in SymbolType /\ new.members = mem
    BY <2>3, <2>4 DEF SymbolType, DeclarationType, one
  <2>7. Enriches(new, doc[i], <<i, doc[i].name>>)
    BY <2>4 DEF SymbolType, DeclarationType, Enriches, one
  <2> HIDE DEF new
  <2>8. ASSUME NEW g \in Groups
        PROVE  DOMAIN mem[g] = DOMAIN doc[i].members[g]
    BY <2>1
  <2> QED
    BY <2>2, <2>5, <2>6, <2>7, <2>8 DEF own
<1> HIDE DEF New
<1>3. e \in Seq(SymbolType) /\ Len(e) = Len(doc)
  <2>1. \A i \in 1..Len(doc) : New(i) \in SymbolType
    BY <1>2
  <2>2. Len(doc) \in Nat
    OBVIOUS
  <2> QED
    BY <1>1, <2>1, <2>2
<1>4. \A i \in 1..Len(doc) : e[i] = New(i)
  BY <1>1
<1> QED
  BY <1>2, <1>3, <1>4 DEF EnrichesAll

\* A name in a surface, and in what enriching makes of it.
LEMMA NamedIs ==
  ASSUME NEW doc \in Seq(SymbolType)
  PROVE  \A n : n \in Named(doc) <=> \E i \in 1..Len(doc) : doc[i].name = n
BY DEF Named

\* Enriching keeps the names of the symbols.
LEMMA NamesKept ==
  ASSUME NEW doc \in Seq(SymbolType), NEW e, e = EnrichedAll(doc)
  PROVE  Named(e) = Named(doc)
<1>1. e \in Seq(SymbolType) /\ Len(e) = Len(doc) /\ \A i \in 1..Len(doc) : e[i].name = doc[i].name
  BY EnrichedAllIs DEF EnrichesAll, Enriches
<1>2. \A n : n \in Named(e) <=> \E i \in 1..Len(e) : e[i].name = n
  BY <1>1, NamedIs
<1>3. \A n : n \in Named(doc) <=> \E i \in 1..Len(doc) : doc[i].name = n
  BY NamedIs
<1>4. ASSUME NEW n
      PROVE  n \in Named(e) <=> n \in Named(doc)
  BY <1>1, <1>2, <1>3
<1> QED
  BY <1>4

\* What a run arrives at, in the terms of what it has merged.
LEMMA HardenedIs ==
  ASSUME NEW doc \in Seq(SymbolType), NEW ns \in Namespaces,
         NEW m, m = Merged(doc, ns), NEW h, h = Hardened(doc, ns)
  PROVE  /\ h = EnrichedAll(m) /\ m \in Seq(SymbolType) /\ h \in Seq(SymbolType)
         /\ Named(h) = Named(m) /\ Named(doc) \subseteq Named(m)
         /\ \A k \in 1..9 : baseline_symbols(ns)[k].name \in Named(m)
<1>1. PICK b : b = baseline_symbols(ns)
  OBVIOUS
<1>2. h = EnrichedAll(m)
  BY DEF Hardened
<1>3. m \in Seq(SymbolType) /\ Extends(m, doc, b)
  BY <1>1, MergedIs
<1>4. h \in Seq(SymbolType) /\ Named(h) = Named(m)
  BY <1>2, <1>3, EnrichedAllIs, NamesKept
<1>5. Len(doc) \in Nat /\ Len(m) \in Nat /\ Len(doc) <= Len(m)
  BY <1>3 DEF Extends
<1>6. \A i \in 1..Len(doc) : m[i] = doc[i]
  BY <1>3 DEF Extends
<1>7. \A k \in 1..9 : b[k].name \notin Named(doc) => \E i \in 1..Len(m) : m[i] = b[k]
  BY <1>3 DEF Extends
<1>8. \A n : n \in Named(m) <=> \E i \in 1..Len(m) : m[i].name = n
  BY <1>3, NamedIs
<1>9. Named(doc) \subseteq Named(m)
  <2>1. \A n : n \in Named(doc) <=> \E i \in 1..Len(doc) : doc[i].name = n
    BY NamedIs
  <2> QED
    BY <1>5, <1>6, <1>8, <2>1
<1>10. \A k \in 1..9 : b[k].name \in Named(m)
  BY <1>7, <1>8, <1>9
<1> QED
  BY <1>1, <1>2, <1>3, <1>4, <1>9, <1>10

\* Enriching a declaration twice is enriching it once.
LEMMA EnrichedOnce ==
  ASSUME NEW members, NEW a \in DeclarationType(members), NEW b \in DeclarationType(members),
         NEW c, NEW ownId, Enriches(a, c, ownId), Enriches(b, a, ownId), b.members = a.members
  PROVE  b = a
<1>1. /\ b.name = a.name /\ b.kind = a.kind /\ b.visibility = a.visibility /\ b.runs = a.runs
      /\ b.refs = a.refs /\ b.id = a.id /\ b.stability = a.stability
      /\ b.deprecation = a.deprecation /\ b.behavior = a.behavior
  BY DEF Enriches, Default, Calls
<1> QED
  BY <1>1, SameParts

\* So is enriching a surface.
LEMMA EnrichedAllOnce ==
  ASSUME NEW doc \in Seq(SymbolType), NEW e, e = EnrichedAll(doc)
  PROVE  EnrichedAll(e) = e
<1>1. PICK f : f = EnrichedAll(e)
  OBVIOUS
<1>2. e \in Seq(SymbolType) /\ EnrichesAll(e, doc) /\ Len(e) = Len(doc)
  BY EnrichedAllIs DEF EnrichesAll
<1>3. f \in Seq(SymbolType) /\ EnrichesAll(f, e) /\ Len(f) = Len(e)
  BY <1>1, <1>2, EnrichedAllIs DEF EnrichesAll
<1>4. ASSUME NEW i \in 1..Len(doc)
      PROVE  f[i] = e[i]
  <2>1. /\ i \in 1..Len(e) /\ e[i].name = doc[i].name
        /\ Enriches(e[i], doc[i], <<i, doc[i].name>>)
        /\ \A g \in Groups :
             /\ DOMAIN e[i].members[g] = DOMAIN doc[i].members[g]
             /\ \A j \in DOMAIN doc[i].members[g] :
                  Enriches(e[i].members[g][j], doc[i].members[g][j],
                           <<i, g, j, doc[i].members[g][j].name>>)
    BY <1>2 DEF EnrichesAll, Enriches
  <2>2. /\ Enriches(f[i], e[i], <<i, doc[i].name>>)
        /\ \A g \in Groups :
             /\ DOMAIN f[i].members[g] = DOMAIN e[i].members[g]
             /\ \A j \in DOMAIN e[i].members[g] :
                  Enriches(f[i].members[g][j], e[i].members[g][j],
                           <<i, g, j, e[i].members[g][j].name>>)
    BY <1>2, <1>3, <2>1 DEF EnrichesAll
  <2>3. /\ e[i] \in SymbolType /\ e[i].members \in [Groups -> Seq(MemberType)]
        /\ \A g \in Groups : \A j \in DOMAIN e[i].members[g] : e[i].members[g][j] \in MemberType
    BY <1>2, <2>1, SymbolsTyped
  <2>4. /\ f[i] \in SymbolType /\ f[i].members \in [Groups -> Seq(MemberType)]
        /\ \A g \in Groups : \A j \in DOMAIN f[i].members[g] : f[i].members[g][j] \in MemberType
    BY <1>2, <1>3, SymbolsTyped
  <2>5. ASSUME NEW g \in Groups, NEW j \in DOMAIN doc[i].members[g]
        PROVE  f[i].members[g][j] = e[i].members[g][j]
    <3>1. PICK x, y, old, own :
            /\ x = e[i].members[g][j] /\ y = f[i].members[g][j] /\ old = doc[i].members[g][j]
            /\ own = <<i, g, j, doc[i].members[g][j].name>>
      OBVIOUS
    <3>2. x \in MemberType /\ y \in MemberType
      BY <2>1, <2>2, <2>3, <2>4, <3>1
    <3>3. Enriches(x, old, own)
      BY <2>1, <3>1
    <3>4. x.name = old.name
      BY <3>3 DEF Enriches
    <3>5. Enriches(y, x, own)
      BY <2>1, <2>2, <3>1, <3>4
    <3>6. y.members = x.members
      BY <3>2 DEF MemberType, DeclarationType
    <3> QED
      BY <3>1, <3>2, <3>3, <3>5, <3>6, EnrichedOnce DEF MemberType
  <2>6. ASSUME NEW g \in Groups
        PROVE  f[i].members[g] = e[i].members[g]
    <3>1. f[i].members[g] \in Seq(MemberType) /\ e[i].members[g] \in Seq(MemberType)
      BY <2>3, <2>4
    <3>2. DOMAIN f[i].members[g] = DOMAIN e[i].members[g]
          /\ \A j \in DOMAIN e[i].members[g] : f[i].members[g][j] = e[i].members[g][j]
      BY <2>1, <2>2, <2>5
    <3>3. \A p, q \in Seq(MemberType) :
            DOMAIN p = DOMAIN q /\ (\A j \in DOMAIN q : p[j] = q[j]) => p = q
      OBVIOUS
    <3> QED
      BY <3>1, <3>2, <3>3
  <2>7. f[i].members = e[i].members
    BY <2>3, <2>4, <2>6
  <2> QED
    BY <2>1, <2>2, <2>3, <2>4, <2>7, EnrichedOnce DEF SymbolType
<1> QED
  BY <1>1, <1>2, <1>3, <1>4

\* A run over what a run has left finds nothing to add.
LEMMA HardenedOnce ==
  ASSUME NEW doc \in Seq(SymbolType), NEW ns \in Namespaces, NEW h, h = Hardened(doc, ns)
  PROVE  Hardened(h, ns) = h
<1>1. PICK m : m = Merged(doc, ns)
  OBVIOUS
<1>2. PICK b : b = baseline_symbols(ns)
  OBVIOUS
<1>3. /\ h = EnrichedAll(m) /\ m \in Seq(SymbolType) /\ h \in Seq(SymbolType)
      /\ \A k \in 1..9 : b[k].name \in Named(h)
  BY <1>1, <1>2, HardenedIs
<1>4. Merged(h, ns) = h
  <2>1. PICK again : again = Merged(h, ns)
    OBVIOUS
  <2>2. Extends(again, h, b)
    BY <1>2, <1>3, <2>1, MergedIs
  <2>3. again = h
    BY <1>3, <2>2 DEF Extends
  <2> QED
    BY <2>1, <2>3
<1>5. EnrichedAll(h) = h
  BY <1>3, EnrichedAllOnce
<1> QED
  BY <1>4, <1>5 DEF Hardened

\* After a run every declaration has an identifier, a stability, a deprecation and,
\* if it can be called, a behavior.
LEMMA HardenedIsComplete ==
  ASSUME NEW doc \in Seq(SymbolType), NEW ns \in Namespaces, NEW h, h = Hardened(doc, ns)
  PROVE  \A d \in Declarations(h) :
           /\ d[2].id # NoId /\ "unset" \notin {d[2].stability, d[2].deprecation}
           /\ Calls(d[2]) => d[2].behavior # "unset"
<1>1. PICK m : m \in Seq(SymbolType) /\ h = EnrichedAll(m) /\ h \in Seq(SymbolType) /\ EnrichesAll(h, m)
  BY HardenedIs, EnrichedAllIs
<1>2. ASSUME NEW new, NEW old, NEW ownId, Enriches(new, old, ownId), ownId # NoId,
             old.runs \in {"sync", "async"}
      PROVE  /\ new.id # NoId /\ new.stability # "unset" /\ new.deprecation # "unset"
             /\ Calls(new) => new.behavior # "unset"
  BY <1>2 DEF Enriches, Default, Calls
<1>3. ASSUME NEW i \in 1..Len(m)
      PROVE  /\ Enriches(h[i], m[i], <<i, m[i].name>>)
             /\ <<i, m[i].name>> # NoId /\ m[i].runs \in {"sync", "async"}
  <2>1. m[i].runs \in {"sync", "async"}
    BY <1>1, SymbolsTyped DEF SymbolType, DeclarationType
  <2> QED
    BY <1>1, <2>1 DEF EnrichesAll, NoId
<1>4. ASSUME NEW i \in 1..Len(m), NEW g \in Groups, NEW j \in DOMAIN m[i].members[g]
      PROVE  \E ownId :
               /\ Enriches(h[i].members[g][j], m[i].members[g][j], ownId)
               /\ ownId # NoId /\ m[i].members[g][j].runs \in {"sync", "async"}
  <2>1. m[i].members[g][j].runs \in {"sync", "async"}
    <3>1. m[i].members[g][j] \in MemberType
      BY <1>1, SymbolsTyped
    <3> QED
      BY <3>1 DEF MemberType, DeclarationType
  <2>2. <<i, g, j, m[i].members[g][j].name>> # NoId
    BY DEF NoId
  <2> QED
    BY <1>1, <2>1, <2>2 DEF EnrichesAll
<1>5. /\ DOMAIN h = 1..Len(m)
      /\ \A i \in 1..Len(m) : \A g \in Groups : DOMAIN h[i].members[g] = DOMAIN m[i].members[g]
  <2>1. h \in Seq(SymbolType) /\ Len(h) = Len(m)
    BY <1>1 DEF EnrichesAll
  <2>2. \A i \in 1..Len(m) : \A g \in Groups : DOMAIN h[i].members[g] = DOMAIN m[i].members[g]
    BY <1>1 DEF EnrichesAll
  <2> QED
    BY <2>1, <2>2
<1>6. ASSUME NEW d \in Declarations(h)
      PROVE  \E old, ownId : /\ Enriches(d[2], old, ownId) /\ ownId # NoId
                             /\ old.runs \in {"sync", "async"}
  <2>1. CASE \E i \in DOMAIN h : d = <<<<i>>, h[i]>>
    <3>1. PICK i \in 1..Len(m) : d[2] = h[i]
      BY <1>5, <2>1
    <3> QED
      BY <1>3, <3>1
  <2>2. CASE \E i \in DOMAIN h, g \in Groups : \E j \in DOMAIN h[i].members[g] :
               d = <<<<i, g, j>>, h[i].members[g][j]>>
    <3>1. PICK i \in 1..Len(m), g \in Groups : \E j \in DOMAIN m[i].members[g] :
                 d[2] = h[i].members[g][j]
      BY <1>5, <2>2
    <3> QED
      BY <1>4, <3>1
  <2> QED
    BY <2>1, <2>2, DeclarationsAre
<1> QED
  BY <1>2, <1>6

-----------------------------------------------------------------------------
(* What the maintainers may do to the identifiers. *)

\* What inserting into a sequence makes of it.
Inserted(r, q, i, x) ==
  \A k \in 1..(Len(q) + 1) : r[k] = IF k < i THEN q[k] ELSE IF k = i THEN x ELSE q[k - 1]

\* InsertAt puts x in the place i and moves what follows by one.
LEMMA InsertAtIs ==
  ASSUME NEW S, NEW q \in Seq(S), NEW x \in S, NEW i \in 1..(Len(q) + 1),
         NEW r, r = InsertAt(q, i, x)
  PROVE  r \in Seq(S) /\ Len(r) = Len(q) + 1 /\ Inserted(r, q, i, x)
<1> DEFINE before == SubSeq(q, 1, i - 1)
           after == SubSeq(q, i, Len(q))
<1>1. Len(q) \in Nat /\ i \in Int
  OBVIOUS
<1>2. before \in Seq(S) /\ Len(before) = i - 1 /\ \A k \in 1..(i - 1) : before[k] = q[k]
  BY <1>1
<1>3. after \in Seq(S) /\ Len(after) = Len(q) - i + 1
      /\ \A k \in 1..(Len(q) - i + 1) : after[k] = q[i + k - 1]
  BY <1>1
<1> DEFINE head == before \o <<x>>
<1>6. r = head \o after
  BY DEF InsertAt
<1> HIDE DEF before, after
<1>5. head \in Seq(S) /\ Len(head) = i
      /\ \A k \in 1..i : head[k] = IF k = i THEN x ELSE q[k]
  BY <1>1, <1>2
<1> HIDE DEF head
<1>7. r \in Seq(S) /\ Len(r) = Len(q) + 1
  BY <1>1, <1>3, <1>5, <1>6, ConcatProperties
<1>8. \A k \in 1..(Len(q) + 1) : r[k] = IF k <= i THEN head[k] ELSE after[k - i]
  BY <1>1, <1>3, <1>5, <1>6, ConcatProperties
<1>9. ASSUME NEW k \in 1..(Len(q) + 1)
      PROVE  r[k] = IF k < i THEN q[k] ELSE IF k = i THEN x ELSE q[k - 1]
  <2>1. CASE k <= i
    BY <1>1, <1>5, <1>8, <2>1
  <2>2. CASE k > i
    <3>1. r[k] = after[k - i] /\ k - i \in 1..(Len(q) - i + 1)
      BY <1>1, <1>8, <2>2
    <3>2. after[k - i] = q[i + (k - i) - 1] /\ i + (k - i) - 1 = k - 1
      BY <1>1, <1>3, <3>1
    <3> QED
      BY <1>1, <2>2, <3>1, <3>2
  <2>3. k \in Int
    OBVIOUS
  <2> QED
    BY <1>1, <2>1, <2>2, <2>3
<1> QED
  BY <1>7, <1>9 DEF Inserted

\* Without takes the place i out.
LEMMA WithoutIs ==
  ASSUME NEW S, NEW q \in Seq(S), NEW i \in 1..Len(q)
  PROVE  /\ Without(q, i) \in Seq(S)
         /\ Len(Without(q, i)) = Len(q) - 1
         /\ \A k \in 1..(Len(q) - 1) : Without(q, i)[k] = IF k < i THEN q[k] ELSE q[k + 1]
<1> DEFINE before == SubSeq(q, 1, i - 1)
           after == SubSeq(q, i + 1, Len(q))
<1>1. Len(q) \in Nat /\ i \in Int
  OBVIOUS
<1>2. before \in Seq(S) /\ Len(before) = i - 1 /\ \A k \in 1..(i - 1) : before[k] = q[k]
  BY <1>1
<1>3. after \in Seq(S) /\ Len(after) = Len(q) - i
      /\ \A k \in 1..(Len(q) - i) : after[k] = q[i + k]
  BY <1>1
<1>4. Without(q, i) = before \o after
  BY DEF Without
<1> HIDE DEF before, after
<1>5. PICK r : r = before \o after
  OBVIOUS
<1>6. r \in Seq(S) /\ Len(r) = Len(q) - 1
  BY <1>1, <1>2, <1>3, <1>5, ConcatProperties
<1>7. \A k \in 1..(Len(q) - 1) : r[k] = IF k <= i - 1 THEN before[k] ELSE after[k - (i - 1)]
  BY <1>1, <1>2, <1>3, <1>5, ConcatProperties
<1>8. ASSUME NEW k \in 1..(Len(q) - 1)
      PROVE  r[k] = IF k < i THEN q[k] ELSE q[k + 1]
  <2>1. CASE k < i
    BY <1>1, <1>2, <1>7, <2>1
  <2>2. CASE k >= i
    <3>1. r[k] = after[k - (i - 1)] /\ k - (i - 1) \in 1..(Len(q) - i)
      BY <1>1, <1>7, <2>2
    <3>2. after[k - (i - 1)] = q[i + (k - (i - 1))] /\ i + (k - (i - 1)) = k + 1
      BY <1>1, <1>3, <3>1
    <3> QED
      BY <1>1, <2>2, <3>1, <3>2
  <2>3. k \in Int
    OBVIOUS
  <2> QED
    BY <1>1, <2>1, <2>2, <2>3
<1> QED
  BY <1>4, <1>5, <1>6, <1>8

\* The declarations of new with an identifier have it from different ones of old: s
\* takes a symbol, and t a member, to the one it was.
IdsComeFrom(new, old, s, t) ==
  /\ \A k \in DOMAIN new : new[k].id # NoId => s[k] \in DOMAIN old /\ old[s[k]].id = new[k].id
  /\ \A k \in DOMAIN new, g \in Groups : \A j \in DOMAIN new[k].members[g] :
       new[k].members[g][j].id # NoId =>
         /\ s[k] \in DOMAIN old /\ t[k][g][j] \in DOMAIN old[s[k]].members[g]
         /\ old[s[k]].members[g][t[k][g][j]].id = new[k].members[g][j].id
  /\ \A k, l \in DOMAIN new : s[k] = s[l] => k = l
  /\ \A k \in DOMAIN new, g \in Groups : \A i, j \in DOMAIN new[k].members[g] :
       t[k][g][i] = t[k][g][j] => i = j

\* Then new has no two alike if old has none.
LEMMA IdsKept ==
  ASSUME NEW old, NEW new, ~ DuplicateIds(old), NEW s, NEW t, IdsComeFrom(new, old, s, t)
  PROVE  ~ DuplicateIds(new)
<1>0. /\ \A k \in DOMAIN new : new[k].id # NoId => s[k] \in DOMAIN old /\ old[s[k]].id = new[k].id
      /\ \A k \in DOMAIN new, g \in Groups : \A j \in DOMAIN new[k].members[g] :
           new[k].members[g][j].id # NoId =>
             /\ s[k] \in DOMAIN old /\ t[k][g][j] \in DOMAIN old[s[k]].members[g]
             /\ old[s[k]].members[g][t[k][g][j]].id = new[k].members[g][j].id
      /\ \A k, l \in DOMAIN new : s[k] = s[l] => k = l
      /\ \A k \in DOMAIN new, g \in Groups : \A i, j \in DOMAIN new[k].members[g] :
           t[k][g][i] = t[k][g][j] => i = j
  BY DEF IdsComeFrom
<1> DEFINE Moved(p) == IF Len(p) = 1 THEN <<s[p[1]]>> ELSE <<s[p[1]], p[2], t[p[1]][p[2]][p[3]]>>
<1>1. /\ \A k : Moved(<<k>>) = <<s[k]>>
      /\ \A k, g, j : Moved(<<k, g, j>>) = <<s[k], g, t[k][g][j]>>
  OBVIOUS
<1> HIDE DEF Moved
<1>2. ASSUME NEW x \in Declarations(new), x[2].id # NoId
      PROVE  \E y \in Declarations(old) : y[1] = Moved(x[1]) /\ y[2].id = x[2].id
  <2>1. ASSUME NEW k \in DOMAIN new, x = <<<<k>>, new[k]>>
        PROVE  \E y \in Declarations(old) : y[1] = Moved(x[1]) /\ y[2].id = x[2].id
    <3>1. s[k] \in DOMAIN old /\ old[s[k]].id = x[2].id
      BY <1>0, <1>2, <2>1
    <3>2. PICK y : y = <<<<s[k]>>, old[s[k]]>>
      OBVIOUS
    <3>3. y \in Declarations(old)
      BY <3>1, <3>2, IsDeclaration
    <3>4. y[1] = Moved(x[1]) /\ y[2].id = x[2].id
      BY <1>1, <2>1, <3>1, <3>2
    <3> QED
      BY <3>3, <3>4
  <2>2. ASSUME NEW k \in DOMAIN new, NEW g \in Groups, NEW j \in DOMAIN new[k].members[g],
               x = <<<<k, g, j>>, new[k].members[g][j]>>
        PROVE  \E y \in Declarations(old) : y[1] = Moved(x[1]) /\ y[2].id = x[2].id
    <3>1. x[2] = new[k].members[g][j] /\ x[1] = <<k, g, j>>
      BY <2>2
    <3>2. s[k] \in DOMAIN old /\ t[k][g][j] \in DOMAIN old[s[k]].members[g]
      BY <1>0, <1>2, <3>1
    <3>3. old[s[k]].members[g][t[k][g][j]].id = x[2].id
      BY <1>0, <1>2, <3>1
    <3>4. PICK y : y = <<<<s[k], g, t[k][g][j]>>, old[s[k]].members[g][t[k][g][j]]>>
      OBVIOUS
    <3>5. y \in Declarations(old)
      <4>1. PICK a, b : a = s[k] /\ b = t[k][g][j]
        OBVIOUS
      <4>2. a \in DOMAIN old /\ b \in DOMAIN old[a].members[g]
        BY <3>2, <4>1
      <4>3. <<<<a, g, b>>, old[a].members[g][b]>> \in Declarations(old)
        BY <4>2, IsDeclaration
      <4> QED
        BY <3>4, <4>1, <4>3
    <3>6. y[1] = Moved(x[1])
      BY <1>1, <3>1, <3>4
    <3>7. y[2].id = x[2].id
      BY <3>3, <3>4
    <3> QED
      BY <3>5, <3>6, <3>7
  <2>3. CASE \E k \in DOMAIN new : x = <<<<k>>, new[k]>>
    BY <2>1, <2>3
  <2>4. CASE \E k \in DOMAIN new, g \in Groups : \E j \in DOMAIN new[k].members[g] :
               x = <<<<k, g, j>>, new[k].members[g][j]>>
    BY <2>2, <2>4
  <2> QED
    BY <2>3, <2>4, DeclarationsAre
<1>3. ASSUME NEW d \in Declarations(new)
      PROVE  \/ \E k \in DOMAIN new : d[1] = <<k>>
             \/ \E k \in DOMAIN new, g \in Groups : \E j \in DOMAIN new[k].members[g] :
                  d[1] = <<k, g, j>>
  <2>1. CASE \E k \in DOMAIN new : d = <<<<k>>, new[k]>>
    BY <2>1
  <2>2. CASE \E k \in DOMAIN new, g \in Groups : \E j \in DOMAIN new[k].members[g] :
               d = <<<<k, g, j>>, new[k].members[g][j]>>
    <3>1. PICK k \in DOMAIN new, g \in Groups : \E j \in DOMAIN new[k].members[g] :
                 d = <<<<k, g, j>>, new[k].members[g][j]>>
      BY <2>2
    <3>2. \E j \in DOMAIN new[k].members[g] : d[1] = <<k, g, j>>
      BY <3>1
    <3> QED
      BY <3>2
  <2> QED
    BY <2>1, <2>2, DeclarationsAre
<1>4. ASSUME NEW d \in Declarations(new), NEW e \in Declarations(new), Moved(d[1]) = Moved(e[1])
      PROVE  d[1] = e[1]
  <2>1. ASSUME NEW k \in DOMAIN new, d[1] = <<k>>
        PROVE  d[1] = e[1]
    <3>1. CASE \E l \in DOMAIN new : e[1] = <<l>>
      BY <1>0, <1>1, <1>4, <2>1, <3>1
    <3>2. CASE \E l \in DOMAIN new, h \in Groups : \E i \in DOMAIN new[l].members[h] :
                 e[1] = <<l, h, i>>
      <4>1. PICK l, h, i : e[1] = <<l, h, i>>
        BY <3>2
      <4>2. <<s[k]>> = <<s[l], h, t[l][h][i]>>
        BY <1>1, <1>4, <2>1, <4>1
      <4> QED
        BY <4>2
    <3> QED
      BY <1>3, <3>1, <3>2
  <2>2. ASSUME NEW k \in DOMAIN new, NEW g \in Groups, NEW j \in DOMAIN new[k].members[g],
               d[1] = <<k, g, j>>
        PROVE  d[1] = e[1]
    <3>1. CASE \E l \in DOMAIN new : e[1] = <<l>>
      <4>1. PICK l : e[1] = <<l>>
        BY <3>1
      <4>2. <<s[l]>> = <<s[k], g, t[k][g][j]>>
        BY <1>1, <1>4, <2>2, <4>1
      <4> QED
        BY <4>2
    <3>2. CASE \E l \in DOMAIN new, h \in Groups : \E i \in DOMAIN new[l].members[h] :
                 e[1] = <<l, h, i>>
      <4>1. PICK l \in DOMAIN new, h \in Groups : \E i \in DOMAIN new[l].members[h] :
                   e[1] = <<l, h, i>>
        BY <3>2
      <4>2. PICK i \in DOMAIN new[l].members[h] : e[1] = <<l, h, i>>
        BY <4>1
      <4>3. <<s[k], g, t[k][g][j]>> = <<s[l], h, t[l][h][i]>>
        BY <1>1, <1>4, <2>2, <4>2
      <4>4. k = l /\ g = h
        BY <1>0, <4>3
      <4>5. t[k][g][j] = t[k][g][i] /\ i \in DOMAIN new[k].members[g]
        BY <4>2, <4>3, <4>4
      <4>6. j = i
        BY <1>0, <2>2, <4>5
      <4> QED
        BY <2>2, <4>2, <4>4, <4>6
    <3> QED
      BY <1>3, <3>1, <3>2
  <2> QED
    BY <1>3, <2>1, <2>2
<1>5. ASSUME NEW d \in Declarations(new), NEW e \in Declarations(new),
             d[1] # e[1], d[2].id = e[2].id, d[2].id # NoId
      PROVE  FALSE
  <2>1. PICK x \in Declarations(old) : x[1] = Moved(d[1]) /\ x[2].id = d[2].id
    BY <1>2, <1>5
  <2>2. PICK y \in Declarations(old) : y[1] = Moved(e[1]) /\ y[2].id = e[2].id
    BY <1>2, <1>5
  <2>3. x[1] = y[1]
    BY <1>5, <2>1, <2>2 DEF DuplicateIds
  <2>4. Moved(d[1]) = Moved(e[1])
    BY <2>1, <2>2, <2>3
  <2> QED
    BY <1>4, <1>5, <2>4
<1> QED
  BY <1>5 DEF DuplicateIds

-----------------------------------------------------------------------------
(* The invariant. *)

\* What a run has written it has not refused.
Accepted == fresh => ~ Refused(symbols)

\* Between runs and edits the surface is as the schema has it, no two declarations
\* have the same identifier, and what a run has left a run would neither change nor
\* refuse.
SurfaceInv ==
  /\ written \in BOOLEAN /\ fresh \in BOOLEAN
  /\ namespace \in Namespaces /\ edits \in 0..MaxEdits
  /\ symbols \in Seq(SymbolType)
  /\ ~ DuplicateIds(symbols)
  /\ RunSettles
  /\ Accepted

\* It holds in every surface before the first run.
LEMMA InitInv == Init => SurfaceInv
<1> SUFFICES ASSUME Init
             PROVE  SurfaceInv
  OBVIOUS
<1>1. PICK start \in Starts : symbols = start.symbols /\ written = (start.symbols # <<>>)
                              /\ namespace = start.namespace
  BY DEF Init
<1>2. written \in BOOLEAN
  BY <1>1
<1>3. symbols \in Seq(SymbolType) /\ namespace \in Namespaces
  BY <1>1, SurfaceShape
<1>4. ~ DuplicateIds(symbols)
  BY <1>1, IdentifiersAreGiven
<1>5. fresh = FALSE /\ edits \in 0..MaxEdits
  BY SurfaceShape DEF Init
<1> QED
  BY <1>2, <1>3, <1>4, <1>5 DEF SurfaceInv, RunSettles, Accepted

\* A run keeps it: it writes nothing that has two identifiers alike.
LEMMA RunStep ==
  ASSUME SurfaceInv, Run
  PROVE  SurfaceInv'
<1>1. PICK h : h = Hardened(symbols, namespace)
  OBVIOUS
<1>2. CASE Refused(h)
  BY <1>1, <1>2 DEF Run, SurfaceInv, RunSettles, Accepted, vars
<1>3. CASE ~ Refused(h)
  <2>1. symbols' = h /\ written' = TRUE /\ fresh' = TRUE /\ UNCHANGED <<namespace, edits>>
    BY <1>1, <1>3 DEF Run
  <2>2. h \in Seq(SymbolType) /\ Hardened(h, namespace) = h
    BY <1>1, HardenedIs, HardenedOnce DEF SurfaceInv
  <2>3. ~ DuplicateIds(h)
    BY <1>3 DEF Refused
  <2>4. RunSettles'
    BY <2>1, <2>2 DEF RunSettles
  <2>5. ~ DuplicateIds(symbols')
    BY <2>1, <2>3
  <2>6. Accepted'
    BY <1>3, <2>1 DEF Accepted
  <2> QED
    BY <2>1, <2>2, <2>4, <2>5, <2>6 DEF SurfaceInv, DuplicateIds
<1> QED
  BY <1>2, <1>3

\* So does an edit that keeps the types and the identifiers apart.
LEMMA EditStep ==
  ASSUME SurfaceInv, NEW new \in Seq(SymbolType), ~ DuplicateIds(new), Edit(new),
         namespace' \in Namespaces
  PROVE  SurfaceInv'
<1>1. /\ symbols' = new /\ fresh' = FALSE /\ written' = written
      /\ edits < MaxEdits /\ edits' = edits + 1
  BY DEF Edit
<1>2. edits' \in 0..MaxEdits
  BY <1>1, SurfaceShape DEF SurfaceInv
<1>3. (~ DuplicateIds(symbols))'
  BY <1>1
<1> QED
  BY <1>1, <1>2, <1>3 DEF SurfaceInv, RunSettles, Accepted

\* An edit that leaves the identifiers where they are.
LEMMA IdsInPlace ==
  ASSUME NEW old \in Seq(SymbolType), NEW new \in Seq(SymbolType), Len(new) = Len(old),
         ~ DuplicateIds(old),
         \A k \in 1..Len(old) :
           /\ new[k].id = old[k].id
           /\ \A g \in Groups :
                /\ DOMAIN new[k].members[g] = DOMAIN old[k].members[g]
                /\ \A j \in DOMAIN old[k].members[g] :
                     new[k].members[g][j].id = old[k].members[g][j].id
  PROVE  ~ DuplicateIds(new)
<1>1. PICK s, t : /\ s = [k \in 1..Len(old) |-> k]
                  /\ t = [k \in 1..Len(old) |-> [g \in Groups |-> [j \in DOMAIN old[k].members[g] |-> j]]]
  OBVIOUS
<1>2. DOMAIN new = 1..Len(old) /\ DOMAIN old = 1..Len(old)
  OBVIOUS
<1>3. \A k \in 1..Len(old) : s[k] = k
  BY <1>1
<1>4. \A k \in 1..Len(old), g \in Groups : \A j \in DOMAIN old[k].members[g] : t[k][g][j] = j
  BY <1>1
<1>5. \A k \in DOMAIN new : new[k].id # NoId => s[k] \in DOMAIN old /\ old[s[k]].id = new[k].id
  BY <1>2, <1>3
<1>6. \A k \in DOMAIN new, g \in Groups : \A j \in DOMAIN new[k].members[g] :
        new[k].members[g][j].id # NoId =>
          /\ s[k] \in DOMAIN old /\ t[k][g][j] \in DOMAIN old[s[k]].members[g]
          /\ old[s[k]].members[g][t[k][g][j]].id = new[k].members[g][j].id
  BY <1>2, <1>3, <1>4, SMTT(30)
<1>7. \A k, l \in DOMAIN new : s[k] = s[l] => k = l
  BY <1>2, <1>3
<1>8. \A k \in DOMAIN new, g \in Groups : \A i, j \in DOMAIN new[k].members[g] :
        t[k][g][i] = t[k][g][j] => i = j
  BY <1>2, <1>4
<1>9. IdsComeFrom(new, old, s, t)
  BY <1>5, <1>6, <1>7, <1>8 DEF IdsComeFrom
<1> QED
  BY <1>9, IdsKept

\* What the maintainers add has no identifiers.
LEMMA NewHaveNone ==
  ASSUME NEW s \in NewSymbols
  PROVE  s.id = NoId /\ \A g \in Groups : \A j \in DOMAIN s.members[g] : s.members[g][j].id = NoId
<1>1. PICK doc : doc = <<s>>
  OBVIOUS
<1>2. 1 \in DOMAIN doc /\ doc[1] = s /\ \A d \in Declarations(doc) : d[2].id = NoId
  BY <1>1, IdentifiersAreGiven
<1>3. /\ <<<<1>>, s>> \in Declarations(doc)
      /\ \A g \in Groups : \A j \in DOMAIN s.members[g] :
           <<<<1, g, j>>, s.members[g][j]>> \in Declarations(doc)
  BY <1>2, IsDeclaration
<1> QED
  BY <1>2, <1>3

\* A symbol that is added has no identifiers, and the others keep theirs.
LEMMA AddSymbolStep ==
  ASSUME SurfaceInv, AddSymbol
  PROVE  SurfaceInv'
<1>1. PICK x \in NewSymbols, i \in 1..(Len(symbols) + 1) :
         Edit(InsertAt(symbols, i, x)) /\ UNCHANGED namespace
  BY DEF AddSymbol
<1>2. PICK old, new : old = symbols /\ new = InsertAt(symbols, i, x)
  OBVIOUS
<1>3. old \in Seq(SymbolType) /\ ~ DuplicateIds(old) /\ x \in SymbolType /\ Len(old) \in Nat
  BY <1>2, SurfaceShape DEF SurfaceInv
<1>4. /\ new \in Seq(SymbolType) /\ Len(new) = Len(old) + 1
      /\ \A k \in 1..(Len(old) + 1) :
           new[k] = IF k < i THEN old[k] ELSE IF k = i THEN x ELSE old[k - 1]
  <2>1. i \in 1..(Len(old) + 1) /\ new = InsertAt(old, i, x)
    BY <1>2
  <2>2. new \in Seq(SymbolType) /\ Len(new) = Len(old) + 1 /\ Inserted(new, old, i, x)
    BY <1>3, <2>1, InsertAtIs
  <2> QED
    BY <2>2 DEF Inserted
<1>5. PICK s, t :
         /\ s = [k \in 1..(Len(old) + 1) |-> IF k < i THEN k ELSE IF k = i THEN 0 ELSE k - 1]
         /\ t = [k \in 1..(Len(old) + 1) |-> [g \in Groups |-> [j \in DOMAIN new[k].members[g] |-> j]]]
  OBVIOUS
<1>6. DOMAIN new = 1..(Len(old) + 1) /\ DOMAIN old = 1..Len(old)
  BY <1>3, <1>4
<1>7. ASSUME NEW k \in DOMAIN new, k # i
      PROVE  s[k] \in DOMAIN old /\ new[k] = old[s[k]]
  BY <1>2, <1>3, <1>4, <1>5, <1>6, <1>7
<1>8. \A k \in DOMAIN new, g \in Groups : \A j \in DOMAIN new[k].members[g] : t[k][g][j] = j
  BY <1>5, <1>6
<1>9. /\ new[i].id = NoId
      /\ \A g \in Groups : \A j \in DOMAIN new[i].members[g] : new[i].members[g][j].id = NoId
  <2>1. new[i] = x
    BY <1>2, <1>3, <1>4
  <2> QED
    BY <2>1, NewHaveNone
<1>10. \A k \in DOMAIN new : new[k].id # NoId => s[k] \in DOMAIN old /\ old[s[k]].id = new[k].id
  BY <1>7, <1>9
<1>11. \A k \in DOMAIN new, g \in Groups : \A j \in DOMAIN new[k].members[g] :
         new[k].members[g][j].id # NoId =>
           /\ s[k] \in DOMAIN old /\ t[k][g][j] \in DOMAIN old[s[k]].members[g]
           /\ old[s[k]].members[g][t[k][g][j]].id = new[k].members[g][j].id
  BY <1>7, <1>8, <1>9
<1>12. \A k, l \in DOMAIN new : s[k] = s[l] => k = l
  <2>1. ASSUME NEW k \in 1..(Len(old) + 1)
        PROVE  s[k] = IF k < i THEN k ELSE IF k = i THEN 0 ELSE k - 1
    BY <1>5
  <2>2. i \in 1..(Len(old) + 1)
    BY <1>2
  <2> QED
    BY <1>3, <1>6, <2>1, <2>2
<1>13. \A k \in DOMAIN new, g \in Groups : \A j, l \in DOMAIN new[k].members[g] :
         t[k][g][j] = t[k][g][l] => j = l
  BY <1>8
<1>14. ~ DuplicateIds(new)
  <2>1. IdsComeFrom(new, old, s, t)
    BY <1>10, <1>11, <1>12, <1>13 DEF IdsComeFrom
  <2> QED
    BY <1>3, <2>1, IdsKept
<1>15. Edit(new) /\ namespace' \in Namespaces
  BY <1>1, <1>2 DEF SurfaceInv
<1> QED
  BY <1>4, <1>14, <1>15, EditStep

\* Removing a symbol removes its identifiers and keeps the others.
LEMMA RemoveSymbolStep ==
  ASSUME SurfaceInv, RemoveSymbol
  PROVE  SurfaceInv'
<1>1. PICK i \in 1..Len(symbols) : Edit(Without(symbols, i)) /\ UNCHANGED namespace
  BY DEF RemoveSymbol, SurfaceInv
<1>2. PICK old, new : old = symbols /\ new = Without(symbols, i)
  OBVIOUS
<1>3. old \in Seq(SymbolType) /\ ~ DuplicateIds(old) /\ Len(old) \in Nat
  BY <1>2 DEF SurfaceInv
<1>4. /\ new \in Seq(SymbolType) /\ Len(new) = Len(old) - 1
      /\ \A k \in 1..(Len(old) - 1) : new[k] = IF k < i THEN old[k] ELSE old[k + 1]
  BY <1>2, <1>3, WithoutIs
<1>5. PICK s, t :
         /\ s = [k \in 1..(Len(old) - 1) |-> IF k < i THEN k ELSE k + 1]
         /\ t = [k \in 1..(Len(old) - 1) |-> [g \in Groups |-> [j \in DOMAIN new[k].members[g] |-> j]]]
  OBVIOUS
<1>6. DOMAIN new = 1..(Len(old) - 1) /\ DOMAIN old = 1..Len(old)
  BY <1>3, <1>4
<1>7. ASSUME NEW k \in DOMAIN new
      PROVE  s[k] \in DOMAIN old /\ new[k] = old[s[k]]
  BY <1>2, <1>3, <1>4, <1>5, <1>6, <1>7
<1>8. \A k \in DOMAIN new, g \in Groups : \A j \in DOMAIN new[k].members[g] : t[k][g][j] = j
  BY <1>5, <1>6
<1>9. \A k \in DOMAIN new : new[k].id # NoId => s[k] \in DOMAIN old /\ old[s[k]].id = new[k].id
  BY <1>7
<1>10. \A k \in DOMAIN new, g \in Groups : \A j \in DOMAIN new[k].members[g] :
         new[k].members[g][j].id # NoId =>
           /\ s[k] \in DOMAIN old /\ t[k][g][j] \in DOMAIN old[s[k]].members[g]
           /\ old[s[k]].members[g][t[k][g][j]].id = new[k].members[g][j].id
  BY <1>7, <1>8
<1>11. \A k, l \in DOMAIN new : s[k] = s[l] => k = l
  <2>1. ASSUME NEW k \in 1..(Len(old) - 1)
        PROVE  s[k] = IF k < i THEN k ELSE k + 1
    BY <1>5
  <2>2. i \in 1..Len(old)
    BY <1>2
  <2> QED
    BY <1>3, <1>6, <2>1, <2>2
<1>12. \A k \in DOMAIN new, g \in Groups : \A j, l \in DOMAIN new[k].members[g] :
         t[k][g][j] = t[k][g][l] => j = l
  BY <1>8
<1>13. ~ DuplicateIds(new)
  <2>1. IdsComeFrom(new, old, s, t)
    BY <1>9, <1>10, <1>11, <1>12 DEF IdsComeFrom
  <2> QED
    BY <1>3, <2>1, IdsKept
<1>14. Edit(new) /\ namespace' \in Namespaces
  BY <1>1, <1>2 DEF SurfaceInv
<1> QED
  BY <1>4, <1>13, <1>14, EditStep

\* One symbol is changed, its identifiers are not.
LEMMA OneInPlace ==
  ASSUME NEW old \in Seq(SymbolType), NEW i \in 1..Len(old), NEW x \in SymbolType,
         x.id = old[i].id,
         \A g \in Groups : /\ DOMAIN x.members[g] = DOMAIN old[i].members[g]
                           /\ \A j \in DOMAIN old[i].members[g] :
                                x.members[g][j].id = old[i].members[g][j].id,
         ~ DuplicateIds(old), NEW new, new = [old EXCEPT ![i] = x]
  PROVE  new \in Seq(SymbolType) /\ ~ DuplicateIds(new)
<1>1. new \in Seq(SymbolType) /\ Len(new) = Len(old)
  OBVIOUS
<1>2. \A k \in 1..Len(old) : new[k] = IF k = i THEN x ELSE old[k]
  OBVIOUS
<1>3. \A k \in 1..Len(old) :
        /\ new[k].id = old[k].id
        /\ \A g \in Groups :
             /\ DOMAIN new[k].members[g] = DOMAIN old[k].members[g]
             /\ \A j \in DOMAIN old[k].members[g] :
                  new[k].members[g][j].id = old[k].members[g][j].id
  BY <1>2
<1> QED
  BY <1>1, <1>3, IdsInPlace

\* Renaming a symbol.
LEMMA RenameSymbolStep ==
  ASSUME SurfaceInv, RenameSymbol
  PROVE  SurfaceInv'
<1>0. DOMAIN symbols = 1..Len(symbols)
  BY DEF SurfaceInv
<1>1. PICK i \in 1..Len(symbols), n \in NewNames :
         Edit([symbols EXCEPT ![i].name = n]) /\ UNCHANGED namespace
  BY <1>0 DEF RenameSymbol
<1>2. symbols \in Seq(SymbolType) /\ ~ DuplicateIds(symbols) /\ n \in Names
  BY SurfaceShape DEF SurfaceInv
<1>3. PICK x, new : /\ x = [symbols[i] EXCEPT !.name = n]
                    /\ new = [symbols EXCEPT ![i].name = n] /\ new = [symbols EXCEPT ![i] = x]
  OBVIOUS
<1>4. symbols[i] \in SymbolType
  BY <1>2
<1>5. x \in SymbolType /\ x.id = symbols[i].id /\ x.members = symbols[i].members
  BY <1>2, <1>3, <1>4 DEF SymbolType, DeclarationType
<1>6. new \in Seq(SymbolType) /\ ~ DuplicateIds(new)
  BY <1>2, <1>3, <1>5, OneInPlace
<1>7. Edit(new) /\ namespace' \in Namespaces
  BY <1>1, <1>3 DEF SurfaceInv
<1> QED
  BY <1>6, <1>7, EditStep

\* Showing or hiding a symbol.
LEMMA ShowOrHideStep ==
  ASSUME SurfaceInv, ShowOrHide
  PROVE  SurfaceInv'
<1>0. DOMAIN symbols = 1..Len(symbols)
  BY DEF SurfaceInv
<1>1. PICK i \in 1..Len(symbols), v \in Visibilities :
         Edit([symbols EXCEPT ![i].visibility = v]) /\ UNCHANGED namespace
  BY <1>0 DEF ShowOrHide
<1>2. symbols \in Seq(SymbolType) /\ ~ DuplicateIds(symbols)
  BY DEF SurfaceInv
<1>3. PICK x, new : /\ x = [symbols[i] EXCEPT !.visibility = v]
                    /\ new = [symbols EXCEPT ![i].visibility = v] /\ new = [symbols EXCEPT ![i] = x]
  OBVIOUS
<1>4. symbols[i] \in SymbolType
  BY <1>2
<1>5. x \in SymbolType /\ x.id = symbols[i].id /\ x.members = symbols[i].members
  BY <1>3, <1>4 DEF SymbolType, DeclarationType
<1>6. new \in Seq(SymbolType) /\ ~ DuplicateIds(new)
  BY <1>2, <1>3, <1>5, OneInPlace
<1>7. Edit(new) /\ namespace' \in Namespaces
  BY <1>1, <1>3 DEF SurfaceInv
<1> QED
  BY <1>6, <1>7, EditStep

\* Deprecating a symbol.
LEMMA DeprecateStep ==
  ASSUME SurfaceInv, Deprecate
  PROVE  SurfaceInv'
<1>0. DOMAIN symbols = 1..Len(symbols)
  BY DEF SurfaceInv
<1>1. PICK i, d :
         /\ i \in 1..Len(symbols)
         /\ d \in {"since", symbols[i].deprecation}
         /\ Edit([symbols EXCEPT ![i].stability = "deprecated", ![i].deprecation = d])
         /\ UNCHANGED namespace
  BY <1>0 DEF Deprecate
<1>2. symbols \in Seq(SymbolType) /\ ~ DuplicateIds(symbols)
  BY DEF SurfaceInv
<1>3. PICK x, new :
         /\ x = [symbols[i] EXCEPT !.stability = "deprecated", !.deprecation = d]
         /\ new = [symbols EXCEPT ![i].stability = "deprecated", ![i].deprecation = d]
  OBVIOUS
<1>4. symbols[i] \in SymbolType
  BY <1>1, <1>2
<1>5. x \in SymbolType /\ x.id = symbols[i].id /\ x.members = symbols[i].members
  <2>1. d \in {"unset", "null", "since"}
    BY <1>1, <1>4 DEF SymbolType, DeclarationType
  <2> QED
    BY <1>3, <1>4, <2>1 DEF SymbolType, DeclarationType
<1>6. new = [symbols EXCEPT ![i] = x]
  BY <1>1, <1>2, <1>3
<1>7. new \in Seq(SymbolType) /\ ~ DuplicateIds(new)
  BY <1>1, <1>2, <1>5, <1>6, OneInPlace
<1>8. Edit(new) /\ namespace' \in Namespaces
  BY <1>1, <1>3 DEF SurfaceInv
<1> QED
  BY <1>7, <1>8, EditStep

\* Making a method asynchronous or synchronous.
LEMMA ChangeRunsStep ==
  ASSUME SurfaceInv, ChangeRuns
  PROVE  SurfaceInv'
<1>1. PICK p \in MemberPlaces(symbols) :
         /\ Edit([symbols EXCEPT ![p[1]].members[p[2]][p[3]].runs =
                     IF @ = "async" THEN "sync" ELSE "async"])
         /\ UNCHANGED namespace
  BY DEF ChangeRuns
<1>2. symbols \in Seq(SymbolType) /\ ~ DuplicateIds(symbols)
  BY DEF SurfaceInv
<1>3. PICK i \in 1..Len(symbols), g \in Groups : \E j \in DOMAIN symbols[i].members[g] : p = <<i, g, j>>
  BY <1>2, DeclarationsAre
<1>4. PICK j \in DOMAIN symbols[i].members[g] : p = <<i, g, j>>
  BY <1>3
<1>5. PICK old, r : old = symbols[i].members /\ r = IF old[g][j].runs = "async" THEN "sync" ELSE "async"
  OBVIOUS
<1>6. PICK m : m = [old[g][j] EXCEPT !.runs = r]
  OBVIOUS
<1>7. PICK q : q = [old[g] EXCEPT ![j] = m]
  OBVIOUS
<1>8. PICK mem : mem = [old EXCEPT ![g] = q]
  OBVIOUS
<1>9. PICK x, new : x = [symbols[i] EXCEPT !.members = mem] /\ new = [symbols EXCEPT ![i] = x]
  OBVIOUS
<1>10. Edit(new)
  BY <1>1, <1>4, <1>5, <1>6, <1>7, <1>8, <1>9
<1>11. symbols[i] \in SymbolType /\ old \in [Groups -> Seq(MemberType)] /\ old[g][j] \in MemberType
  BY <1>2, <1>4, <1>5, SymbolsTyped
<1>12. m \in MemberType /\ m.id = old[g][j].id
  BY <1>5, <1>6, <1>11 DEF MemberType, DeclarationType
<1>13. /\ q \in Seq(MemberType) /\ DOMAIN q = DOMAIN old[g]
       /\ \A k \in DOMAIN old[g] : q[k].id = old[g][k].id
  <2>1. old[g] \in Seq(MemberType) /\ j \in DOMAIN old[g]
    BY <1>4, <1>5, <1>11
  <2> QED
    BY <1>7, <1>12, <2>1
<1>14. /\ mem \in [Groups -> Seq(MemberType)]
       /\ \A h \in Groups : /\ DOMAIN mem[h] = DOMAIN old[h]
                            /\ \A k \in DOMAIN old[h] : mem[h][k].id = old[h][k].id
  BY <1>8, <1>11, <1>13
<1>15. x \in SymbolType /\ x.id = symbols[i].id /\ x.members = mem
  BY <1>9, <1>11, <1>14 DEF SymbolType, DeclarationType
<1>16. new \in Seq(SymbolType) /\ ~ DuplicateIds(new)
  <2>1. \A h \in Groups :
          /\ DOMAIN x.members[h] = DOMAIN symbols[i].members[h]
          /\ \A k \in DOMAIN symbols[i].members[h] :
               x.members[h][k].id = symbols[i].members[h][k].id
    BY <1>5, <1>14, <1>15
  <2>2. x \in SymbolType /\ x.id = symbols[i].id
    BY <1>15
  <2>3. new = [symbols EXCEPT ![i] = x]
    BY <1>9
  <2> QED
    BY <1>2, <2>1, <2>2, <2>3, OneInPlace
<1>17. namespace' \in Namespaces
  BY <1>1 DEF SurfaceInv
<1> QED
  BY <1>10, <1>16, <1>17, EditStep

\* A method that is added has no identifier, and the others keep theirs.
LEMMA AddMethodStep ==
  ASSUME SurfaceInv, AddMethod
  PROVE  SurfaceInv'
<1>0. DOMAIN symbols = 1..Len(symbols)
  BY DEF SurfaceInv
<1>1. PICK i \in 1..Len(symbols), m \in NewMethods :
         \E j \in 1..(Len(symbols[i].members["methods"]) + 1) :
           /\ Edit([symbols EXCEPT ![i].members["methods"] = InsertAt(@, j, m)])
           /\ UNCHANGED namespace
  BY <1>0 DEF AddMethod
<1>2. PICK mem : mem = symbols[i].members
  OBVIOUS
<1>3. PICK j \in 1..(Len(mem["methods"]) + 1) :
         /\ Edit([symbols EXCEPT ![i].members["methods"] = InsertAt(@, j, m)])
         /\ UNCHANGED namespace
  BY <1>1, <1>2
<1>4. PICK q, r : q = mem["methods"] /\ r = InsertAt(q, j, m)
  OBVIOUS
<1>5. PICK grown : grown = [mem EXCEPT !["methods"] = r]
  OBVIOUS
<1>6. PICK old, x, new : /\ old = symbols /\ x = [symbols[i] EXCEPT !.members = grown]
                         /\ new = [symbols EXCEPT ![i] = x]
  OBVIOUS
<1>7. Edit(new)
  BY <1>2, <1>3, <1>4, <1>5, <1>6
<1>8. /\ old \in Seq(SymbolType) /\ ~ DuplicateIds(old) /\ i \in 1..Len(old)
      /\ m \in MemberType /\ m.id = NoId
  BY <1>6, SurfaceShape, IdentifiersAreGiven DEF SurfaceInv
<1>9. old[i] \in SymbolType /\ mem \in [Groups -> Seq(MemberType)] /\ "methods" \in Groups
  BY <1>2, <1>6, <1>8, SymbolsTyped DEF Groups
<1>10. q \in Seq(MemberType) /\ Len(q) \in Nat /\ j \in 1..(Len(q) + 1)
  BY <1>4, <1>9
<1>11. r \in Seq(MemberType) /\ Len(r) = Len(q) + 1 /\ Inserted(r, q, j, m)
  BY <1>4, <1>8, <1>10, InsertAtIs
<1>12. grown \in [Groups -> Seq(MemberType)]
       /\ \A g \in Groups : grown[g] = IF g = "methods" THEN r ELSE mem[g]
  BY <1>5, <1>9, <1>11
<1>13. x \in SymbolType /\ x.id = old[i].id /\ x.members = grown
  BY <1>6, <1>9, <1>12 DEF SymbolType, DeclarationType
<1>14. /\ new \in Seq(SymbolType) /\ DOMAIN new = 1..Len(old) /\ DOMAIN old = 1..Len(old)
       /\ \A k \in 1..Len(old) : new[k] = IF k = i THEN x ELSE old[k]
  BY <1>6, <1>8, <1>13
<1>15. PICK u : u = [k \in 1..Len(r) |-> IF k < j THEN k ELSE IF k = j THEN 0 ELSE k - 1]
  OBVIOUS
<1>16. PICK s, t :
         /\ s = [k \in 1..Len(old) |-> k]
         /\ t = [k \in 1..Len(old) |-> [g \in Groups |-> [l \in DOMAIN new[k].members[g] |->
                   IF k = i /\ g = "methods" THEN u[l] ELSE l]]]
  OBVIOUS
<1>17. DOMAIN r = 1..(Len(q) + 1) /\ DOMAIN q = 1..Len(q)
  BY <1>10, <1>11
<1>18. \A l \in DOMAIN r : u[l] = IF l < j THEN l ELSE IF l = j THEN 0 ELSE l - 1
  BY <1>11, <1>15, <1>17
<1>19. \A l \in DOMAIN r : r[l].id # NoId => u[l] \in DOMAIN q /\ r[l] = q[u[l]]
  BY <1>8, <1>10, <1>11, <1>17, <1>18 DEF Inserted
<1>20. \A k, l \in DOMAIN r : u[k] = u[l] => k = l
  BY <1>10, <1>17, <1>18
<1>21. \A k \in DOMAIN new, g \in Groups : \A l \in DOMAIN new[k].members[g] :
         t[k][g][l] = IF k = i /\ g = "methods" THEN u[l] ELSE l
  BY <1>14, <1>16
<1>22. \A k \in DOMAIN new : s[k] = k
  BY <1>14, <1>16
<1>23. \A k \in DOMAIN new, g \in Groups :
         new[k].members[g] = IF k = i /\ g = "methods" THEN r ELSE old[k].members[g]
  BY <1>2, <1>6, <1>12, <1>13, <1>14
<1>24. old[i].members["methods"] = q
  BY <1>2, <1>4, <1>6
<1>25. \A k \in DOMAIN new : new[k].id = old[k].id
  BY <1>13, <1>14
<1>26. ASSUME NEW k \in DOMAIN new, NEW g \in Groups, NEW l \in DOMAIN new[k].members[g],
              new[k].members[g][l].id # NoId
       PROVE  /\ s[k] \in DOMAIN old /\ t[k][g][l] \in DOMAIN old[s[k]].members[g]
              /\ old[s[k]].members[g][t[k][g][l]].id = new[k].members[g][l].id
  <2>1. CASE k = i /\ g = "methods"
    <3>1. new[k].members[g] = r /\ t[k][g][l] = u[l] /\ old[s[k]].members[g] = q
      BY <1>21, <1>22, <1>23, <1>24, <2>1
    <3> QED
      BY <1>14, <1>19, <1>22, <1>26, <3>1
  <2>2. CASE ~ (k = i /\ g = "methods")
    <3>1. new[k].members[g] = old[k].members[g] /\ t[k][g][l] = l
      BY <1>21, <1>23, <2>2
    <3> QED
      BY <1>14, <1>22, <3>1
  <2> QED
    BY <2>1, <2>2
<1>27. ASSUME NEW k \in DOMAIN new, NEW g \in Groups,
              NEW a \in DOMAIN new[k].members[g], NEW b \in DOMAIN new[k].members[g],
              t[k][g][a] = t[k][g][b]
       PROVE  a = b
  <2>1. CASE k = i /\ g = "methods"
    <3>1. new[k].members[g] = r /\ t[k][g][a] = u[a] /\ t[k][g][b] = u[b]
      BY <1>21, <1>23, <2>1
    <3> QED
      BY <1>20, <1>27, <3>1
  <2>2. CASE ~ (k = i /\ g = "methods")
    BY <1>21, <1>27, <2>2
  <2> QED
    BY <2>1, <2>2
<1>28. IdsComeFrom(new, old, s, t)
  <2>1. \A k \in DOMAIN new : new[k].id # NoId => s[k] \in DOMAIN old /\ old[s[k]].id = new[k].id
    BY <1>14, <1>22, <1>25
  <2>2. \A k, l \in DOMAIN new : s[k] = s[l] => k = l
    BY <1>22
  <2> QED
    BY <1>26, <1>27, <2>1, <2>2 DEF IdsComeFrom
<1>29. ~ DuplicateIds(new)
  BY <1>8, <1>28, IdsKept
<1>30. namespace' \in Namespaces
  BY <1>3 DEF SurfaceInv
<1> QED
  BY <1>7, <1>14, <1>29, <1>30, EditStep

\* Renaming the package leaves the symbols as they are.
LEMMA RenamePackageStep ==
  ASSUME SurfaceInv, RenamePackage
  PROVE  SurfaceInv'
<1>1. Edit(symbols) /\ namespace' \in Namespaces
  BY DEF RenamePackage
<1> QED
  BY <1>1, EditStep DEF SurfaceInv

\* Every step keeps the invariant.
LEMMA SurfaceInvStep == SurfaceInv /\ [Next]_vars => SurfaceInv'
<1> SUFFICES ASSUME SurfaceInv, [Next]_vars
             PROVE  SurfaceInv'
  OBVIOUS
<1>1. CASE Run
  BY <1>1, RunStep
<1>2. CASE AddSymbol
  BY <1>2, AddSymbolStep
<1>3. CASE RemoveSymbol
  BY <1>3, RemoveSymbolStep
<1>4. CASE RenameSymbol
  BY <1>4, RenameSymbolStep
<1>5. CASE ShowOrHide
  BY <1>5, ShowOrHideStep
<1>6. CASE AddMethod
  BY <1>6, AddMethodStep
<1>7. CASE ChangeRuns
  BY <1>7, ChangeRunsStep
<1>8. CASE Deprecate
  BY <1>8, DeprecateStep
<1>9. CASE RenamePackage
  BY <1>9, RenamePackageStep
<1>10. CASE UNCHANGED vars
  <2>1. (~ DuplicateIds(symbols))'
    BY <1>10 DEF SurfaceInv, vars
  <2> QED
    BY <1>10, <2>1 DEF SurfaceInv, RunSettles, Accepted, vars
<1> QED
  BY <1>1, <1>2, <1>3, <1>4, <1>5, <1>6, <1>7, <1>8, <1>9, <1>10 DEF Next

\* The invariant holds throughout.
THEOREM SurfaceInvariant == Spec => []SurfaceInv
<1>1. SurfaceInv /\ [Next]_vars => SurfaceInv'
  BY SurfaceInvStep
<1> QED
  BY <1>1, InitInv, PTL DEF Spec

\* A run over what a run has written changes nothing (RunSettles), whatever
\* there was and whatever the maintainers have added.
THEOREM RunsSettle == Spec => []RunSettles
<1>1. SurfaceInv => RunSettles
  BY DEF SurfaceInv
<1> QED
  BY <1>1, SurfaceInvariant, PTL

\* Values have their types, and a surface that a run has written is complete
\* (TypeOK): it is what a run would make of it.
THEOREM SurfaceTypeCorrect == Spec => []TypeOK
<1>1. SurfaceInv => TypeOK
  <2> SUFFICES ASSUME SurfaceInv
               PROVE  TypeOK
    OBVIOUS
  <2>1. ASSUME fresh
        PROVE  \A d \in Declarations(symbols) :
                 /\ d[2].id # NoId /\ "unset" \notin {d[2].stability, d[2].deprecation}
                 /\ Calls(d[2]) => d[2].behavior # "unset"
    <3>1. symbols \in Seq(SymbolType) /\ namespace \in Namespaces
          /\ symbols = Hardened(symbols, namespace)
      BY <2>1 DEF SurfaceInv, RunSettles
    <3> QED
      BY <3>1, HardenedIsComplete
  <2> QED
    BY <2>1 DEF SurfaceInv, TypeOK
<1> QED
  BY <1>1, SurfaceInvariant, PTL

\* A declaration keeps what it has when it is enriched, and when nothing happens.
LEMMA EnrichedKeeps ==
  ASSUME NEW members, NEW new \in DeclarationType(members), NEW old \in DeclarationType(members),
         NEW ownId, Enriches(new, old, ownId), new.members = old.members
  PROVE  Keeps(new, old)
<1>1. PICK back : back = [new EXCEPT !.id = old.id, !.stability = old.stability,
                              !.deprecation = old.deprecation, !.behavior = old.behavior]
  OBVIOUS
<1>2. back = old
  <2>1. back \in DeclarationType(members)
    BY <1>1 DEF DeclarationType
  <2>2. /\ back.name = old.name /\ back.kind = old.kind /\ back.visibility = old.visibility
        /\ back.runs = old.runs /\ back.refs = old.refs /\ back.id = old.id
        /\ back.stability = old.stability /\ back.deprecation = old.deprecation
        /\ back.behavior = old.behavior /\ back.members = old.members
    BY <1>1 DEF DeclarationType, Enriches
  <2> QED
    BY <2>1, <2>2, SameParts
<1>3. /\ old.id \in {NoId, new.id} /\ old.stability \in {"unset", new.stability}
      /\ old.deprecation \in {"unset", new.deprecation}
      /\ old.behavior \in {"unset", new.behavior}
  BY DEF Enriches, Default, Calls
<1> QED
  BY <1>1, <1>2, <1>3 DEF Keeps

\* A declaration keeps what it has when it stays the same.
LEMMA SameKeeps ==
  ASSUME NEW members, NEW d \in DeclarationType(members)
  PROVE  Keeps(d, d)
<1>1. [d EXCEPT !.id = d.id, !.stability = d.stability,
                !.deprecation = d.deprecation, !.behavior = d.behavior] = d
  BY DEF DeclarationType
<1> QED
  BY <1>1 DEF Keeps

\* What a run leaves of the symbols there were.
KeepsAll(new, old) ==
  \A i \in 1..Len(old) :
    /\ Keeps([new[i] EXCEPT !.members = old[i].members], old[i])
    /\ \A g \in Groups : \A j \in DOMAIN old[i].members[g] :
         Keeps(new[i].members[g][j], old[i].members[g][j])

\* All of them, with all that was said of them.
LEMMA HardenedKeeps ==
  ASSUME NEW doc \in Seq(SymbolType), NEW ns \in Namespaces, NEW h, h = Hardened(doc, ns)
  PROVE  KeepsAll(h, doc)
<1>1. PICK m, b : m = Merged(doc, ns) /\ b = baseline_symbols(ns)
  OBVIOUS
<1>2. /\ m \in Seq(SymbolType) /\ h \in Seq(SymbolType) /\ EnrichesAll(h, m)
  BY <1>1, HardenedIs, EnrichedAllIs
<1>3. Len(h) = Len(m) /\ Len(doc) <= Len(m) /\ Len(doc) \in Nat /\ Len(m) \in Nat
      /\ \A i \in 1..Len(doc) : m[i] = doc[i]
  BY <1>1, <1>2, MergedIs DEF Extends, EnrichesAll
<1>4. ASSUME NEW i \in 1..Len(doc)
      PROVE  /\ Keeps([h[i] EXCEPT !.members = doc[i].members], doc[i])
             /\ \A g \in Groups : \A j \in DOMAIN doc[i].members[g] :
                  Keeps(h[i].members[g][j], doc[i].members[g][j])
  <2>1. i \in 1..Len(m) /\ i \in 1..Len(h) /\ m[i] = doc[i]
    BY <1>3
  <2>2. /\ Enriches(h[i], doc[i], <<i, doc[i].name>>)
        /\ \A g \in Groups :
             /\ DOMAIN h[i].members[g] = DOMAIN doc[i].members[g]
             /\ \A j \in DOMAIN doc[i].members[g] :
                  Enriches(h[i].members[g][j], doc[i].members[g][j],
                           <<i, g, j, doc[i].members[g][j].name>>)
    BY <1>2, <2>1 DEF EnrichesAll
  <2>3. Keeps([h[i] EXCEPT !.members = doc[i].members], doc[i])
    <3>1. PICK old, new, own : /\ old = doc[i] /\ new = [h[i] EXCEPT !.members = doc[i].members]
                               /\ own = <<i, doc[i].name>>
      OBVIOUS
    <3>2. h[i] \in SymbolType /\ old \in SymbolType /\ old.members \in [Groups -> Seq(MemberType)]
      BY <1>2, <2>1, <3>1, SymbolsTyped
    <3>3. new \in SymbolType /\ new.members = old.members
      BY <3>1, <3>2 DEF SymbolType, DeclarationType
    <3>4. Enriches(new, old, own)
      BY <2>2, <3>1, <3>2 DEF Enriches, SymbolType, DeclarationType
    <3>5. Keeps(new, old)
      BY <3>2, <3>3, <3>4, EnrichedKeeps DEF SymbolType
    <3> QED
      BY <3>1, <3>5
  <2>4. ASSUME NEW g \in Groups, NEW j \in DOMAIN doc[i].members[g]
        PROVE  Keeps(h[i].members[g][j], doc[i].members[g][j])
    <3>1. PICK old, new, own :
             /\ old = doc[i].members[g][j] /\ new = h[i].members[g][j]
             /\ own = <<i, g, j, doc[i].members[g][j].name>>
      OBVIOUS
    <3>2. old \in MemberType
      BY <3>1, SymbolsTyped
    <3>3. new \in MemberType
      BY <1>2, <2>1, <2>2, <3>1, SymbolsTyped
    <3>4. Enriches(new, old, own)
      BY <2>2, <3>1
    <3>5. new.members = old.members
      BY <3>2, <3>3 DEF MemberType, DeclarationType
    <3>6. Keeps(new, old)
      BY <3>2, <3>3, <3>4, <3>5, EnrichedKeeps DEF MemberType
    <3> QED
      BY <3>1, <3>6
  <2> QED
    BY <2>3, <2>4
<1> QED
  BY <1>4 DEF KeepsAll

\* So does a run that refuses the surface.
LEMMA UnchangedKeeps ==
  ASSUME NEW doc \in Seq(SymbolType)
  PROVE  KeepsAll(doc, doc)
<1>1. ASSUME NEW i \in 1..Len(doc)
      PROVE  /\ Keeps([doc[i] EXCEPT !.members = doc[i].members], doc[i])
             /\ \A g \in Groups : \A j \in DOMAIN doc[i].members[g] :
                  Keeps(doc[i].members[g][j], doc[i].members[g][j])
  <2>1. /\ doc[i] \in SymbolType
        /\ \A g \in Groups : \A j \in DOMAIN doc[i].members[g] : doc[i].members[g][j] \in MemberType
    BY SymbolsTyped
  <2>2. [doc[i] EXCEPT !.members = doc[i].members] = doc[i]
    BY <2>1 DEF SymbolType, DeclarationType
  <2>3. Keeps(doc[i], doc[i])
    BY <2>1, SameKeeps DEF SymbolType
  <2>4. \A d \in MemberType : Keeps(d, d)
    BY SameKeeps DEF MemberType
  <2> QED
    BY <2>1, <2>2, <2>3, <2>4
<1> QED
  BY <1>1 DEF KeepsAll

\* A run adds and never takes away (RunOnlyAdds): every symbol and member is in
\* its place afterwards, with all that was said of it.
THEOREM RunsOnlyAdd == Spec => RunOnlyAdds
<1>1. ASSUME SurfaceInv, [Next]_vars, Run
      PROVE  KeepsAll(symbols', symbols)
  <2>1. symbols \in Seq(SymbolType) /\ namespace \in Namespaces
    BY <1>1 DEF SurfaceInv
  <2>2. PICK h : h = Hardened(symbols, namespace)
    OBVIOUS
  <2>3. symbols' = h \/ symbols' = symbols
    BY <1>1, <2>2 DEF Run, vars
  <2> QED
    BY <2>1, <2>2, <2>3, HardenedKeeps, UnchangedKeeps
<1>2. SurfaceInv /\ [Next]_vars =>
        [Run => LET new == symbols' IN
           \A i \in DOMAIN symbols :
             /\ Keeps([new[i] EXCEPT !.members = symbols[i].members], symbols[i])
             /\ \A g \in Groups : \A j \in DOMAIN symbols[i].members[g] :
                  Keeps(new[i].members[g][j], symbols[i].members[g][j])]_vars
  <2>1. SurfaceInv => DOMAIN symbols = 1..Len(symbols)
    BY DEF SurfaceInv
  <2> QED
    BY <1>1, <2>1 DEF KeepsAll
<1> QED
  BY <1>2, SurfaceInvariant, PTL DEF Spec, RunOnlyAdds

-----------------------------------------------------------------------------
(* The boundary. *)

\* No name is declared twice just when the symbols have different names.
LEMMA NamesDiffer ==
  ASSUME NEW doc \in Seq(SymbolType)
  PROVE  ~ DuplicateNames(doc) <=> \A i, j \in 1..Len(doc) : doc[i].name = doc[j].name => i = j
<1> DEFINE name == [i \in 1..Len(doc) |-> doc[i].name]
<1>0. Len(doc) \in Nat
  OBVIOUS
<1>1. IsFiniteSet(1..Len(doc)) /\ Cardinality(1..Len(doc)) = Len(doc)
  <2> DEFINE n == Len(doc)
  <2>1. 1 \in Int /\ n \in Int
    BY <1>0
  <2>2. IsFiniteSet(1..n) /\ Cardinality(1..n) = IF 1 > n THEN 0 ELSE n - 1 + 1
    BY <2>1, FS_Interval
  <2>3. n \in Nat
    BY <1>0
  <2> HIDE DEF n
  <2>4. IsFiniteSet(1..n) /\ Cardinality(1..n) = n
    BY <2>2, <2>3
  <2> QED
    BY <2>4 DEF n
<1>2. name \in Surjection(1..Len(doc), Named(doc))
  <2>1. \A n : n \in Named(doc) <=> \E i \in 1..Len(doc) : name[i] = n
    BY NamedIs
  <2>2. \A i \in 1..Len(doc) : name[i] \in Named(doc)
    BY <2>1
  <2> QED
    BY <2>1, <2>2 DEF Surjection
<1>3. Cardinality(Named(doc)) = Len(doc) <=> name \in Injection(1..Len(doc), Named(doc))
  BY <1>1, <1>2, FS_Surjection
<1>4. name \in Injection(1..Len(doc), Named(doc))
        <=> \A i, j \in 1..Len(doc) : name[i] = name[j] => i = j
  <2>1. name \in [1..Len(doc) -> Named(doc)]
    BY <1>2 DEF Surjection
  <2> QED
    BY <2>1 DEF Injection, IsInjective
<1>5. \A i \in 1..Len(doc) : name[i] = doc[i].name
  OBVIOUS
<1> HIDE DEF name
<1> QED
  BY <1>3, <1>4, <1>5 DEF DuplicateNames

\* What the boundary test looks at is what a user of the public surface sees.
LEMMA FragmentsAreSeen ==
  ASSUME NEW doc \in Seq(SymbolType)
  PROVE  /\ \A i \in 1..Len(doc) : \A f \in PublicFragments(doc[i]) :
              \E d \in PublicView(doc) : f = d[2]
         /\ \A d \in PublicView(doc) : \E i \in 1..Len(doc) : d[2] \in PublicFragments(doc[i])
<1>1. ASSUME NEW i \in 1..Len(doc), NEW f \in PublicFragments(doc[i])
      PROVE  \E d \in PublicView(doc) : f = d[2]
  <2>1. doc[i].visibility = "public" /\ i \in DOMAIN doc
    BY FragmentsAre
  <2>2. CASE f = doc[i]
    <3>1. PICK d : d = <<<<i>>, doc[i]>>
      OBVIOUS
    <3>2. d \in Declarations(doc)
      BY <2>1, <3>1, IsDeclaration
    <3>3. d \in PublicView(doc) /\ f = d[2]
      BY <2>1, <2>2, <3>1, <3>2 DEF PublicView
    <3> QED
      BY <3>3
  <2>3. ASSUME NEW g \in Groups, NEW j \in DOMAIN doc[i].members[g],
               f = doc[i].members[g][j], f.visibility = "public"
        PROVE  \E d \in PublicView(doc) : f = d[2]
    <3>1. PICK d : d = <<<<i, g, j>>, doc[i].members[g][j]>>
      OBVIOUS
    <3>2. d \in Declarations(doc)
      BY <2>1, <3>1, IsDeclaration
    <3>3. d \in PublicView(doc) /\ f = d[2]
      BY <2>1, <2>3, <3>1, <3>2 DEF PublicView
    <3> QED
      BY <3>3
  <2> QED
    BY <2>2, <2>3, FragmentsAre
<1>2. ASSUME NEW d \in PublicView(doc)
      PROVE  \E i \in 1..Len(doc) : d[2] \in PublicFragments(doc[i])
  <2>1. d \in Declarations(doc) /\ d[2].visibility = "public" /\ doc[d[1][1]].visibility = "public"
    BY DEF PublicView
  <2>2. ASSUME NEW i \in DOMAIN doc, d = <<<<i>>, doc[i]>>
        PROVE  \E k \in 1..Len(doc) : d[2] \in PublicFragments(doc[k])
    <3>1. i \in 1..Len(doc) /\ d[2] = doc[i]
      BY <2>2
    <3>2. d[2] \in PublicFragments(doc[i])
      BY <2>1, <3>1, FragmentsAre
    <3> QED
      BY <3>1, <3>2
  <2>3. ASSUME NEW i \in DOMAIN doc, NEW g \in Groups, NEW j \in DOMAIN doc[i].members[g],
               d = <<<<i, g, j>>, doc[i].members[g][j]>>
        PROVE  \E k \in 1..Len(doc) : d[2] \in PublicFragments(doc[k])
    <3>1. i \in 1..Len(doc) /\ d[2] = doc[i].members[g][j] /\ d[1] = <<i, g, j>>
      BY <2>3
    <3>2. doc[i].visibility = "public"
      BY <2>1, <3>1
    <3>3. d[2] \in PublicFragments(doc[i])
      BY <2>1, <3>1, <3>2, FragmentsAre
    <3> QED
      BY <3>1, <3>3
  <2>4. CASE \E i \in DOMAIN doc : d = <<<<i>>, doc[i]>>
    BY <2>2, <2>4
  <2>5. CASE \E i \in DOMAIN doc, g \in Groups : \E j \in DOMAIN doc[i].members[g] :
               d = <<<<i, g, j>>, doc[i].members[g][j]>>
    BY <2>3, <2>5
  <2> QED
    BY <2>1, <2>4, <2>5, DeclarationsAre
<1> QED
  BY <1>1, <1>2

\* A name leaks when a public fragment refers to it and a private symbol has it.
LEMMA LeaksAre ==
  ASSUME NEW doc
  PROVE  \A n : n \in Leaks(doc) <=>
           /\ \E i \in DOMAIN doc : \E f \in PublicFragments(doc[i]) : n \in NamedRefs(f)
           /\ \E i \in DOMAIN doc : doc[i].visibility = "private" /\ doc[i].name = n
<1> DEFINE Fragments == UNION {PublicFragments(doc[i]) : i \in DOMAIN doc}
<1>1. \A f : f \in Fragments <=> \E i \in DOMAIN doc : f \in PublicFragments(doc[i])
  OBVIOUS
<1>2. \A n : n \in PrivateNames(doc) <=>
               \E i \in DOMAIN doc : doc[i].visibility = "private" /\ doc[i].name = n
  BY DEF PrivateNames
<1>3. PublicRefs(doc) = UNION {NamedRefs(f) : f \in Fragments}
  BY DEF PublicRefs
<1> HIDE DEF Fragments
<1>4. \A n : n \in PublicRefs(doc) <=> \E f \in Fragments : n \in NamedRefs(f)
  BY <1>3
<1> QED
  BY <1>1, <1>2, <1>4 DEF Leaks

\* The canary: two symbols after the others, the second naming the first.
LEMMA CanaryIsSeen ==
  ASSUME NEW doc \in Seq(SymbolType)
  PROVE  Leaks(private_leak_canary(doc)) # {}
<1> DEFINE private == Symbol(Plain("__private_boundary_canary"), "opaque", "private", {}, <<>>, <<>>, <<>>)
           public == Symbol(Plain("__public_boundary_canary"), "function", "public",
                            Refs("named", {Plain("__private_boundary_canary")}), <<>>, <<>>, <<>>)
<1>1. private.name = Plain("__private_boundary_canary") /\ private.visibility = "private"
  BY DEF Symbol, Declared
<1>2. /\ public.refs = Refs("named", {Plain("__private_boundary_canary")})
      /\ public.visibility = "public"
  BY DEF Symbol, Declared
<1>3. PICK c : c = private_leak_canary(doc)
  OBVIOUS
<1>4. c = doc \o <<private, public>>
  BY <1>3 DEF private_leak_canary
<1> HIDE DEF private, public
<1>5. /\ Len(doc) \in Nat /\ DOMAIN c = 1..(Len(doc) + 2)
      /\ c[Len(doc) + 1] = private /\ c[Len(doc) + 2] = public
  BY <1>4
<1>6. PICK k, l : k = Len(doc) + 1 /\ l = Len(doc) + 2
  OBVIOUS
<1>7. k \in DOMAIN c /\ l \in DOMAIN c /\ c[k] = private /\ c[l] = public
  BY <1>5, <1>6
<1>8. public \in PublicFragments(c[l])
  BY <1>2, <1>7, FragmentsAre
<1>9. Plain("__private_boundary_canary") \in NamedRefs(public)
  BY <1>2, NamedRefsAre
<1>10. Plain("__private_boundary_canary") \in Leaks(c)
  BY <1>1, <1>7, <1>8, <1>9, LeaksAre
<1> QED
  BY <1>3, <1>10

\* From a surface that a run has written and the boundary test passes, no reference
\* of the public view leads out of it, but the forms no script looks up; with the
\* canary the test fails (PublicViewIsClosed).
THEOREM PublicViewClosed == Spec => []PublicViewIsClosed
<1>1. ASSUME NEW doc \in Seq(SymbolType), ~ Unresolved(doc), Leaks(doc) = {},
             NEW d \in PublicView(doc), NEW r \in d[2].refs, r.form = "named"
      PROVE  \E i \in 1..Len(doc) : doc[i].visibility = "public" /\ doc[i].name = r.to
  <2>1. r.to \in NamedRefs(d[2])
    BY <1>1 DEF NamedRefs
  <2>2. r.to \in Named(doc)
    BY <1>1, <2>1 DEF Unresolved, PublicView
  <2>3. PICK i \in 1..Len(doc) : doc[i].name = r.to
    BY <2>2, NamedIs
  <2>4. \E k \in 1..Len(doc) : d[2] \in PublicFragments(doc[k])
    BY FragmentsAreSeen
  <2>5. DOMAIN doc = 1..Len(doc)
    OBVIOUS
  <2>6. doc[i].visibility # "private"
    BY <1>1, <2>1, <2>3, <2>4, <2>5, LeaksAre
  <2>7. doc[i].visibility \in {"public", "private"}
    <3>1. doc[i] \in SymbolType
      OBVIOUS
    <3> QED
      BY <3>1 DEF SymbolType, DeclarationType, Visibilities
  <2> QED
    BY <2>3, <2>6, <2>7
<1>2. ASSUME NEW doc \in Seq(SymbolType), NEW d \in PublicView(doc), NEW r \in d[2].refs
      PROVE  r.form \in {"named", "generic", "implements"}
  <2>1. PICK i \in 1..Len(doc) : d[2] \in PublicFragments(doc[i])
    BY FragmentsAreSeen
  <2>2. /\ doc[i] \in SymbolType /\ doc[i].members \in [Groups -> Seq(MemberType)]
        /\ \A g \in Groups : \A j \in DOMAIN doc[i].members[g] : doc[i].members[g][j] \in MemberType
    BY SymbolsTyped
  <2>3. d[2] \in SymbolType \/ d[2] \in MemberType
    BY <2>1, <2>2, FragmentsAre
  <2>4. d[2].refs \subseteq RefType
    BY <2>3 DEF SymbolType, MemberType, DeclarationType
  <2> QED
    BY <2>4 DEF RefType
<1>3. SurfaceInv => PublicViewIsClosed
  <2> SUFFICES ASSUME SurfaceInv
               PROVE  PublicViewIsClosed
    OBVIOUS
  <2>1. symbols \in Seq(SymbolType) /\ (fresh => ~ Unresolved(symbols))
    BY DEF SurfaceInv, Accepted, Refused
  <2>2. DOMAIN symbols = 1..Len(symbols)
    BY <2>1
  <2>3. ASSUME fresh, Leaks(symbols) = {}, NEW d \in PublicView(symbols), NEW r \in d[2].refs
        PROVE  \/ r.to \in {symbols[i].name : i \in {j \in DOMAIN symbols : symbols[j].visibility = "public"}}
               \/ r.form \in {"implements", "generic"}
    <3>1. r.form \in {"named", "generic", "implements"}
      BY <1>2, <2>1, <2>3
    <3>2. CASE r.form = "named"
      <4>1. PICK i \in 1..Len(symbols) : symbols[i].visibility = "public" /\ symbols[i].name = r.to
        BY <1>1, <2>1, <2>3, <3>2
      <4> QED
        BY <2>2, <4>1
    <3> QED
      BY <3>1, <3>2
  <2> QED
    BY <2>1, <2>3, CanaryIsSeen DEF PublicViewIsClosed
<1> QED
  BY <1>3, SurfaceInvariant, PTL

-----------------------------------------------------------------------------
(* Where the declarations of a hardened surface come from. *)

\* The identifier a declaration would be given now: its place and its own name.
LEMMA OwnIdIs ==
  ASSUME NEW i, NEW x
  PROVE  /\ OwnId(<<<<i>>, x>>) = <<i, x.name>>
         /\ \A g, j : OwnId(<<<<i, g, j>>, x>>) = <<i, g, j, x.name>>
BY DEF OwnId

\* Each is in the place of one that was merged, and what enriching makes of it.
LEMMA EnrichedFrom ==
  ASSUME NEW m \in Seq(SymbolType), NEW h, h = EnrichedAll(m)
  PROVE  \A d \in Declarations(h) : \E c \in Declarations(m) :
           c[1] = d[1] /\ Enriches(d[2], c[2], OwnId(c))
<1>1. h \in Seq(SymbolType) /\ EnrichesAll(h, m)
  BY EnrichedAllIs
<1>2. DOMAIN h = DOMAIN m /\ DOMAIN m = 1..Len(m)
  BY <1>1 DEF EnrichesAll
<1>3. ASSUME NEW i \in DOMAIN m, NEW d, d = <<<<i>>, h[i]>>
      PROVE  \E c \in Declarations(m) : c[1] = d[1] /\ Enriches(d[2], c[2], OwnId(c))
  <2>1. PICK c : c = <<<<i>>, m[i]>>
    OBVIOUS
  <2>2. c \in Declarations(m)
    BY <2>1, IsDeclaration
  <2>3. OwnId(c) = <<i, m[i].name>>
    BY <2>1, OwnIdIs
  <2>4. Enriches(h[i], m[i], <<i, m[i].name>>)
    BY <1>1, <1>2 DEF EnrichesAll
  <2>5. c[1] = d[1] /\ c[2] = m[i] /\ d[2] = h[i]
    BY <1>3, <2>1
  <2> QED
    BY <2>2, <2>3, <2>4, <2>5
<1>4. ASSUME NEW i \in DOMAIN m, NEW g \in Groups, NEW j \in DOMAIN h[i].members[g], NEW d,
             d = <<<<i, g, j>>, h[i].members[g][j]>>
      PROVE  \E c \in Declarations(m) : c[1] = d[1] /\ Enriches(d[2], c[2], OwnId(c))
  <2>1. PICK c : c = <<<<i, g, j>>, m[i].members[g][j]>>
    OBVIOUS
  <2>2. /\ j \in DOMAIN m[i].members[g]
        /\ Enriches(h[i].members[g][j], m[i].members[g][j],
                    <<i, g, j, m[i].members[g][j].name>>)
    BY <1>1, <1>2 DEF EnrichesAll
  <2>3. c \in Declarations(m)
    BY <2>1, <2>2, IsDeclaration
  <2>4. OwnId(c) = <<i, g, j, m[i].members[g][j].name>>
    BY <2>1, OwnIdIs
  <2>5. c[1] = d[1] /\ c[2] = m[i].members[g][j] /\ d[2] = h[i].members[g][j]
    BY <1>4, <2>1
  <2> QED
    BY <2>2, <2>3, <2>4, <2>5
<1>5. ASSUME NEW d \in Declarations(h)
      PROVE  \E c \in Declarations(m) : c[1] = d[1] /\ Enriches(d[2], c[2], OwnId(c))
  <2>1. CASE \E i \in DOMAIN h : d = <<<<i>>, h[i]>>
    BY <1>2, <1>3, <2>1
  <2>2. CASE \E i \in DOMAIN h, g \in Groups : \E j \in DOMAIN h[i].members[g] :
               d = <<<<i, g, j>>, h[i].members[g][j]>>
    <3>1. PICK i \in DOMAIN h, g \in Groups : \E j \in DOMAIN h[i].members[g] :
                  d = <<<<i, g, j>>, h[i].members[g][j]>>
      BY <2>2
    <3>2. PICK j \in DOMAIN h[i].members[g] : d = <<<<i, g, j>>, h[i].members[g][j]>>
      BY <3>1
    <3> QED
      BY <1>2, <1>4, <3>2
  <2> QED
    BY <2>1, <2>2, DeclarationsAre
<1> QED
  BY <1>5

\* What is merged is the maintainers', or standard and without metadata.
LEMMA MergedFrom ==
  ASSUME NEW doc \in Seq(SymbolType), NEW ns \in Namespaces, NEW m, m = Merged(doc, ns)
  PROVE  \A c \in Declarations(m) : c \in Declarations(doc) \/ Bare(c[2])
<1>1. PICK b : b = baseline_symbols(ns)
  OBVIOUS
<1>2. m \in Seq(SymbolType) /\ Extends(m, doc, b)
  BY <1>1, MergedIs
<1>3. /\ DOMAIN m = 1..Len(m) /\ DOMAIN doc = 1..Len(doc) /\ Len(doc) \in Nat /\ Len(m) \in Nat
      /\ \A i \in 1..Len(doc) : m[i] = doc[i]
      /\ \A i \in (Len(doc) + 1)..Len(m) : \E k \in 1..9 : m[i] = b[k]
  BY <1>2 DEF Extends
<1>4. \A k \in 1..9 : BareSymbol(b[k])
  <2>1. b \in Seq(StandardSymbol(ns)) /\ Len(b) = 9
    BY <1>1, StandardAre
  <2>2. \A S : \A q \in Seq(S) : \A k \in 1..Len(q) : q[k] \in S
    OBVIOUS
  <2>3. \A k \in 1..9 : b[k] \in StandardSymbol(ns)
    BY <2>1, <2>2
  <2> QED
    BY <2>3 DEF StandardSymbol
<1>5. \A i \in DOMAIN m : i \notin DOMAIN doc => BareSymbol(m[i])
  BY <1>3, <1>4
<1>6. ASSUME NEW i \in DOMAIN m, NEW c, c = <<<<i>>, m[i]>>
      PROVE  c \in Declarations(doc) \/ Bare(c[2])
  <2>1. CASE i \in DOMAIN doc
    BY <1>3, <1>6, <2>1, IsDeclaration
  <2>2. CASE i \notin DOMAIN doc
    BY <1>5, <1>6, <2>2 DEF BareSymbol
  <2> QED
    BY <2>1, <2>2
<1>7. ASSUME NEW i \in DOMAIN m, NEW g \in Groups, NEW j \in DOMAIN m[i].members[g], NEW c,
             c = <<<<i, g, j>>, m[i].members[g][j]>>
      PROVE  c \in Declarations(doc) \/ Bare(c[2])
  <2>1. CASE i \in DOMAIN doc
    <3>1. m[i] = doc[i]
      BY <1>3, <2>1
    <3> QED
      BY <1>7, <2>1, <3>1, IsDeclaration
  <2>2. CASE i \notin DOMAIN doc
    BY <1>5, <1>7, <2>2 DEF BareSymbol
  <2> QED
    BY <2>1, <2>2
<1>8. ASSUME NEW c \in Declarations(m)
      PROVE  c \in Declarations(doc) \/ Bare(c[2])
  <2>1. CASE \E i \in DOMAIN m : c = <<<<i>>, m[i]>>
    BY <1>6, <2>1
  <2>2. CASE \E i \in DOMAIN m, g \in Groups : \E j \in DOMAIN m[i].members[g] :
               c = <<<<i, g, j>>, m[i].members[g][j]>>
    BY <1>7, <2>2
  <2> QED
    BY <2>1, <2>2, DeclarationsAre
<1> QED
  BY <1>8

\* Declarations in different places are given different identifiers.
LEMMA OwnIdsDiffer ==
  ASSUME NEW doc, NEW c \in Declarations(doc), NEW e \in Declarations(doc), OwnId(c) = OwnId(e)
  PROVE  c[1] = e[1]
<1>1. ASSUME NEW d \in Declarations(doc)
      PROVE  \/ \E i, n : d[1] = <<i>> /\ OwnId(d) = <<i, n>>
             \/ \E i, g, j, n : d[1] = <<i, g, j>> /\ OwnId(d) = <<i, g, j, n>>
  <2>1. CASE \E i \in DOMAIN doc : d = <<<<i>>, doc[i]>>
    BY <2>1, OwnIdIs
  <2>2. CASE \E i \in DOMAIN doc, g \in Groups : \E j \in DOMAIN doc[i].members[g] :
               d = <<<<i, g, j>>, doc[i].members[g][j]>>
    <3>1. PICK i, g, j, x : d = <<<<i, g, j>>, x>>
      BY <2>2
    <3>2. OwnId(d) = <<i, g, j, x.name>>
      BY <3>1, OwnIdIs
    <3> QED
      BY <3>1, <3>2
  <2> QED
    BY <2>1, <2>2, DeclarationsAre
<1>2. ASSUME NEW i, NEW n, c[1] = <<i>>, OwnId(c) = <<i, n>>
      PROVE  c[1] = e[1]
  <2>1. CASE \E k, o : e[1] = <<k>> /\ OwnId(e) = <<k, o>>
    <3>1. PICK k, o : e[1] = <<k>> /\ OwnId(e) = <<k, o>>
      BY <2>1
    <3>2. <<i, n>> = <<k, o>>
      BY <1>2, <3>1
    <3>3. i = k
      BY <3>2
    <3> QED
      BY <1>2, <3>1, <3>3
  <2>2. ~ \E k, g, j, o : e[1] = <<k, g, j>> /\ OwnId(e) = <<k, g, j, o>>
    BY <1>2
  <2> QED
    BY <1>1, <2>1, <2>2
<1>3. ASSUME NEW i, NEW g, NEW j, NEW n,
             c[1] = <<i, g, j>>, OwnId(c) = <<i, g, j, n>>
      PROVE  c[1] = e[1]
  <2>1. CASE \E k, h, l, o : e[1] = <<k, h, l>> /\ OwnId(e) = <<k, h, l, o>>
    <3>1. PICK k, h, l, o : e[1] = <<k, h, l>> /\ OwnId(e) = <<k, h, l, o>>
      BY <2>1
    <3>2. <<i, g, j, n>> = <<k, h, l, o>>
      BY <1>3, <3>1
    <3>3. i = k /\ g = h /\ j = l
      BY <3>2
    <3> QED
      BY <1>3, <3>1, <3>3
  <2>2. ~ \E k, o : e[1] = <<k>> /\ OwnId(e) = <<k, o>>
    BY <1>3
  <2> QED
    BY <1>1, <2>1, <2>2
<1> QED
  BY <1>1, <1>2, <1>3

\* A declaration refers to the same names when it is enriched.
LEMMA RefsKept ==
  ASSUME NEW new, NEW old, NEW ownId, Enriches(new, old, ownId)
  PROVE  NamedRefs(new) = NamedRefs(old) /\ new.visibility = old.visibility
BY DEF Enriches, NamedRefs

\* Enriching leaks nothing that was not leaked before.
LEMMA EnrichedLeaks ==
  ASSUME NEW m \in Seq(SymbolType), NEW h, h = EnrichedAll(m), NEW n \in Leaks(h)
  PROVE  n \in Leaks(m)
<1>1. h \in Seq(SymbolType) /\ EnrichesAll(h, m)
  BY EnrichedAllIs
<1>2. DOMAIN h = DOMAIN m /\ DOMAIN m = 1..Len(m)
  BY <1>1 DEF EnrichesAll
<1>3. ASSUME NEW i \in DOMAIN m
      PROVE  h[i].name = m[i].name /\ h[i].visibility = m[i].visibility
  BY <1>1, <1>2 DEF EnrichesAll, Enriches
<1>4. ASSUME NEW i \in DOMAIN m, NEW f \in PublicFragments(h[i]), n \in NamedRefs(f)
      PROVE  \E c \in PublicFragments(m[i]) : n \in NamedRefs(c)
  <2>1. h[i].visibility = "public" /\ m[i].visibility = "public"
    BY <1>3, FragmentsAre
  <2>2. CASE f = h[i]
    <3>1. Enriches(h[i], m[i], <<i, m[i].name>>)
      BY <1>1, <1>2 DEF EnrichesAll
    <3>2. n \in NamedRefs(m[i])
      BY <1>4, <2>2, <3>1, RefsKept
    <3> QED
      BY <2>1, <3>2, FragmentsAre
  <2>3. ASSUME NEW g \in Groups, NEW j \in DOMAIN h[i].members[g],
               f = h[i].members[g][j], f.visibility = "public"
        PROVE  \E c \in PublicFragments(m[i]) : n \in NamedRefs(c)
    <3>1. /\ j \in DOMAIN m[i].members[g]
          /\ Enriches(h[i].members[g][j], m[i].members[g][j],
                      <<i, g, j, m[i].members[g][j].name>>)
      BY <1>1, <1>2 DEF EnrichesAll
    <3>2. n \in NamedRefs(m[i].members[g][j]) /\ m[i].members[g][j].visibility = "public"
      BY <1>4, <2>3, <3>1, RefsKept
    <3>3. m[i].members[g][j] \in PublicFragments(m[i])
      BY <2>1, <3>1, <3>2, FragmentsAre
    <3> QED
      BY <3>2, <3>3
  <2> QED
    BY <2>2, <2>3, FragmentsAre
<1>5. \E i \in DOMAIN h : \E f \in PublicFragments(h[i]) : n \in NamedRefs(f)
  BY LeaksAre
<1>6. \E i \in DOMAIN h : h[i].visibility = "private" /\ h[i].name = n
  BY LeaksAre
<1>7. \E i \in DOMAIN m : \E f \in PublicFragments(m[i]) : n \in NamedRefs(f)
  BY <1>2, <1>4, <1>5
<1>8. \E i \in DOMAIN m : m[i].visibility = "private" /\ m[i].name = n
  BY <1>2, <1>3, <1>6
<1> QED
  BY <1>7, <1>8, LeaksAre

\* The opened names are those of public standard symbols.
LEMMA OpenedAre ==
  ASSUME NEW ns \in Namespaces, NEW b, b = baseline_symbols(ns), NEW n \in Opened(ns)
  PROVE  \E k \in 1..9 : b[k].name = n /\ b[k].visibility = "public"
<1>1. /\ b[1].name = <<ns, "ClientOptions">> /\ b[1].visibility = "public"
      /\ b[5].name = <<ns, "ClientError">> /\ b[5].visibility = "public"
      /\ b[6].name = <<ns, "Client">> /\ b[6].visibility = "public"
  BY StandardAre DEF StandardIs
<1> QED
  BY <1>1 DEF Opened

\* The public fragments of a standard symbol refer to opened names only.
LEMMA StandardRefs ==
  ASSUME NEW ns \in Namespaces, NEW b, b = baseline_symbols(ns), NEW k \in 1..9,
         NEW f \in PublicFragments(b[k])
  PROVE  NamedRefs(f) \subseteq Opened(ns)
<1>1. b \in Seq(StandardSymbol(ns)) /\ Len(b) = 9
  BY StandardAre
<1>2. \A S : \A q \in Seq(S) : \A i \in 1..Len(q) : q[i] \in S
  OBVIOUS
<1>3. b[k] \in StandardSymbol(ns)
  BY <1>1, <1>2
<1> QED
  BY <1>3 DEF StandardSymbol

\* A run does not open the boundary (RunKeepsBoundary), unless a standard symbol
\* meant to be public is declared private or a declaration already names a private
\* standard symbol that the run adds.
THEOREM RunsKeepBoundary == Spec => []RunKeepsBoundary
<1>1. SurfaceInv => RunKeepsBoundary
  <2> SUFFICES ASSUME SurfaceInv
               PROVE  RunKeepsBoundary
    OBVIOUS
  <2>1. PICK doc, ns, m, h, b :
          /\ doc = symbols /\ ns = namespace /\ b = baseline_symbols(ns)
          /\ m = Merged(doc, ns) /\ h = Hardened(doc, ns)
    OBVIOUS
  <2>2. doc \in Seq(SymbolType) /\ ns \in Namespaces
    BY <2>1 DEF SurfaceInv
  <2>3. m \in Seq(SymbolType) /\ h = EnrichedAll(m) /\ Extends(m, doc, b)
    BY <2>1, <2>2, HardenedIs, MergedIs
  <2>4. /\ DOMAIN m = 1..Len(m) /\ DOMAIN doc = 1..Len(doc) /\ Len(doc) \in Nat /\ Len(m) \in Nat
        /\ \A i \in 1..Len(doc) : m[i] = doc[i]
        /\ \A i \in (Len(doc) + 1)..Len(m) :
             \E k \in 1..9 : m[i] = b[k] /\ b[k].name \notin Named(doc)
    BY <2>2, <2>3 DEF Extends
  <2>5. DOMAIN b = 1..9
    <3>1. b \in Seq(StandardSymbol(ns)) /\ Len(b) = 9
      BY <2>1, <2>2, StandardAre
    <3> QED
      BY <3>1
  <2> DEFINE hidden == {b[k].name : k \in {j \in DOMAIN b : b[j].visibility = "private"}}
  <2>6. ASSUME NEW n \in Leaks(h), Leaks(doc) = {}, ~ StandardNameTaken,
               \A d \in Declarations(doc) : NamedRefs(d[2]) \cap (hidden \ Named(doc)) = {}
        PROVE  FALSE
    <3>1. n \in Leaks(m)
      BY <2>3, <2>6, EnrichedLeaks
    <3>2. PICK i \in DOMAIN m : \E f \in PublicFragments(m[i]) : n \in NamedRefs(f)
      BY <3>1, LeaksAre
    <3>3. PICK f \in PublicFragments(m[i]) : n \in NamedRefs(f)
      BY <3>2
    <3>4. PICK j \in DOMAIN m : m[j].visibility = "private" /\ m[j].name = n
      BY <3>1, LeaksAre
    <3>5. i \notin DOMAIN doc => \E k \in 1..9 : b[k].name = n /\ b[k].visibility = "public"
      <4> SUFFICES ASSUME i \notin DOMAIN doc
                   PROVE  \E k \in 1..9 : b[k].name = n /\ b[k].visibility = "public"
        OBVIOUS
      <4>0. i \in (Len(doc) + 1)..Len(m)
        BY <2>4, <3>2
      <4>1. PICK k \in 1..9 : m[i] = b[k]
        BY <2>4, <4>0
      <4>2. n \in Opened(ns)
        BY <2>1, <2>2, <3>3, <4>1, StandardRefs
      <4> QED
        BY <2>1, <2>2, <4>2, OpenedAre
    <3>6. CASE j \in DOMAIN doc
      <4>1. doc[j].visibility = "private" /\ doc[j].name = n
        BY <2>4, <3>4, <3>6
      <4>2. CASE i \in DOMAIN doc
        <5>1. m[i] = doc[i]
          BY <2>4, <4>2
        <5>2. n \in Leaks(doc)
          BY <3>3, <3>6, <4>1, <4>2, <5>1, LeaksAre
        <5> QED
          BY <2>6, <5>2
      <4>3. CASE i \notin DOMAIN doc
        <5>1. PICK k \in DOMAIN b : b[k].name = n /\ b[k].visibility = "public"
          BY <2>5, <3>5, <4>3
        <5>2. StandardNameTaken
          BY <2>1, <3>6, <4>1, <5>1 DEF StandardNameTaken
        <5> QED
          BY <2>6, <5>2
      <4> QED
        BY <4>2, <4>3
    <3>7. CASE j \notin DOMAIN doc
      <4>0. j \in (Len(doc) + 1)..Len(m)
        BY <2>4, <3>4, <3>7
      <4>1. PICK k \in 1..9 : m[j] = b[k] /\ b[k].name \notin Named(doc)
        BY <2>4, <4>0
      <4>2. n \in hidden \ Named(doc)
        BY <2>5, <3>4, <4>1
      <4>3. CASE i \in DOMAIN doc
        <5>0. i \in 1..Len(doc) /\ f \in PublicFragments(doc[i])
          BY <2>4, <3>3, <4>3
        <5>1. PICK d \in PublicView(doc) : f = d[2]
          BY <2>2, <5>0, FragmentsAreSeen
        <5>2. d \in Declarations(doc)
          BY <5>1 DEF PublicView
        <5> HIDE DEF hidden
        <5> QED
          BY <2>6, <3>3, <4>2, <5>1, <5>2
      <4>4. CASE i \notin DOMAIN doc
        <5>1. PICK l \in 1..9 : b[l].name = n /\ b[l].visibility = "public"
          BY <3>5, <4>4
        <5>2. k = l
          <6>1. b[k].name = b[l].name
            BY <3>4, <4>1, <5>1
          <6> QED
            BY <2>1, <2>2, <6>1, StandardNamesDiffer
        <5> QED
          BY <3>4, <4>1, <5>1, <5>2
      <4> QED
        BY <4>3, <4>4
    <3> QED
      BY <3>6, <3>7
  <2> HIDE DEF hidden
  <2>7. Leaks(doc) = {} =>
          \/ Leaks(h) = {}
          \/ StandardNameTaken
          \/ \E d \in Declarations(doc) : NamedRefs(d[2]) \cap (hidden \ Named(doc)) # {}
    BY <2>6
  <2> QED
    BY <2>1, <2>7 DEF RunKeepsBoundary, hidden
<1> QED
  BY <1>1, SurfaceInvariant, PTL

-----------------------------------------------------------------------------
(* Why a run refuses a surface. *)

\* A surface without two names alike has none after a run.
LEMMA HardenedNamesDiffer ==
  ASSUME NEW doc \in Seq(SymbolType), NEW ns \in Namespaces, NEW h, h = Hardened(doc, ns),
         ~ DuplicateNames(doc)
  PROVE  ~ DuplicateNames(h)
<1>1. PICK b, m : b = baseline_symbols(ns) /\ m = Merged(doc, ns)
  OBVIOUS
<1>2. /\ m \in Seq(SymbolType) /\ Extends(m, doc, b) /\ h = EnrichedAll(m)
      /\ h \in Seq(SymbolType) /\ EnrichesAll(h, m)
  BY <1>1, MergedIs, HardenedIs, EnrichedAllIs
<1>3. /\ Len(doc) \in Nat /\ Len(m) \in Nat /\ \A i \in 1..Len(doc) : m[i] = doc[i]
      /\ \A i \in (Len(doc) + 1)..Len(m) : m[i].name \notin Named(doc)
      /\ \A i, j \in (Len(doc) + 1)..Len(m) : m[i].name = m[j].name => i = j
  BY <1>2 DEF Extends
<1>4. \A i, j \in 1..Len(doc) : doc[i].name = doc[j].name => i = j
  BY NamesDiffer
<1>5. \A i \in 1..Len(doc) : doc[i].name \in Named(doc)
  BY NamedIs
<1>6. ASSUME NEW i \in 1..Len(m), NEW j \in 1..Len(m), m[i].name = m[j].name
      PROVE  i = j
  <2>1. CASE i <= Len(doc) /\ j <= Len(doc)
    <3>1. i \in 1..Len(doc) /\ j \in 1..Len(doc)
      BY <1>3, <2>1
    <3> QED
      BY <1>3, <1>4, <1>6, <3>1
  <2>2. CASE i <= Len(doc) /\ j > Len(doc)
    <3>1. i \in 1..Len(doc) /\ j \in (Len(doc) + 1)..Len(m)
      BY <1>3, <2>2
    <3> QED
      BY <1>3, <1>5, <1>6, <3>1
  <2>3. CASE i > Len(doc) /\ j <= Len(doc)
    <3>1. j \in 1..Len(doc) /\ i \in (Len(doc) + 1)..Len(m)
      BY <1>3, <2>3
    <3> QED
      BY <1>3, <1>5, <1>6, <3>1
  <2>4. CASE i > Len(doc) /\ j > Len(doc)
    <3>1. j \in (Len(doc) + 1)..Len(m) /\ i \in (Len(doc) + 1)..Len(m)
      BY <1>3, <2>4
    <3> QED
      BY <1>3, <1>6, <3>1
  <2> QED
    BY <1>3, <2>1, <2>2, <2>3, <2>4
<1>7. Len(h) = Len(m) /\ \A i \in 1..Len(m) : h[i].name = m[i].name
  BY <1>2 DEF EnrichesAll, Enriches
<1>8. \A i, j \in 1..Len(h) : h[i].name = h[j].name => i = j
  BY <1>6, <1>7
<1> QED
  BY <1>2, <1>8, NamesDiffer

\* A run over resolved references leaves them so.
LEMMA HardenedResolves ==
  ASSUME NEW doc \in Seq(SymbolType), NEW ns \in Namespaces, NEW h, h = Hardened(doc, ns),
         ~ Unresolved(Merged(doc, ns))
  PROVE  ~ Unresolved(h)
<1>1. PICK m : m = Merged(doc, ns)
  OBVIOUS
<1>2. m \in Seq(SymbolType) /\ h = EnrichedAll(m) /\ Named(h) = Named(m)
  BY <1>1, HardenedIs
<1>3. \A c \in Declarations(m) : NamedRefs(c[2]) \subseteq Named(m)
  BY <1>1 DEF Unresolved
<1>4. ASSUME NEW d \in Declarations(h)
      PROVE  NamedRefs(d[2]) \subseteq Named(h)
  <2>1. PICK c \in Declarations(m) : Enriches(d[2], c[2], OwnId(c))
    BY <1>2, EnrichedFrom
  <2>2. NamedRefs(d[2]) = NamedRefs(c[2])
    BY <2>1, RefsKept
  <2> QED
    BY <1>2, <1>3, <2>2
<1> QED
  BY <1>4 DEF Unresolved

\* A behavior that contradicts a call's "async" was there before.
LEMMA HardenedAgrees ==
  ASSUME NEW doc \in Seq(SymbolType), NEW ns \in Namespaces, NEW h, h = Hardened(doc, ns),
         ~ Contradicted(doc)
  PROVE  ~ Contradicted(h)
<1>1. PICK m : m = Merged(doc, ns)
  OBVIOUS
<1>2. m \in Seq(SymbolType) /\ h = EnrichedAll(m)
  BY <1>1, HardenedIs
<1>3. ASSUME NEW d \in Declarations(h), Calls(d[2]), d[2].behavior \notin {"unset", d[2].runs}
      PROVE  FALSE
  <2>1. PICK c \in Declarations(m) : Enriches(d[2], c[2], OwnId(c))
    BY <1>2, EnrichedFrom
  <2>2. Calls(c[2]) /\ c[2].behavior \notin {"unset", c[2].runs}
    BY <1>3, <2>1 DEF Enriches, Default, Calls
  <2>3. ~ Bare(c[2])
    BY <2>2 DEF Bare
  <2>4. c \in Declarations(doc)
    BY <1>1, <2>3, MergedFrom
  <2> QED
    BY <2>2, <2>4 DEF Contradicted
<1> QED
  BY <1>3 DEF Contradicted

\* So was a deprecation without a date.
LEMMA HardenedDates ==
  ASSUME NEW doc \in Seq(SymbolType), NEW ns \in Namespaces, NEW h, h = Hardened(doc, ns),
         ~ Undated(doc)
  PROVE  ~ Undated(h)
<1>1. PICK m : m = Merged(doc, ns)
  OBVIOUS
<1>2. m \in Seq(SymbolType) /\ h = EnrichedAll(m)
  BY <1>1, HardenedIs
<1>3. ASSUME NEW d \in Declarations(h), d[2].stability = "deprecated",
             d[2].deprecation \in {"unset", "null"}
      PROVE  FALSE
  <2>1. PICK c \in Declarations(m) : Enriches(d[2], c[2], OwnId(c))
    BY <1>2, EnrichedFrom
  <2>2. c[2].stability = "deprecated" /\ c[2].deprecation \in {"unset", "null"}
    BY <1>3, <2>1 DEF Enriches, Default
  <2>3. ~ Bare(c[2])
    BY <2>2 DEF Bare
  <2>4. c \in Declarations(doc)
    BY <1>1, <2>3, MergedFrom
  <2> QED
    BY <2>2, <2>4 DEF Undated
<1> QED
  BY <1>3 DEF Undated

\* Two identifiers alike are two that were, or one that was and the one that is
\* given to what has come to its place.
LEMMA HardenedIdsDiffer ==
  ASSUME NEW doc \in Seq(SymbolType), NEW ns \in Namespaces, NEW h, h = Hardened(doc, ns),
         ~ DuplicateIds(doc), ~ PinnedId(Merged(doc, ns))
  PROVE  ~ DuplicateIds(h)
<1>1. PICK m : m = Merged(doc, ns)
  OBVIOUS
<1>2. m \in Seq(SymbolType) /\ h = EnrichedAll(m)
  BY <1>1, HardenedIs
<1>3. ASSUME NEW d \in Declarations(h), NEW e \in Declarations(h),
             d[1] # e[1], d[2].id = e[2].id, d[2].id # NoId
      PROVE  FALSE
  <2>1. PICK c \in Declarations(m) : c[1] = d[1] /\ Enriches(d[2], c[2], OwnId(c))
    BY <1>2, EnrichedFrom
  <2>2. PICK a \in Declarations(m) : a[1] = e[1] /\ Enriches(e[2], a[2], OwnId(a))
    BY <1>2, EnrichedFrom
  <2>3. /\ d[2].id = IF c[2].id = NoId THEN OwnId(c) ELSE c[2].id
        /\ e[2].id = IF a[2].id = NoId THEN OwnId(a) ELSE a[2].id
    BY <2>1, <2>2 DEF Enriches, Default
  <2>4. OwnId(c) # OwnId(a)
    BY <1>3, <2>1, <2>2, OwnIdsDiffer
  <2>5. \A x, y \in Declarations(m) :
          x[2].id = OwnId(y) /\ y[2].id = NoId => x[2].id \in {NoId, OwnId(x)}
    BY <1>1 DEF PinnedId
  <2>6. CASE c[2].id # NoId /\ a[2].id # NoId
    <3>1. ~ Bare(c[2]) /\ ~ Bare(a[2])
      BY <2>6 DEF Bare
    <3>2. c \in Declarations(doc) /\ a \in Declarations(doc)
      BY <1>1, <3>1, MergedFrom
    <3> QED
      BY <1>3, <2>1, <2>2, <2>3, <2>6, <3>2 DEF DuplicateIds
  <2>7. CASE c[2].id # NoId /\ a[2].id = NoId
    BY <1>3, <2>3, <2>4, <2>5, <2>7
  <2>8. CASE c[2].id = NoId /\ a[2].id # NoId
    BY <1>3, <2>3, <2>4, <2>5, <2>8
  <2>9. CASE c[2].id = NoId /\ a[2].id = NoId
    BY <1>3, <2>3, <2>4, <2>9
  <2> QED
    BY <2>6, <2>7, <2>8, <2>9
<1> QED
  BY <1>3 DEF DuplicateIds

\* Does x stand for the standard symbol s?
Stands(x, s) ==
  /\ x.kind = s.kind /\ x.visibility = s.visibility
  /\ MethodVisibilities(s) \subseteq MethodVisibilities(x)

\* Is no standard name taken by something else?
NamesFit(doc, b) ==
  \A k \in 1..9, i \in 1..Len(doc) : doc[i].name = b[k].name => Stands(doc[i], b[k])

\* Enriching a symbol leaves its kind, its visibility and those of its methods.
LEMMA EnrichedStands ==
  ASSUME NEW m \in Seq(SymbolType), NEW h, h = EnrichedAll(m), NEW i \in 1..Len(m)
  PROVE  i \in DOMAIN h /\ Stands(h[i], m[i])
<1>1. h \in Seq(SymbolType) /\ EnrichesAll(h, m) /\ "methods" \in Groups
  BY EnrichedAllIs DEF Groups
<1>2. DOMAIN h = 1..Len(m)
  BY <1>1 DEF EnrichesAll
<1>3. h[i].kind = m[i].kind /\ h[i].visibility = m[i].visibility
  BY <1>1 DEF EnrichesAll, Enriches
<1>4. PICK new, old : new = h[i].members["methods"] /\ old = m[i].members["methods"]
  OBVIOUS
<1>5. DOMAIN new = DOMAIN old
  BY <1>1, <1>4 DEF EnrichesAll
<1>6. \A j \in DOMAIN old : new[j].visibility = old[j].visibility
  BY <1>1, <1>4 DEF EnrichesAll, Enriches
<1>7. MethodVisibilities(m[i]) \subseteq MethodVisibilities(h[i])
  BY <1>4, <1>5, <1>6 DEF MethodVisibilities
<1> QED
  BY <1>2, <1>3, <1>7 DEF Stands

\* Every standard symbol is there after a run, of its kind and visibility and with
\* methods of the visibilities of its own, unless its name was taken.
LEMMA StandardThere ==
  ASSUME NEW doc \in Seq(SymbolType), NEW ns \in Namespaces, NEW h, h = Hardened(doc, ns),
         NEW b, b = baseline_symbols(ns), NamesFit(doc, b), NEW k \in 1..9
  PROVE  \E i \in DOMAIN h : Stands(h[i], b[k])
<1>1. PICK m : m = Merged(doc, ns)
  OBVIOUS
<1>2. m \in Seq(SymbolType) /\ Extends(m, doc, b) /\ h = EnrichedAll(m)
  BY <1>1, MergedIs, HardenedIs
<1>3. /\ Len(doc) \in Nat /\ Len(m) \in Nat /\ Len(doc) <= Len(m)
      /\ \A i \in 1..Len(doc) : m[i] = doc[i]
      /\ b[k].name \notin Named(doc) => \E i \in 1..Len(m) : m[i] = b[k]
  BY <1>2 DEF Extends
<1>4. \E i \in 1..Len(m) : Stands(m[i], b[k])
  <2>1. CASE b[k].name \in Named(doc)
    <3>1. PICK i \in 1..Len(doc) : doc[i].name = b[k].name
      BY <2>1, NamedIs
    <3>2. i \in 1..Len(m) /\ m[i] = doc[i]
      BY <1>3
    <3>3. Stands(doc[i], b[k])
      BY <3>1 DEF NamesFit
    <3> QED
      BY <3>2, <3>3
  <2>2. CASE b[k].name \notin Named(doc)
    BY <1>3, <2>2 DEF Stands
  <2> QED
    BY <2>1, <2>2
<1>5. PICK i \in 1..Len(m) : Stands(m[i], b[k])
  BY <1>4
<1>6. i \in DOMAIN h /\ Stands(h[i], m[i])
  BY <1>2, EnrichedStands
<1>7. Stands(h[i], b[k])
  BY <1>5, <1>6 DEF Stands
<1> QED
  BY <1>6, <1>7

\* So no kind of symbol is missing, and no method of either visibility.
LEMMA NothingMissing ==
  ASSUME NEW doc \in Seq(SymbolType), NEW ns \in Namespaces, NEW h, h = Hardened(doc, ns),
         NEW b, b = baseline_symbols(ns), NamesFit(doc, b)
  PROVE  ~ Missing(h)
<1>1. \A k \in 1..9 : \E i \in DOMAIN h : Stands(h[i], b[k])
  BY StandardThere
<1>2. /\ b[1].kind = "type" /\ b[1].visibility = "public"
      /\ b[2].kind = "type" /\ b[2].visibility = "private"
      /\ b[3].kind = "interface" /\ b[3].visibility = "public"
      /\ b[4].kind = "interface" /\ b[4].visibility = "private"
      /\ b[6].kind = "class" /\ b[6].visibility = "public"
      /\ b[7].kind = "class" /\ b[7].visibility = "private"
      /\ b[8].kind = "function" /\ b[8].visibility = "public"
      /\ b[9].kind = "function" /\ b[9].visibility = "private"
  BY StandardAre DEF StandardIs
<1>3. "public" \in MethodVisibilities(b[3])
  <2>1. \E j \in DOMAIN b[3].members["methods"] : b[3].members["methods"][j].visibility = "public"
    BY StandardAre
  <2> QED
    BY <2>1 DEF MethodVisibilities
<1>4. "private" \in MethodVisibilities(b[4])
  <2>1. \E j \in DOMAIN b[4].members["methods"] : b[4].members["methods"][j].visibility = "private"
    BY StandardAre
  <2> QED
    BY <2>1 DEF MethodVisibilities
<1>5. ASSUME NEW v \in Visibilities, NEW kind \in {"class", "interface", "type", "function"}
      PROVE  \E i \in DOMAIN h : h[i].kind = kind /\ h[i].visibility = v
  <2>1. PICK k \in 1..9 : b[k].kind = kind /\ b[k].visibility = v
    BY <1>2 DEF Visibilities
  <2> QED
    BY <1>1, <2>1 DEF Stands
<1>6. ASSUME NEW v \in Visibilities
      PROVE  \E p \in MemberPlaces(h) : p[2] = "methods" /\ Member(h, p).visibility = v
  <2>1. PICK k \in 1..9 : v \in MethodVisibilities(b[k])
    BY <1>3, <1>4 DEF Visibilities
  <2>2. PICK i \in DOMAIN h : v \in MethodVisibilities(h[i])
    BY <1>1, <2>1 DEF Stands
  <2>3. PICK j \in DOMAIN h[i].members["methods"] : h[i].members["methods"][j].visibility = v
    BY <2>2 DEF MethodVisibilities
  <2>4. PICK p, g : p = <<i, g, j>> /\ g = "methods"
    OBVIOUS
  <2>5. g \in Groups /\ j \in DOMAIN h[i].members[g]
    BY <2>4 DEF Groups
  <2>6. <<i, g, j>> \in MemberPlaces(h)
    BY <2>5, IsDeclaration
  <2>7. Member(h, p) = h[i].members["methods"][j] /\ p[2] = "methods"
    BY <2>4 DEF Member
  <2> QED
    BY <2>3, <2>4, <2>6, <2>7
<1> QED
  BY <1>5, <1>6 DEF Missing

\* A run refuses a surface only for a mistake of the maintainers or for metadata
\* that an earlier run has pinned (RefusesOnlyFor).
THEOREM RefusalsExplained == Spec => []RefusesOnlyFor
<1>1. SurfaceInv => RefusesOnlyFor
  <2> SUFFICES ASSUME SurfaceInv
               PROVE  RefusesOnlyFor
    OBVIOUS
  <2>1. PICK doc, ns, m, h, b :
          /\ doc = symbols /\ ns = namespace /\ b = baseline_symbols(ns)
          /\ m = Merged(doc, ns) /\ h = Hardened(doc, ns)
    OBVIOUS
  <2>2. doc \in Seq(SymbolType) /\ ns \in Namespaces /\ ~ DuplicateIds(doc)
    BY <2>1 DEF SurfaceInv
  <2>3. ASSUME ~ StandardNameTaken
        PROVE  ~ Missing(h)
    <3>1. DOMAIN b = 1..9
      <4>1. b \in Seq(StandardSymbol(ns)) /\ Len(b) = 9
        BY <2>1, <2>2, StandardAre
      <4> QED
        BY <4>1
    <3>2. DOMAIN doc = 1..Len(doc)
      BY <2>2
    <3>3. NamesFit(doc, b)
      <4>1. SUFFICES ASSUME NEW k \in 1..9, NEW i \in 1..Len(doc), doc[i].name = b[k].name
                     PROVE  Stands(doc[i], b[k])
        BY DEF NamesFit
      <4>2. k \in DOMAIN baseline_symbols(namespace) /\ i \in DOMAIN symbols
        BY <2>1, <3>1, <3>2
      <4>3. symbols[i].name = baseline_symbols(namespace)[k].name
        BY <2>1, <4>1
      <4>4. Stands(symbols[i], baseline_symbols(namespace)[k])
        BY <2>3, <4>2, <4>3 DEF StandardNameTaken, Stands
      <4> QED
        BY <2>1, <4>4
    <3> QED
      BY <2>1, <2>2, <3>3, NothingMissing
  <2>4. ~ DuplicateNames(doc) => ~ DuplicateNames(h)
    BY <2>1, <2>2, HardenedNamesDiffer
  <2>5. ~ Unresolved(m) => ~ Unresolved(h)
    BY <2>1, <2>2, HardenedResolves
  <2>6. ~ PinnedBehavior => ~ Contradicted(h)
    <3>1. ~ PinnedBehavior => ~ Contradicted(doc)
      BY <2>1 DEF PinnedBehavior, Contradicted
    <3> QED
      BY <2>1, <2>2, <3>1, HardenedAgrees
  <2>7. ~ Undated(doc) => ~ Undated(h)
    BY <2>1, <2>2, HardenedDates
  <2>8. ~ PinnedId(m) => ~ DuplicateIds(h)
    BY <2>1, <2>2, HardenedIdsDiffer
  <2>9. Refused(h) => \/ DuplicateNames(doc) \/ Unresolved(m) \/ Undated(doc)
                      \/ StandardNameTaken \/ PinnedBehavior \/ PinnedId(m)
    BY <2>3, <2>4, <2>5, <2>6, <2>7, <2>8 DEF Refused
  <2> QED
    BY <2>1, <2>9 DEF RefusesOnlyFor
<1> QED
  BY <1>1, SurfaceInvariant, PTL
=============================================================================
