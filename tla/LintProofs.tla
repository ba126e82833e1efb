----------------------------- MODULE LintProofs -----------------------------
(***************************************************************************)
(* Proofs about the tools that read the repository's own programs.         *)
(*                                                                         *)
(* The two analysers of RequireSend, for every program: any number of      *)
(* variables, fields, events, nested blocks and constructs.                *)
(*                                                                         *)
(* Then the scanner of FpConformance, for lines of any length and files of *)
(* any number of lines.                                                    *)
(***************************************************************************)
EXTENDS RequireSend, FpConformance, FiniteSetTheorems, SequenceTheorems, WellFoundedInduction, TLAPS

\* A bounded set of numbers that is not empty has a greatest one.
LEMMA Greatest ==
  ASSUME NEW S \in SUBSET Nat, S # {}, NEW n \in Nat, \A s \in S : s <= n
  PROVE  \E m \in S : \A s \in S : s <= m
<1> DEFINE T == {k \in Nat : \A s \in S : s <= k}
<1>1. T \subseteq Nat /\ n \in T
  OBVIOUS
<1>2. PICK m \in T : \A y \in T : ~ (<<y, m>> \in OpToRel(<, Nat))
  <2> HIDE DEF T
  <2> QED
    BY <1>1, NatLessThanWellFounded, WFMin
<1>3. \A y \in T : ~ (y < m)
  BY <1>2 DEF OpToRel
<1>4. CASE m \in S
  BY <1>4
<1>5. CASE m \notin S
  <2>1. \A s \in S : s < m
    BY <1>5
  <2>2. m # 0
    <3>1. PICK s \in S : s \in Nat /\ s < m
      BY <2>1
    <3> QED
      BY <3>1
  <2>3. m - 1 \in T
    BY <2>1, <2>2
  <2> QED
    BY <1>3, <2>3
<1> QED
  BY <1>4, <1>5

-----------------------------------------------------------------------------
\* The place of a pending event is cleared, and nothing else.
LEMMA ClearEffect ==
  ASSUME NEW a \in Analyser, NEW k \in Keys
  PROVE  /\ Clear(a, k) \in Analyser
         /\ Clear(a, k).found = a.found
         /\ Len(Clear(a, k).scopes) = Len(a.scopes)
         /\ \A i \in 1..Len(a.scopes), l \in Keys :
              /\ Clear(a, k).scopes[i][l] \in {0, a.scopes[i][l]}
              /\ l # k => Clear(a, k).scopes[i][l] = a.scopes[i][l]
         /\ \A i \in 1..Len(a.scopes) :
              Clear(a, k).scopes[i][k] # 0 =>
                \E j \in 1..Len(a.scopes) : j # i /\ a.scopes[j][k] # 0
<1> DEFINE s == a.scopes
           Known == {i \in DOMAIN s : s[i][k] # 0}
<1>1. /\ s \in Seq([Keys -> 0 .. MaxEvents]) /\ a.found \subseteq EventIds
      /\ a = [scopes |-> s, found |-> a.found]
  BY DEF Analyser
<1>2. Len(s) \in Nat /\ DOMAIN s = 1..Len(s) /\ \A i \in 1..Len(s) : s[i] \in [Keys -> 0 .. MaxEvents]
  BY <1>1, LenProperties, ElementOfSeq
<1>3. CASE Known = {}
  <2>1. Clear(a, k) = a
    BY <1>3 DEF Clear
  <2> QED
    BY <1>2, <1>3, <2>1
<1>4. CASE Known # {}
  <2> DEFINE m == CHOOSE i \in Known : \A j \in Known : j <= i
  <2>1. m \in Known
    <3>1. Known \in SUBSET Nat /\ \A j \in Known : j <= Len(s)
      BY <1>2
    <3> HIDE DEF Known
    <3>2. \E i \in Known : \A j \in Known : j <= i
      BY <1>2, <1>4, <3>1, Greatest
    <3> QED
      BY <3>2
  <2>2. Clear(a, k) = [a EXCEPT !.scopes[m][k] = 0]
    BY <1>4 DEF Clear
  <2> HIDE DEF m
  <2> DEFINE t == [s EXCEPT ![m] = [s[m] EXCEPT ![k] = 0]]
  <2>3. m \in 1..Len(s) /\ [s[m] EXCEPT ![k] = 0] \in [Keys -> 0 .. MaxEvents]
    <3>1. 0 \in 0 .. MaxEvents
      BY BoundsAssumption
    <3> QED
      BY <1>2, <2>1, <3>1
  <2>4. t \in Seq([Keys -> 0 .. MaxEvents]) /\ Len(t) = Len(s)
    BY <1>1, <2>3, ExceptSeq
  <2>5. Clear(a, k) = [scopes |-> t, found |-> a.found]
    BY <1>1, <2>2
  <2>6. \A i \in 1..Len(s), l \in Keys : t[i][l] = IF i = m /\ l = k THEN 0 ELSE s[i][l]
    BY <1>2, <2>3
  <2>7. Clear(a, k) \in Analyser
    BY <1>1, <2>4, <2>5 DEF Analyser
  <2>8. Clear(a, k).scopes = t /\ Clear(a, k).found = a.found
    BY <2>5
  <2>9. s[m][k] # 0
    BY <2>1
  <2> HIDE DEF t
  <2> QED
    BY <2>3, <2>4, <2>6, <2>7, <2>8, <2>9
<1> QED
  BY <1>3, <1>4

\* So does a call that is a statement, which clears twice.
LEMMA ConsumeEffect ==
  ASSUME NEW a \in Analyser, NEW k \in Keys
  PROVE  /\ Consume(a, k) \in Analyser
         /\ Consume(a, k).found = a.found
         /\ Len(Consume(a, k).scopes) = Len(a.scopes)
         /\ \A i \in 1..Len(a.scopes), l \in Keys :
              /\ Consume(a, k).scopes[i][l] \in {0, a.scopes[i][l]}
              /\ l # k => Consume(a, k).scopes[i][l] = a.scopes[i][l]
         /\ \A i \in 1..Len(a.scopes) :
              Consume(a, k).scopes[i][k] # 0 =>
                \E j \in 1..Len(a.scopes) : j # i /\ a.scopes[j][k] # 0
<1> DEFINE b == Clear(a, k)
<1>1. b \in Analyser /\ Consume(a, k) = Clear(b, k)
  BY ClearEffect DEF Consume
<1>2. /\ b.found = a.found /\ Len(b.scopes) = Len(a.scopes)
      /\ \A i \in 1..Len(a.scopes), l \in Keys :
           /\ b.scopes[i][l] \in {0, a.scopes[i][l]}
           /\ l # k => b.scopes[i][l] = a.scopes[i][l]
  BY ClearEffect
<1> HIDE DEF b
<1>3. /\ Clear(b, k) \in Analyser
      /\ Clear(b, k).found = b.found /\ Len(Clear(b, k).scopes) = Len(b.scopes)
      /\ \A i \in 1..Len(b.scopes), l \in Keys :
           /\ Clear(b, k).scopes[i][l] \in {0, b.scopes[i][l]}
           /\ l # k => Clear(b, k).scopes[i][l] = b.scopes[i][l]
      /\ \A i \in 1..Len(b.scopes) :
           Clear(b, k).scopes[i][k] # 0 =>
             \E j \in 1..Len(b.scopes) : j # i /\ b.scopes[j][k] # 0
  BY <1>1, ClearEffect
<1>4. ASSUME NEW i \in 1..Len(a.scopes), NEW l \in Keys
      PROVE  /\ Clear(b, k).scopes[i][l] \in {0, a.scopes[i][l]}
             /\ l # k => Clear(b, k).scopes[i][l] = a.scopes[i][l]
  BY <1>2, <1>3
<1>5. ASSUME NEW i \in 1..Len(a.scopes), Clear(b, k).scopes[i][k] # 0
      PROVE  \E j \in 1..Len(a.scopes) : j # i /\ a.scopes[j][k] # 0
  <2>1. PICK j \in 1..Len(b.scopes) : j # i /\ b.scopes[j][k] # 0
    BY <1>2, <1>3, <1>5
  <2>2. b.scopes[j][k] \in {0, a.scopes[j][k]}
    BY <1>2
  <2> QED
    BY <1>2, <2>1, <2>2
<1> QED
  BY <1>1, <1>2, <1>3, <1>4, <1>5

\* A new scope is empty and the innermost one.
LEMMA EnterEffect ==
  ASSUME NEW a \in Analyser
  PROVE  /\ Enter(a) \in Analyser /\ Enter(a).found = a.found
         /\ Len(Enter(a).scopes) = Len(a.scopes) + 1 /\ Len(a.scopes) \in Nat
         /\ \A i \in 1..Len(a.scopes) : Enter(a).scopes[i] = a.scopes[i]
         /\ \A l \in Keys : Enter(a).scopes[Len(a.scopes) + 1][l] = 0
<1>1. a.scopes \in Seq([Keys -> 0 .. MaxEvents]) /\ a.found \subseteq EventIds
  BY DEF Analyser
<1>2. NothingPending \in [Keys -> 0 .. MaxEvents]
  <2>1. 0 \in 0 .. MaxEvents
    BY BoundsAssumption
  <2> QED
    BY <2>1 DEF NothingPending
<1>3. Enter(a) = [scopes |-> Append(a.scopes, NothingPending), found |-> a.found]
  <2> DEFINE t == Append(a.scopes, NothingPending)
  <2>1. Enter(a) = [a EXCEPT !.scopes = t]
    BY DEF Enter
  <2> HIDE DEF t
  <2>2. a = [scopes |-> a.scopes, found |-> a.found]
    BY DEF Analyser
  <2>3. Enter(a) = [scopes |-> t, found |-> a.found]
    BY <2>1, <2>2
  <2> QED
    BY <2>3 DEF t
<1>4. Append(a.scopes, NothingPending) \in Seq([Keys -> 0 .. MaxEvents])
  BY <1>1, <1>2, AppendProperties
<1>5. Enter(a) \in Analyser
  BY <1>1, <1>3, <1>4 DEF Analyser
<1>6. /\ Len(Enter(a).scopes) = Len(a.scopes) + 1 /\ Len(a.scopes) \in Nat
      /\ \A i \in 1..Len(a.scopes) : Enter(a).scopes[i] = a.scopes[i]
      /\ Enter(a).scopes[Len(a.scopes) + 1] = NothingPending
  BY <1>1, <1>2, <1>3, AppendProperties, LenProperties
<1> QED
  BY <1>3, <1>5, <1>6 DEF NothingPending

\* What is pending in the scope that is left is reported.
LEMMA LeaveEffect ==
  ASSUME NEW a \in Analyser, Len(a.scopes) >= 1
  PROVE  /\ Leave(a) \in Analyser
         /\ Leave(a).found = a.found \cup PendingIn(a.scopes[Len(a.scopes)])
         /\ Len(Leave(a).scopes) = Len(a.scopes) - 1 /\ Len(a.scopes) \in Nat
         /\ \A i \in 1..(Len(a.scopes) - 1) : Leave(a).scopes[i] = a.scopes[i]
<1> DEFINE n == Len(a.scopes)
<1>1. /\ a.scopes \in Seq([Keys -> 0 .. MaxEvents]) /\ a.found \subseteq EventIds
      /\ n \in Nat /\ n >= 1
  BY LenProperties DEF Analyser
<1>2. \A i \in 1..n : a.scopes[i] \in [Keys -> 0 .. MaxEvents]
  BY <1>1, ElementOfSeq
<1>3. /\ SubSeq(a.scopes, 1, n - 1) \in Seq([Keys -> 0 .. MaxEvents])
      /\ Len(SubSeq(a.scopes, 1, n - 1)) = n - 1
      /\ \A i \in 1..(n - 1) : SubSeq(a.scopes, 1, n - 1)[i] = a.scopes[i]
  <2>1. \A i \in 1..(n - 1) : a.scopes[i] \in [Keys -> 0 .. MaxEvents]
    BY <1>1, <1>2
  <2>2. n - 1 \in Int /\ 1 \in Int
    BY <1>1
  <2> HIDE DEF n
  <2> QED
    BY <1>1, <2>1, <2>2, SubSeqProperties
<1>4. PendingIn(a.scopes[n]) \subseteq EventIds
  BY <1>1, <1>2, BoundsAssumption DEF PendingIn, EventIds
<1> DEFINE t == SubSeq(a.scopes, 1, n - 1)
           f == a.found \cup PendingIn(a.scopes[n])
<1>5. Leave(a) = [scopes |-> t, found |-> f]
  BY DEF Leave
<1>6. t \in Seq([Keys -> 0 .. MaxEvents]) /\ f \in SUBSET EventIds
  BY <1>1, <1>3, <1>4
<1> HIDE DEF t, f
<1>7. Leave(a) \in Analyser /\ Leave(a).scopes = t /\ Leave(a).found = f
  BY <1>5, <1>6 DEF Analyser
<1> QED
  BY <1>1, <1>3, <1>7 DEF t, f

\* An event becomes pending in the innermost scope, under one name.
LEMMA MarkEffect ==
  ASSUME NEW a \in Analyser, Len(a.scopes) >= 1, NEW k \in Keys, NEW e \in EventIds
  PROVE  /\ Mark(a, k, e) \in Analyser /\ Mark(a, k, e).found = a.found
         /\ Len(Mark(a, k, e).scopes) = Len(a.scopes) /\ Len(a.scopes) \in Nat
         /\ \A i \in 1..Len(a.scopes), l \in Keys :
              Mark(a, k, e).scopes[i][l] =
                IF i = Len(a.scopes) /\ l = k THEN e ELSE a.scopes[i][l]
<1> DEFINE n == Len(a.scopes)
           s == a.scopes
           t == [s EXCEPT ![n] = [s[n] EXCEPT ![k] = e]]
<1>1. /\ s \in Seq([Keys -> 0 .. MaxEvents]) /\ a.found \subseteq EventIds
      /\ a = [scopes |-> s, found |-> a.found]
      /\ n \in 1..Len(s) /\ n \in Nat
  BY LenProperties DEF Analyser
<1>2. /\ DOMAIN s = 1..n
      /\ \A i \in 1..n : s[i] \in [Keys -> 0 .. MaxEvents]
  BY <1>1, LenProperties, ElementOfSeq
<1>3. [s[n] EXCEPT ![k] = e] \in [Keys -> 0 .. MaxEvents]
  <2>1. e \in 0 .. MaxEvents
    BY BoundsAssumption DEF EventIds
  <2> QED
    BY <1>1, <1>2, <2>1
<1>4. t \in Seq([Keys -> 0 .. MaxEvents]) /\ Len(t) = n
  BY <1>1, <1>3, ExceptSeq
<1>5. Mark(a, k, e) = [scopes |-> t, found |-> a.found]
  <2>1. Mark(a, k, e) = [a EXCEPT !.scopes[n][k] = e]
    BY DEF Mark
  <2> HIDE DEF n
  <2> QED
    BY <1>1, <2>1
<1>6. \A i \in 1..n, l \in Keys : t[i][l] = IF i = n /\ l = k THEN e ELSE s[i][l]
  BY <1>1, <1>2
<1>7. Mark(a, k, e).scopes = t /\ Mark(a, k, e).found = a.found
  BY <1>5
<1>8. Mark(a, k, e) \in Analyser
  BY <1>1, <1>4, <1>5 DEF Analyser
<1> QED
  BY <1>1, <1>4, <1>6, <1>7, <1>8

-----------------------------------------------------------------------------
\* The events an analyser still has, reported or pending.
Holds(a) == a.found \cup Pending(a)

\* f says under which name each event is filed.
FiledIn(a, f) ==
  \A i \in 1..Len(a.scopes), k \in Keys :
    a.scopes[i][k] # 0 => a.scopes[i][k] \in DOMAIN f /\ f[a.scopes[i][k]] = k

\* No event is pending twice under one name.
Once(a) ==
  \A i, j \in 1..Len(a.scopes), k \in Keys :
    (a.scopes[i][k] # 0 /\ a.scopes[i][k] = a.scopes[j][k]) => i = j

\* What pending means, place by place.
LEMMA PendingIs ==
  ASSUME NEW a \in Analyser
  PROVE  \A e : e \in Pending(a) <=>
           e # 0 /\ \E i \in 1..Len(a.scopes), k \in Keys : a.scopes[i][k] = e
<1>1. DOMAIN a.scopes = 1..Len(a.scopes)
  <2>1. a.scopes \in Seq([Keys -> 0 .. MaxEvents])
    BY DEF Analyser
  <2> QED
    BY <2>1, LenProperties
<1> QED
  BY <1>1 DEF Pending, PendingIn

\* Only events that are filed are pending.
LEMMA PendingFiled ==
  ASSUME NEW a \in Analyser, NEW f, FiledIn(a, f)
  PROVE  \A e \in Pending(a) : e \in DOMAIN f
<1> SUFFICES ASSUME NEW e \in Pending(a)
             PROVE  e \in DOMAIN f
  OBVIOUS
<1>1. PICK i \in 1..Len(a.scopes), k \in Keys : a.scopes[i][k] = e /\ e # 0
  BY PendingIs
<1> QED
  BY <1>1 DEF FiledIn

\* Entering a scope loses nothing.
LEMMA EnterKeeps ==
  ASSUME NEW a \in Analyser, NEW f, FiledIn(a, f), Once(a)
  PROVE  /\ FiledIn(Enter(a), f) /\ Once(Enter(a))
         /\ Holds(a) \subseteq Holds(Enter(a)) /\ Pending(Enter(a)) \subseteq Pending(a)
<1> DEFINE b == Enter(a)
<1>1. /\ b \in Analyser /\ b.found = a.found
      /\ Len(b.scopes) = Len(a.scopes) + 1 /\ Len(a.scopes) \in Nat
      /\ \A i \in 1..Len(a.scopes) : b.scopes[i] = a.scopes[i]
      /\ \A l \in Keys : b.scopes[Len(a.scopes) + 1][l] = 0
  BY EnterEffect
<1> HIDE DEF b
<1>2. \A i \in 1..Len(b.scopes) : i \in 1..Len(a.scopes) \/ i = Len(a.scopes) + 1
  BY <1>1
<1>3. FiledIn(b, f)
  BY <1>1, <1>2 DEF FiledIn
<1>4. Once(b)
  <2> SUFFICES ASSUME NEW i \in 1..Len(b.scopes), NEW j \in 1..Len(b.scopes), NEW k \in Keys,
                      b.scopes[i][k] # 0, b.scopes[i][k] = b.scopes[j][k]
               PROVE  i = j
    BY DEF Once
  <2>1. i \in 1..Len(a.scopes) /\ j \in 1..Len(a.scopes)
    BY <1>1, <1>2
  <2>2. a.scopes[i][k] # 0 /\ a.scopes[i][k] = a.scopes[j][k]
    BY <1>1, <2>1
  <2> QED
    BY <2>1, <2>2 DEF Once
<1>5. Pending(b) \subseteq Pending(a)
  BY <1>1, <1>2, PendingIs
<1>6. 1..Len(a.scopes) \subseteq 1..Len(b.scopes)
  BY <1>1
<1>7. Pending(a) \subseteq Pending(b)
  BY <1>1, <1>6, PendingIs
<1> QED
  BY <1>1, <1>3, <1>4, <1>5, <1>7 DEF b, Holds

\* Nor does leaving one: what was pending is reported.
LEMMA LeaveKeeps ==
  ASSUME NEW a \in Analyser, NEW f, FiledIn(a, f), Once(a), Len(a.scopes) >= 1
  PROVE  /\ FiledIn(Leave(a), f) /\ Once(Leave(a))
         /\ Holds(a) \subseteq Holds(Leave(a)) /\ Pending(Leave(a)) \subseteq Pending(a)
         /\ Leave(a).found \ a.found \subseteq Pending(a)
<1> DEFINE b == Leave(a)
           n == Len(a.scopes)
<1>1. /\ b \in Analyser /\ b.found = a.found \cup PendingIn(a.scopes[n])
      /\ Len(b.scopes) = n - 1 /\ n \in Nat
      /\ \A i \in 1..(n - 1) : b.scopes[i] = a.scopes[i]
  BY LeaveEffect
<1>0. n = Len(a.scopes) /\ n >= 1
  OBVIOUS
<1> HIDE DEF b, n
<1>2. /\ \A i \in 1..n : i \in 1..(n - 1) \/ i = n
      /\ n \in 1..n /\ 1..(n - 1) \subseteq 1..n
  BY <1>0, <1>1
<1>k. \A i \in 1..Len(b.scopes) : i \in 1..Len(a.scopes) /\ b.scopes[i] = a.scopes[i]
  BY <1>0, <1>1, <1>2
<1>3. FiledIn(b, f) /\ Once(b)
  <2>1. FiledIn(b, f)
    BY <1>k DEF FiledIn
  <2>2. Once(b)
    BY <1>k DEF Once
  <2> QED
    BY <2>1, <2>2
<1>4. Pending(b) \subseteq Pending(a)
  BY <1>1, <1>k, PendingIs
<1>5. PendingIn(a.scopes[n]) \subseteq Pending(a)
  BY <1>0, <1>2, PendingIs DEF PendingIn
<1>6. Pending(a) \subseteq Pending(b) \cup PendingIn(a.scopes[n])
  <2> SUFFICES ASSUME NEW e \in Pending(a)
               PROVE  e \in Pending(b) \cup PendingIn(a.scopes[n])
    OBVIOUS
  <2>1. PICK i \in 1..n, k \in Keys : a.scopes[i][k] = e /\ e # 0
    BY <1>0, PendingIs
  <2>2. CASE i = n
    BY <2>1, <2>2 DEF PendingIn
  <2>3. CASE i \in 1..(n - 1)
    BY <1>1, <2>1, <2>3, PendingIs
  <2> QED
    BY <1>2, <2>2, <2>3
<1> QED
  BY <1>1, <1>3, <1>4, <1>5, <1>6 DEF b, Holds

\* Clearing a name loses only events filed by it, and leaves one of them behind
\* only if there was another.
LEMMA ClearKeeps ==
  ASSUME NEW a \in Analyser, NEW b \in Analyser, NEW k \in Keys, NEW f,
         FiledIn(a, f), Once(a), b = Clear(a, k) \/ b = Consume(a, k)
  PROVE  /\ FiledIn(b, f) /\ Once(b) /\ b.found = a.found /\ Len(b.scopes) = Len(a.scopes)
         /\ \A e \in DOMAIN f : e \in Holds(a) /\ f[e] # k => e \in Holds(b)
         /\ Pending(b) \subseteq Pending(a)
         /\ \A e \in Pending(b) : f[e] = k => \E d \in Pending(a) : d # e /\ f[d] = k
<1>1. /\ b.found = a.found /\ Len(b.scopes) = Len(a.scopes)
      /\ \A i \in 1..Len(a.scopes), l \in Keys :
           /\ b.scopes[i][l] \in {0, a.scopes[i][l]}
           /\ l # k => b.scopes[i][l] = a.scopes[i][l]
      /\ \A i \in 1..Len(a.scopes) :
           b.scopes[i][k] # 0 => \E j \in 1..Len(a.scopes) : j # i /\ a.scopes[j][k] # 0
  <2>1. CASE b = Clear(a, k)
    <3> DEFINE c == Clear(a, k)
    <3>1. /\ c.found = a.found /\ Len(c.scopes) = Len(a.scopes)
          /\ \A i \in 1..Len(a.scopes), l \in Keys :
               /\ c.scopes[i][l] \in {0, a.scopes[i][l]}
               /\ l # k => c.scopes[i][l] = a.scopes[i][l]
          /\ \A i \in 1..Len(a.scopes) :
               c.scopes[i][k] # 0 => \E j \in 1..Len(a.scopes) : j # i /\ a.scopes[j][k] # 0
      BY ClearEffect
    <3>2. b = c
      BY <2>1
    <3> HIDE DEF c
    <3> QED
      BY <3>1, <3>2
  <2>2. CASE b = Consume(a, k)
    BY <2>2, ConsumeEffect
  <2> QED
    BY <2>1, <2>2
<1>2. FiledIn(b, f)
  BY <1>1 DEF FiledIn
<1>3. Once(b)
  BY <1>1 DEF Once
<1>4. Pending(b) \subseteq Pending(a)
  BY <1>1, PendingIs
<1>5. ASSUME NEW e \in DOMAIN f, e \in Holds(a), f[e] # k
      PROVE  e \in Holds(b)
  <2>1. CASE e \in a.found
    BY <1>1, <2>1 DEF Holds
  <2>2. CASE e \in Pending(a)
    <3>1. PICK i \in 1..Len(a.scopes), l \in Keys : a.scopes[i][l] = e /\ e # 0
      BY <2>2, PendingIs
    <3>2. l # k
      BY <1>5, <3>1 DEF FiledIn
    <3>3. e \in Pending(b)
      BY <1>1, <3>1, <3>2, PendingIs
    <3> QED
      BY <3>3 DEF Holds
  <2> QED
    BY <1>5, <2>1, <2>2 DEF Holds
<1>6. ASSUME NEW e \in Pending(b), f[e] = k
      PROVE  \E d \in Pending(a) : d # e /\ f[d] = k
  <2>1. PICK i \in 1..Len(a.scopes), l \in Keys : b.scopes[i][l] = e /\ e # 0
    BY <1>1, PendingIs
  <2>2. l = k
    BY <1>1, <1>2, <1>6, <2>1 DEF FiledIn
  <2>3. PICK j \in 1..Len(a.scopes) : j # i /\ a.scopes[j][k] # 0
    BY <1>1, <2>1, <2>2
  <2>4. a.scopes[i][k] = e
    BY <1>1, <2>1, <2>2
  <2>5. a.scopes[j][k] # e
    BY <2>1, <2>3, <2>4 DEF Once
  <2>6. a.scopes[j][k] \in Pending(a)
    BY <2>3, PendingIs
  <2>7. f[a.scopes[j][k]] = k
    BY <2>3 DEF FiledIn
  <2> QED
    BY <2>5, <2>6, <2>7
<1> QED
  BY <1>1, <1>2, <1>3, <1>4, <1>5, <1>6

\* A new event is pending, and only events filed by its name can be lost.
LEMMA MarkKeeps ==
  ASSUME NEW a \in Analyser, NEW k \in Keys, NEW f, NEW g, NEW e \in EventIds,
         FiledIn(a, f), Once(a), Len(a.scopes) >= 1,
         e \notin DOMAIN f, e \in DOMAIN g, g[e] = k,
         \A d \in DOMAIN f : d \in DOMAIN g /\ g[d] = f[d]
  PROVE  /\ FiledIn(Mark(a, k, e), g) /\ Once(Mark(a, k, e)) /\ e \in Holds(Mark(a, k, e))
         /\ \A d \in DOMAIN f : d \in Holds(a) /\ f[d] # k => d \in Holds(Mark(a, k, e))
         /\ Pending(Mark(a, k, e)) \subseteq Pending(a) \cup {e}
<1> DEFINE b == Mark(a, k, e)
           n == Len(a.scopes)
<1>1. /\ b \in Analyser /\ b.found = a.found /\ Len(b.scopes) = n /\ n \in Nat
      /\ \A i \in 1..n, l \in Keys :
           b.scopes[i][l] = IF i = n /\ l = k THEN e ELSE a.scopes[i][l]
  BY MarkEffect
<1>2. n \in 1..n /\ e # 0
  BY <1>1, BoundsAssumption DEF EventIds
<1> HIDE DEF b
<1>3. FiledIn(b, g)
  BY <1>1 DEF FiledIn
<1>4. \A i \in 1..n, l \in Keys : a.scopes[i][l] # e
  BY <1>2 DEF FiledIn
<1>5. Once(b)
  BY <1>1, <1>4 DEF Once
<1>6. e \in Pending(b)
  BY <1>1, <1>2, PendingIs
<1>7. Pending(b) \subseteq Pending(a) \cup {e}
  BY <1>1, PendingIs
<1>8. ASSUME NEW d \in DOMAIN f, d \in Holds(a), f[d] # k
      PROVE  d \in Holds(b)
  <2>1. CASE d \in a.found
    BY <1>1, <2>1 DEF Holds
  <2>2. CASE d \in Pending(a)
    <3>1. PICK i \in 1..n, l \in Keys : a.scopes[i][l] = d /\ d # 0
      BY <2>2, PendingIs
    <3>2. l # k
      BY <1>8, <3>1 DEF FiledIn
    <3>3. d \in Pending(b)
      BY <1>1, <3>1, <3>2, PendingIs
    <3> QED
      BY <3>3 DEF Holds
  <2> QED
    BY <1>8, <2>1, <2>2 DEF Holds
<1> QED
  BY <1>3, <1>5, <1>6, <1>7, <1>8 DEF b, Holds

-----------------------------------------------------------------------------
(* The program and its analysers. *)

\* The blocks that are bodies of functions.
Bodies == {i \in 1..Len(blocks) : blocks[i].function}

\* The scopes of an analyser are the open blocks it sees.
Nested ==
  ~ ended => /\ Len(scanner.scopes) = Len(blocks)
             /\ blocks[1].function
             /\ Len(lint.scopes) = Cardinality(Bodies)

Keyed == [e \in DOMAIN events |-> events[e].key]
Named == [e \in DOMAIN events |-> events[e].name]

\* Names stand for events that were built.
BoundBuilt == \A i \in 1..Len(blocks), x \in Names : blocks[i].bound[x] <= Len(events)

Filed ==
  /\ FiledIn(scanner, Keyed) /\ Once(scanner)
  /\ FiledIn(lint, Named) /\ Once(lint)

\* Why ESLint may report an event.
LintRight(e) == Kept(e) \/ ~ events[e].direct \/ SharesName(e)
LintPendingRight == \A e \in Pending(lint) : LintRight(e)

AnalyserInv ==
  /\ TypeOK /\ Nested /\ BoundBuilt /\ Filed
  /\ LintForgetsNothing /\ ScannerForgetsNothing /\ LintPendingRight

\* What the types say of blocks and events, place by place.
LEMMA Places ==
  ASSUME TypeOK
  PROVE  /\ Len(blocks) \in Nat \ {0} /\ DOMAIN blocks = 1..Len(blocks)
         /\ \A i \in 1..Len(blocks) : blocks[i] \in Block
         /\ Len(events) \in Nat /\ DOMAIN events = 1..Len(events)
         /\ \A e \in 1..Len(events) : events[e] \in Event
         /\ DOMAIN events \subseteq EventIds
BY LenProperties, ElementOfSeq, BoundsAssumption DEF TypeOK, EventIds

\* A name that is known has an innermost block that binds it.
LEMMA HolderPlaced ==
  ASSUME TypeOK, NEW x \in Names, Visible(x)
  PROVE  Holder(x) \in 1..Len(blocks) /\ Value(x) \in {Unbound, Plain} \cup EventIds
<1>1. /\ Len(blocks) \in Nat /\ DOMAIN blocks = 1..Len(blocks)
      /\ \A i \in 1..Len(blocks) : blocks[i] \in Block
  BY Places
<1>2. Holders(x) \in SUBSET Nat /\ \A i \in Holders(x) : i <= Len(blocks)
  BY <1>1 DEF Holders
<1>3. \E i \in Holders(x) : \A j \in Holders(x) : j <= i
  BY <1>1, <1>2, Greatest DEF Visible
<1>4. Holder(x) \in Holders(x)
  BY <1>3 DEF Holder
<1>5. Holder(x) \in 1..Len(blocks)
  BY <1>1, <1>4 DEF Holders
<1> QED
  BY <1>1, <1>5 DEF Value, Block

-----------------------------------------------------------------------------
\* What a use of a name does to the events and the strays.
LEMMA UseEffect ==
  ASSUME TypeOK, BoundBuilt, NEW x \in Names, NEW fate \in {"sent", "chained", "handed"},
         Use(x, fate)
  PROVE  /\ events' \in Seq(Event) /\ Len(events') = Len(events) /\ DOMAIN events' = DOMAIN events
         /\ \A e \in DOMAIN events :
              /\ events'[e].name = events[e].name /\ events'[e].key = events[e].key
              /\ events'[e].fate = "kept" => events[e].fate = "kept" /\ e # Value(x)
              /\ \/ events'[e] = events[e]
                 \/ events'[e].direct => events[e].name = x
         /\ strays \subseteq strays' /\ strays' \subseteq Names
         /\ \/ x \in strays'
            \/ Value(x) \in DOMAIN events /\ events[Value(x)].name = x
         /\ blocks' = blocks /\ ~ ended /\ ended' = ended /\ lines' \in 0 .. MaxLines
<1> DEFINE v == Value(x)
<1>1. /\ DOMAIN events = 1..Len(events) /\ Len(events) \in Nat
      /\ \A e \in 1..Len(events) : events[e] \in Event
      /\ events \in Seq(Event)
  BY Places DEF TypeOK
<1>2. v \in EventIds => v \in DOMAIN events
  <2>1. Holder(x) \in 1..Len(blocks)
    BY HolderPlaced DEF Use
  <2>2. v <= Len(events)
    BY <2>1 DEF BoundBuilt, Value
  <2> QED
    BY <1>1, <2>2, BoundsAssumption DEF EventIds
<1>3. /\ blocks' = blocks /\ ~ ended /\ ended' = ended /\ lines' \in 0 .. MaxLines
      /\ strays' = IF v \in EventIds /\ events[v].name = x THEN strays ELSE strays \cup {x}
  <2>1. BoundsAssumption
    BY BoundsAssumption
  <2>2. lines < MaxLines /\ lines' = lines + 1 /\ lines \in Nat /\ MaxLines \in Nat
    BY <2>1 DEF Use, Writes, TypeOK, BoundsAssumption
  <2> QED
    BY <2>2 DEF Use, Writes
<1>4. strays \subseteq strays' /\ strays' \subseteq Names
  BY <1>3 DEF TypeOK
<1>5. x \in strays' \/ (v \in DOMAIN events /\ events[v].name = x)
  BY <1>2, <1>3
<1>6. CASE v \in EventIds /\ events[v].fate = "kept"
  <2> DEFINE d == (x = events[v].name /\ Holder(x) = events[v].home)
             new == [events[v] EXCEPT !.fate = fate, !.direct = d]
  <2>1. events' = [events EXCEPT ![v].fate = fate, ![v].direct = d]
    BY <1>6 DEF Use
  <2>2. d \in BOOLEAN /\ (d => x = events[v].name)
    OBVIOUS
  <2> HIDE DEF d
  <2>3. v \in DOMAIN events /\ events[v] \in Event
    BY <1>1, <1>2, <1>6
  <2> HIDE DEF v
  <2>4. events' = [events EXCEPT ![v] = new]
    BY <2>1, <2>3
  <2>5. /\ new \in Event /\ new.fate = fate /\ new.direct = d
        /\ new.name = events[v].name /\ new.key = events[v].key
    BY <2>2, <2>3 DEF Event
  <2> HIDE DEF new
  <2>6. events' \in Seq(Event) /\ Len(events') = Len(events)
    BY <1>1, <2>3, <2>4, <2>5, ExceptSeq
  <2>7. \A e \in DOMAIN events : events'[e] = IF e = v THEN new ELSE events[e]
    BY <2>3, <2>4
  <2>8. DOMAIN events' = DOMAIN events
    BY <2>4
  <2>9. new.fate # "kept" /\ (new.direct => events[v].name = x)
    BY <2>2, <2>5
  <2> QED
    BY <1>3, <1>4, <1>5, <2>5, <2>6, <2>7, <2>8, <2>9 DEF v
<1>7. CASE ~ (v \in EventIds /\ events[v].fate = "kept")
  <2>1. events' = events
    BY <1>7 DEF Use
  <2>2. \A e \in DOMAIN events : events[e].fate = "kept" => e # v
    BY <1>7, Places
  <2> QED
    BY <1>1, <1>3, <1>4, <1>5, <2>1, <2>2
<1> QED
  BY <1>6, <1>7

\* Why the analysers may have forgotten an event that was never sent.
LintExcused(e) == events[e].name \in strays \/ SharesName(e)
ScannerExcused(e) ==
  \/ events[e].key \in strays
  \/ \E d \in DOMAIN events \ {e} : events[e].key \in {events[d].key, events[d].name}

\* Events only grow in number and strays only gain names, so an excuse for a
\* forgotten event stays one.
LEMMA ExcusesStay ==
  ASSUME \A e \in DOMAIN events :
           /\ e \in DOMAIN events'
           /\ events'[e].name = events[e].name /\ events'[e].key = events[e].key
           /\ events'[e].fate = "kept" => events[e].fate = "kept",
         strays \subseteq strays',
         NEW e \in DOMAIN events
  PROVE  /\ Kept(e)' => Kept(e)
         /\ LintExcused(e) => LintExcused(e)'
         /\ ScannerExcused(e) => ScannerExcused(e)'
BY DEF Kept, SharesName, LintExcused, ScannerExcused

\* An analyser whose stack has scopes has a scope on top.
LEMMA OnTop == \A a \in Analyser : a.scopes # <<>> <=> Len(a.scopes) >= 1
<1> SUFFICES ASSUME NEW a \in Analyser
             PROVE  a.scopes # <<>> <=> Len(a.scopes) >= 1
  OBVIOUS
<1>1. a.scopes \in Seq([Keys -> 0 .. MaxEvents])
  BY DEF Analyser
<1> QED
  BY <1>1, EmptySeq

\* Before the end of the file both analysers have a scope.
LEMMA BothOnTop ==
  ASSUME TypeOK, ~ ended
  PROVE  Len(scanner.scopes) >= 1 /\ Len(lint.scopes) >= 1
BY OnTop DEF TypeOK

\* A binding changes one name in one block.
LEMMA BindEffect ==
  ASSUME TypeOK, NEW i \in 1..Len(blocks), NEW x \in Names,
         NEW v \in {Unbound, Plain} \cup EventIds, Bind(i, x, v)
  PROVE  /\ blocks' \in Seq(Block) /\ Len(blocks') = Len(blocks)
         /\ blocks'[1].function = blocks[1].function /\ Bodies' = Bodies
         /\ \A j \in 1..Len(blocks), y \in Names :
              blocks'[j].bound[y] = IF j = i /\ y = x THEN v ELSE blocks[j].bound[y]
<1>1. /\ Len(blocks) \in Nat \ {0} /\ DOMAIN blocks = 1..Len(blocks)
      /\ \A j \in 1..Len(blocks) : blocks[j] \in Block
      /\ blocks \in Seq(Block)
  BY Places DEF TypeOK
<1> DEFINE new == [blocks[i] EXCEPT !.bound[x] = v]
<1>2. blocks' = [blocks EXCEPT ![i] = new]
  BY <1>1 DEF Bind
<1>3. /\ new \in Block /\ new.function = blocks[i].function
      /\ \A y \in Names : new.bound[y] = IF y = x THEN v ELSE blocks[i].bound[y]
  <2>1. /\ blocks[i] \in Block
        /\ blocks[i].bound \in [Names -> {Unbound, Plain} \cup EventIds]
    BY <1>1 DEF Block
  <2> DEFINE bd == [blocks[i].bound EXCEPT ![x] = v]
  <2>2. new = [blocks[i] EXCEPT !.bound = bd]
    OBVIOUS
  <2>3. bd \in [Names -> {Unbound, Plain} \cup EventIds]
    BY <2>1
  <2>4. \A y \in Names : bd[y] = IF y = x THEN v ELSE blocks[i].bound[y]
    BY <2>1
  <2> HIDE DEF bd, new
  <2> QED
    BY <2>1, <2>2, <2>3, <2>4 DEF Block
<1> HIDE DEF new
<1>4. blocks' \in Seq(Block) /\ Len(blocks') = Len(blocks)
  BY <1>1, <1>2, <1>3, ExceptSeq
<1>5. \A j \in 1..Len(blocks) : blocks'[j] = IF j = i THEN new ELSE blocks[j]
  BY <1>1, <1>2
<1>6. \A j \in 1..Len(blocks) : blocks'[j].function = blocks[j].function
  BY <1>3, <1>5
<1>7. Bodies' = Bodies
  BY <1>4, <1>6 DEF Bodies
<1>8. 1 \in 1..Len(blocks)
  BY <1>1
<1> QED
  BY <1>3, <1>4, <1>5, <1>6, <1>7, <1>8

-----------------------------------------------------------------------------
\* A use of a name keeps the invariant, whichever analysers notice it.
LEMMA UseStep ==
  ASSUME AnalyserInv, NEW x \in Names, NEW fate \in {"sent", "chained", "handed"},
         Use(x, fate),
         scanner' = scanner \/ scanner' = Clear(scanner, x),
         lint' = Clear(lint, x) \/ lint' = Consume(lint, x)
  PROVE  AnalyserInv'
<1>1. /\ events' \in Seq(Event) /\ Len(events') = Len(events) /\ DOMAIN events' = DOMAIN events
      /\ \A e \in DOMAIN events :
           /\ events'[e].name = events[e].name /\ events'[e].key = events[e].key
           /\ events'[e].fate = "kept" => events[e].fate = "kept" /\ e # Value(x)
           /\ \/ events'[e] = events[e]
              \/ events'[e].direct => events[e].name = x
      /\ strays \subseteq strays' /\ strays' \subseteq Names
      /\ \/ x \in strays'
         \/ Value(x) \in DOMAIN events /\ events[Value(x)].name = x
      /\ blocks' = blocks /\ ~ ended /\ ended' = ended /\ lines' \in 0 .. MaxLines
  BY UseEffect DEF AnalyserInv
<1>2. TypeOK /\ Nested /\ BoundBuilt /\ scanner \in Analyser /\ lint \in Analyser
  BY DEF AnalyserInv, TypeOK
<1>3. x \in Keys
  BY DEF Keys
<1>4. Keyed' = Keyed /\ Named' = Named
  BY <1>1 DEF Keyed, Named
<1>5. /\ FiledIn(scanner, Keyed) /\ Once(scanner)
      /\ FiledIn(lint, Named) /\ Once(lint)
  BY DEF AnalyserInv, Filed
<1>6. lint' \in Analyser
  BY <1>2, <1>3, ClearEffect, ConsumeEffect
<1>7. /\ FiledIn(lint', Named) /\ Once(lint') /\ Len(lint'.scopes) = Len(lint.scopes)
      /\ \A e \in DOMAIN Named : e \in Holds(lint) /\ Named[e] # x => e \in Holds(lint')
      /\ Pending(lint') \subseteq Pending(lint)
      /\ \A e \in Pending(lint') : Named[e] = x => \E d \in Pending(lint) : d # e /\ Named[d] = x
  BY <1>2, <1>3, <1>5, <1>6, ClearKeeps
<1>8. scanner' \in Analyser
  BY <1>2, <1>3, ClearEffect
<1>9. /\ FiledIn(scanner', Keyed) /\ Once(scanner') /\ Len(scanner'.scopes) = Len(scanner.scopes)
      /\ \A e \in DOMAIN Keyed : e \in Holds(scanner) /\ Keyed[e] # x => e \in Holds(scanner')
  <2>1. CASE scanner' = scanner
    BY <1>5, <2>1
  <2>2. CASE scanner' = Clear(scanner, x)
    BY <1>2, <1>3, <1>5, <1>8, <2>2, ClearKeeps
  <2> QED
    BY <2>1, <2>2
<1>10. TypeOK'
  <2>1. Len(scanner'.scopes) >= 1 /\ Len(lint'.scopes) >= 1
    BY <1>1, <1>2, <1>7, <1>9, BothOnTop
  <2>2. scanner'.scopes # <<>> /\ lint'.scopes # <<>>
    BY <1>6, <1>8, <2>1, OnTop
  <2> QED
    BY <1>1, <1>2, <1>6, <1>8, <2>2 DEF TypeOK
<1>11. Nested' /\ BoundBuilt' /\ Filed'
  BY <1>1, <1>2, <1>4, <1>7, <1>9 DEF Nested, BoundBuilt, Filed, Bodies
<1>12. ASSUME NEW e \in DOMAIN events, Kept(e)'
       PROVE  Kept(e) /\ (LintExcused(e) => LintExcused(e)')
                      /\ (ScannerExcused(e) => ScannerExcused(e)')
  BY <1>1, <1>12, ExcusesStay
<1>13. LintForgetsNothing'
  <2> SUFFICES ASSUME NEW e \in DOMAIN events, Kept(e)'
               PROVE  e \in Holds(lint') \/ LintExcused(e)'
    BY <1>1 DEF LintForgetsNothing, LintExcused, Holds
  <2>1. e \in Holds(lint) \/ LintExcused(e)
    BY <1>12 DEF AnalyserInv, LintForgetsNothing, LintExcused, Holds
  <2>2. CASE events[e].name = x
    <3>1. e # Value(x) /\ events'[e].name = x
      BY <1>1, <2>2 DEF Kept
    <3>2. CASE x \in strays'
      BY <3>1, <3>2 DEF LintExcused
    <3>3. CASE Value(x) \in DOMAIN events /\ events[Value(x)].name = x
      <4>1. PICK d \in DOMAIN events : d # e /\ events[d].name = x
        BY <3>1, <3>3
      <4>2. d \in DOMAIN events' \ {e} /\ events'[d].name = x
        BY <1>1, <4>1
      <4> QED
        BY <3>1, <4>2 DEF LintExcused, SharesName
    <3> QED
      BY <1>1, <3>2, <3>3
  <2>3. CASE events[e].name # x
    BY <1>7, <1>12, <2>1, <2>3 DEF Named
  <2> QED
    BY <2>2, <2>3
<1>14. ScannerForgetsNothing'
  <2> SUFFICES ASSUME NEW e \in DOMAIN events, Kept(e)'
               PROVE  e \in Holds(scanner') \/ ScannerExcused(e)'
    BY <1>1 DEF ScannerForgetsNothing, ScannerExcused, Holds
  <2>1. e \in Holds(scanner) \/ ScannerExcused(e)
    BY <1>12 DEF AnalyserInv, ScannerForgetsNothing, ScannerExcused, Holds
  <2>2. CASE events[e].key = x
    <3>1. e # Value(x) /\ events'[e].key = x
      BY <1>1, <2>2 DEF Kept
    <3>2. CASE x \in strays'
      BY <3>1, <3>2 DEF ScannerExcused
    <3>3. CASE Value(x) \in DOMAIN events /\ events[Value(x)].name = x
      <4>1. PICK d \in DOMAIN events : d # e /\ events[d].name = x
        BY <3>1, <3>3
      <4>2. d \in DOMAIN events' \ {e} /\ events'[d].name = x
        BY <1>1, <4>1
      <4> QED
        BY <3>1, <4>2 DEF ScannerExcused
    <3> QED
      BY <1>1, <3>2, <3>3
  <2>3. CASE events[e].key # x
    BY <1>9, <1>12, <2>1, <2>3 DEF Keyed
  <2> QED
    BY <2>2, <2>3
<1>15. LintPendingRight'
  <2> SUFFICES ASSUME NEW e \in Pending(lint')
               PROVE  LintRight(e)'
    BY DEF LintPendingRight
  <2>1. e \in Pending(lint) /\ LintRight(e)
    BY <1>7 DEF AnalyserInv, LintPendingRight
  <2>0. DOMAIN Named = DOMAIN events
    BY DEF Named
  <2>2. e \in DOMAIN events
    BY <1>2, <1>5, <2>0, <2>1, PendingFiled
  <2>3. SharesName(e) => SharesName(e)'
    BY <1>1, <2>2 DEF SharesName
  <2>4. CASE events'[e] = events[e]
    BY <2>1, <2>3, <2>4 DEF LintRight, Kept
  <2>5. CASE events'[e].direct => events[e].name = x
    <3>1. CASE events[e].name # x
      BY <2>5, <3>1 DEF LintRight
    <3>2. CASE events[e].name = x
      <4>1. PICK d \in Pending(lint) : d # e /\ Named[d] = x
        BY <1>7, <2>2, <3>2 DEF Named
      <4>2. d \in DOMAIN events
        BY <1>2, <1>5, <2>0, PendingFiled
      <4>3. SharesName(e)
        BY <2>2, <3>2, <4>1, <4>2 DEF SharesName, Named
      <4> QED
        BY <2>3, <4>3 DEF LintRight
    <3> QED
      BY <3>1, <3>2
  <2> QED
    BY <1>1, <2>2, <2>4, <2>5
<1> QED
  BY <1>10, <1>11, <1>13, <1>14, <1>15 DEF AnalyserInv

\* A step that leaves the events and what the program used alone keeps what
\* is remembered of them, if the analysers do.
LEMMA QuietStep ==
  ASSUME AnalyserInv, UNCHANGED <<events, strays>>,
         FiledIn(scanner', Keyed), Once(scanner'), Holds(scanner) \subseteq Holds(scanner'),
         FiledIn(lint', Named), Once(lint'), Holds(lint) \subseteq Holds(lint'),
         Pending(lint') \subseteq Pending(lint)
  PROVE  Filed' /\ LintForgetsNothing' /\ ScannerForgetsNothing' /\ LintPendingRight'
<1>1. Keyed' = Keyed /\ Named' = Named
  BY DEF Keyed, Named
<1>2. Filed'
  BY <1>1 DEF Filed
<1>3. LintForgetsNothing'
  BY DEF AnalyserInv, LintForgetsNothing, Holds, Kept, SharesName
<1>4. ScannerForgetsNothing'
  BY DEF AnalyserInv, ScannerForgetsNothing, Holds, Kept
<1>5. LintPendingRight'
  BY DEF AnalyserInv, LintPendingRight, LintRight, Kept, SharesName
<1> QED
  BY <1>2, <1>3, <1>4, <1>5

\* The bodies of functions can be counted.
LEMMA BodiesFinite ==
  ASSUME TypeOK
  PROVE  Bodies \subseteq 1..Len(blocks) /\ IsFiniteSet(Bodies) /\ Cardinality(Bodies) \in Nat
<1>1. Bodies \subseteq 1..Len(blocks) /\ Len(blocks) \in Nat
  BY Places DEF Bodies
<1>2. IsFiniteSet(1..Len(blocks))
  BY <1>1, FS_Interval
<1>3. IsFiniteSet(Bodies)
  BY <1>1, <1>2, FS_Subset
<1> QED
  BY <1>1, <1>3, FS_CardinalityType

\* A brace opens.
LEMMA OpenStep ==
  ASSUME AnalyserInv, NEW isFunction \in BOOLEAN, Open(isFunction)
  PROVE  AnalyserInv'
<1> DEFINE new == [function |-> isFunction, bound |-> [x \in Names |-> Unbound]]
           n == Len(blocks)
<1>1. /\ TypeOK /\ Nested /\ BoundBuilt /\ scanner \in Analyser /\ lint \in Analyser
      /\ FiledIn(scanner, Keyed) /\ Once(scanner)
      /\ FiledIn(lint, Named) /\ Once(lint)
  BY DEF AnalyserInv, TypeOK, Filed
<1>2. /\ ~ ended /\ ended' = ended /\ n < MaxDepth /\ blocks' = Append(blocks, new)
      /\ scanner' = Enter(scanner) /\ lint' = (IF isFunction THEN Enter(lint) ELSE lint)
      /\ UNCHANGED <<events, strays>> /\ lines < MaxLines /\ lines' = lines + 1
  BY DEF Open, Writes
<1>3. n \in Nat /\ n >= 1 /\ blocks \in Seq(Block) /\ MaxDepth \in Nat /\ MaxLines \in Nat
  BY <1>1, Places, BoundsAssumption DEF TypeOK
<1>4. new \in Block /\ new.function = isFunction /\ \A x \in Names : new.bound[x] = Unbound
  BY DEF Block
<1> HIDE DEF new
<1>5. /\ blocks' \in Seq(Block) /\ Len(blocks') = n + 1
      /\ \A i \in 1..n : blocks'[i] = blocks[i]
      /\ blocks'[n + 1] = new
  BY <1>2, <1>3, <1>4, AppendProperties
<1>6. \A i \in 1..Len(blocks') : i \in 1..n \/ i = n + 1
  BY <1>3, <1>5
<1>7. /\ FiledIn(scanner', Keyed) /\ Once(scanner') /\ Holds(scanner) \subseteq Holds(scanner')
      /\ scanner' \in Analyser /\ Len(scanner'.scopes) = Len(scanner.scopes) + 1
      /\ Len(scanner.scopes) \in Nat
  BY <1>1, <1>2, EnterKeeps, EnterEffect
<1>8. /\ FiledIn(lint', Named) /\ Once(lint') /\ Holds(lint) \subseteq Holds(lint')
      /\ Pending(lint') \subseteq Pending(lint) /\ lint' \in Analyser
      /\ Len(lint'.scopes) = (IF isFunction THEN Len(lint.scopes) + 1 ELSE Len(lint.scopes))
      /\ Len(lint.scopes) \in Nat
  BY <1>1, <1>2, EnterKeeps, EnterEffect
<1>9. TypeOK'
  <2>1. Len(scanner'.scopes) >= 1 /\ Len(lint'.scopes) >= 1
    BY <1>1, <1>2, <1>7, <1>8, BothOnTop
  <2>2. scanner'.scopes # <<>> /\ lint'.scopes # <<>>
    BY <1>7, <1>8, <2>1, OnTop
  <2>3. lines' \in 0 .. MaxLines /\ Len(blocks') \in 1 .. MaxDepth
    BY <1>1, <1>2, <1>3, <1>5 DEF TypeOK
  <2> QED
    BY <1>1, <1>2, <1>5, <1>7, <1>8, <2>2, <2>3 DEF TypeOK
<1>10. BoundBuilt'
  <2>1. Unbound <= Len(events)
    BY <1>1, Places DEF Unbound
  <2> QED
    BY <1>1, <1>2, <1>4, <1>5, <1>6, <2>1 DEF BoundBuilt
<1>11. Nested'
  <2>1. blocks'[1].function /\ Len(scanner'.scopes) = Len(blocks')
    BY <1>1, <1>2, <1>3, <1>5, <1>7 DEF Nested
  <2>2. Bodies' = IF isFunction THEN Bodies \cup {n + 1} ELSE Bodies
    BY <1>3, <1>4, <1>5, <1>6 DEF Bodies
  <2>3. n + 1 \notin Bodies /\ IsFiniteSet(Bodies)
    BY <1>1, <1>3, BodiesFinite
  <2>4. Cardinality(Bodies') = IF isFunction THEN Cardinality(Bodies) + 1 ELSE Cardinality(Bodies)
    BY <2>2, <2>3, FS_AddElement
  <2> QED
    BY <1>1, <1>2, <1>8, <2>1, <2>4 DEF Nested
<1>12. Filed' /\ LintForgetsNothing' /\ ScannerForgetsNothing' /\ LintPendingRight'
  BY <1>2, <1>7, <1>8, QuietStep
<1> QED
  BY <1>9, <1>10, <1>11, <1>12 DEF AnalyserInv

\* A brace closes.
LEMMA CloseStep ==
  ASSUME AnalyserInv, Close
  PROVE  AnalyserInv' /\ lint'.found \ lint.found \subseteq Pending(lint)
<1> DEFINE n == Len(blocks)
           body == blocks[n].function
<1>1. /\ TypeOK /\ Nested /\ BoundBuilt /\ scanner \in Analyser /\ lint \in Analyser
      /\ FiledIn(scanner, Keyed) /\ Once(scanner)
      /\ FiledIn(lint, Named) /\ Once(lint)
  BY DEF AnalyserInv, TypeOK, Filed
<1>2. /\ ~ ended /\ ended' = ended /\ n > 1 /\ blocks' = SubSeq(blocks, 1, n - 1)
      /\ scanner' = Leave(scanner) /\ lint' = (IF body THEN Leave(lint) ELSE lint)
      /\ UNCHANGED <<events, strays>> /\ lines < MaxLines /\ lines' = lines + 1
  BY DEF Close, Writes, Innermost
<1>3. n \in Nat /\ blocks \in Seq(Block) /\ MaxDepth \in Nat /\ MaxLines \in Nat
  BY <1>1, Places, BoundsAssumption DEF TypeOK
<1>4. Len(scanner.scopes) >= 1 /\ Len(lint.scopes) >= 1
  BY <1>1, <1>2, BothOnTop
<1>5. /\ blocks' \in Seq(Block) /\ Len(blocks') = n - 1
      /\ \A i \in 1..(n - 1) : blocks'[i] = blocks[i]
  <2>1. \A i \in 1..(n - 1) : blocks[i] \in Block
    BY <1>1, Places
  <2>2. 1 \in Int /\ n - 1 \in Int
    BY <1>3
  <2> HIDE DEF n
  <2> QED
    BY <1>2, <1>3, <2>1, <2>2, SubSeqProperties
<1>6. /\ FiledIn(scanner', Keyed) /\ Once(scanner') /\ Holds(scanner) \subseteq Holds(scanner')
      /\ scanner' \in Analyser /\ Len(scanner'.scopes) = Len(scanner.scopes) - 1
  BY <1>1, <1>2, <1>4, LeaveKeeps, LeaveEffect
<1>7. /\ FiledIn(lint', Named) /\ Once(lint') /\ Holds(lint) \subseteq Holds(lint')
      /\ Pending(lint') \subseteq Pending(lint) /\ lint' \in Analyser
      /\ Len(lint'.scopes) = (IF body THEN Len(lint.scopes) - 1 ELSE Len(lint.scopes))
      /\ lint'.found \ lint.found \subseteq Pending(lint)
  <2>1. CASE body
    BY <1>1, <1>2, <1>4, <2>1, LeaveKeeps, LeaveEffect
  <2>2. CASE ~ body
    BY <1>1, <1>2, <2>2
  <2> QED
    BY <2>1, <2>2
<1>8. Bodies' = IF body THEN Bodies \ {n} ELSE Bodies
  <2>1. \A i \in 1..n : i \in 1..(n - 1) \/ i = n
    BY <1>3
  <2>2. Bodies' = Bodies \ {n}
    BY <1>2, <1>3, <1>5, <2>1 DEF Bodies
  <2>3. ~ body => n \notin Bodies
    BY DEF Bodies
  <2> QED
    BY <2>2, <2>3
<1>9. n \in Bodies <=> body
  BY <1>2, <1>3 DEF Bodies
<1>10. Cardinality(Bodies') = IF body THEN Cardinality(Bodies) - 1 ELSE Cardinality(Bodies)
  BY <1>1, <1>8, <1>9, BodiesFinite, FS_RemoveElement
<1>11. Nested'
  <2>1. blocks'[1].function
    BY <1>1, <1>2, <1>3, <1>5 DEF Nested
  <2> HIDE DEF body
  <2> QED
    BY <1>1, <1>2, <1>5, <1>6, <1>7, <1>10, <2>1 DEF Nested
<1>12. Cardinality(Bodies') >= 1
  <2>1. 1 \in Bodies'
    BY <1>1, <1>2, <1>3, <1>5 DEF Bodies, Nested
  <2>2. IsFiniteSet(Bodies')
    BY <1>1, <1>8, BodiesFinite, FS_RemoveElement
  <2>3. Cardinality(Bodies') \in Nat /\ Cardinality(Bodies') # 0
    BY <2>1, <2>2, FS_CardinalityType, FS_EmptySet
  <2> QED
    BY <2>3
<1>13. TypeOK'
  <2>1. Len(scanner'.scopes) >= 1 /\ Len(lint'.scopes) >= 1
    BY <1>1, <1>2, <1>3, <1>5, <1>11, <1>12 DEF Nested
  <2>2. scanner'.scopes # <<>> /\ lint'.scopes # <<>>
    BY <1>6, <1>7, <2>1, OnTop
  <2>3. lines' \in 0 .. MaxLines /\ Len(blocks') \in 1 .. MaxDepth
    BY <1>1, <1>2, <1>3, <1>5 DEF TypeOK
  <2> QED
    BY <1>1, <1>2, <1>5, <1>6, <1>7, <2>2, <2>3 DEF TypeOK
<1>14. BoundBuilt'
  <2>1. \A i \in 1..Len(blocks') : i \in 1..n /\ blocks'[i] = blocks[i]
    BY <1>3, <1>5
  <2> QED
    BY <1>1, <1>2, <2>1 DEF BoundBuilt
<1>15. Filed' /\ LintForgetsNothing' /\ ScannerForgetsNothing' /\ LintPendingRight'
  BY <1>2, <1>6, <1>7, QuietStep
<1> QED
  BY <1>7, <1>11, <1>13, <1>14, <1>15 DEF AnalyserInv

\* An event is built and assigned.
LEMMA BuildStep ==
  ASSUME AnalyserInv, NEW x \in Names, NEW isNew \in BOOLEAN, NEW annotated \in BOOLEAN,
         Build(x, isNew, annotated)
  PROVE  AnalyserInv' /\ lint'.found = lint.found
<1> DEFINE e == Len(events) + 1
           key == Assigned(x, annotated)
           home == IF isNew THEN Innermost ELSE Holder(x)
           new == [name |-> x, home |-> home, key |-> key, direct |-> FALSE, fate |-> "kept"]
<1>1. /\ TypeOK /\ Nested /\ BoundBuilt /\ scanner \in Analyser /\ lint \in Analyser
      /\ FiledIn(scanner, Keyed) /\ Once(scanner)
      /\ FiledIn(lint, Named) /\ Once(lint)
  BY DEF AnalyserInv, TypeOK, Filed
<1>2. /\ ~ ended /\ ended' = ended /\ e \in EventIds /\ (~ isNew => Visible(x))
      /\ Bind(home, x, e) /\ events' = Append(events, new)
      /\ scanner' = Mark(scanner, key, e) /\ lint' = Mark(lint, x, e)
      /\ strays' = strays /\ lines < MaxLines /\ lines' = lines + 1
  BY DEF Build, Writes
<1>3. /\ Len(blocks) \in Nat \ {0} /\ Len(blocks) <= MaxDepth /\ MaxDepth \in Nat /\ MaxLines \in Nat
      /\ Len(events) \in Nat /\ DOMAIN events = 1..Len(events) /\ events \in Seq(Event)
      /\ MaxEvents \in Nat
  BY <1>1, Places, BoundsAssumption DEF TypeOK
<1>4. home \in 1..Len(blocks)
  <2>1. Innermost \in 1..Len(blocks)
    BY <1>3 DEF Innermost
  <2> QED
    BY <1>1, <1>2, <2>1, HolderPlaced
<1>5. key \in Keys /\ x \in Keys
  BY NamesAssumption DEF Assigned, Keys, Names
<1>6. new \in Event /\ new.name = x /\ new.key = key /\ new.fate = "kept"
  <2>1. home \in 1 .. MaxDepth
    BY <1>3, <1>4
  <2> HIDE DEF home, key
  <2> QED
    BY <1>5, <2>1 DEF Event
<1>7. /\ blocks' \in Seq(Block) /\ Len(blocks') = Len(blocks)
      /\ blocks'[1].function = blocks[1].function /\ Bodies' = Bodies
      /\ \A j \in 1..Len(blocks), y \in Names :
           blocks'[j].bound[y] = IF j = home /\ y = x THEN e ELSE blocks[j].bound[y]
  BY <1>1, <1>2, <1>4, BindEffect
<1> HIDE DEF new, home
<1>8. /\ events' \in Seq(Event) /\ Len(events') = e /\ DOMAIN events' = 1..e
      /\ \A d \in DOMAIN events : events'[d] = events[d] /\ d \in DOMAIN events' /\ d # e
      /\ events'[e] = new /\ e \in DOMAIN events'
  BY <1>2, <1>3, <1>6, AppendProperties, LenProperties
<1>9. /\ e \notin DOMAIN Keyed /\ e \in DOMAIN Keyed' /\ Keyed'[e] = key
      /\ \A d \in DOMAIN Keyed : d \in DOMAIN Keyed' /\ Keyed'[d] = Keyed[d]
      /\ e \notin DOMAIN Named /\ e \in DOMAIN Named' /\ Named'[e] = x
      /\ \A d \in DOMAIN Named : d \in DOMAIN Named' /\ Named'[d] = Named[d]
  BY <1>3, <1>6, <1>8 DEF Keyed, Named
<1>10. Len(scanner.scopes) >= 1 /\ Len(lint.scopes) >= 1
  BY <1>1, <1>2, BothOnTop
<1> HIDE DEF key, e
<1>11. /\ FiledIn(scanner', Keyed') /\ Once(scanner') /\ e \in Holds(scanner')
       /\ \A d \in DOMAIN Keyed : d \in Holds(scanner) /\ Keyed[d] # key => d \in Holds(scanner')
  BY <1>1, <1>2, <1>5, <1>9, <1>10, MarkKeeps
<1>12. /\ FiledIn(lint', Named') /\ Once(lint') /\ e \in Holds(lint')
       /\ \A d \in DOMAIN Named : d \in Holds(lint) /\ Named[d] # x => d \in Holds(lint')
       /\ Pending(lint') \subseteq Pending(lint) \cup {e}
  BY <1>1, <1>2, <1>5, <1>9, <1>10, MarkKeeps
<1>13. /\ scanner' \in Analyser /\ Len(scanner'.scopes) = Len(scanner.scopes)
       /\ lint' \in Analyser /\ Len(lint'.scopes) = Len(lint.scopes) /\ lint'.found = lint.found
  BY <1>1, <1>2, <1>5, <1>10, MarkEffect
<1>14. TypeOK'
  <2>1. scanner'.scopes # <<>> /\ lint'.scopes # <<>>
    BY <1>10, <1>13, OnTop
  <2>2. lines' \in 0 .. MaxLines /\ Len(blocks') \in 1 .. MaxDepth /\ Len(events') <= MaxEvents
    BY <1>1, <1>2, <1>3, <1>7, <1>8 DEF TypeOK, EventIds
  <2> QED
    BY <1>1, <1>2, <1>7, <1>8, <1>13, <2>1, <2>2 DEF TypeOK
<1>15. Nested'
  BY <1>1, <1>2, <1>7, <1>13 DEF Nested
<1>16. BoundBuilt'
  <2>1. \A j \in 1..Len(blocks), y \in Names : blocks[j].bound[y] <= Len(events)
    BY <1>1 DEF BoundBuilt
  <2>2. \A j \in 1..Len(blocks), y \in Names :
          blocks[j].bound[y] \in {Unbound, Plain} \cup EventIds
    BY <1>1, Places DEF Block
  <2>3. \A j \in 1..Len(blocks), y \in Names : blocks'[j].bound[y] <= e
    <3> SUFFICES ASSUME NEW j \in 1..Len(blocks), NEW y \in Names
                 PROVE  blocks'[j].bound[y] <= e
      OBVIOUS
    <3>1. CASE j = home /\ y = x
      BY <1>2, <1>7, <3>1 DEF EventIds
    <3>2. CASE ~ (j = home /\ y = x)
      <4>1. blocks'[j].bound[y] = blocks[j].bound[y]
        BY <1>7, <3>2
      <4>2. blocks[j].bound[y] <= Len(events) /\ blocks[j].bound[y] \in Int
        BY <1>3, <2>1, <2>2 DEF EventIds, Unbound, Plain
      <4> QED
        BY <1>3, <4>1, <4>2 DEF e
    <3> QED
      BY <3>1, <3>2
  <2> QED
    BY <1>7, <1>8, <2>3 DEF BoundBuilt
<1>17. Filed'
  BY <1>11, <1>12 DEF Filed
<1>18. ASSUME NEW d \in DOMAIN events
       PROVE  /\ Kept(d)' => Kept(d)
              /\ LintExcused(d) => LintExcused(d)'
              /\ ScannerExcused(d) => ScannerExcused(d)'
  <2>1. \A c \in DOMAIN events :
          /\ c \in DOMAIN events'
          /\ events'[c].name = events[c].name /\ events'[c].key = events[c].key
          /\ events'[c].fate = "kept" => events[c].fate = "kept"
    BY <1>8
  <2> QED
    BY <1>2, <2>1, ExcusesStay
<1>19. \A d \in DOMAIN events' : d = e \/ d \in DOMAIN events
  BY <1>3, <1>8 DEF e
<1>20. LintForgetsNothing'
  <2> SUFFICES ASSUME NEW d \in DOMAIN events, Kept(d)'
               PROVE  d \in Holds(lint') \/ LintExcused(d)'
    BY <1>12, <1>19 DEF LintForgetsNothing, LintExcused, Holds
  <2>1. d \in Holds(lint) \/ LintExcused(d)
    BY <1>18 DEF AnalyserInv, LintForgetsNothing, LintExcused, Holds
  <2>2. CASE events[d].name = x
    BY <1>6, <1>8, <2>2 DEF LintExcused, SharesName
  <2>3. CASE events[d].name # x
    BY <1>12, <1>18, <2>1, <2>3 DEF Named
  <2> QED
    BY <2>2, <2>3
<1>21. ScannerForgetsNothing'
  <2> SUFFICES ASSUME NEW d \in DOMAIN events, Kept(d)'
               PROVE  d \in Holds(scanner') \/ ScannerExcused(d)'
    BY <1>11, <1>19 DEF ScannerForgetsNothing, ScannerExcused, Holds
  <2>1. d \in Holds(scanner) \/ ScannerExcused(d)
    BY <1>18 DEF AnalyserInv, ScannerForgetsNothing, ScannerExcused, Holds
  <2>2. CASE events[d].key = key
    BY <1>6, <1>8, <2>2 DEF ScannerExcused
  <2>3. CASE events[d].key # key
    BY <1>11, <1>18, <2>1, <2>3 DEF Keyed
  <2> QED
    BY <2>2, <2>3
<1>22. LintPendingRight'
  <2> SUFFICES ASSUME NEW d \in Pending(lint')
               PROVE  LintRight(d)'
    BY DEF LintPendingRight
  <2>1. CASE d = e
    BY <1>6, <1>8, <2>1 DEF LintRight, Kept
  <2>2. CASE d \in Pending(lint)
    <3>1. DOMAIN Named = DOMAIN events
      BY DEF Named
    <3>2. d \in DOMAIN events
      BY <1>1, <2>2, <3>1, PendingFiled
    <3>3. LintRight(d)
      BY <2>2 DEF AnalyserInv, LintPendingRight
    <3>4. SharesName(d) => SharesName(d)'
      BY <1>8, <3>2 DEF SharesName
    <3> QED
      BY <1>8, <3>2, <3>3, <3>4 DEF LintRight, Kept
  <2> QED
    BY <1>12, <2>1, <2>2
<1> QED
  BY <1>13, <1>14, <1>15, <1>16, <1>17, <1>20, <1>21, <1>22 DEF AnalyserInv

\* A variable is given another value, which may be an event that has a name.
LEMMA RenameStep ==
  ASSUME AnalyserInv, NEW x \in Locals, NEW v \in {Plain} \cup EventIds, Rename(x, v)
  PROVE  AnalyserInv'
<1>1. /\ TypeOK /\ Nested /\ BoundBuilt /\ Filed
  BY DEF AnalyserInv
<1>2. /\ ~ ended /\ ended' = ended /\ Bind(Innermost, x, v)
      /\ v = Plain \/ \E y \in Names : Visible(y) /\ Value(y) = v
      /\ UNCHANGED <<events, strays, scanner, lint>> /\ lines < MaxLines /\ lines' = lines + 1
  BY DEF Rename, Writes
<1>3. /\ Len(blocks) \in Nat \ {0} /\ Len(events) \in Nat /\ MaxLines \in Nat /\ x \in Names
      /\ Innermost \in 1..Len(blocks)
  BY <1>1, Places, BoundsAssumption DEF Innermost, Names
<1>4. /\ blocks' \in Seq(Block) /\ Len(blocks') = Len(blocks)
      /\ blocks'[1].function = blocks[1].function /\ Bodies' = Bodies
      /\ \A j \in 1..Len(blocks), y \in Names :
           blocks'[j].bound[y] = IF j = Innermost /\ y = x THEN v ELSE blocks[j].bound[y]
  BY <1>1, <1>2, <1>3, BindEffect
<1>5. v <= Len(events)
  <2>1. CASE v = Plain
    BY <1>3, <2>1 DEF Plain
  <2>2. ASSUME NEW y \in Names, Visible(y), Value(y) = v
        PROVE  v <= Len(events)
    BY <1>1, <2>2, HolderPlaced DEF BoundBuilt, Value
  <2> QED
    BY <1>2, <2>1, <2>2
<1>6. TypeOK'
  <2>1. lines' \in 0 .. MaxLines
    BY <1>1, <1>2, <1>3 DEF TypeOK
  <2> QED
    BY <1>1, <1>2, <1>4, <2>1 DEF TypeOK
<1>7. Nested' /\ BoundBuilt'
  <2>1. Nested'
    BY <1>1, <1>2, <1>4 DEF Nested
  <2>2. BoundBuilt'
    BY <1>1, <1>2, <1>4, <1>5 DEF BoundBuilt
  <2> QED
    BY <2>1, <2>2
<1>8. Keyed' = Keyed /\ Named' = Named
  BY <1>2 DEF Keyed, Named
<1>9. Filed' /\ LintForgetsNothing' /\ ScannerForgetsNothing' /\ LintPendingRight'
  BY <1>1, <1>2, QuietStep DEF Filed
<1> QED
  BY <1>6, <1>7, <1>9 DEF AnalyserInv

\* The file ends.
LEMMA EndStep ==
  ASSUME AnalyserInv, EndOfFile
  PROVE  AnalyserInv' /\ lint'.found \ lint.found \subseteq Pending(lint)
<1>1. /\ TypeOK /\ Nested /\ BoundBuilt /\ scanner \in Analyser /\ lint \in Analyser
      /\ FiledIn(scanner, Keyed) /\ Once(scanner)
      /\ FiledIn(lint, Named) /\ Once(lint)
  BY DEF AnalyserInv, TypeOK, Filed
<1>2. /\ ~ ended /\ ended' = TRUE /\ Len(blocks) = 1
      /\ scanner' = Leave(scanner) /\ lint' = Leave(lint)
      /\ UNCHANGED <<blocks, events, lines, strays>>
  BY DEF EndOfFile
<1>3. Len(scanner.scopes) >= 1 /\ Len(lint.scopes) >= 1
  BY <1>1, <1>2, BothOnTop
<1>4. Len(scanner.scopes) = 1 /\ Len(lint.scopes) = 1
  <2>1. Bodies = {1}
    BY <1>1, <1>2 DEF Bodies, Nested
  <2>2. Cardinality(Bodies) = 1
    BY <2>1, FS_Singleton
  <2> QED
    BY <1>1, <1>2, <2>2 DEF Nested
<1>5. /\ FiledIn(scanner', Keyed) /\ Once(scanner') /\ Holds(scanner) \subseteq Holds(scanner')
      /\ scanner' \in Analyser /\ Len(scanner'.scopes) = 0
      /\ FiledIn(lint', Named) /\ Once(lint') /\ Holds(lint) \subseteq Holds(lint')
      /\ Pending(lint') \subseteq Pending(lint) /\ lint' \in Analyser /\ Len(lint'.scopes) = 0
      /\ lint'.found \ lint.found \subseteq Pending(lint)
  <2> DEFINE s == Leave(scanner)
             l == Leave(lint)
  <2>1. /\ FiledIn(s, Keyed) /\ Once(s) /\ Holds(scanner) \subseteq Holds(s)
        /\ s \in Analyser /\ Len(s.scopes) = 0
    <3>1. FiledIn(s, Keyed) /\ Once(s) /\ Holds(scanner) \subseteq Holds(s)
      BY <1>1, <1>3, LeaveKeeps
    <3>2. s \in Analyser /\ Len(s.scopes) = Len(scanner.scopes) - 1
      BY <1>1, <1>3, LeaveEffect
    <3> QED
      BY <3>1, <3>2, <1>4
  <2>2. /\ FiledIn(l, Named) /\ Once(l) /\ Holds(lint) \subseteq Holds(l)
        /\ Pending(l) \subseteq Pending(lint) /\ l \in Analyser /\ Len(l.scopes) = 0
        /\ l.found \ lint.found \subseteq Pending(lint)
    <3>1. /\ FiledIn(l, Named) /\ Once(l) /\ Holds(lint) \subseteq Holds(l)
          /\ Pending(l) \subseteq Pending(lint) /\ l.found \ lint.found \subseteq Pending(lint)
      BY <1>1, <1>3, LeaveKeeps
    <3>2. l \in Analyser /\ Len(l.scopes) = Len(lint.scopes) - 1
      BY <1>1, <1>3, LeaveEffect
    <3> QED
      BY <3>1, <3>2, <1>4
  <2>3. scanner' = s /\ lint' = l
    BY <1>2
  <2> HIDE DEF s, l
  <2>4. /\ FiledIn(scanner', Keyed) /\ Once(scanner') /\ Holds(scanner) \subseteq Holds(scanner')
        /\ scanner' \in Analyser /\ Len(scanner'.scopes) = 0
    BY <2>1, <2>3
  <2>5. /\ FiledIn(lint', Named) /\ Once(lint') /\ Holds(lint) \subseteq Holds(lint')
        /\ Pending(lint') \subseteq Pending(lint) /\ lint' \in Analyser /\ Len(lint'.scopes) = 0
        /\ lint'.found \ lint.found \subseteq Pending(lint)
    BY <2>2, <2>3
  <2> QED
    BY <2>4, <2>5
<1>6. TypeOK'
  <2>1. scanner'.scopes = <<>> /\ lint'.scopes = <<>>
    BY <1>5, OnTop
  <2> QED
    BY <1>1, <1>2, <1>5, <2>1 DEF TypeOK
<1>7. Nested' /\ BoundBuilt'
  BY <1>1, <1>2 DEF Nested, BoundBuilt
<1>8. Filed' /\ LintForgetsNothing' /\ ScannerForgetsNothing' /\ LintPendingRight'
  BY <1>2, <1>5, QuietStep
<1> QED
  BY <1>5, <1>6, <1>7, <1>8 DEF AnalyserInv

-----------------------------------------------------------------------------
\* What a step does to the invariant, and what ESLint may report in it.
LEMMA AnalyserStep ==
  ASSUME AnalyserInv, [Next]_vars
  PROVE  AnalyserInv' /\ lint'.found \ lint.found \subseteq Pending(lint)
<1>1. ASSUME NEW isFunction \in BOOLEAN, Open(isFunction)
      PROVE  AnalyserInv' /\ lint'.found = lint.found
  <2>1. lint \in Analyser
    BY DEF AnalyserInv, TypeOK
  <2> QED
    BY <1>1, <2>1, OpenStep, EnterEffect DEF Open
<1>2. ASSUME NEW x \in Names, NEW fate \in {"sent", "chained", "handed"}, Use(x, fate),
             scanner' = scanner \/ scanner' = Clear(scanner, x),
             lint' = Clear(lint, x) \/ lint' = Consume(lint, x)
      PROVE  AnalyserInv' /\ lint'.found = lint.found
  <2>1. lint \in Analyser /\ x \in Keys
    BY DEF AnalyserInv, TypeOK, Keys
  <2> QED
    BY <1>2, <2>1, UseStep, ClearEffect, ConsumeEffect
<1>3. ASSUME NEW x \in Names, Send(x) \/ SendThroughChain(x)
      PROVE  AnalyserInv' /\ lint'.found = lint.found
  BY <1>2, <1>3 DEF Send, SendThroughChain
<1>4. ASSUME NEW x \in Names, NEW returned \in BOOLEAN, HandOver(x, returned)
      PROVE  AnalyserInv' /\ lint'.found = lint.found
  BY <1>2, <1>4 DEF HandOver
<1>5. ASSUME NEW x \in Locals, NEW v \in {Plain} \cup EventIds, Rename(x, v)
      PROVE  AnalyserInv' /\ lint'.found = lint.found
  BY <1>5, RenameStep DEF Rename
<1>6. CASE UNCHANGED vars
  <2>1. Keyed' = Keyed /\ Named' = Named /\ Bodies' = Bodies
    BY <1>6 DEF vars, Keyed, Named, Bodies
  <2>2. TypeOK' /\ Nested' /\ BoundBuilt' /\ Filed'
    BY <1>6, <2>1 DEF vars, AnalyserInv, TypeOK, Nested, BoundBuilt, Filed
  <2>3. LintForgetsNothing' /\ ScannerForgetsNothing' /\ LintPendingRight'
    BY <1>6 DEF vars, AnalyserInv, LintForgetsNothing, ScannerForgetsNothing,
                LintPendingRight, LintRight, Kept, SharesName
  <2> QED
    BY <1>6, <2>2, <2>3 DEF vars, AnalyserInv
<1> QED
  BY <1>1, <1>3, <1>4, <1>5, <1>6, CloseStep, BuildStep, EndStep DEF Next

\* The invariant of every program.
LEMMA AnalyserInvariant == Spec => []AnalyserInv
<1>1. Init => AnalyserInv
  <2> SUFFICES ASSUME Init
               PROVE  AnalyserInv
    OBVIOUS
  <2> DEFINE file == [function |-> TRUE,
                      bound |-> [x \in Names |-> IF x \in Fields THEN Plain ELSE Unbound]]
  <2>1. /\ blocks = <<file>> /\ events = <<>> /\ lines = 0 /\ ended = FALSE /\ strays = {}
        /\ scanner = [scopes |-> <<NothingPending>>, found |-> {}] /\ lint = scanner
    BY DEF Init
  <2>2. file \in Block /\ file.function = TRUE
        /\ \A x \in Names : file.bound[x] \in {Unbound, Plain}
    BY DEF Block
  <2> HIDE DEF file
  <2>3. blocks \in Seq(Block) /\ Len(blocks) = 1 /\ blocks[1] = file
    BY <2>1, <2>2
  <2>4. events \in Seq(Event) /\ Len(events) = 0 /\ DOMAIN events = {}
    BY <2>1, EmptySeq
  <2>5. NothingPending \in [Keys -> 0 .. MaxEvents] /\ \A k \in Keys : NothingPending[k] = 0
    BY BoundsAssumption DEF NothingPending
  <2> HIDE DEF NothingPending
  <2>6. /\ scanner.scopes = <<NothingPending>> /\ scanner.found = {}
        /\ scanner.scopes \in Seq([Keys -> 0 .. MaxEvents])
        /\ Len(scanner.scopes) = 1 /\ scanner.scopes[1] = NothingPending
        /\ scanner.scopes # <<>>
    BY <2>1, <2>5
  <2>7. scanner \in Analyser
    BY <2>1, <2>6 DEF Analyser
  <2>8. TypeOK
    <3>1. /\ Len(blocks) \in 1 .. MaxDepth /\ Len(events) <= MaxEvents
          /\ lines \in 0 .. MaxLines
      BY <2>1, <2>3, <2>4, BoundsAssumption
    <3>2. ended \in BOOLEAN /\ strays \subseteq Names
      BY <2>1
    <3>3. \A a \in {scanner, lint} : a \in Analyser /\ (~ ended <=> a.scopes # <<>>)
      BY <2>1, <2>6, <2>7
    <3> QED
      BY <2>3, <2>4, <3>1, <3>2, <3>3 DEF TypeOK
  <2>9. Nested
    <3>1. Bodies = {1}
      BY <2>2, <2>3 DEF Bodies
    <3>2. Cardinality(Bodies) = 1
      BY <3>1, FS_Singleton
    <3> QED
      BY <2>1, <2>2, <2>3, <2>6, <3>2 DEF Nested
  <2>10. BoundBuilt
    BY <2>2, <2>3, <2>4 DEF BoundBuilt, Unbound, Plain
  <2>11. \A i \in 1..Len(scanner.scopes), k \in Keys : scanner.scopes[i][k] = 0
    BY <2>5, <2>6
  <2>12. Filed
    BY <2>1, <2>11 DEF Filed, FiledIn, Once
  <2>13. Pending(lint) = {}
    BY <2>1, <2>7, <2>11, PendingIs
  <2> QED
    BY <2>4, <2>8, <2>9, <2>10, <2>12, <2>13
    DEF AnalyserInv, LintForgetsNothing, ScannerForgetsNothing, LintPendingRight
<1> QED
  BY <1>1, AnalyserStep, PTL DEF Spec

-----------------------------------------------------------------------------
(* What the scanner reports. *)

\* An event is filed by the last part of a field, by its type, or by its name.
KeyedByName ==
  \A e \in DOMAIN events :
    IF events[e].name \in Fields THEN events[e].key = LastPart[events[e].name]
    ELSE events[e].key \in {TypeName, events[e].name}

\* An event is pending in scope i under the name it was assigned to.
PendingAs(x, i) == scanner.scopes[i][x] # 0 /\ events[scanner.scopes[i][x]].name = x
HomeOf(x, i) == events[scanner.scopes[i][x]].home

\* The variable of such an event is declared in that scope or further out; in
\* the second case it stands for the event or for one that was built later.
HomeKnown ==
  \A i \in 1..Len(scanner.scopes), x \in Names :
    PendingAs(x, i) =>
      /\ HomeOf(x, i) <= i
      /\ blocks[HomeOf(x, i)].bound[x] # Unbound
      /\ HomeOf(x, i) < i => blocks[HomeOf(x, i)].bound[x] >= scanner.scopes[i][x]

\* Of two such events of one name the one further in was built later, and its
\* variable is not declared further out.
InOrder ==
  \A i, j \in 1..Len(scanner.scopes), x \in Names :
    (i < j /\ PendingAs(x, i) /\ PendingAs(x, j)) =>
      /\ HomeOf(x, i) <= HomeOf(x, j)
      /\ scanner.scopes[i][x] < scanner.scopes[j][x]

\* Why the scanner may report an event.
ScannerRight(e) ==
  \/ events[e].fate # "sent" \/ ~ events[e].direct
  \/ events[e].key # events[e].name \/ FiledByField(events[e].key)
ScannerPendingRight == \A e \in Pending(scanner) : ScannerRight(e)

ScannerInv == KeyedByName /\ HomeKnown /\ InOrder /\ ScannerPendingRight

\* What is pending was built, and is filed where it is pending.
LEMMA ScannerPlaces ==
  ASSUME AnalyserInv
  PROVE  /\ Len(scanner.scopes) \in Nat
         /\ \A i \in 1..Len(scanner.scopes), k \in Keys :
              /\ scanner.scopes[i][k] \in Nat
              /\ scanner.scopes[i][k] # 0 =>
                   /\ scanner.scopes[i][k] \in DOMAIN events
                   /\ scanner.scopes[i][k] \in 1..Len(events)
                   /\ events[scanner.scopes[i][k]].key = k
         /\ \A e \in DOMAIN events : e \in Nat \ {0} /\ events[e].home \in Nat \ {0}
<1>1. TypeOK /\ scanner \in Analyser /\ FiledIn(scanner, Keyed) /\ MaxEvents \in Nat
  BY BoundsAssumption DEF AnalyserInv, TypeOK, Filed
<1>2. /\ DOMAIN events = 1..Len(events) /\ Len(events) \in Nat
      /\ \A e \in 1..Len(events) : events[e] \in Event
  BY <1>1, Places
<1>3. scanner.scopes \in Seq([Keys -> 0 .. MaxEvents])
  BY <1>1 DEF Analyser
<1>4. Len(scanner.scopes) \in Nat
      /\ \A i \in 1..Len(scanner.scopes) : scanner.scopes[i] \in [Keys -> 0 .. MaxEvents]
  BY <1>3, LenProperties, ElementOfSeq
<1>5. \A i \in 1..Len(scanner.scopes), k \in Keys :
        scanner.scopes[i][k] # 0 =>
          scanner.scopes[i][k] \in DOMAIN events /\ events[scanner.scopes[i][k]].key = k
  BY <1>1 DEF FiledIn, Keyed
<1>6. \A i \in 1..Len(scanner.scopes), k \in Keys : scanner.scopes[i][k] \in Nat
  BY <1>1, <1>4
<1>7. \A e \in DOMAIN events : e \in Nat \ {0} /\ events[e].home \in Nat \ {0}
  BY <1>2, BoundsAssumption DEF Event
<1> QED
  BY <1>2, <1>4, <1>5, <1>6, <1>7

\* No block further in than its holder binds a name.
LEMMA HolderInnermost ==
  ASSUME TypeOK, NEW x \in Names, NEW h \in 1..Len(blocks), blocks[h].bound[x] # Unbound
  PROVE  h <= Holder(x)
<1>1. Len(blocks) \in Nat /\ DOMAIN blocks = 1..Len(blocks)
  BY Places
<1>2. Holders(x) \in SUBSET Nat /\ (\A i \in Holders(x) : i <= Len(blocks)) /\ h \in Holders(x)
  BY <1>1 DEF Holders
<1>3. \E i \in Holders(x) : \A j \in Holders(x) : j <= i
  BY <1>1, <1>2, Greatest
<1> QED
  BY <1>2, <1>3 DEF Holder

\* If a name is still pending after it was cleared, it was cleared further in.
LEMMA ClearInnermost ==
  ASSUME NEW a \in Analyser, NEW k \in Keys, NEW i \in 1..Len(a.scopes),
         Clear(a, k).scopes[i][k] # 0
  PROVE  \E j \in 1..Len(a.scopes) : i < j /\ a.scopes[j][k] # 0
<1> DEFINE s == a.scopes
           Known == {n \in DOMAIN s : s[n][k] # 0}
           m == CHOOSE n \in Known : \A j \in Known : j <= n
<1>1. /\ s \in Seq([Keys -> 0 .. MaxEvents])
      /\ a = [scopes |-> s, found |-> a.found]
  BY DEF Analyser
<1>2. /\ Len(s) \in Nat /\ DOMAIN s = 1..Len(s)
      /\ \A n \in 1..Len(s) : s[n] \in [Keys -> 0 .. MaxEvents]
  BY <1>1, LenProperties, ElementOfSeq
<1>3. a.scopes[i][k] # 0
  BY ClearEffect
<1>4. i \in Known
  BY <1>2, <1>3
<1>5. m \in Known /\ \A j \in Known : j <= m
  <2>1. Known \in SUBSET Nat /\ \A j \in Known : j <= Len(s)
    BY <1>2
  <2> HIDE DEF Known
  <2>2. \E n \in Known : \A j \in Known : j <= n
    BY <1>2, <1>4, <2>1, Greatest
  <2> QED
    BY <2>2
<1>6. Clear(a, k) = [a EXCEPT !.scopes[m][k] = 0]
  BY <1>4 DEF Clear
<1> HIDE DEF m
<1> DEFINE t == [s EXCEPT ![m] = [s[m] EXCEPT ![k] = 0]]
<1>7. Clear(a, k).scopes = t
  BY <1>1, <1>6
<1>8. i # m
  <2> SUFFICES ASSUME i = m
               PROVE  FALSE
    OBVIOUS
  <2>1. t[m][k] = 0
    BY <1>2, <1>5
  <2> HIDE DEF t
  <2> QED
    BY <1>7, <2>1
<1> QED
  BY <1>2, <1>4, <1>5, <1>8

-----------------------------------------------------------------------------
\* A step that adds nothing to what is pending, and leaves the blocks around it
\* their names, keeps the order of what is pending.
LEMMA OrderStays ==
  ASSUME AnalyserInv, ScannerInv,
         \A e \in DOMAIN events : events'[e].name = events[e].name /\ events'[e].home = events[e].home,
         \A i \in 1..Len(scanner'.scopes), x \in Names :
           scanner'.scopes[i][x] # 0 =>
             /\ i \in 1..Len(scanner.scopes) /\ scanner'.scopes[i][x] = scanner.scopes[i][x]
             /\ \A h \in 1..i : \/ blocks'[h].bound[x] = blocks[h].bound[x]
                                \/ h = i /\ blocks'[h].bound[x] # Unbound
  PROVE  HomeKnown' /\ InOrder'
<1>1. \A i \in 1..Len(scanner'.scopes), x \in Names :
        PendingAs(x, i)' =>
          /\ i \in 1..Len(scanner.scopes) /\ PendingAs(x, i)
          /\ scanner'.scopes[i][x] = scanner.scopes[i][x] /\ HomeOf(x, i)' = HomeOf(x, i)
          /\ HomeOf(x, i) \in Nat \ {0}
          /\ \A h \in 1..i : \/ blocks'[h].bound[x] = blocks[h].bound[x]
                             \/ h = i /\ blocks'[h].bound[x] # Unbound
  <2> SUFFICES ASSUME NEW i \in 1..Len(scanner'.scopes), NEW x \in Names, PendingAs(x, i)'
               PROVE  /\ i \in 1..Len(scanner.scopes) /\ PendingAs(x, i)
                      /\ scanner'.scopes[i][x] = scanner.scopes[i][x] /\ HomeOf(x, i)' = HomeOf(x, i)
                      /\ HomeOf(x, i) \in Nat \ {0}
                      /\ \A h \in 1..i : \/ blocks'[h].bound[x] = blocks[h].bound[x]
                                         \/ h = i /\ blocks'[h].bound[x] # Unbound
    OBVIOUS
  <2>1. scanner'.scopes[i][x] # 0 /\ events'[scanner'.scopes[i][x]].name = x
    BY DEF PendingAs
  <2>2. /\ i \in 1..Len(scanner.scopes) /\ scanner'.scopes[i][x] = scanner.scopes[i][x]
        /\ \A h \in 1..i : \/ blocks'[h].bound[x] = blocks[h].bound[x]
                           \/ h = i /\ blocks'[h].bound[x] # Unbound
    BY <2>1
  <2>3. scanner.scopes[i][x] \in DOMAIN events /\ HomeOf(x, i) \in Nat \ {0}
    BY <2>1, <2>2, ScannerPlaces DEF HomeOf, Keys
  <2>4. PendingAs(x, i) /\ HomeOf(x, i)' = HomeOf(x, i)
    BY <2>1, <2>2, <2>3 DEF PendingAs, HomeOf
  <2> QED
    BY <2>2, <2>3, <2>4
<1>2. HomeKnown'
  <2> SUFFICES ASSUME NEW i \in 1..Len(scanner'.scopes), NEW x \in Names, PendingAs(x, i)'
               PROVE  /\ HomeOf(x, i)' <= i
                      /\ blocks'[HomeOf(x, i)'].bound[x] # Unbound
                      /\ HomeOf(x, i)' < i =>
                           blocks'[HomeOf(x, i)'].bound[x] >= scanner'.scopes[i][x]
    BY DEF HomeKnown
  <2>1. /\ i \in 1..Len(scanner.scopes) /\ PendingAs(x, i)
        /\ scanner'.scopes[i][x] = scanner.scopes[i][x] /\ HomeOf(x, i)' = HomeOf(x, i)
        /\ HomeOf(x, i) \in Nat \ {0}
        /\ \A h \in 1..i : \/ blocks'[h].bound[x] = blocks[h].bound[x]
                           \/ h = i /\ blocks'[h].bound[x] # Unbound
    BY <1>1
  <2>2. /\ HomeOf(x, i) <= i /\ blocks[HomeOf(x, i)].bound[x] # Unbound
        /\ HomeOf(x, i) < i => blocks[HomeOf(x, i)].bound[x] >= scanner.scopes[i][x]
    BY <2>1 DEF ScannerInv, HomeKnown
  <2>3. i \in Nat /\ HomeOf(x, i) \in 1..i
    BY <2>1, <2>2, ScannerPlaces
  <2> QED
    BY <2>1, <2>2, <2>3
<1>3. InOrder'
  BY <1>1 DEF ScannerInv, InOrder
<1> QED
  BY <1>2, <1>3

\* If it leaves the events alone as well, it keeps what may be reported.
LEMMA RightStays ==
  ASSUME ScannerInv, events' = events, Pending(scanner') \subseteq Pending(scanner)
  PROVE  KeyedByName' /\ ScannerPendingRight'
BY DEF ScannerInv, KeyedByName, ScannerPendingRight, ScannerRight, FiledByField

\* A brace opens, with nothing pending behind it.
LEMMA ScannerOpens ==
  ASSUME AnalyserInv, ScannerInv, NEW isFunction \in BOOLEAN, Open(isFunction)
  PROVE  ScannerInv'
<1>1. TypeOK /\ Nested /\ scanner \in Analyser /\ FiledIn(scanner, Keyed) /\ Once(scanner)
  BY DEF AnalyserInv, TypeOK, Filed
<1> DEFINE new == [function |-> isFunction, bound |-> [x \in Names |-> Unbound]]
           n == Len(blocks)
<1>2. /\ ~ ended /\ blocks' = Append(blocks, new) /\ scanner' = Enter(scanner) /\ events' = events
  BY DEF Open, Writes
<1>3. n \in Nat /\ blocks \in Seq(Block) /\ new \in Block
  BY <1>1, Places DEF TypeOK, Block
<1> HIDE DEF new
<1>4. \A i \in 1..n : blocks'[i] = blocks[i]
  BY <1>2, <1>3, AppendProperties
<1>5. /\ Len(scanner'.scopes) = n + 1 /\ Len(scanner.scopes) = n
      /\ \A i \in 1..n : scanner'.scopes[i] = scanner.scopes[i]
      /\ \A k \in Keys : scanner'.scopes[n + 1][k] = 0
  BY <1>1, <1>2, EnterEffect DEF Nested
<1>6. Pending(scanner') \subseteq Pending(scanner)
  BY <1>1, <1>2, EnterKeeps
<1>7. \A i \in 1..Len(scanner'.scopes), x \in Names :
        scanner'.scopes[i][x] # 0 =>
          /\ i \in 1..Len(scanner.scopes) /\ scanner'.scopes[i][x] = scanner.scopes[i][x]
          /\ \A h \in 1..i : blocks'[h].bound[x] = blocks[h].bound[x]
  BY <1>3, <1>4, <1>5 DEF Keys
<1> HIDE DEF n
<1>8. HomeKnown' /\ InOrder'
  BY <1>2, <1>7, OrderStays
<1> QED
  BY <1>2, <1>6, <1>8, RightStays DEF ScannerInv

\* A brace closes, or the file ends: what is reported was pending.
LEMMA ScannerLeaves ==
  ASSUME AnalyserInv, ScannerInv, Close \/ EndOfFile
  PROVE  ScannerInv' /\ scanner'.found \ scanner.found \subseteq Pending(scanner)
<1>1. TypeOK /\ Nested /\ scanner \in Analyser /\ FiledIn(scanner, Keyed) /\ Once(scanner)
  BY DEF AnalyserInv, TypeOK, Filed
<1> DEFINE n == Len(blocks)
<1>2. /\ ~ ended /\ scanner' = Leave(scanner) /\ events' = events
      /\ blocks' = blocks \/ blocks' = SubSeq(blocks, 1, n - 1)
  BY DEF Close, EndOfFile, Writes, Innermost
<1>3. n \in Nat /\ n >= 1 /\ blocks \in Seq(Block) /\ DOMAIN blocks = 1..n
      /\ Len(scanner.scopes) >= 1 /\ Len(scanner.scopes) = n
  BY <1>1, <1>2, Places, BothOnTop DEF TypeOK, Nested
<1>4. \A i \in 1..(n - 1) : blocks'[i] = blocks[i]
  <2>1. \A i \in 1..(n - 1) : blocks[i] \in Block
    BY <1>1, <1>3, Places
  <2>2. 1 \in Int /\ n - 1 \in Int
    BY <1>3
  <2> HIDE DEF n
  <2>3. \A i \in 1..(n - 1) : SubSeq(blocks, 1, n - 1)[i] = blocks[i]
    BY <1>3, <2>1, <2>2, SubSeqProperties
  <2> QED
    BY <1>2, <2>3
<1>5. /\ Len(scanner'.scopes) = n - 1
      /\ \A i \in 1..(n - 1) : scanner'.scopes[i] = scanner.scopes[i]
  <2> DEFINE b == Leave(scanner)
  <2>1. /\ Len(b.scopes) = Len(scanner.scopes) - 1
        /\ \A i \in 1..(Len(scanner.scopes) - 1) : b.scopes[i] = scanner.scopes[i]
    <3>1. scanner \in Analyser /\ Len(scanner.scopes) >= 1
      BY <1>1, <1>3
    <3> QED
      BY <3>1, LeaveEffect
  <2>2. scanner' = b /\ Len(scanner.scopes) = n
    BY <1>2, <1>3
  <2> HIDE DEF n, b
  <2> QED
    BY <2>1, <2>2
<1>6. /\ Pending(scanner') \subseteq Pending(scanner)
      /\ scanner'.found \ scanner.found \subseteq Pending(scanner)
  BY <1>1, <1>2, <1>3, LeaveKeeps
<1>7. \A i \in 1..Len(scanner'.scopes), x \in Names :
        scanner'.scopes[i][x] # 0 =>
          /\ i \in 1..Len(scanner.scopes) /\ scanner'.scopes[i][x] = scanner.scopes[i][x]
          /\ \A h \in 1..i : blocks'[h].bound[x] = blocks[h].bound[x]
  <2> HIDE DEF n
  <2>1. \A i \in 1..Len(scanner'.scopes) :
          i \in 1..(n - 1) /\ i \in 1..n /\ \A h \in 1..i : h \in 1..(n - 1)
    BY <1>3, <1>5
  <2> QED
    BY <1>3, <1>4, <1>5, <2>1
<1> HIDE DEF n
<1>8. HomeKnown' /\ InOrder'
  BY <1>2, <1>7, OrderStays
<1> QED
  BY <1>2, <1>6, <1>8, RightStays DEF ScannerInv

\* Another value binds in the innermost block, around which nothing is pending.
LEMMA ScannerRenames ==
  ASSUME AnalyserInv, ScannerInv, NEW x \in Locals, NEW v \in {Plain} \cup EventIds, Rename(x, v)
  PROVE  ScannerInv'
<1>1. TypeOK /\ Nested
  BY DEF AnalyserInv
<1>2. /\ ~ ended /\ Bind(Innermost, x, v) /\ scanner' = scanner /\ events' = events
  BY DEF Rename, Writes
<1>3. /\ Len(blocks) \in Nat \ {0} /\ x \in Names /\ Innermost \in 1..Len(blocks)
      /\ Innermost = Len(scanner.scopes) /\ v # Unbound
  BY <1>1, <1>2, Places, BoundsAssumption DEF Innermost, Names, Nested, EventIds, Plain, Unbound
<1>4. \A j \in 1..Len(blocks), y \in Names :
        blocks'[j].bound[y] = IF j = Innermost /\ y = x THEN v ELSE blocks[j].bound[y]
  BY <1>1, <1>2, <1>3, BindEffect
<1>5. \A i \in 1..Len(scanner'.scopes), y \in Names : \A h \in 1..i :
        \/ blocks'[h].bound[y] = blocks[h].bound[y]
        \/ h = i /\ blocks'[h].bound[y] # Unbound
  <2> SUFFICES ASSUME NEW i \in 1..Len(scanner'.scopes), NEW y \in Names, NEW h \in 1..i
               PROVE  \/ blocks'[h].bound[y] = blocks[h].bound[y]
                      \/ h = i /\ blocks'[h].bound[y] # Unbound
    OBVIOUS
  <2>1. i <= Innermost /\ h <= i /\ h \in 1..Len(blocks) /\ Innermost = Len(blocks)
    BY <1>2, <1>3 DEF Innermost
  <2>2. CASE h = Innermost
    BY <1>3, <1>4, <2>1, <2>2
  <2>3. CASE h # Innermost
    BY <1>4, <2>1, <2>3
  <2> QED
    BY <2>2, <2>3
<1>6. HomeKnown' /\ InOrder'
  BY <1>2, <1>5, OrderStays
<1> QED
  BY <1>2, <1>6, RightStays DEF ScannerInv

\* A use decides how one event left, the one the name stands for.
LEMMA UseDecides ==
  ASSUME TypeOK, BoundBuilt, NEW x \in Names, NEW fate \in {"sent", "chained", "handed"},
         Use(x, fate)
  PROVE  /\ blocks' = blocks /\ Visible(x) /\ DOMAIN events' = DOMAIN events
         /\ \A e \in DOMAIN events :
              /\ events'[e].name = events[e].name /\ events'[e].key = events[e].key
              /\ events'[e].home = events[e].home
              /\ \/ events'[e] = events[e]
                 \/ /\ e = Value(x) /\ events'[e].fate = fate
                    /\ events'[e].direct => events[e].name = x /\ Holder(x) = events[e].home
<1> DEFINE v == Value(x)
           d == (x = events[v].name /\ Holder(x) = events[v].home)
<1>1. /\ blocks' = blocks /\ Visible(x)
      /\ events' = IF v \in EventIds /\ events[v].fate = "kept"
                   THEN [events EXCEPT ![v].fate = fate, ![v].direct = d] ELSE events
  BY DEF Use
<1>2. DOMAIN events' = DOMAIN events
  BY TypeOK, UseEffect
<1>3. \A e \in DOMAIN events : events[e] \in Event
  BY Places
<1>4. d \in BOOLEAN /\ (d => x = events[v].name /\ Holder(x) = events[v].home)
  OBVIOUS
<1> HIDE DEF d, v
<1>5. SUFFICES ASSUME NEW e \in DOMAIN events
               PROVE  /\ events'[e].name = events[e].name /\ events'[e].key = events[e].key
                      /\ events'[e].home = events[e].home
                      /\ \/ events'[e] = events[e]
                         \/ /\ e = v /\ events'[e].fate = fate
                            /\ events'[e].direct => events[e].name = x /\ Holder(x) = events[e].home
  BY <1>1, <1>2 DEF v
<1>6. CASE events' = events
  BY <1>6
<1>7. CASE events' = [events EXCEPT ![v].fate = fate, ![v].direct = d]
  <2>1. CASE e = v
    <3>1. events'[e] = [events[e] EXCEPT !.fate = fate, !.direct = d]
      BY <1>7, <2>1
    <3>2. events[e] \in Event
      BY <1>3
    <3> QED
      BY <1>4, <2>1, <3>1, <3>2 DEF Event
  <2>2. CASE e # v
    BY <1>7, <2>2
  <2> QED
    BY <2>1, <2>2
<1> QED
  BY <1>1, <1>6, <1>7

\* A use in a chain or by another function leaves the scanner alone.
LEMMA ScannerOverlooks ==
  ASSUME AnalyserInv, ScannerInv, NEW x \in Names, NEW fate \in {"chained", "handed"},
         Use(x, fate), scanner' = scanner
  PROVE  ScannerInv'
<1>1. TypeOK /\ BoundBuilt /\ scanner \in Analyser /\ FiledIn(scanner, Keyed)
  BY DEF AnalyserInv, TypeOK, Filed
<1>2. /\ blocks' = blocks /\ DOMAIN events' = DOMAIN events
      /\ \A e \in DOMAIN events :
           /\ events'[e].name = events[e].name /\ events'[e].key = events[e].key
           /\ events'[e].home = events[e].home
           /\ events'[e] = events[e] \/ events'[e].fate = fate
  BY <1>1, UseDecides
<1>3. HomeKnown' /\ InOrder'
  BY <1>2, OrderStays
<1>4. KeyedByName'
  BY <1>2 DEF ScannerInv, KeyedByName
<1>5. ScannerPendingRight'
  <2> SUFFICES ASSUME NEW e \in Pending(scanner)
               PROVE  ScannerRight(e)'
    BY DEF ScannerPendingRight
  <2>1. e \in DOMAIN events /\ ScannerRight(e)
    BY <1>1, PendingFiled DEF ScannerInv, ScannerPendingRight, Keyed
  <2>2. FiledByField(events[e].key) => FiledByField(events[e].key)'
    BY <1>2, <2>1 DEF FiledByField
  <2>3. CASE events'[e] = events[e]
    BY <2>1, <2>2, <2>3 DEF ScannerRight, FiledByField
  <2>4. CASE events'[e].fate = fate
    BY <2>4 DEF ScannerRight
  <2> QED
    BY <1>2, <2>1, <2>3, <2>4
<1> QED
  BY <1>3, <1>4, <1>5 DEF ScannerInv

\* An event that is sent through the variable it was assigned to is the one
\* the scanner settles, if it files it by that name.
LEMMA SendSettles ==
  ASSUME AnalyserInv, ScannerInv, NEW x \in Names, Visible(x), NEW i \in 1..Len(scanner.scopes),
         Clear(scanner, x).scopes[i][x] # 0, ~ FiledByField(x), ~ ended,
         PendingAs(x, i), scanner.scopes[i][x] = Value(x), Holder(x) = HomeOf(x, i)
  PROVE  FALSE
<1>1. TypeOK /\ Nested /\ scanner \in Analyser /\ x \in Keys
  BY DEF AnalyserInv, TypeOK, Keys
<1>2. PICK j \in 1..Len(scanner.scopes) : i < j /\ scanner.scopes[j][x] # 0
  BY <1>1, ClearInnermost
<1> DEFINE e == scanner.scopes[i][x]
           d == scanner.scopes[j][x]
<1>3. d \in DOMAIN events /\ events[d].key = x /\ d \in Nat /\ e \in Nat
      /\ HomeOf(x, i) \in Nat \ {0} /\ HomeOf(x, j) \in Nat \ {0}
      /\ i \in Nat /\ j \in Nat /\ Len(scanner.scopes) \in Nat
  BY <1>1, <1>2, ScannerPlaces DEF HomeOf, PendingAs
<1>4. PendingAs(x, j)
  <2>1. events[d].name \notin Fields
    BY <1>3 DEF FiledByField
  <2>2. x \in {TypeName, events[d].name}
    BY <1>3, <2>1 DEF ScannerInv, KeyedByName
  <2>3. x # TypeName
    BY NamesAssumption DEF Names
  <2> QED
    BY <1>2, <2>2, <2>3 DEF PendingAs
<1>5. HomeOf(x, i) <= HomeOf(x, j) /\ e < d
  BY <1>2, <1>4 DEF ScannerInv, InOrder
<1>6. /\ HomeOf(x, j) <= j /\ blocks[HomeOf(x, j)].bound[x] # Unbound
      /\ HomeOf(x, j) < j => blocks[HomeOf(x, j)].bound[x] >= d
  BY <1>2, <1>4 DEF ScannerInv, HomeKnown
<1>7. HomeOf(x, i) <= i
  BY DEF ScannerInv, HomeKnown
<1>8. Len(blocks) = Len(scanner.scopes)
  BY <1>1 DEF Nested
<1>9. HomeOf(x, j) \in 1..Len(blocks)
  BY <1>3, <1>6, <1>8
<1>10. HomeOf(x, j) <= Holder(x)
  BY <1>1, <1>6, <1>9, HolderInnermost
<1>11. HomeOf(x, j) = HomeOf(x, i)
  BY <1>3, <1>5, <1>10
<1>12. blocks[HomeOf(x, j)].bound[x] = e
  BY <1>11 DEF Value
<1> QED
  BY <1>2, <1>3, <1>5, <1>6, <1>7, <1>11, <1>12

\* An event is sent.
LEMMA ScannerSends ==
  ASSUME AnalyserInv, ScannerInv, NEW x \in Names, Send(x)
  PROVE  ScannerInv'
<1>1. /\ TypeOK /\ BoundBuilt /\ scanner \in Analyser /\ FiledIn(scanner, Keyed) /\ Once(scanner)
      /\ x \in Keys
  BY DEF AnalyserInv, TypeOK, Filed, Keys
<1>2. Use(x, "sent") /\ scanner' = Clear(scanner, x) /\ ~ ended
  BY DEF Send, Use, Writes
<1>3. /\ blocks' = blocks /\ Visible(x) /\ DOMAIN events' = DOMAIN events
      /\ \A e \in DOMAIN events :
           /\ events'[e].name = events[e].name /\ events'[e].key = events[e].key
           /\ events'[e].home = events[e].home
           /\ \/ events'[e] = events[e]
              \/ /\ e = Value(x) /\ events'[e].fate = "sent"
                 /\ events'[e].direct => events[e].name = x /\ Holder(x) = events[e].home
  BY <1>1, <1>2, UseDecides
<1>4. /\ scanner' \in Analyser /\ Len(scanner'.scopes) = Len(scanner.scopes)
      /\ \A i \in 1..Len(scanner.scopes), k \in Keys :
           scanner'.scopes[i][k] \in {0, scanner.scopes[i][k]}
  BY <1>1, <1>2, ClearEffect
<1>5. FiledIn(scanner', Keyed) /\ Pending(scanner') \subseteq Pending(scanner)
  BY <1>1, <1>2, <1>4, ClearKeeps
<1>6. HomeKnown' /\ InOrder'
  <2>1. \A i \in 1..Len(scanner'.scopes), y \in Names :
          scanner'.scopes[i][y] # 0 =>
            i \in 1..Len(scanner.scopes) /\ scanner'.scopes[i][y] = scanner.scopes[i][y]
    BY <1>4 DEF Keys
  <2> QED
    BY <1>3, <2>1, OrderStays
<1>7. KeyedByName'
  BY <1>3 DEF ScannerInv, KeyedByName
<1>8. ScannerPendingRight'
  <2> SUFFICES ASSUME NEW e \in Pending(scanner'), ~ ScannerRight(e)'
               PROVE  FALSE
    BY DEF ScannerPendingRight
  <2>1. e \in DOMAIN events /\ ScannerRight(e)
    BY <1>1, <1>5, PendingFiled DEF ScannerInv, ScannerPendingRight, Keyed
  <2>2. \A k : FiledByField(k) => FiledByField(k)'
    BY <1>3 DEF FiledByField
  <2>3. /\ events'[e].direct /\ events[e].key = events[e].name /\ ~ FiledByField(events[e].key)
    BY <1>3, <2>1, <2>2 DEF ScannerRight, FiledByField
  <2>4. events'[e] # events[e]
    BY <2>1, <2>2, <2>3 DEF ScannerRight, FiledByField
  <2>5. e = Value(x) /\ events[e].name = x /\ Holder(x) = events[e].home
    BY <1>3, <2>1, <2>3, <2>4
  <2>6. PICK i \in 1..Len(scanner'.scopes), k \in Keys : scanner'.scopes[i][k] = e /\ e # 0
    BY <1>4, PendingIs
  <2>7. k = x
    <3>1. Keyed[e] = events[e].key
      BY <2>1 DEF Keyed
    <3>2. Keyed[e] = k
      BY <1>5, <2>6 DEF FiledIn
    <3> QED
      BY <2>3, <2>5, <3>1, <3>2
  <2>8. i \in 1..Len(scanner.scopes) /\ scanner.scopes[i][x] = e
        /\ Clear(scanner, x).scopes[i][x] # 0
    BY <1>2, <1>4, <2>6, <2>7
  <2>9. PendingAs(x, i) /\ HomeOf(x, i) = events[e].home
    BY <2>5, <2>6, <2>8 DEF PendingAs, HomeOf
  <2> QED
    BY <1>2, <1>3, <2>3, <2>5, <2>8, <2>9, SendSettles
<1> QED
  BY <1>6, <1>7, <1>8 DEF ScannerInv

\* An event is built: it is the last one, and pending in the innermost scope.
LEMMA ScannerMarks ==
  ASSUME AnalyserInv, ScannerInv, NEW x \in Names, NEW isNew \in BOOLEAN,
         NEW annotated \in BOOLEAN, Build(x, isNew, annotated)
  PROVE  ScannerInv' /\ scanner'.found = scanner.found
<1> DEFINE e == Len(events) + 1
           key == Assigned(x, annotated)
           home == IF isNew THEN Innermost ELSE Holder(x)
           new == [name |-> x, home |-> home, key |-> key, direct |-> FALSE, fate |-> "kept"]
           n == Len(scanner.scopes)
<1>1. /\ TypeOK /\ Nested /\ BoundBuilt /\ scanner \in Analyser
      /\ FiledIn(scanner, Keyed) /\ Once(scanner)
  BY DEF AnalyserInv, TypeOK, Filed
<1>2. /\ ~ ended /\ e \in EventIds /\ (~ isNew => Visible(x)) /\ Bind(home, x, e)
      /\ events' = Append(events, new) /\ scanner' = Mark(scanner, key, e)
  BY DEF Build, Writes
<1>3. /\ Len(blocks) \in Nat \ {0} /\ n = Len(blocks) /\ n >= 1
      /\ Len(events) \in Nat /\ DOMAIN events = 1..Len(events) /\ events \in Seq(Event)
      /\ Len(blocks) <= MaxDepth /\ MaxDepth \in Nat /\ MaxEvents \in Nat
  BY <1>1, <1>2, Places, BoundsAssumption DEF TypeOK, Nested
<1>4. home \in 1..Len(blocks)
      /\ \A h \in 1..Len(blocks) : blocks[h].bound[x] # Unbound => h <= home
  <2>1. CASE isNew
    BY <1>3, <2>1 DEF Innermost
  <2>2. CASE ~ isNew
    BY <1>1, <1>2, <2>2, HolderPlaced, HolderInnermost
  <2> QED
    BY <2>1, <2>2
<1>5. key \in Keys /\ (IF x \in Fields THEN key = LastPart[x] ELSE key \in {TypeName, x})
  BY NamesAssumption DEF Assigned, Keys, Names
<1>6. new \in Event /\ new.name = x /\ new.key = key /\ new.home = home /\ new.fate = "kept"
  <2>1. home \in 1 .. MaxDepth
    BY <1>3, <1>4
  <2> HIDE DEF home, key
  <2> QED
    BY <1>5, <2>1 DEF Event
<1>7. \A j \in 1..Len(blocks), y \in Names :
        blocks'[j].bound[y] = IF j = home /\ y = x THEN e ELSE blocks[j].bound[y]
  BY <1>1, <1>2, <1>4, BindEffect
<1> HIDE DEF new, home
<1>8. /\ DOMAIN events' = 1..e /\ events'[e] = new
      /\ \A d \in DOMAIN events : events'[d] = events[d] /\ d \in DOMAIN events' /\ d # e
  BY <1>2, <1>3, <1>6, AppendProperties, LenProperties
<1>9. \A d \in DOMAIN events' : d = e \/ d \in DOMAIN events
  BY <1>3, <1>8
<1>10. /\ \A d \in 1..Len(events) : d < e
       /\ e \in Nat \ {0} /\ e # Unbound
  BY <1>3 DEF Unbound
<1>a. /\ e \notin DOMAIN Keyed /\ e \in DOMAIN Keyed' /\ Keyed'[e] = key
      /\ \A d \in DOMAIN Keyed : d \in DOMAIN Keyed' /\ Keyed'[d] = Keyed[d]
  BY <1>3, <1>6, <1>8 DEF Keyed
<1> HIDE DEF key, e
<1>11. /\ scanner'.found = scanner.found /\ Len(scanner'.scopes) = n
       /\ \A i \in 1..n, l \in Keys :
            scanner'.scopes[i][l] = IF i = n /\ l = key THEN e ELSE scanner.scopes[i][l]
  BY <1>1, <1>2, <1>3, <1>5, MarkEffect
<1>12. Pending(scanner') \subseteq Pending(scanner) \cup {e}
  BY <1>1, <1>2, <1>3, <1>5, <1>a, MarkKeeps
<1>13. KeyedByName'
  BY <1>5, <1>6, <1>8, <1>9 DEF ScannerInv, KeyedByName
<1> HIDE DEF n
\* Where something is pending it is either the new event or was pending before.
<1>14. \A i \in 1..n, y \in Names :
         PendingAs(y, i)' =>
           \/ /\ i = n /\ y = x /\ scanner'.scopes[i][y] = e /\ HomeOf(y, i)' = home
           \/ /\ PendingAs(y, i) /\ scanner'.scopes[i][y] = scanner.scopes[i][y]
              /\ HomeOf(y, i)' = HomeOf(y, i) /\ scanner.scopes[i][y] < e
  <2> SUFFICES ASSUME NEW i \in 1..n, NEW y \in Names, PendingAs(y, i)'
               PROVE  \/ /\ i = n /\ y = x /\ scanner'.scopes[i][y] = e /\ HomeOf(y, i)' = home
                      \/ /\ PendingAs(y, i) /\ scanner'.scopes[i][y] = scanner.scopes[i][y]
                         /\ HomeOf(y, i)' = HomeOf(y, i) /\ scanner.scopes[i][y] < e
    OBVIOUS
  <2>1. y \in Keys
    BY DEF Keys
  <2>2. CASE i = n /\ y = key
    <3>1. scanner'.scopes[i][y] = e
      BY <1>11, <2>1, <2>2
    <3> QED
      BY <1>6, <1>8, <2>2, <3>1 DEF PendingAs, HomeOf
  <2>3. CASE ~ (i = n /\ y = key)
    <3>1. scanner'.scopes[i][y] = scanner.scopes[i][y]
      BY <1>11, <2>1, <2>3
    <3>2. scanner.scopes[i][y] # 0
      BY <3>1 DEF PendingAs
    <3>3. scanner.scopes[i][y] \in DOMAIN events /\ scanner.scopes[i][y] \in 1..Len(events)
      BY <2>1, <3>2, ScannerPlaces DEF n
    <3>4. events'[scanner.scopes[i][y]] = events[scanner.scopes[i][y]]
      BY <1>8, <3>3
    <3> QED
      BY <1>10, <3>1, <3>3, <3>4 DEF PendingAs, HomeOf
  <2> QED
    BY <2>2, <2>3
<1>15. \A i \in 1..n, y \in Names :
         PendingAs(y, i) =>
           /\ scanner.scopes[i][y] \in Nat /\ HomeOf(y, i) \in 1..i /\ HomeOf(y, i) \in 1..Len(blocks)
           /\ blocks[HomeOf(y, i)].bound[y] # Unbound
           /\ HomeOf(y, i) < i => blocks[HomeOf(y, i)].bound[y] >= scanner.scopes[i][y]
  <2> SUFFICES ASSUME NEW i \in 1..n, NEW y \in Names, PendingAs(y, i)
               PROVE  /\ scanner.scopes[i][y] \in Nat
                      /\ HomeOf(y, i) \in 1..i /\ HomeOf(y, i) \in 1..Len(blocks)
                      /\ blocks[HomeOf(y, i)].bound[y] # Unbound
                      /\ HomeOf(y, i) < i => blocks[HomeOf(y, i)].bound[y] >= scanner.scopes[i][y]
    OBVIOUS
  <2>1. scanner.scopes[i][y] \in Nat /\ HomeOf(y, i) \in Nat \ {0}
    BY ScannerPlaces DEF n, Keys, PendingAs, HomeOf
  <2>2. /\ HomeOf(y, i) <= i /\ blocks[HomeOf(y, i)].bound[y] # Unbound
        /\ HomeOf(y, i) < i => blocks[HomeOf(y, i)].bound[y] >= scanner.scopes[i][y]
    BY DEF ScannerInv, HomeKnown, n
  <2> QED
    BY <1>3, <2>1, <2>2
<1>16. HomeKnown'
  <2> SUFFICES ASSUME NEW i \in 1..n, NEW y \in Names, PendingAs(y, i)'
               PROVE  /\ HomeOf(y, i)' <= i
                      /\ blocks'[HomeOf(y, i)'].bound[y] # Unbound
                      /\ HomeOf(y, i)' < i =>
                           blocks'[HomeOf(y, i)'].bound[y] >= scanner'.scopes[i][y]
    BY <1>11 DEF HomeKnown
  <2>1. CASE i = n /\ y = x /\ scanner'.scopes[i][y] = e /\ HomeOf(y, i)' = home
    <3>1. blocks'[home].bound[y] = e
      BY <1>4, <1>7, <2>1
    <3> QED
      BY <1>3, <1>4, <1>10, <2>1, <3>1
  <2>2. CASE /\ PendingAs(y, i) /\ scanner'.scopes[i][y] = scanner.scopes[i][y]
             /\ HomeOf(y, i)' = HomeOf(y, i) /\ scanner.scopes[i][y] < e
    <3> DEFINE h == HomeOf(y, i)
    <3>1. /\ scanner.scopes[i][y] \in Nat /\ h \in 1..i /\ h \in 1..Len(blocks)
          /\ blocks[h].bound[y] # Unbound
          /\ h < i => blocks[h].bound[y] >= scanner.scopes[i][y]
      BY <1>15, <2>2
    <3> HIDE DEF h
    <3>2. blocks'[h].bound[y] = IF h = home /\ y = x THEN e ELSE blocks[h].bound[y]
      BY <1>7, <3>1
    <3>3. CASE h = home /\ y = x
      BY <1>10, <2>2, <3>1, <3>2, <3>3 DEF h
    <3>4. CASE ~ (h = home /\ y = x)
      BY <2>2, <3>1, <3>2, <3>4 DEF h
    <3> QED
      BY <3>3, <3>4
  <2> QED
    BY <1>14, <2>1, <2>2
<1>17. InOrder'
  <2> SUFFICES ASSUME NEW i \in 1..n, NEW j \in 1..n, NEW y \in Names,
                      i < j, PendingAs(y, i)', PendingAs(y, j)'
               PROVE  /\ HomeOf(y, i)' <= HomeOf(y, j)'
                      /\ scanner'.scopes[i][y] < scanner'.scopes[j][y]
    BY <1>11 DEF InOrder
  <2>1. i # n
    BY <1>3
  <2>2. /\ PendingAs(y, i) /\ scanner'.scopes[i][y] = scanner.scopes[i][y]
        /\ HomeOf(y, i)' = HomeOf(y, i) /\ scanner.scopes[i][y] < e
    BY <1>14, <2>1
  <2>3. CASE j = n /\ y = x /\ scanner'.scopes[j][y] = e /\ HomeOf(y, j)' = home
    BY <1>4, <1>15, <2>2, <2>3
  <2>4. CASE /\ PendingAs(y, j) /\ scanner'.scopes[j][y] = scanner.scopes[j][y]
             /\ HomeOf(y, j)' = HomeOf(y, j)
    BY <2>2, <2>4 DEF ScannerInv, InOrder, n
  <2> QED
    BY <1>14, <2>3, <2>4
<1>18. ScannerPendingRight'
  <2> SUFFICES ASSUME NEW d \in Pending(scanner')
               PROVE  ScannerRight(d)'
    BY DEF ScannerPendingRight
  <2>1. CASE d = e
    BY <1>6, <1>8, <2>1 DEF ScannerRight
  <2>2. CASE d \in Pending(scanner)
    <3>1. d \in DOMAIN events /\ ScannerRight(d)
      BY <1>1, <2>2, PendingFiled DEF ScannerInv, ScannerPendingRight, Keyed
    <3>2. \A k : FiledByField(k) => FiledByField(k)'
      BY <1>8 DEF FiledByField
    <3> QED
      BY <1>8, <3>1, <3>2 DEF ScannerRight, FiledByField
  <2> QED
    BY <1>12, <2>1, <2>2
<1> QED
  BY <1>11, <1>13, <1>16, <1>17, <1>18 DEF ScannerInv

\* What a step does to what the scanner has pending, and what it may report.
LEMMA ScannerStep ==
  ASSUME AnalyserInv, ScannerInv, [Next]_vars
  PROVE  ScannerInv' /\ scanner'.found \ scanner.found \subseteq Pending(scanner)
<1>0. scanner \in Analyser /\ \A x \in Names : x \in Keys
  BY DEF AnalyserInv, TypeOK, Keys
<1>1. ASSUME NEW isFunction \in BOOLEAN, Open(isFunction)
      PROVE  ScannerInv' /\ scanner'.found = scanner.found
  BY <1>0, <1>1, ScannerOpens, EnterEffect DEF Open
<1>2. ASSUME NEW x \in Names, Send(x)
      PROVE  ScannerInv' /\ scanner'.found = scanner.found
  BY <1>0, <1>2, ScannerSends, ClearEffect DEF Send
<1>3. ASSUME NEW x \in Names, SendThroughChain(x)
      PROVE  ScannerInv' /\ scanner'.found = scanner.found
  BY <1>3, ScannerOverlooks DEF SendThroughChain
<1>4. ASSUME NEW x \in Names, NEW returned \in BOOLEAN, HandOver(x, returned)
      PROVE  ScannerInv' /\ scanner'.found = scanner.found
  BY <1>4, ScannerOverlooks DEF HandOver
<1>5. ASSUME NEW x \in Locals, NEW v \in {Plain} \cup EventIds, Rename(x, v)
      PROVE  ScannerInv' /\ scanner'.found = scanner.found
  BY <1>5, ScannerRenames DEF Rename
<1>6. ASSUME UNCHANGED vars
      PROVE  ScannerInv' /\ scanner'.found = scanner.found
  <2>1. blocks' = blocks /\ events' = events /\ strays' = strays /\ scanner' = scanner
    BY <1>6 DEF vars
  <2>2. KeyedByName'
    BY <2>1 DEF ScannerInv, KeyedByName
  <2>3. /\ \A x, i : PendingAs(x, i)' = PendingAs(x, i)
        /\ \A x, i : HomeOf(x, i)' = HomeOf(x, i)
    BY <2>1 DEF PendingAs, HomeOf
  <2>4. HomeKnown' /\ InOrder'
    BY <2>1, <2>3 DEF ScannerInv, HomeKnown, InOrder
  <2>5. ScannerPendingRight'
    BY <2>1 DEF ScannerInv, ScannerPendingRight, ScannerRight, FiledByField, Pending
  <2> QED
    BY <2>1, <2>2, <2>4, <2>5 DEF ScannerInv
<1> QED
  BY <1>1, <1>2, <1>3, <1>4, <1>5, <1>6, ScannerLeaves, ScannerMarks DEF Next

\* It holds of every program.
LEMMA ScannerInvariant == Spec => []ScannerInv
<1>1. Init => ScannerInv
  <2> SUFFICES ASSUME Init
               PROVE  ScannerInv
    OBVIOUS
  <2>1. /\ events = <<>> /\ DOMAIN events = {}
        /\ scanner.scopes = <<NothingPending>> /\ Len(scanner.scopes) = 1
        /\ DOMAIN scanner.scopes = {1} /\ scanner.scopes[1] = NothingPending
    BY DEF Init
  <2>2. \A i \in 1..Len(scanner.scopes), k \in Keys : scanner.scopes[i][k] = 0
    BY <2>1 DEF NothingPending
  <2>3. HomeKnown /\ InOrder
    BY <2>2 DEF HomeKnown, InOrder, PendingAs, Keys
  <2>4. Pending(scanner) = {}
    BY <2>1 DEF Pending, PendingIn, NothingPending
  <2> QED
    BY <2>1, <2>3, <2>4 DEF ScannerInv, KeyedByName, ScannerPendingRight
<1> QED
  BY <1>1, AnalyserInvariant, ScannerStep, PTL DEF Spec

-----------------------------------------------------------------------------
\* The program and the two analysers keep their types: neither ever closes a
\* scope it has not opened, and the file's own is the last to go.
THEOREM AnalysersTypeCorrect == Spec => []TypeOK
<1>1. AnalyserInv => TypeOK
  BY DEF AnalyserInv
<1> QED
  BY <1>1, AnalyserInvariant, PTL

\* ESLint never loses sight of an unsent event whose name nothing else bears
\* and nothing else was used by, in programs of any size and depth.
THEOREM LintNeverForgets == Spec => []LintForgetsNothing
<1>1. AnalyserInv => LintForgetsNothing
  BY DEF AnalyserInv
<1> QED
  BY <1>1, AnalyserInvariant, PTL

\* The same of the scanner, for the name it files an event by.
THEOREM ScannerNeverForgets == Spec => []ScannerForgetsNothing
<1>1. AnalyserInv => ScannerForgetsNothing
  BY DEF AnalyserInv
<1> QED
  BY <1>1, AnalyserInvariant, PTL

\* What ESLint reports was not sent, nor handed over, through the variable it
\* was assigned to, unless another event has its name.
THEOREM LintIsRight == Spec => LintReportsUnsent
<1>1. AnalyserInv /\ [Next]_vars =>
        [\A e \in Reports(lint) : Kept(e) \/ ~ events[e].direct \/ SharesName(e)]_vars
  BY AnalyserStep DEF AnalyserInv, LintPendingRight, LintRight, Reports
<1> QED
  BY <1>1, AnalyserInvariant, PTL DEF Spec, LintReportsUnsent

\* What the scanner reports was not sent directly through the variable it was
\* assigned to, unless its key is not that name, or is the last part of a field, in
\* programs of any size and depth.
THEOREM ScannerIsRight == Spec => ScannerReportsUnsent
<1>1. ScannerInv /\ (scanner'.found \ scanner.found \subseteq Pending(scanner)) =>
        [\A e \in Reports(scanner) :
           \/ events[e].fate # "sent" \/ ~ events[e].direct
           \/ events[e].key # events[e].name \/ FiledByField(events[e].key)]_vars
  BY DEF ScannerInv, ScannerPendingRight, ScannerRight, Reports
<1>2. AnalyserInv /\ ScannerInv /\ [Next]_vars =>
        [\A e \in Reports(scanner) :
           \/ events[e].fate # "sent" \/ ~ events[e].direct
           \/ events[e].key # events[e].name \/ FiledByField(events[e].key)]_vars
  BY <1>1, ScannerStep
<1> QED
  BY <1>2, AnalyserInvariant, ScannerInvariant, PTL DEF Spec, ScannerReportsUnsent

-----------------------------------------------------------------------------
(* The scanner of FpConformance.  First, numbers. *)

\* A set of numbers that is not empty has a least one.
LEMMA Least ==
  ASSUME NEW S \in SUBSET Nat, S # {}
  PROVE  \E m \in S : \A s \in S : m <= s
<1> DEFINE T == {k \in Nat : \A s \in S : k <= s}
<1>1. PICK n \in S : n \in Nat
  OBVIOUS
<1>2. T \in SUBSET Nat /\ 0 \in T /\ \A k \in T : k <= n
  BY <1>1
<1>3. PICK m \in T : \A k \in T : k <= m
  <2> HIDE DEF T
  <2> QED
    BY <1>1, <1>2, Greatest
<1>4. CASE m \in S
  BY <1>3, <1>4
<1>5. CASE m \notin S
  <2>1. \A s \in S : m + 1 <= s
    BY <1>5
  <2>2. m + 1 \in T
    BY <2>1
  <2> QED
    BY <1>3, <2>2
<1> QED
  BY <1>4, <1>5

\* Earliest finds it.
LEMMA EarliestIs ==
  ASSUME NEW S \in SUBSET Nat, S # {}
  PROVE  Earliest(S) \in S /\ \A s \in S : Earliest(S) <= s
BY Least DEF Earliest

\* A set that holds a number, and with each number the next one, holds all.
LEMMA Climb ==
  ASSUME NEW a \in Nat, NEW b \in Nat, NEW S, a \in S,
         \A i \in a .. (b - 1) : i \in S => i + 1 \in S
  PROVE  \A i \in a .. b : i \in S
<1> DEFINE T == {i \in a .. b : i \notin S}
<1> SUFFICES ASSUME T # {}
             PROVE  FALSE
  OBVIOUS
<1>1. T \in SUBSET Nat
  OBVIOUS
<1>2. PICK m \in T : \A s \in T : m <= s
  <2> HIDE DEF T
  <2> QED
    BY <1>1, Least
<1>3. m # a /\ m \in a .. b
  BY <1>2
<1>4. m - 1 \in a .. (b - 1) /\ m - 1 \in a .. b
  BY <1>3
<1>5. m - 1 \in S
  BY <1>2, <1>4
<1>6. (m - 1) + 1 = m
  BY <1>3
<1> QED
  BY <1>2, <1>4, <1>5, <1>6

-----------------------------------------------------------------------------
(* The lexer. *)

\* What a line is.
LEMMA LineIs ==
  ASSUME NEW line \in Lines
  PROVE  /\ Len(line) \in Nat /\ Len(line) <= MaxLength /\ DOMAIN line = 1 .. Len(line)
         /\ line \in Seq(Chars) /\ \A i \in 1 .. Len(line) : line[i] \in Chars
<1>1. PICK n \in 0 .. MaxLength : line \in [1 .. n -> Chars]
  BY DEF Lines
<1>2. MaxLength \in Nat
  BY ScanBounds
<1>3. n \in Nat /\ n <= MaxLength
  BY <1>1, <1>2
<1>4. line \in Seq(Chars)
  BY <1>1, <1>3
<1>5. Len(line) = n
  BY <1>1, <1>3, <1>4, LenProperties
<1> QED
  BY <1>1, <1>3, <1>4, <1>5

\* The equation of the recursive function Modes.
LEMMA ModesEquation ==
  ASSUME NEW line \in Lines, NEW start
  PROVE  Modes(line, start) =
           [i \in 1 .. Len(line) + 1 |->
              IF i = 1 THEN start
              ELSE After(Modes(line, start)[i - 1], line[i - 1], At(line, i))]
<1> DEFINE n == Len(line)
           Step(g, i) == After(g[i - 1], line[i - 1], At(line, i))
           Is(g, k) == g = [i \in 1 .. k |-> IF i = 1 THEN start ELSE Step(g, i)]
           S == {k \in Nat : \E g : Is(g, k)}
<1>1. n \in Nat
  BY LineIs
<1>2. 1 \in S
  <2>1. Is([i \in 1 .. 1 |-> start], 1)
    OBVIOUS
  <2> HIDE DEF Is
  <2> QED
    BY <2>1
<1>3. ASSUME NEW k \in 1 .. n, k \in S
      PROVE  k + 1 \in S
  <2>1. PICK g : Is(g, k)
    BY <1>3
  <2> DEFINE h == [i \in 1 .. k + 1 |-> IF i = k + 1 THEN Step(g, i) ELSE g[i]]
  <2>2. k \in Nat /\ k + 1 # 1
    BY <1>1, <1>3
  <2>3. \A i \in 1 .. k : h[i] = g[i]
    BY <2>2
  <2>4. \A i \in 1 .. k + 1 : h[i] = IF i = 1 THEN start ELSE Step(h, i)
    <3> SUFFICES ASSUME NEW i \in 1 .. k + 1
                 PROVE  h[i] = IF i = 1 THEN start ELSE Step(h, i)
      OBVIOUS
    <3>1. CASE i = k + 1
      <4>1. i - 1 \in 1 .. k /\ i # 1
        BY <1>3, <2>2, <3>1
      <4>2. h[i - 1] = g[i - 1]
        BY <2>3, <4>1
      <4>3. h[i] = Step(g, i)
        BY <3>1
      <4> QED
        BY <4>1, <4>2, <4>3
    <3>2. CASE i # k + 1
      <4>1. i \in 1 .. k
        BY <2>2, <3>2
      <4>2. h[i] = g[i]
        BY <2>3, <4>1
      <4>3. g[i] = IF i = 1 THEN start ELSE Step(g, i)
        BY <2>1, <4>1
      <4>4. i # 1 => i - 1 \in 1 .. k
        BY <2>2, <4>1
      <4>5. i # 1 => h[i - 1] = g[i - 1]
        BY <2>3, <4>4
      <4> QED
        BY <4>2, <4>3, <4>5
    <3> QED
      BY <3>1, <3>2
  <2>5. Is(h, k + 1)
    <3>1. h = [i \in 1 .. k + 1 |-> h[i]]
      OBVIOUS
    <3> HIDE DEF h
    <3> QED
      BY <2>4, <3>1
  <2> HIDE DEF h, Is
  <2> QED
    BY <2>2, <2>5
<1>4. n + 1 \in S
  <2> HIDE DEF S
  <2>1. \A k \in 1 .. ((n + 1) - 1) : k \in S => k + 1 \in S
    BY <1>1, <1>3
  <2>2. n + 1 \in Nat /\ 1 \in Nat
    BY <1>1
  <2> HIDE DEF n
  <2>3. \A k \in 1 .. (n + 1) : k \in S
    BY <1>2, <2>1, <2>2, Climb
  <2> QED
    BY <1>1, <2>3
<1>5. \E g : Is(g, n + 1)
  BY <1>4
<1>6. Modes(line, start) = CHOOSE g : Is(g, n + 1)
  BY DEF Modes
<1> HIDE DEF Is
<1>7. Is(Modes(line, start), n + 1)
  BY <1>5, <1>6
<1> QED
  BY <1>7 DEF Is

\* The modes a line can be in.
AllModes == {"code", "line", "opening", "block", "closing", "string", "escaped"}
Outside == {"code", "line", "string", "escaped"}
InString == {"string", "escaped"}

\* After, by its cases.
LEMMA AfterIs ==
  ASSUME NEW c, NEW n
  PROVE  /\ After("code", c, n) = IF c = "/" /\ n = "/" THEN "line"
                                  ELSE IF c = "/" /\ n = "*" THEN "opening"
                                  ELSE IF c = "quote" THEN "string" ELSE "code"
         /\ After("line", c, n) = "line"
         /\ After("opening", c, n) = "block"
         /\ After("block", c, n) = IF c = "*" /\ n = "/" THEN "closing" ELSE "block"
         /\ After("closing", c, n) = "code"
         /\ After("string", c, n) = IF c = "backslash" THEN "escaped"
                                    ELSE IF c = "quote" THEN "code" ELSE "string"
         /\ After("escaped", c, n) = "string"
<1>1. After("code", c, n) = IF c = "/" /\ n = "/" THEN "line"
                            ELSE IF c = "/" /\ n = "*" THEN "opening"
                            ELSE IF c = "quote" THEN "string" ELSE "code"
  BY DEF After
<1>2. After("line", c, n) = "line" /\ After("opening", c, n) = "block"
  BY DEF After
<1>3. After("block", c, n) = IF c = "*" /\ n = "/" THEN "closing" ELSE "block"
  BY DEF After
<1>4. After("closing", c, n) = "code" /\ After("escaped", c, n) = "string"
  BY DEF After
<1>5. After("string", c, n) = IF c = "backslash" THEN "escaped"
                              ELSE IF c = "quote" THEN "code" ELSE "string"
  BY DEF After
<1> QED
  BY <1>1, <1>2, <1>3, <1>4, <1>5

\* The modes of a line, one after the other.
LEMMA ModesAre ==
  ASSUME NEW line \in Lines, NEW start \in {"code", "block"}
  PROVE  LET m == Modes(line, start) IN
         /\ m[1] = start
         /\ \A i \in 1 .. Len(line) : m[i + 1] = After(m[i], line[i], At(line, i + 1))
         /\ \A i \in 1 .. Len(line) + 1 : m[i] \in AllModes
<1> DEFINE m == Modes(line, start)
           n == Len(line)
<1>1. n \in Nat
  BY LineIs
<1>2. m = [i \in 1 .. n + 1 |-> IF i = 1 THEN start ELSE After(m[i - 1], line[i - 1], At(line, i))]
  BY ModesEquation
<1> HIDE DEF m, n
<1>3. m[1] = start
  BY <1>1, <1>2
<1>4. ASSUME NEW i \in 1 .. n
      PROVE  m[i + 1] = After(m[i], line[i], At(line, i + 1))
  <2>1. i + 1 \in 1 .. n + 1 /\ i + 1 # 1 /\ (i + 1) - 1 = i
    BY <1>1
  <2> QED
    BY <1>2, <2>1
<1>5. \A i \in 1 .. n + 1 : m[i] \in AllModes
  <2> DEFINE S == {i \in 1 .. n + 1 : m[i] \in AllModes}
  <2>1. 1 \in S
    BY <1>1, <1>3 DEF AllModes
  <2>2. ASSUME NEW i \in 1 .. ((n + 1) - 1), i \in S
        PROVE  i + 1 \in S
    <3>1. i \in 1 .. n /\ i + 1 \in 1 .. n + 1
      BY <1>1
    <3>2. m[i + 1] = After(m[i], line[i], At(line, i + 1))
      BY <1>4, <3>1
    <3>3. m[i] \in AllModes
      BY <2>2
    <3>4. After(m[i], line[i], At(line, i + 1)) \in AllModes
      BY <3>3, AfterIs DEF AllModes
    <3> QED
      BY <3>1, <3>2, <3>4
  <2> HIDE DEF S
  <2>3. \A i \in 1 .. (n + 1) : i \in S
    BY <1>1, <2>1, <2>2, Climb
  <2> QED
    BY <2>3 DEF S
<1> QED
  BY <1>3, <1>4, <1>5 DEF m, n

\* Two characters stand at a place when both are there.
LEMMA HasIs ==
  ASSUME NEW line \in Lines, NEW i \in 1 .. Len(line), NEW a, NEW b \in Chars
  PROVE  Has(line, i, a, b) <=> line[i] = a /\ i + 1 \in 1 .. Len(line) /\ line[i + 1] = b
<1>1. DOMAIN line = 1 .. Len(line)
  BY LineIs
<1>2. b # "end"
  BY DEF Chars
<1> QED
  BY <1>1, <1>2 DEF Has, At

\* The lexer's walk along a line, by the mode it is in.
Walk(m, line) ==
  /\ m[1] \in {"code", "block"}
  /\ \A i \in 1 .. Len(line) + 1 : m[i] \in AllModes
  /\ \A i \in 1 .. Len(line) :
       /\ m[i] = "code" => m[i + 1] = IF Has(line, i, "/", "/") THEN "line"
                                      ELSE IF Has(line, i, "/", "*") THEN "opening"
                                      ELSE IF line[i] = "quote" THEN "string" ELSE "code"
       /\ m[i] = "line" => m[i + 1] = "line"
       /\ m[i] = "opening" => m[i + 1] = "block"
       /\ m[i] = "block" => m[i + 1] = IF Has(line, i, "*", "/") THEN "closing" ELSE "block"
       /\ m[i] = "closing" => m[i + 1] = "code"
       /\ m[i] = "string" => m[i + 1] = IF line[i] = "backslash" THEN "escaped"
                                        ELSE IF line[i] = "quote" THEN "code" ELSE "string"
       /\ m[i] = "escaped" => m[i + 1] = "string"

\* The modes of a line are such a walk, from the mode it starts in.
LEMMA ModesWalk ==
  ASSUME NEW line \in Lines, NEW start \in {"code", "block"}
  PROVE  Walk(Modes(line, start), line) /\ Modes(line, start)[1] = start
<1> DEFINE m == Modes(line, start)
<1>1. /\ m[1] = start
      /\ \A i \in 1 .. Len(line) : m[i + 1] = After(m[i], line[i], At(line, i + 1))
      /\ \A i \in 1 .. Len(line) + 1 : m[i] \in AllModes
  BY ModesAre
<1> HIDE DEF m
<1>2. ASSUME NEW i \in 1 .. Len(line)
      PROVE  /\ m[i] = "code" => m[i + 1] = IF Has(line, i, "/", "/") THEN "line"
                                            ELSE IF Has(line, i, "/", "*") THEN "opening"
                                            ELSE IF line[i] = "quote" THEN "string" ELSE "code"
             /\ m[i] = "line" => m[i + 1] = "line"
             /\ m[i] = "opening" => m[i + 1] = "block"
             /\ m[i] = "block" => m[i + 1] = IF Has(line, i, "*", "/") THEN "closing" ELSE "block"
             /\ m[i] = "closing" => m[i + 1] = "code"
             /\ m[i] = "string" => m[i + 1] = IF line[i] = "backslash" THEN "escaped"
                                              ELSE IF line[i] = "quote" THEN "code" ELSE "string"
             /\ m[i] = "escaped" => m[i + 1] = "string"
  <2>1. m[i + 1] = After(m[i], line[i], At(line, i + 1))
    BY <1>1
  <2> QED
    BY <2>1, AfterIs DEF Has
<1> QED
  BY <1>1, <1>2 DEF Walk, m

\* A block comment goes on as long as no mark closes it ...
LEMMA BlockStays ==
  ASSUME NEW line \in Lines, NEW m, Walk(m, line),
         NEW a \in 1 .. Len(line) + 1, NEW b \in a .. Len(line) + 1,
         m[a] = "block", \A i \in a .. b - 1 : ~ Has(line, i, "*", "/")
  PROVE  \A i \in a .. b : m[i] = "block"
<1> DEFINE S == {i \in a .. b : m[i] = "block"}
<1>1. Len(line) \in Nat /\ a \in Nat /\ b \in Nat
  BY LineIs
<1>2. a \in S
  BY <1>1
<1>3. \A i \in a .. b - 1 : i \in S => i + 1 \in S
  BY <1>1 DEF Walk
<1> HIDE DEF S
<1>4. \A i \in a .. b : i \in S
  BY <1>1, <1>2, <1>3, Climb
<1> QED
  BY <1>4 DEF S

\* ... and the first one that does ends it.
LEMMA BlockCloses ==
  ASSUME NEW line \in Lines, NEW m, Walk(m, line), NEW i \in 1 .. Len(line),
         m[i] = "block", Has(line, i, "*", "/")
  PROVE  /\ i + 1 \in 1 .. Len(line) /\ i + 2 \in 1 .. Len(line) + 1
         /\ m[i + 1] = "closing" /\ m[i + 2] = "code"
<1>1. Len(line) \in Nat
  BY LineIs
<1>2. i + 1 \in 1 .. Len(line)
  BY HasIs DEF Chars
<1>3. m[i + 1] = "closing"
  BY DEF Walk
<1>4. m[(i + 1) + 1] = "code"
  BY <1>2, <1>3 DEF Walk
<1>5. (i + 1) + 1 = i + 2 /\ i + 2 \in 1 .. Len(line) + 1
  BY <1>1, <1>2
<1> QED
  BY <1>2, <1>3, <1>4, <1>5

\* Code, line comments and strings follow each other until a block opens.
LEMMA OutsideStays ==
  ASSUME NEW line \in Lines, NEW m, Walk(m, line),
         NEW a \in 1 .. Len(line) + 1, NEW b \in a .. Len(line) + 1,
         m[a] \in Outside, \A i \in a .. b - 1 : ~ (m[i] = "code" /\ Has(line, i, "/", "*"))
  PROVE  \A i \in a .. b : m[i] \in Outside
<1> DEFINE S == {i \in a .. b : m[i] \in Outside}
<1>1. Len(line) \in Nat /\ a \in Nat /\ b \in Nat
  BY LineIs
<1>2. a \in S
  BY <1>1
<1>3. ASSUME NEW i \in a .. b - 1, i \in S
      PROVE  i + 1 \in S
  <2>1. i \in 1 .. Len(line) /\ i + 1 \in a .. b /\ m[i] \in Outside
    BY <1>1, <1>3
  <2>2. m[i + 1] \in Outside
    BY <2>1 DEF Walk, Outside
  <2> QED
    BY <2>1, <2>2
<1> HIDE DEF S
<1>4. \A i \in a .. b : i \in S
  BY <1>1, <1>2, <1>3, Climb
<1> QED
  BY <1>4 DEF S

\* A line comment goes on to the end of the line.
LEMMA LineStays ==
  ASSUME NEW line \in Lines, NEW m, Walk(m, line),
         NEW a \in 1 .. Len(line) + 1, m[a] = "line"
  PROVE  \A i \in a .. Len(line) + 1 : m[i] = "line"
<1> DEFINE b == Len(line) + 1
           S == {i \in a .. b : m[i] = "line"}
<1>1. Len(line) \in Nat /\ a \in Nat /\ b \in Nat
  BY LineIs
<1>2. a \in S
  BY <1>1
<1>3. \A i \in a .. b - 1 : i \in S => i + 1 \in S
  BY <1>1 DEF Walk
<1> HIDE DEF S
<1>4. \A i \in a .. b : i \in S
  BY <1>1, <1>2, <1>3, Climb
<1> QED
  BY <1>4 DEF S

\* Two slashes in code start it.
LEMMA LineStarts ==
  ASSUME NEW line \in Lines, NEW m, Walk(m, line),
         NEW b \in 1 .. Len(line) + 1, m[b] = "line"
  PROVE  \E i \in 1 .. b - 1 : m[i] = "code" /\ Has(line, i, "/", "/")
<1> SUFFICES ASSUME \A i \in 1 .. b - 1 : ~ (m[i] = "code" /\ Has(line, i, "/", "/"))
             PROVE  FALSE
  OBVIOUS
<1> DEFINE S == {i \in 1 .. b : m[i] # "line"}
<1>1. Len(line) \in Nat /\ b \in Nat /\ 1 \in Nat
  BY LineIs
<1>2. 1 \in S
  BY DEF Walk
<1>3. ASSUME NEW i \in 1 .. b - 1, i \in S
      PROVE  i + 1 \in S
  <2>1. i \in 1 .. Len(line) /\ i + 1 \in 1 .. b /\ m[i] # "line" /\ m[i] \in AllModes
    BY <1>1, <1>3 DEF Walk
  <2>2. m[i + 1] # "line"
    BY <2>1 DEF Walk, AllModes
  <2> QED
    BY <2>1, <2>2
<1> HIDE DEF S
<1>4. \A i \in 1 .. b : i \in S
  BY <1>1, <1>2, <1>3, Climb
<1> QED
  BY <1>4 DEF S

\* Code is left by a mark or a quote only: no string without a quote in code.
LEMMA QuietStays ==
  ASSUME NEW line \in Lines, NEW m, Walk(m, line),
         NEW a \in 1 .. Len(line) + 1, NEW b \in a .. Len(line) + 1,
         m[a] \notin InString, \A i \in a .. b - 1 : ~ (m[i] = "code" /\ line[i] = "quote")
  PROVE  \A i \in a .. b : m[i] \notin InString
<1> DEFINE S == {i \in a .. b : m[i] \notin InString}
<1>1. Len(line) \in Nat /\ a \in Nat /\ b \in Nat
  BY LineIs
<1>2. a \in S
  BY <1>1
<1>3. ASSUME NEW i \in a .. b - 1, i \in S
      PROVE  i + 1 \in S
  <2>1. i \in 1 .. Len(line) /\ i + 1 \in a .. b /\ m[i] \notin InString /\ m[i] \in AllModes
    BY <1>1, <1>3 DEF Walk
  <2>2. m[i + 1] \notin InString
    BY <2>1 DEF Walk, InString, AllModes
  <2> QED
    BY <2>1, <2>2
<1> HIDE DEF S
<1>4. \A i \in a .. b : i \in S
  BY <1>1, <1>2, <1>3, Climb
<1> QED
  BY <1>4 DEF S

\* The second character of a mark that closes a comment is a slash.
LEMMA ClosingIsSlash ==
  ASSUME NEW line \in Lines, NEW m, Walk(m, line), NEW i \in 1 .. Len(line), m[i] = "closing"
  PROVE  line[i] = "/"
<1>1. Len(line) \in Nat /\ i # 1
  BY LineIs DEF Walk
<1>2. i - 1 \in 1 .. Len(line) /\ i - 1 \in 1 .. Len(line) + 1 /\ (i - 1) + 1 = i
  BY <1>1
<1>3. m[i - 1] = "block" /\ Has(line, i - 1, "*", "/")
  BY <1>2 DEF Walk, AllModes
<1> QED
  BY <1>2, <1>3, HasIs DEF Chars

\* A string that starts in code ends before any place that is in no string.
LEMMA StringCloses ==
  ASSUME NEW line \in Lines, NEW m, Walk(m, line), NEW a \in 1 .. Len(line),
         m[a] = "code", line[a] = "quote",
         NEW e \in a + 1 .. Len(line) + 1, m[e] \notin InString
  PROVE  /\ m[a + 1] = "string"
         /\ \E b \in a + 1 .. e - 1 :
              /\ m[b] = "string" /\ line[b] = "quote" /\ m[b + 1] = "code"
              /\ \A i \in a + 1 .. b : m[i] \in InString
<1> DEFINE S == {i \in a + 1 .. e : m[i] \notin InString}
<1>1. Len(line) \in Nat /\ a \in Nat /\ e \in Nat
  BY LineIs
<1>2. m[a + 1] = "string"
  BY HasIs DEF Walk, Chars
<1>3. S \in SUBSET Nat /\ e \in S
  BY <1>1
<1>4. PICK x \in S : \A s \in S : x <= s
  <2> HIDE DEF S
  <2> QED
    BY <1>3, Least
<1>5. x # a + 1
  BY <1>2 DEF InString
<1>6. /\ x - 1 \in a + 1 .. e - 1 /\ x - 1 \in 1 .. Len(line) /\ x - 1 \in 1 .. Len(line) + 1
      /\ (x - 1) + 1 = x
  BY <1>1, <1>5
<1>7. \A i \in a + 1 .. x - 1 : m[i] \in InString
  BY <1>1, <1>4
<1>8. m[x - 1] \in InString /\ m[x] \notin InString
  BY <1>6, <1>7
<1>9. m[x - 1] = "string" /\ line[x - 1] = "quote" /\ m[x] = "code"
  BY <1>6, <1>8 DEF Walk, InString
<1> QED
  BY <1>2, <1>6, <1>7, <1>9

\* The backslashes right before a place, back to where the string starts.
RunOf(tx, i, k) == {j \in i + 1 .. k - 1 : \A l \in j .. k - 1 : tx[l].c = "backslash"}
EndsIn(tx, i, k) == tx[k].c = "quote" /\ Cardinality(RunOf(tx, i, k)) % 2 = 0

\* One more backslash makes the run longer, any other character ends it.
LEMMA RunGrows ==
  ASSUME NEW tx, NEW i \in Nat, NEW k \in Nat, i < k
  PROVE  /\ Cardinality(RunOf(tx, i, i + 1)) = 0
         /\ Cardinality(RunOf(tx, i, k)) \in Nat
         /\ Cardinality(RunOf(tx, i, k + 1)) =
              IF tx[k].c = "backslash" THEN Cardinality(RunOf(tx, i, k)) + 1 ELSE 0
<1>1. RunOf(tx, i, i + 1) = {}
  BY DEF RunOf
<1>2. IsFiniteSet(RunOf(tx, i, k))
  <2>1. IsFiniteSet(i + 1 .. k - 1)
    BY FS_Interval
  <2>2. RunOf(tx, i, k) \subseteq i + 1 .. k - 1
    BY DEF RunOf
  <2> QED
    BY <2>1, <2>2, FS_Subset
<1>3. k \notin RunOf(tx, i, k)
  BY DEF RunOf
<1>4. CASE tx[k].c = "backslash"
  <2>1. RunOf(tx, i, k + 1) = RunOf(tx, i, k) \cup {k}
    <3>1. ASSUME NEW j \in RunOf(tx, i, k + 1), j # k
          PROVE  j \in RunOf(tx, i, k)
      BY <3>1 DEF RunOf
    <3>2. ASSUME NEW j \in RunOf(tx, i, k)
          PROVE  j \in RunOf(tx, i, k + 1)
      BY <1>4 DEF RunOf
    <3>3. k \in RunOf(tx, i, k + 1)
      BY <1>4 DEF RunOf
    <3> QED
      BY <3>1, <3>2, <3>3
  <2>2. Cardinality(RunOf(tx, i, k)) \in Nat
    BY <1>2, FS_CardinalityType
  <2>3. Cardinality(RunOf(tx, i, k + 1)) = Cardinality(RunOf(tx, i, k)) + 1
    BY <1>2, <1>3, <2>1, FS_AddElement
  <2>4. Cardinality(RunOf(tx, i, i + 1)) = 0
    BY <1>1, FS_EmptySet
  <2> QED
    BY <1>4, <2>2, <2>3, <2>4
<1>5. CASE tx[k].c # "backslash"
  <2>1. RunOf(tx, i, k + 1) = {}
    BY <1>5 DEF RunOf
  <2> QED
    BY <1>1, <1>2, <1>5, <2>1, FS_EmptySet, FS_CardinalityType
<1> QED
  BY <1>4, <1>5

\* Half of the numbers are even.
LEMMA EvenOdd ==
  ASSUME NEW n \in Nat
  PROVE  0 % 2 = 0 /\ ((n + 1) % 2 = 0 <=> n % 2 # 0)
OBVIOUS

\* The text holds a string of the line, its places shifted by d.
Copies(tx, d, line, m, a, b) ==
  \A i \in a + 1 .. b : m[i] \in InString /\ tx[i + d].c = line[i]

\* In a string an even run of backslashes says that the next character is not
\* escaped: the regular expression and the lexer agree.
LEMMA StringParity ==
  ASSUME NEW line \in Lines, NEW m, Walk(m, line), NEW tx, NEW d \in Int,
         NEW a \in 1 .. Len(line), a + d >= 1, NEW b \in a + 1 .. Len(line),
         m[a + 1] = "string",
         Copies(tx, d, line, m, a, b)
  PROVE  \A k \in a + 1 .. b :
           m[k] = "string" <=> Cardinality(RunOf(tx, a + d, k + d)) % 2 = 0
<1> DEFINE Count(k) == Cardinality(RunOf(tx, a + d, k + d))
           S == {k \in a + 1 .. b : m[k] = "string" <=> Count(k) % 2 = 0}
<1>1. Len(line) \in Nat /\ a \in Nat /\ b \in Nat /\ a + 1 \in Nat /\ a + d \in Nat
  BY LineIs
<1>2. a + 1 \in S
  <2>1. (a + 1) + d = (a + d) + 1 /\ a + d < (a + d) + 1 /\ (a + d) + 1 \in Nat
    BY <1>1
  <2>2. Cardinality(RunOf(tx, a + d, (a + d) + 1)) = 0
    BY <1>1, <2>1, RunGrows
  <2>3. Count(a + 1) = 0
    BY <2>1, <2>2
  <2> QED
    BY <1>1, <2>3
<1>3. ASSUME NEW k \in a + 1 .. b - 1, k \in S
      PROVE  k + 1 \in S
  <2>1. /\ k \in 1 .. Len(line) /\ k \in a + 1 .. b /\ k + 1 \in a + 1 .. b
        /\ k + d \in Nat /\ a + d < k + d /\ (k + 1) + d = (k + d) + 1
    BY <1>1
  <2>2. Count(k) \in Nat /\ Count(k + 1) = IF tx[k + d].c = "backslash" THEN Count(k) + 1 ELSE 0
    <3>1. PICK x \in Nat, y \in Nat : x = a + d /\ y = k + d /\ x < y
      BY <1>1, <2>1
    <3>2. /\ Cardinality(RunOf(tx, x, y)) \in Nat
          /\ Cardinality(RunOf(tx, x, y + 1)) =
               IF tx[y].c = "backslash" THEN Cardinality(RunOf(tx, x, y)) + 1 ELSE 0
      BY <3>1, RunGrows
    <3> QED
      BY <2>1, <3>1, <3>2
  <2>3. tx[k + d].c = line[k] /\ m[k] \in InString /\ m[k + 1] \in InString
    BY <2>1 DEF Copies
  <2>4. m[k] = "string" <=> Count(k) % 2 = 0
    BY <1>3
  <2> HIDE DEF Count
  <2>5. m[k + 1] = "string" <=> ~ (m[k] = "string" /\ line[k] = "backslash")
    BY <2>1, <2>3 DEF Walk, InString
  <2>6. Count(k + 1) % 2 = 0 <=> ~ (Count(k) % 2 = 0 /\ line[k] = "backslash")
    <3>1. 0 % 2 = 0 /\ ((Count(k) + 1) % 2 = 0 <=> Count(k) % 2 # 0)
      BY <2>2, EvenOdd
    <3> QED
      BY <2>2, <2>3, <3>1
  <2> QED
    BY <2>1, <2>4, <2>5, <2>6
<1> HIDE DEF S
<1>4. \A k \in a + 1 .. b : k \in S
  BY <1>1, <1>2, <1>3, Climb
<1> QED
  BY <1>4 DEF S

\* Where the lexer ends a string, the regular expression does, and not before.
LEMMA StringEnds ==
  ASSUME NEW line \in Lines, NEW m, Walk(m, line), NEW tx, NEW d \in Int,
         NEW a \in 1 .. Len(line), a + d >= 1, NEW b \in a + 1 .. Len(line),
         m[a + 1] = "string", m[b] = "string", line[b] = "quote",
         Copies(tx, d, line, m, a, b)
  PROVE  EndsIn(tx, a + d, b + d) /\ \A k \in a + 1 .. b - 1 : ~ EndsIn(tx, a + d, k + d)
<1>1. Len(line) \in Nat /\ a \in Nat /\ b \in Nat
  BY LineIs
<1>2. \A k \in a + 1 .. b : m[k] = "string" <=> Cardinality(RunOf(tx, a + d, k + d)) % 2 = 0
  BY StringParity
<1>3. EndsIn(tx, a + d, b + d)
  <2>1. b \in a + 1 .. b
    BY <1>1
  <2>2. tx[b + d].c = "quote" /\ Cardinality(RunOf(tx, a + d, b + d)) % 2 = 0
    BY <1>2, <2>1 DEF Copies
  <2> QED
    BY <2>2 DEF EndsIn
<1>4. ASSUME NEW k \in a + 1 .. b - 1, EndsIn(tx, a + d, k + d)
      PROVE  FALSE
  <2>1. k \in 1 .. Len(line) /\ k \in a + 1 .. b /\ k + 1 \in a + 1 .. b
    BY <1>1
  <2>2. line[k] = "quote" /\ m[k] = "string"
    BY <1>2, <1>4, <2>1 DEF EndsIn, Copies
  <2> QED
    BY <2>1, <2>2 DEF Walk, InString, Copies
<1> QED
  BY <1>3, <1>4

-----------------------------------------------------------------------------
(* What is left of a line after each replacement. *)

SameAt(line, tx, i, j) == tx[i] = [c |-> line[j], at |-> j]
BlankAt(tx, i) == tx[i] = [c |-> "blank", at |-> 0]
MarksOf(tx, a, b) == {i \in 1 .. Len(tx) - 1 : tx[i].c = a /\ tx[i + 1].c = b}
ShownIn(tx) == {tx[i].at : i \in DOMAIN tx} \ {0}

\* No block comment ...
Shows(line, m, j) == m[j] \in Outside /\ ~ (m[j] = "code" /\ Has(line, j, "/", "*"))
\* ... and no line comment either.
Remains(line, m, j) ==
  Shows(line, m, j) /\ m[j] # "line" /\ ~ (m[j] = "code" /\ Has(line, j, "/", "/"))

\* The line has not been touched, and starts in a block comment.
Untouched(line, start, block, tx) ==
  /\ block /\ start = "block" /\ Len(tx) = Len(line)
  /\ \A i \in 1 .. Len(line) : SameAt(line, tx, i, i)

\* The block comments before q are blanked, and nothing else.
BlankedTo(line, m, tx, q) ==
  /\ m[q] = "code" /\ (q > 1 => BlankAt(tx, q - 1))
  /\ \A i \in 1 .. q - 1 : IF Shows(line, m, i) THEN SameAt(line, tx, i, i) ELSE BlankAt(tx, i)
  /\ \A i \in q .. Len(line) : SameAt(line, tx, i, i)

Unblocked(line, start, block, tx) ==
  /\ ~ block /\ Len(tx) = Len(line)
  /\ \E q \in 1 .. Len(line) + 1 : BlankedTo(line, Modes(line, start), tx, q)

\* All block comments are blanked, and a block that stays open is cut off.
Bare(line, start, block, tx) ==
  LET m == Modes(line, start) IN
  /\ Len(tx) <= Len(line) /\ block = (m[Len(line) + 1] = "block")
  /\ Len(tx) < Len(line) => m[Len(tx) + 1] = "code"
  /\ \A i \in 1 .. Len(tx) : IF Shows(line, m, i) THEN SameAt(line, tx, i, i) ELSE BlankAt(tx, i)
  /\ \A i \in Len(tx) + 1 .. Len(line) : i \notin CodeAt(line, start)

\* The line comment is cut off at t, and the strings before p are masked.
MaskedTo(line, start, m, tx, at, p, t) ==
  /\ p - 1 <= t /\ at \in 1 .. p /\ Len(tx) - at = t - p
  /\ m[p] \notin InString /\ m[t + 1] \notin InString
  /\ \A j \in p .. t : IF Remains(line, m, j) THEN SameAt(line, tx, at + (j - p), j)
                                              ELSE BlankAt(tx, at + (j - p))
  /\ {tx[i].at : i \in 1 .. at - 1} \ {0} = {j \in CodeAt(line, start) : j < p}
  /\ \A i \in t + 1 .. Len(line) : i \notin CodeAt(line, start)

Masked(line, start, block, tx, at) ==
  LET m == Modes(line, start) IN
  /\ block = (m[Len(line) + 1] = "block")
  /\ \E p \in 1 .. Len(line) + 1, t \in 0 .. Len(line) : MaskedTo(line, start, m, tx, at, p, t)

Exactly(line, start, block, tx) ==
  ShownIn(tx) = CodeAt(line, start) /\ block = (End(line, start) = "block")

\* What a line without a trap has, and what its code is.
LEMMA NoTrap ==
  ASSUME NEW line \in Lines, NEW start, ~ Trap(line, start), NEW i \in 1 .. Len(line)
  PROVE  LET m == Modes(line, start) IN
         /\ Has(line, i, "/", "*") => m[i] \notin {"string", "escaped", "line"}
         /\ Has(line, i, "/", "/") /\ m[i] \in {"string", "escaped"} => AfterColon(line, i)
         /\ Has(line, i, "/", "/") /\ m[i] = "code" => ~ AfterColon(line, i)
<1>1. i \in DOMAIN line
  BY LineIs
<1> QED
  BY <1>1 DEF Trap

\* What the code of a line is.
LEMMA CodeIs ==
  ASSUME NEW line \in Lines, NEW start
  PROVE  LET m == Modes(line, start) IN
         \A i : i \in CodeAt(line, start) <=>
                  /\ i \in 1 .. Len(line) /\ m[i] = "code" /\ line[i] # "quote"
                  /\ ~ Has(line, i, "/", "/") /\ ~ Has(line, i, "/", "*")
<1>1. DOMAIN line = 1 .. Len(line)
  BY LineIs
<1> QED
  BY <1>1 DEF CodeAt, Has

\* The fields of a kept cell and of a blank one.
LEMMA CellIs ==
  ASSUME NEW line, NEW tx, NEW i, NEW j
  PROVE  /\ SameAt(line, tx, i, j) => tx[i].c = line[j] /\ tx[i].at = j
         /\ BlankAt(tx, i) => tx[i].c = "blank" /\ tx[i].at = 0
<1>1. SameAt(line, tx, i, j) => tx[i].c = line[j] /\ tx[i].at = j
  BY DEF SameAt
<1>2. BlankAt(tx, i) => tx[i].c = "blank" /\ tx[i].at = 0
  BY DEF BlankAt
<1> QED
  BY <1>1, <1>2

\* A line in a block comment that does not close is no code.
LEMMA StaysInside ==
  ASSUME NEW line \in Lines, NEW start \in {"code", "block"}, NEW block, NEW tx,
         Untouched(line, start, block, tx), MarksOf(tx, "*", "/") = {}
  PROVE  Exactly(line, start, block, <<>>)
<1> DEFINE m == Modes(line, start)
           n == Len(line)
<1>1. n \in Nat
  BY LineIs
<1>2. Walk(m, line) /\ m[1] = "block"
  BY ModesWalk DEF Untouched
<1>3. \A i \in CodeAt(line, start) : i \in 1 .. n /\ m[i] = "code"
  BY CodeIs
<1>4. End(line, start) = m[n + 1]
  BY DEF End
<1>4a. \A i \in 1 .. n : tx[i].c = line[i]
  BY CellIs DEF Untouched
<1> HIDE DEF m
<1>5. ASSUME NEW i \in 1 .. n, Has(line, i, "*", "/")
      PROVE  FALSE
  <2>1. line[i] = "*" /\ i + 1 \in 1 .. n /\ line[i + 1] = "/"
    BY <1>5, HasIs DEF Chars
  <2>2. tx[i].c = "*" /\ tx[i + 1].c = "/"
    BY <1>1, <1>4a, <2>1
  <2>3. i \in MarksOf(tx, "*", "/")
    BY <1>1, <2>1, <2>2 DEF MarksOf, Untouched
  <2> QED
    BY <2>3
<1>6. \A i \in 1 .. n + 1 : m[i] = "block"
  <2>1. 1 \in 1 .. n + 1 /\ n + 1 \in 1 .. n + 1 /\ (n + 1) - 1 = n
    BY <1>1
  <2> QED
    BY <1>2, <1>5, <2>1, BlockStays
<1>7. CodeAt(line, start) = {}
  BY <1>1, <1>3, <1>6
<1>8. ShownIn(<<>>) = {}
  BY DEF ShownIn
<1>9. m[n + 1] = "block"
  BY <1>1, <1>6
<1> QED
  BY <1>4, <1>7, <1>8, <1>9 DEF Exactly, Untouched

\* Leaving a block comment blanks the line up to the mark that closes it.
LEMMA LeavesBlock ==
  ASSUME NEW line \in Lines, NEW start \in {"code", "block"}, NEW block, NEW tx,
         Untouched(line, start, block, tx),
         NEW c \in MarksOf(tx, "*", "/"), \A i \in MarksOf(tx, "*", "/") : c <= i,
         NEW new, Len(new) = Len(tx), \A i \in 1 .. c + 1 : BlankAt(new, i),
         \A i \in c + 2 .. Len(tx) : new[i] = tx[i]
  PROVE  Unblocked(line, start, FALSE, new)
<1> DEFINE m == Modes(line, start)
           n == Len(line)
<1>1. n \in Nat /\ Len(tx) = n
  BY LineIs DEF Untouched
<1>2. Walk(m, line) /\ m[1] = "block"
  BY ModesWalk DEF Untouched
<1>2a. \A i \in 1 .. n : tx[i].c = line[i]
  BY CellIs DEF Untouched
<1> HIDE DEF m
<1>3. c \in 1 .. n /\ c + 1 \in 1 .. n /\ Has(line, c, "*", "/")
  <2>1. c \in 1 .. n /\ c + 1 \in 1 .. n /\ tx[c].c = "*" /\ tx[c + 1].c = "/"
    BY <1>1 DEF MarksOf
  <2>2. line[c] = "*" /\ line[c + 1] = "/"
    BY <1>1, <1>2a, <2>1
  <2> QED
    BY <2>1, <2>2, HasIs DEF Chars
<1>4. ASSUME NEW i \in 1 .. c - 1, Has(line, i, "*", "/")
      PROVE  FALSE
  <2>0. i \in 1 .. n
    BY <1>1, <1>3
  <2>1. line[i] = "*" /\ i + 1 \in 1 .. n /\ line[i + 1] = "/"
    BY <1>4, <2>0, HasIs DEF Chars
  <2>2. tx[i].c = "*" /\ tx[i + 1].c = "/"
    BY <1>1, <1>2a, <2>0, <2>1
  <2>3. i \in MarksOf(tx, "*", "/")
    BY <1>1, <2>0, <2>1, <2>2 DEF MarksOf
  <2> QED
    BY <1>3, <2>0, <2>3
<1>5. \A i \in 1 .. c : m[i] = "block"
  <2>1. 1 \in 1 .. n + 1 /\ c \in 1 .. n + 1
    BY <1>1, <1>3
  <2> QED
    BY <1>2, <1>4, <2>1, BlockStays
<1>6. m[c] = "block"
  BY <1>3, <1>5
<1>7. c + 2 \in 1 .. n + 1 /\ m[c + 1] = "closing" /\ m[c + 2] = "code"
  BY <1>2, <1>3, <1>6, BlockCloses
<1>8. \A i \in 1 .. (c + 2) - 1 : m[i] \in {"block", "closing"}
  BY <1>3, <1>5, <1>7
<1>9. BlankedTo(line, m, new, c + 2)
  <2>1. \A i \in 1 .. (c + 2) - 1 : BlankAt(new, i) /\ ~ Shows(line, m, i)
    BY <1>3, <1>8 DEF Shows, Outside
  <2>2. \A i \in c + 2 .. n : SameAt(line, new, i, i)
    BY <1>1, <1>3 DEF Untouched, SameAt
  <2>3. BlankAt(new, (c + 2) - 1)
    BY <1>3
  <2> QED
    BY <1>7, <2>1, <2>2, <2>3 DEF BlankedTo
<1> QED
  BY <1>1, <1>7, <1>9 DEF Unblocked, m

\* The first mark that opens a block in what is left opens one in the line, and
\* what lies before it is as it should be.
LEMMA OpensInCode ==
  ASSUME NEW line \in Lines, NEW start \in {"code", "block"}, ~ Trap(line, start), NEW tx,
         Len(tx) = Len(line), NEW q \in 1 .. Len(line) + 1,
         BlankedTo(line, Modes(line, start), tx, q),
         NEW o \in MarksOf(tx, "/", "*"), \A i \in MarksOf(tx, "/", "*") : o <= i
  PROVE  LET m == Modes(line, start) IN
         /\ o \in 1 .. Len(line) /\ q <= o /\ m[o] = "code" /\ Has(line, o, "/", "*")
         /\ \A i \in 1 .. o - 1 : IF Shows(line, m, i) THEN SameAt(line, tx, i, i)
                                                      ELSE BlankAt(tx, i)
<1> DEFINE m == Modes(line, start)
           n == Len(line)
<1>1. n \in Nat /\ Len(tx) = n
  BY LineIs
<1>2. Walk(m, line)
  BY ModesWalk
<1>3. \A i \in 1 .. n : Has(line, i, "/", "*") => m[i] \notin {"string", "escaped", "line"}
  BY NoTrap
<1> HIDE DEF m
<1>4. o \in 1 .. n /\ o + 1 \in 1 .. n /\ tx[o].c = "/" /\ tx[o + 1].c = "*"
  BY <1>1 DEF MarksOf
<1>5. /\ \A i \in 1 .. q - 1 : IF Shows(line, m, i) THEN SameAt(line, tx, i, i) ELSE BlankAt(tx, i)
      /\ \A i \in q .. n : SameAt(line, tx, i, i)
      /\ m[q] = "code" /\ (q > 1 => BlankAt(tx, q - 1))
  BY DEF BlankedTo, m
<1>6. \A i \in 1 .. n : tx[i].c = line[i] \/ BlankAt(tx, i)
  BY <1>1, <1>5, CellIs
<1>7. \A i \in 1 .. n : BlankAt(tx, i) => tx[i].c = "blank"
  BY CellIs
<1>8. line[o] = "/" /\ line[o + 1] = "*"
  BY <1>4, <1>6, <1>7
<1>9. Has(line, o, "/", "*")
  BY <1>4, <1>8, HasIs DEF Chars
<1>10. q <= o
  <2> SUFFICES ASSUME o < q
               PROVE  FALSE
    BY <1>4
  <2>1. o \in 1 .. q - 1
    BY <1>4
  <2>2. ~ BlankAt(tx, o)
    BY <1>4, <1>7
  <2>3. Shows(line, m, o)
    BY <1>5, <2>1, <2>2
  <2> QED
    BY <1>3, <1>4, <1>9, <2>3 DEF Shows, Outside
<1>11. ASSUME NEW i \in q .. o - 1, Has(line, i, "/", "*")
       PROVE  FALSE
  <2>1. i \in 1 .. n /\ i \in q .. n
    BY <1>1, <1>4
  <2>2. line[i] = "/" /\ i + 1 \in 1 .. n /\ line[i + 1] = "*"
    BY <1>11, <2>1, HasIs DEF Chars
  <2>3. i + 1 \in q .. n
    BY <2>1, <2>2
  <2>4. tx[i].c = "/" /\ tx[i + 1].c = "*"
    BY <1>5, <2>1, <2>2, <2>3, CellIs
  <2>5. i \in MarksOf(tx, "/", "*")
    BY <1>1, <2>1, <2>2, <2>4 DEF MarksOf
  <2> QED
    BY <1>4, <2>1, <2>5
<1>12. \A i \in q .. o : m[i] \in Outside
  <2>1. o \in q .. n + 1 /\ m[q] \in Outside
    BY <1>4, <1>5, <1>10 DEF Outside
  <2> QED
    BY <1>2, <1>11, <2>1, OutsideStays
<1>13. m[o] = "code"
  BY <1>3, <1>4, <1>9, <1>10, <1>12 DEF Outside
<1>14. \A i \in q .. o - 1 : Shows(line, m, i) /\ SameAt(line, tx, i, i)
  BY <1>4, <1>5, <1>11, <1>12 DEF Shows
<1>15. \A i \in 1 .. o - 1 : IF Shows(line, m, i) THEN SameAt(line, tx, i, i) ELSE BlankAt(tx, i)
  <2> SUFFICES ASSUME NEW i \in 1 .. o - 1
               PROVE  IF Shows(line, m, i) THEN SameAt(line, tx, i, i) ELSE BlankAt(tx, i)
    OBVIOUS
  <2>1. CASE i < q
    BY <1>5, <2>1
  <2>2. CASE q <= i
    BY <1>14, <2>2
  <2> QED
    BY <2>1, <2>2
<1> QED
  BY <1>4, <1>9, <1>10, <1>13, <1>15 DEF m

\* After a mark that opens a block, the block goes on as long as it is not closed.
LEMMA OpenedStays ==
  ASSUME NEW line \in Lines, NEW m, Walk(m, line), NEW o \in 1 .. Len(line),
         m[o] = "code", Has(line, o, "/", "*"),
         NEW b \in o + 2 .. Len(line) + 1, \A i \in o + 2 .. b - 1 : ~ Has(line, i, "*", "/")
  PROVE  m[o + 1] = "opening" /\ \A i \in o + 2 .. b : m[i] = "block"
<1>1. Len(line) \in Nat
  BY LineIs
<1>2. line[o] = "/" /\ o + 1 \in 1 .. Len(line) /\ line[o + 1] = "*"
  BY HasIs DEF Chars
<1>3. ~ Has(line, o, "/", "/")
  BY <1>2, HasIs DEF Chars
<1>4. m[o + 1] = "opening"
  BY <1>3 DEF Walk
<1>5. m[(o + 1) + 1] = "block"
  BY <1>2, <1>4 DEF Walk
<1>6. (o + 1) + 1 = o + 2 /\ o + 2 \in 1 .. Len(line) + 1 /\ b \in o + 2 .. Len(line) + 1
  BY <1>1, <1>2
<1>7. \A i \in o + 2 .. b : m[i] = "block"
  BY <1>5, <1>6, BlockStays
<1> QED
  BY <1>4, <1>7

\* A comment that closes on its line is blanked, and nothing else.
LEMMA RemovesInline ==
  ASSUME NEW line \in Lines, NEW start \in {"code", "block"}, ~ Trap(line, start),
         NEW block, NEW tx, Unblocked(line, start, block, tx),
         NEW o \in MarksOf(tx, "/", "*"), \A i \in MarksOf(tx, "/", "*") : o <= i,
         NEW c \in MarksOf(tx, "*", "/"), c > o + 1,
         \A i \in MarksOf(tx, "*", "/") : i > o + 1 => c <= i,
         NEW new, Len(new) = Len(tx), \A i \in 1 .. o - 1 : new[i] = tx[i],
         \A i \in o .. c + 1 : BlankAt(new, i), \A i \in c + 2 .. Len(tx) : new[i] = tx[i]
  PROVE  Unblocked(line, start, block, new)
<1> DEFINE m == Modes(line, start)
           n == Len(line)
<1>1. n \in Nat /\ Len(tx) = n /\ ~ block
  BY LineIs DEF Unblocked
<1>2. Walk(m, line)
  BY ModesWalk
<1>3. PICK q \in 1 .. n + 1 : BlankedTo(line, m, tx, q)
  BY DEF Unblocked
<1>4. /\ o \in 1 .. n /\ q <= o /\ m[o] = "code" /\ Has(line, o, "/", "*")
      /\ \A i \in 1 .. o - 1 : IF Shows(line, m, i) THEN SameAt(line, tx, i, i)
                                                   ELSE BlankAt(tx, i)
  BY <1>1, <1>3, OpensInCode
<1> HIDE DEF m
<1>5. \A i \in q .. n : SameAt(line, tx, i, i) /\ tx[i].c = line[i]
  BY <1>3, CellIs DEF BlankedTo
<1>6. c \in 1 .. n /\ c + 1 \in 1 .. n /\ Has(line, c, "*", "/")
  <2>1. c \in 1 .. n /\ c + 1 \in 1 .. n /\ tx[c].c = "*" /\ tx[c + 1].c = "/"
    BY <1>1 DEF MarksOf
  <2>2. c \in q .. n /\ c + 1 \in q .. n
    BY <1>4, <2>1
  <2>3. line[c] = "*" /\ line[c + 1] = "/"
    BY <1>5, <2>1, <2>2
  <2> QED
    BY <2>1, <2>3, HasIs DEF Chars
<1>7. ASSUME NEW i \in o + 2 .. c - 1, Has(line, i, "*", "/")
      PROVE  FALSE
  <2>1. i \in 1 .. n /\ i \in q .. n
    BY <1>4, <1>6
  <2>2. line[i] = "*" /\ i + 1 \in 1 .. n /\ line[i + 1] = "/"
    BY <1>7, <2>1, HasIs DEF Chars
  <2>3. i + 1 \in q .. n
    BY <2>1, <2>2
  <2>4. tx[i].c = "*" /\ tx[i + 1].c = "/"
    BY <1>5, <2>1, <2>2, <2>3
  <2>5. i \in MarksOf(tx, "*", "/")
    BY <1>1, <2>1, <2>2, <2>4 DEF MarksOf
  <2> QED
    BY <1>4, <1>6, <2>1, <2>5
<1>8. m[o + 1] = "opening" /\ \A i \in o + 2 .. c : m[i] = "block"
  <2>1. c \in o + 2 .. n + 1
    BY <1>4, <1>6
  <2> QED
    BY <1>2, <1>4, <1>7, <2>1, OpenedStays
<1>9. c + 2 \in 1 .. n + 1 /\ m[c + 1] = "closing" /\ m[c + 2] = "code"
  <2>1. m[c] = "block"
    BY <1>4, <1>6, <1>8
  <2> QED
    BY <1>2, <1>6, <2>1, BlockCloses
<1>10. ASSUME NEW i \in o .. c + 1
       PROVE  ~ Shows(line, m, i)
  <2>1. i = o \/ i = o + 1 \/ i \in o + 2 .. c \/ i = c + 1
    BY <1>4, <1>6
  <2> QED
    BY <1>4, <1>8, <1>9, <2>1 DEF Shows, Outside
<1>11. BlankedTo(line, m, new, c + 2)
  <2>1. ASSUME NEW i \in 1 .. (c + 2) - 1
        PROVE  IF Shows(line, m, i) THEN SameAt(line, new, i, i) ELSE BlankAt(new, i)
    <3>1. CASE i < o
      <4>1. i \in 1 .. o - 1
        BY <1>4, <3>1
      <4> QED
        BY <1>4, <4>1 DEF SameAt, BlankAt
    <3>2. CASE o <= i
      <4>1. i \in o .. c + 1
        BY <1>4, <1>6, <3>2
      <4> QED
        BY <1>10, <4>1
    <3> QED
      BY <1>4, <1>6, <3>1, <3>2
  <2>2. \A i \in c + 2 .. n : SameAt(line, new, i, i)
    BY <1>1, <1>4, <1>5, <1>6 DEF SameAt
  <2>3. BlankAt(new, (c + 2) - 1)
    BY <1>4, <1>6
  <2> QED
    BY <1>9, <2>1, <2>2, <2>3 DEF BlankedTo
<1> QED
  BY <1>1, <1>9, <1>11 DEF Unblocked, m

\* A comment that stays open is cut off, and the block goes on.
LEMMA OpensBlock ==
  ASSUME NEW line \in Lines, NEW start \in {"code", "block"}, ~ Trap(line, start),
         NEW block, NEW tx, Unblocked(line, start, block, tx),
         NEW o \in MarksOf(tx, "/", "*"), \A i \in MarksOf(tx, "/", "*") : o <= i,
         \A i \in MarksOf(tx, "*", "/") : i <= o + 1,
         NEW new, Len(new) = o - 1, \A i \in 1 .. o - 1 : new[i] = tx[i]
  PROVE  Bare(line, start, TRUE, new)
<1> DEFINE m == Modes(line, start)
           n == Len(line)
<1>1. n \in Nat /\ Len(tx) = n
  BY LineIs DEF Unblocked
<1>2. Walk(m, line)
  BY ModesWalk
<1>3. PICK q \in 1 .. n + 1 : BlankedTo(line, m, tx, q)
  BY DEF Unblocked
<1>4. /\ o \in 1 .. n /\ q <= o /\ m[o] = "code" /\ Has(line, o, "/", "*")
      /\ \A i \in 1 .. o - 1 : IF Shows(line, m, i) THEN SameAt(line, tx, i, i)
                                                   ELSE BlankAt(tx, i)
  BY <1>1, <1>3, OpensInCode
<1>5. \A i \in CodeAt(line, start) : i \in 1 .. n /\ m[i] = "code" /\ ~ Has(line, i, "/", "*")
  BY CodeIs
<1> HIDE DEF m
<1>6. \A i \in q .. n : tx[i].c = line[i]
  BY <1>3, CellIs DEF BlankedTo
<1>7. ASSUME NEW i \in o + 2 .. (n + 1) - 1, Has(line, i, "*", "/")
      PROVE  FALSE
  <2>1. i \in 1 .. n /\ i \in q .. n
    BY <1>1, <1>4
  <2>2. line[i] = "*" /\ i + 1 \in 1 .. n /\ line[i + 1] = "/"
    BY <1>7, <2>1, HasIs DEF Chars
  <2>3. i + 1 \in q .. n
    BY <2>1, <2>2
  <2>4. tx[i].c = "*" /\ tx[i + 1].c = "/"
    BY <1>6, <2>1, <2>2, <2>3
  <2>5. i \in MarksOf(tx, "*", "/")
    BY <1>1, <2>1, <2>2, <2>4 DEF MarksOf
  <2> QED
    BY <1>4, <2>1, <2>5
<1>8. n + 1 \in o + 2 .. n + 1
  <2>1. o + 1 \in 1 .. n
    BY <1>4, HasIs DEF Chars
  <2> QED
    BY <1>1, <1>4, <2>1
<1>9. m[o + 1] = "opening" /\ \A i \in o + 2 .. n + 1 : m[i] = "block"
  BY <1>2, <1>4, <1>7, <1>8, OpenedStays
<1>10. m[n + 1] = "block"
  BY <1>8, <1>9
<1>11. ASSUME NEW i \in (o - 1) + 1 .. n
       PROVE  i \notin CodeAt(line, start)
  <2>1. i = o \/ i = o + 1 \/ i \in o + 2 .. n + 1
    <3>1. o \in Nat /\ i \in Nat /\ o <= i /\ i <= n
      BY <1>1, <1>4
    <3> HIDE DEF n
    <3> QED
      BY <1>1, <3>1
  <2> QED
    BY <1>4, <1>5, <1>9, <2>1
<1>12. \A i \in 1 .. o - 1 : IF Shows(line, m, i) THEN SameAt(line, new, i, i) ELSE BlankAt(new, i)
  BY <1>4 DEF SameAt, BlankAt
<1>13. /\ Len(new) <= n /\ Len(new) + 1 = o
       /\ TRUE = (m[n + 1] = "block")
  BY <1>1, <1>4, <1>10
<1> QED
  BY <1>4, <1>11, <1>12, <1>13 DEF Bare, m

\* Where no mark opens a block, all block comments are blanked.
LEMMA NoBlockLeft ==
  ASSUME NEW line \in Lines, NEW start \in {"code", "block"}, ~ Trap(line, start),
         NEW block \in BOOLEAN, NEW tx, Unblocked(line, start, block, tx),
         MarksOf(tx, "/", "*") = {}
  PROVE  Bare(line, start, block, tx)
<1> DEFINE m == Modes(line, start)
           n == Len(line)
<1>1. n \in Nat /\ Len(tx) = n /\ block = FALSE
  BY LineIs DEF Unblocked
<1>2. Walk(m, line)
  BY ModesWalk
<1>3. PICK q \in 1 .. n + 1 : BlankedTo(line, m, tx, q)
  BY DEF Unblocked
<1> HIDE DEF m
<1>4. \A i \in q .. n : SameAt(line, tx, i, i) /\ tx[i].c = line[i]
  BY <1>3, CellIs DEF BlankedTo
<1>5. ASSUME NEW i \in q .. (n + 1) - 1, Has(line, i, "/", "*")
      PROVE  FALSE
  <2>1. i \in 1 .. n /\ i \in q .. n
    BY <1>1
  <2>2. line[i] = "/" /\ i + 1 \in 1 .. n /\ line[i + 1] = "*"
    BY <1>5, <2>1, HasIs DEF Chars
  <2>3. i + 1 \in q .. n
    BY <2>1, <2>2
  <2>4. tx[i].c = "/" /\ tx[i + 1].c = "*"
    BY <1>4, <2>1, <2>2, <2>3
  <2>5. i \in MarksOf(tx, "/", "*")
    BY <1>1, <2>1, <2>2, <2>4 DEF MarksOf
  <2> QED
    BY <2>5
<1>6. \A i \in q .. n + 1 : m[i] \in Outside
  <2>1. n + 1 \in q .. n + 1 /\ m[q] \in Outside
    BY <1>1, <1>3 DEF BlankedTo, Outside
  <2> QED
    BY <1>2, <1>5, <2>1, OutsideStays
<1>7. \A i \in q .. n : Shows(line, m, i)
  BY <1>1, <1>5, <1>6 DEF Shows
<1>8. ASSUME NEW i \in 1 .. n
      PROVE  IF Shows(line, m, i) THEN SameAt(line, tx, i, i) ELSE BlankAt(tx, i)
  <2>1. CASE i < q
    BY <1>3, <2>1 DEF BlankedTo
  <2>2. CASE q <= i
    BY <1>4, <1>7, <2>2
  <2> QED
    BY <2>1, <2>2
<1>9. m[n + 1] \in Outside
  BY <1>1, <1>6
<1>10. Len(tx) <= n /\ block = (m[n + 1] = "block") /\ ~ (Len(tx) < n)
  BY <1>1, <1>9 DEF Outside
<1>11. \A i \in Len(tx) + 1 .. n : i \notin CodeAt(line, start)
  BY <1>1
<1> QED
  BY <1>1, <1>8, <1>10, <1>11 DEF Bare, m

\* The places where a line comment may start.
LineMarks(tx) == {i \in MarksOf(tx, "/", "/") : i = 1 \/ tx[i - 1].c # ":"}

\* A line comment of the lexer is one of the scanner ...
LEMMA LineMarkFound ==
  ASSUME NEW line \in Lines, NEW start \in {"code", "block"}, ~ Trap(line, start),
         NEW block, NEW tx \in Seq(Cell), Bare(line, start, block, tx),
         NEW j \in 1 .. Len(tx), Modes(line, start)[j] = "code", Has(line, j, "/", "/")
  PROVE  j \in LineMarks(tx)
<1> DEFINE m == Modes(line, start)
           n == Len(line)
           e == Len(tx)
<1>1. n \in Nat /\ e \in Nat /\ e <= n
  BY LineIs, LenProperties DEF Bare
<1>2. Walk(m, line)
  BY ModesWalk
<1>3. j \in 1 .. n
  BY <1>1
<1>4. ~ AfterColon(line, j)
  BY <1>3, NoTrap
<1>5. \A i \in 1 .. e : IF Shows(line, m, i) THEN SameAt(line, tx, i, i) ELSE BlankAt(tx, i)
  BY DEF Bare
<1>6. e < n => m[e + 1] = "code"
  BY DEF Bare
<1>7. m[j] = "code"
  OBVIOUS
<1> HIDE DEF m, n, e
<1>8. line[j] = "/" /\ j + 1 \in 1 .. n /\ line[j + 1] = "/"
  BY <1>3, HasIs DEF Chars, n
<1>9. ~ Has(line, j, "/", "*")
  BY <1>3, <1>8, HasIs DEF Chars, n
<1>10. m[j + 1] = "line"
  BY <1>2, <1>3, <1>7 DEF Walk, n
<1>11. j + 1 \in 1 .. e
  BY <1>1, <1>3, <1>6, <1>8, <1>10 DEF e
<1>12. Shows(line, m, j) /\ Shows(line, m, j + 1)
  BY <1>7, <1>9, <1>10 DEF Shows, Outside
<1>13. tx[j].c = "/" /\ tx[j + 1].c = "/"
  BY <1>3, <1>5, <1>8, <1>11, <1>12, CellIs DEF e
<1>14. j \in MarksOf(tx, "/", "/")
  BY <1>1, <1>3, <1>11, <1>13 DEF MarksOf, e
<1>15. ASSUME j # 1, tx[j - 1].c = ":"
       PROVE  FALSE
  <2>1. j - 1 \in 1 .. e /\ j - 1 \in 1 .. n
    BY <1>1, <1>3, <1>11, <1>15
  <2>2. tx[j - 1].c = line[j - 1] \/ tx[j - 1].c = "blank"
    BY <1>5, <2>1, CellIs
  <2>3. line[j - 1] = ":"
    BY <1>15, <2>2
  <2>4. DOMAIN line = 1 .. n
    BY LineIs DEF n
  <2> QED
    BY <1>4, <2>1, <2>3, <2>4 DEF AfterColon, At
<1> QED
  BY <1>14, <1>15 DEF LineMarks

\* ... and one of the scanner lies in code, or in a line comment.
LEMMA LineMarkRight ==
  ASSUME NEW line \in Lines, NEW start \in {"code", "block"}, ~ Trap(line, start),
         NEW block, NEW tx \in Seq(Cell), Bare(line, start, block, tx),
         NEW s \in LineMarks(tx)
  PROVE  /\ s \in 1 .. Len(tx) /\ s \in 1 .. Len(line)
         /\ Has(line, s, "/", "/") /\ Modes(line, start)[s] \in {"code", "line"}
<1> DEFINE m == Modes(line, start)
           n == Len(line)
           e == Len(tx)
<1>1. n \in Nat /\ e \in Nat /\ e <= n /\ DOMAIN line = 1 .. n
  BY LineIs, LenProperties DEF Bare
<1>2. Walk(m, line)
  BY ModesWalk
<1>3. /\ s \in 1 .. e /\ s + 1 \in 1 .. e /\ tx[s].c = "/" /\ tx[s + 1].c = "/"
      /\ s # 1 => tx[s - 1].c # ":"
  BY <1>1 DEF LineMarks, MarksOf
<1>4. s \in 1 .. n /\ s + 1 \in 1 .. n
  BY <1>1, <1>3
<1>5. \A i \in 1 .. e : IF Shows(line, m, i) THEN SameAt(line, tx, i, i) ELSE BlankAt(tx, i)
  BY DEF Bare
<1>6. Has(line, s, "/", "/") /\ m[s] \in {"string", "escaped"} => AfterColon(line, s)
  BY <1>4, NoTrap
<1> HIDE DEF m, n, e
<1>6a. \A i \in 1 .. e : tx[i].c = "blank" \/ (tx[i].c = line[i] /\ Shows(line, m, i))
  <2> SUFFICES ASSUME NEW i \in 1 .. e
               PROVE  tx[i].c = "blank" \/ (tx[i].c = line[i] /\ Shows(line, m, i))
    OBVIOUS
  <2>1. CASE Shows(line, m, i)
    <3>1. SameAt(line, tx, i, i)
      BY <1>5, <2>1
    <3> QED
      BY <2>1, <3>1, CellIs
  <2>2. CASE ~ Shows(line, m, i)
    <3>1. BlankAt(tx, i)
      BY <1>5, <2>2
    <3> QED
      BY <3>1, CellIs
  <2> QED
    BY <2>1, <2>2
<1>7. line[s] = "/" /\ line[s + 1] = "/" /\ Shows(line, m, s)
  BY <1>3, <1>6a
<1>8. Has(line, s, "/", "/")
  BY <1>4, <1>7, HasIs DEF Chars, n
<1>9. m[s] \in Outside
  BY <1>7 DEF Shows
<1>10. ASSUME AfterColon(line, s), m[s] \in InString
       PROVE  FALSE
  <2>1. s - 1 \in DOMAIN line /\ line[s - 1] = ":"
    BY <1>10 DEF AfterColon, At
  <2>2. s - 1 \in 1 .. n /\ s - 1 \in 1 .. e /\ s # 1
    BY <1>1, <1>3, <2>1
  <2>4. ~ Shows(line, m, s - 1)
    <3>1. ~ (tx[s - 1].c = line[s - 1])
      BY <1>3, <2>1, <2>2
    <3>2. ~ SameAt(line, tx, s - 1, s - 1)
      BY <3>1, CellIs
    <3> QED
      BY <1>5, <2>2, <3>2
  <2>5. /\ (s - 1) + 1 = s /\ s - 1 \in 1 .. Len(line) /\ s - 1 \in 1 .. Len(line) + 1
    BY <1>1, <1>4, <2>2 DEF n
  <2>6. m[s - 1] \in InString \/ m[s - 1] = "code"
    BY <1>2, <1>10, <2>5 DEF Walk, InString, AllModes
  <2>7. ~ Has(line, s - 1, "/", "*")
    BY <2>1 DEF Has
  <2> QED
    BY <2>4, <2>6, <2>7 DEF Shows, InString, Outside
<1> QED
  BY <1>3, <1>4, <1>6, <1>8, <1>9, <1>10 DEF Outside, InString, m, n, e

\* The line comment is cut off, and nothing else.
CutOff(new, tx, t) ==
  /\ \/ LineMarks(tx) = {} /\ t = Len(tx)
     \/ t + 1 \in LineMarks(tx) /\ \A i \in LineMarks(tx) : t + 1 <= i
  /\ Len(new) = t /\ \A i \in 1 .. t : new[i] = tx[i]

\* Then the line comment is gone, and no string is masked yet.
LEMMA CutsLine ==
  ASSUME NEW line \in Lines, NEW start \in {"code", "block"}, ~ Trap(line, start),
         NEW block, NEW tx \in Seq(Cell), Bare(line, start, block, tx),
         End(line, start) \notin InString,
         NEW new, NEW t \in 0 .. Len(tx), CutOff(new, tx, t)
  PROVE  Masked(line, start, block, new, 1)
<1> DEFINE m == Modes(line, start)
           n == Len(line)
           e == Len(tx)
<1>1. n \in Nat /\ e \in Nat /\ e <= n
  BY LineIs, LenProperties DEF Bare
<1>2. Walk(m, line)
  BY ModesWalk
<1>3. /\ \A i \in 1 .. e : IF Shows(line, m, i) THEN SameAt(line, tx, i, i) ELSE BlankAt(tx, i)
      /\ block = (m[n + 1] = "block")
      /\ e < n => m[e + 1] = "code"
      /\ \A i \in e + 1 .. n : i \notin CodeAt(line, start)
  BY DEF Bare
<1>4. \A j \in 1 .. e : m[j] = "code" /\ Has(line, j, "/", "/") => j \in LineMarks(tx)
  BY LineMarkFound
<1>5. \A s \in LineMarks(tx) :
        s \in 1 .. e /\ s \in 1 .. n /\ Has(line, s, "/", "/") /\ m[s] \in {"code", "line"}
  BY LineMarkRight
<1>6. m[n + 1] \notin InString
  BY DEF End
<1>7. \A i \in CodeAt(line, start) : i \in 1 .. n /\ m[i] = "code" /\ ~ Has(line, i, "/", "/")
  BY CodeIs
<1>8. m[1] \notin InString
  BY <1>2 DEF Walk, InString
<1>9. t \in Nat /\ t <= e
  BY <1>1
<1> HIDE DEF m, n, e
<1>10. ASSUME NEW j \in 1 .. t
       PROVE  m[j] # "line" /\ ~ (m[j] = "code" /\ Has(line, j, "/", "/"))
  <2>1. \A i \in 1 .. t : i \in 1 .. e /\ i \notin LineMarks(tx)
    BY <1>1, <1>9 DEF e, CutOff
  <2>2. ~ (m[j] = "code" /\ Has(line, j, "/", "/"))
    BY <1>4, <2>1
  <2>3. ASSUME m[j] = "line"
        PROVE  FALSE
    <3>1. j \in 1 .. Len(line) + 1
      BY <1>1, <1>9 DEF n
    <3>2. PICK i \in 1 .. j - 1 : m[i] = "code" /\ Has(line, i, "/", "/")
      BY <1>2, <2>3, <3>1, LineStarts
    <3>3. i \in 1 .. t
      BY <1>9
    <3> QED
      BY <1>4, <2>1, <3>2, <3>3
  <2> QED
    BY <2>2, <2>3
<1>11. ASSUME t + 1 \in LineMarks(tx), \A i \in LineMarks(tx) : t + 1 <= i
       PROVE  m[t + 1] = "code" /\ \A i \in t + 1 .. n : i \notin CodeAt(line, start)
  <2>1. t + 1 \in 1 .. n /\ t + 1 \in 1 .. e /\ Has(line, t + 1, "/", "/") /\ m[t + 1] \in {"code", "line"}
    BY <1>5, <1>11
  <2>2. ASSUME m[t + 1] = "line"
        PROVE  FALSE
    <3>1. t + 1 \in 1 .. Len(line) + 1
      BY <1>1, <2>1 DEF n
    <3>2. PICK i \in 1 .. (t + 1) - 1 : m[i] = "code" /\ Has(line, i, "/", "/")
      BY <1>2, <2>2, <3>1, LineStarts
    <3>3. i \in 1 .. t
      BY <1>9
    <3> QED
      BY <1>10, <3>2, <3>3
  <2>3. m[t + 1] = "code"
    BY <2>1, <2>2
  <2>4. m[(t + 1) + 1] = "line"
    BY <1>2, <2>1, <2>3 DEF Walk, n
  <2>5. \A i \in (t + 1) + 1 .. n + 1 : m[i] = "line"
    <3>1. (t + 1) + 1 \in 1 .. Len(line) + 1
      BY <1>1, <2>1 DEF n
    <3> QED
      BY <1>2, <2>4, <3>1, LineStays DEF n
  <2>6. ASSUME NEW i \in t + 1 .. n
        PROVE  i \notin CodeAt(line, start)
    <3>1. i = t + 1 \/ i \in (t + 1) + 1 .. n + 1
      BY <1>1, <1>9
    <3> QED
      BY <1>7, <2>1, <2>5, <3>1
  <2> QED
    BY <2>3, <2>6
<1>12. m[t + 1] \notin InString /\ \A i \in t + 1 .. n : i \notin CodeAt(line, start)
  <2>1. CASE t + 1 \in LineMarks(tx)
    BY <1>11, <2>1 DEF InString, CutOff
  <2>2. CASE t = e
    <3>1. e = n \/ e < n
      BY <1>1
    <3> QED
      BY <1>3, <1>6, <2>2, <3>1 DEF InString
  <2> QED
    BY <2>1, <2>2 DEF e, CutOff
<1>13. ASSUME NEW j \in 1 .. t
       PROVE  IF Remains(line, m, j) THEN SameAt(line, new, 1 + (j - 1), j)
                                     ELSE BlankAt(new, 1 + (j - 1))
  <2>1. 1 + (j - 1) = j /\ j \in 1 .. e /\ new[j] = tx[j]
    BY <1>1, <1>9 DEF CutOff
  <2>2. Remains(line, m, j) <=> Shows(line, m, j)
    BY <1>10 DEF Remains
  <2> QED
    BY <1>3, <2>1, <2>2 DEF SameAt, BlankAt, CutOff
<1>14. {new[i].at : i \in 1 .. 1 - 1} \ {0} = {j \in CodeAt(line, start) : j < 1}
  BY <1>7
<1>15. MaskedTo(line, start, m, new, 1, 1, t)
  <2>1. 1 - 1 <= t /\ 1 \in 1 .. 1 /\ Len(new) - 1 = t - 1
    BY <1>9 DEF CutOff
  <2> QED
    BY <1>8, <1>12, <1>13, <1>14, <2>1 DEF MaskedTo, n
<1>16. 1 \in 1 .. n + 1 /\ t \in 0 .. n
  BY <1>1, <1>9
<1> QED
  BY <1>3, <1>15, <1>16 DEF Masked, m, n

\* The strings of the regular expression, from a place on.
StringsOf(tx, at) == {s \in (at .. Len(tx)) \X (at .. Len(tx)) :
                        s[1] < s[2] /\ tx[s[1]].c = "quote" /\ EndsIn(tx, s[1], s[2])}

\* What a string of the regular expression is.
LEMMA StringIs ==
  ASSUME NEW tx, NEW at, NEW x, NEW y
  PROVE  <<x, y>> \in StringsOf(tx, at) <=>
           /\ x \in at .. Len(tx) /\ y \in at .. Len(tx)
           /\ x < y /\ tx[x].c = "quote" /\ EndsIn(tx, x, y)
BY DEF StringsOf

\* What MaskedTo says, with one shift for all places.
Shifted(line, m, tx, at, p, t, d) ==
  /\ at = p + d /\ at >= 1 /\ d <= 0 /\ Len(tx) = t + d
  /\ \A j \in p .. t : IF Remains(line, m, j) THEN SameAt(line, tx, j + d, j)
                                              ELSE BlankAt(tx, j + d)

\* There is such a shift wherever strings are masked.
LEMMA ShiftIs ==
  ASSUME NEW line \in Lines, NEW start \in {"code", "block"}, NEW m, NEW tx \in Seq(Cell), NEW at,
         NEW p \in 1 .. Len(line) + 1, NEW t \in 0 .. Len(line),
         MaskedTo(line, start, m, tx, at, p, t)
  PROVE  \E d \in Int : Shifted(line, m, tx, at, p, t, d)
<1>1. Len(line) \in Nat /\ Len(tx) \in Nat /\ p \in Nat /\ t \in Nat /\ at \in 1 .. p
  BY LineIs, LenProperties DEF MaskedTo
<1>2. Len(tx) - at = t - p
  BY DEF MaskedTo
<1>3. PICK d \in Int : d = at - p
  BY <1>1
<1>4. at = p + d /\ at >= 1 /\ d <= 0 /\ Len(tx) = t + d
  BY <1>1, <1>2, <1>3
<1>5. ASSUME NEW j \in p .. t
      PROVE  IF Remains(line, m, j) THEN SameAt(line, tx, j + d, j) ELSE BlankAt(tx, j + d)
  <2>1. at + (j - p) = j + d
    BY <1>1, <1>3
  <2>2. IF Remains(line, m, j) THEN SameAt(line, tx, at + (j - p), j)
                               ELSE BlankAt(tx, at + (j - p))
    BY DEF MaskedTo
  <2> QED
    BY <2>1, <2>2
<1> QED
  BY <1>4, <1>5 DEF Shifted

\* What is in a string or opens one remains until strings are masked.
LEMMA StringRemains ==
  ASSUME NEW line \in Lines, NEW m, NEW i \in 1 .. Len(line),
         m[i] \in InString \/ (m[i] = "code" /\ line[i] = "quote")
  PROVE  Remains(line, m, i)
BY HasIs DEF Remains, Shows, InString, Outside, Chars

\* A string of both from a to b.
Spans(tx, m, at, d, a, b) ==
  /\ <<a + d, b + d>> \in StringsOf(tx, at)
  /\ \A k \in a + 1 .. b - 1 : ~ EndsIn(tx, a + d, k + d)
  /\ m[b + 1] = "code" /\ \A i \in a + 1 .. b : m[i] \in InString

\* A string of the lexer that is still to be masked is one of the regular
\* expression, and ends for both at the same quote.
LEMMA StringFound ==
  ASSUME NEW line \in Lines, NEW m, Walk(m, line), NEW tx, NEW d \in Int,
         NEW p \in 1 .. Len(line) + 1, NEW t \in 0 .. Len(line), p + d >= 1, Len(tx) = t + d,
         m[t + 1] \notin InString,
         \A j \in p .. t : Remains(line, m, j) => SameAt(line, tx, j + d, j),
         NEW a \in p .. t, m[a] = "code", line[a] = "quote"
  PROVE  \E b \in a + 1 .. t : Spans(tx, m, p + d, d, a, b)
<1>1. /\ Len(line) \in Nat /\ p \in Nat /\ t \in Nat /\ a \in Nat /\ a \in 1 .. Len(line)
      /\ t + 1 \in a + 1 .. Len(line) + 1 /\ (t + 1) - 1 = t /\ a + d >= 1
  BY LineIs
<1>2. /\ m[a + 1] = "string"
      /\ \E b \in a + 1 .. (t + 1) - 1 :
           /\ m[b] = "string" /\ line[b] = "quote" /\ m[b + 1] = "code"
           /\ \A i \in a + 1 .. b : m[i] \in InString
  BY <1>1, StringCloses
<1>3. PICK b \in a + 1 .. t :
        /\ m[b] = "string" /\ line[b] = "quote" /\ m[b + 1] = "code"
        /\ \A i \in a + 1 .. b : m[i] \in InString
  BY <1>1, <1>2
<1>4. ASSUME NEW i \in a .. b
      PROVE  tx[i + d].c = line[i]
  <2>1. i \in 1 .. Len(line) /\ i \in p .. t /\ (i = a \/ i \in a + 1 .. b)
    BY <1>1, <1>3
  <2>2. Remains(line, m, i)
    BY <1>3, <2>1, StringRemains
  <2>3. SameAt(line, tx, i + d, i)
    BY <2>1, <2>2
  <2>4. tx[i + d] = [c |-> line[i], at |-> i]
    BY <2>3 DEF SameAt
  <2> QED
    BY <2>4
<1>5. Copies(tx, d, line, m, a, b)
  <2>1. \A i \in a + 1 .. b : i \in a .. b
    BY <1>1, <1>3
  <2> QED
    BY <1>3, <1>4, <2>1 DEF Copies
<1>6. b \in a + 1 .. Len(line)
  BY <1>1, <1>3
<1>7. EndsIn(tx, a + d, b + d) /\ \A k \in a + 1 .. b - 1 : ~ EndsIn(tx, a + d, k + d)
  BY <1>1, <1>2, <1>3, <1>5, <1>6, StringEnds
<1>8. tx[a + d].c = "quote"
  <2>1. a \in a .. b
    BY <1>1, <1>3
  <2> QED
    BY <1>4, <2>1
<1>9. /\ a + d \in p + d .. Len(tx) /\ b + d \in p + d .. Len(tx) /\ a + d < b + d
  BY <1>1, <1>3
<1>10. <<a + d, b + d>> \in StringsOf(tx, p + d)
  BY <1>7, <1>8, <1>9, StringIs
<1> QED
  BY <1>3, <1>7, <1>10 DEF Spans

\* Where no string is left, what shows is the code of the line.
LEMMA NoStringLeft ==
  ASSUME NEW line \in Lines, NEW start \in {"code", "block"}, NEW block, NEW tx \in Seq(Cell),
         NEW at, Masked(line, start, block, tx, at), StringsOf(tx, at) = {}
  PROVE  Exactly(line, start, block, tx)
<1> DEFINE m == Modes(line, start)
           n == Len(line)
<1>1. n \in Nat
  BY LineIs
<1>2. Walk(m, line)
  BY ModesWalk
<1>3. PICK p \in 1 .. n + 1, t \in 0 .. n : MaskedTo(line, start, m, tx, at, p, t)
  BY DEF Masked
<1>4. block = (End(line, start) = "block")
  BY DEF Masked, End
<1>5. \A i : i \in CodeAt(line, start) <=>
               /\ i \in 1 .. n /\ m[i] = "code" /\ line[i] # "quote"
               /\ ~ Has(line, i, "/", "/") /\ ~ Has(line, i, "/", "*")
  BY CodeIs
<1> HIDE DEF m, n
<1>5a. PICK d \in Int : Shifted(line, m, tx, at, p, t, d)
  <2>1. p \in 1 .. Len(line) + 1 /\ t \in 0 .. Len(line)
    BY DEF n
  <2> QED
    BY <1>3, <2>1, ShiftIs
<1>6. /\ at = p + d /\ at >= 1 /\ d <= 0 /\ Len(tx) = t + d
      /\ \A j \in p .. t : IF Remains(line, m, j) THEN SameAt(line, tx, j + d, j)
                                                  ELSE BlankAt(tx, j + d)
  BY <1>5a DEF Shifted
<1>7. /\ m[p] \notin InString /\ m[t + 1] \notin InString /\ p - 1 <= t
      /\ {tx[i].at : i \in 1 .. at - 1} \ {0} = {j \in CodeAt(line, start) : j < p}
      /\ \A i \in t + 1 .. n : i \notin CodeAt(line, start)
  BY <1>3 DEF MaskedTo, n
<1>8. ASSUME NEW a \in p .. t, m[a] = "code", line[a] = "quote"
      PROVE  FALSE
  <2>1. \A j \in p .. t : Remains(line, m, j) => SameAt(line, tx, j + d, j)
    BY <1>6
  <2>2. p + d >= 1 /\ p \in 1 .. Len(line) + 1 /\ t \in 0 .. Len(line)
    BY <1>6 DEF n
  <2>3. \E b \in a + 1 .. t : Spans(tx, m, p + d, d, a, b)
    BY <1>2, <1>6, <1>7, <1>8, <2>1, <2>2, StringFound
  <2> QED
    BY <1>6, <2>3 DEF Spans
<1>9. \A i \in p .. t + 1 : m[i] \notin InString
  <2>1. p \in 1 .. Len(line) + 1 /\ t + 1 \in p .. Len(line) + 1
    BY <1>1, <1>7 DEF n
  <2>2. \A i \in p .. (t + 1) - 1 : ~ (m[i] = "code" /\ line[i] = "quote")
    BY <1>1, <1>8
  <2> QED
    BY <1>2, <1>7, <2>1, <2>2, QuietStays
<1>10. ASSUME NEW j \in p .. t
       PROVE  Remains(line, m, j) <=> j \in CodeAt(line, start)
  <2>1. m[j] \notin InString /\ j \in 1 .. n
    BY <1>1, <1>9
  <2> QED
    BY <1>5, <1>8, <2>1 DEF Remains, Shows, Outside, InString
<1>11. Len(tx) \in Nat /\ DOMAIN tx = 1 .. Len(tx)
  BY LenProperties
<1>12. ASSUME NEW x \in ShownIn(tx)
       PROVE  x \in CodeAt(line, start)
  <2>1. PICK i \in 1 .. Len(tx) : x = tx[i].at /\ x # 0
    BY <1>11 DEF ShownIn
  <2>2. CASE i < at
    <3>1. i \in 1 .. at - 1
      BY <1>6, <2>2
    <3>2. x \in {tx[k].at : k \in 1 .. at - 1} \ {0}
      BY <2>1, <3>1
    <3> QED
      BY <1>7, <3>2
  <2>3. CASE at <= i
    <3>1. PICK j \in p .. t : i = j + d
      <4>1. i - d \in p .. t /\ i = (i - d) + d
        BY <1>1, <1>6, <1>11, <2>3
      <4> QED
        BY <4>1
    <3>2. ~ BlankAt(tx, j + d)
      BY <2>1, <3>1, CellIs
    <3>3. Remains(line, m, j) /\ SameAt(line, tx, j + d, j)
      BY <1>6, <3>2
    <3>4. x = j
      BY <2>1, <3>1, <3>3, CellIs
    <3> QED
      BY <1>10, <3>3, <3>4
  <2> QED
    BY <1>6, <2>2, <2>3
<1>13. ASSUME NEW x \in CodeAt(line, start)
       PROVE  x \in ShownIn(tx)
  <2>1. x \in 1 .. n /\ x \notin t + 1 .. n
    BY <1>5, <1>7
  <2>2. CASE x < p
    <3>1. x \in {tx[k].at : k \in 1 .. at - 1} \ {0}
      BY <1>7, <2>2
    <3>2. PICK k \in 1 .. at - 1 : x = tx[k].at /\ x # 0
      BY <3>1
    <3>3. k \in DOMAIN tx
      BY <1>1, <1>6, <1>7, <1>11
    <3> QED
      BY <3>2, <3>3 DEF ShownIn
  <2>3. CASE p <= x
    <3>1. x \in p .. t
      BY <1>1, <2>1, <2>3
    <3>2. SameAt(line, tx, x + d, x)
      BY <1>6, <1>10, <3>1
    <3>3. tx[x + d].at = x
      BY <3>2, CellIs
    <3>4. x + d \in DOMAIN tx
      BY <1>1, <1>6, <1>11, <3>1
    <3> QED
      BY <2>1, <3>3, <3>4 DEF ShownIn
  <2> QED
    BY <2>1, <2>2, <2>3
<1> QED
  BY <1>4, <1>12, <1>13 DEF Exactly

\* The first string in the text gives way to an empty one.
MaskOf(new, tx, at, first, last) ==
  /\ <<first, last>> \in StringsOf(tx, at)
  /\ \A s \in StringsOf(tx, at) : first <= s[1]
  /\ \A s \in StringsOf(tx, at) : s[1] = first => last <= s[2]
  /\ Len(new) = first + 1 + (Len(tx) - last)
  /\ \A i \in 1 .. first - 1 : new[i] = tx[i]
  /\ new[first].at = 0 /\ new[first + 1].at = 0
  /\ \A i \in 1 .. Len(tx) - last : new[first + 1 + i] = tx[last + i]

\* The first string that is left is the first one of the line; it is masked,
\* and nothing else.
LEMMA MasksString ==
  ASSUME NEW line \in Lines, NEW start \in {"code", "block"}, NEW block, NEW tx \in Seq(Cell),
         NEW at, Masked(line, start, block, tx, at),
         NEW first, NEW last, NEW new, MaskOf(new, tx, at, first, last)
  PROVE  Masked(line, start, block, new, first + 2)
<1> DEFINE m == Modes(line, start)
           n == Len(line)
<1>1. n \in Nat
  BY LineIs
<1>2. Walk(m, line)
  BY ModesWalk
<1>3. PICK p \in 1 .. n + 1, t \in 0 .. n : MaskedTo(line, start, m, tx, at, p, t)
  BY DEF Masked
<1>4. block = (m[n + 1] = "block")
  BY DEF Masked
<1>5. \A i : i \in CodeAt(line, start) <=>
               /\ i \in 1 .. n /\ m[i] = "code" /\ line[i] # "quote"
               /\ ~ Has(line, i, "/", "/") /\ ~ Has(line, i, "/", "*")
  BY CodeIs
<1> HIDE DEF m, n
<1>5a. PICK d \in Int : Shifted(line, m, tx, at, p, t, d)
  <2>1. p \in 1 .. Len(line) + 1 /\ t \in 0 .. Len(line)
    BY DEF n
  <2> QED
    BY <1>3, <2>1, ShiftIs
<1>6. /\ at = p + d /\ at >= 1 /\ d <= 0 /\ Len(tx) = t + d
      /\ \A j \in p .. t : IF Remains(line, m, j) THEN SameAt(line, tx, j + d, j)
                                                  ELSE BlankAt(tx, j + d)
  BY <1>5a DEF Shifted
<1>7. /\ m[p] \notin InString /\ m[t + 1] \notin InString /\ p - 1 <= t
      /\ {tx[i].at : i \in 1 .. at - 1} \ {0} = {j \in CodeAt(line, start) : j < p}
      /\ \A i \in t + 1 .. n : i \notin CodeAt(line, start)
  BY <1>3 DEF MaskedTo, n
<1>8. /\ first \in at .. Len(tx) /\ last \in at .. Len(tx) /\ first < last
      /\ tx[first].c = "quote" /\ EndsIn(tx, first, last)
  BY StringIs DEF MaskOf
<1>9. PICK f \in p .. t, l \in p .. t : first = f + d /\ last = l + d
  <2>1. first - d \in p .. t /\ last - d \in p .. t
    BY <1>1, <1>6, <1>8
  <2>2. first = (first - d) + d /\ last = (last - d) + d
    BY <1>1, <1>6, <1>8
  <2> QED
    BY <2>1, <2>2
<1>10. /\ p \in Nat /\ t \in Nat /\ f \in 1 .. n /\ l \in 1 .. n /\ f < l
       /\ f \in Nat /\ l \in Nat /\ p <= f /\ l <= t
  BY <1>1, <1>6, <1>8, <1>9
<1>11. ASSUME NEW a \in p .. t, m[a] = "code", line[a] = "quote"
       PROVE  \E b \in a + 1 .. t : Spans(tx, m, at, d, a, b)
  <2>1. \A j \in p .. t : Remains(line, m, j) => SameAt(line, tx, j + d, j)
    BY <1>6
  <2>2. p + d >= 1 /\ p \in 1 .. Len(line) + 1 /\ t \in 0 .. Len(line) /\ p + d = at
    BY <1>6 DEF n
  <2>3. \E b \in a + 1 .. t : Spans(tx, m, p + d, d, a, b)
    BY <1>2, <1>6, <1>7, <1>11, <2>1, <2>2, StringFound
  <2> QED
    BY <2>2, <2>3
<1>12. ASSUME NEW a \in p .. f - 1, m[a] = "code", line[a] = "quote"
       PROVE  FALSE
  <2>1. a \in p .. t /\ a < f /\ a \in Nat
    BY <1>10
  <2>2. PICK b : <<a + d, b + d>> \in StringsOf(tx, at)
    BY <1>11, <1>12, <2>1 DEF Spans
  <2>3. f + d <= a + d
    BY <1>9, <2>2 DEF MaskOf
  <2> QED
    BY <1>10, <2>1, <2>3
<1>13. \A i \in p .. f : m[i] \notin InString
  <2>1. p \in 1 .. Len(line) + 1 /\ f \in p .. Len(line) + 1
    BY <1>9, <1>10 DEF n
  <2> QED
    BY <1>2, <1>7, <1>12, <2>1, QuietStays
<1>14. m[f] = "code" /\ line[f] = "quote"
  <2>1. f \in p .. f
    BY <1>10
  <2>2. m[f] \notin InString
    BY <1>13, <2>1
  <2>3. ~ BlankAt(tx, f + d)
    BY <1>8, <1>9, CellIs
  <2>4. Remains(line, m, f) /\ SameAt(line, tx, f + d, f)
    BY <1>6, <1>9, <2>3
  <2>5. line[f] = "quote"
    BY <1>8, <1>9, <2>4, CellIs
  <2> QED
    BY <2>2, <2>4, <2>5 DEF Remains, Shows, Outside, InString
<1>15. PICK b \in f + 1 .. t : Spans(tx, m, at, d, f, b)
  BY <1>9, <1>11, <1>14
<1>16. b = l
  <2>1. last <= b + d
    <3>1. <<f + d, b + d>>[1] = first /\ <<f + d, b + d>>[2] = b + d
      BY <1>9
    <3> QED
      BY <1>15, <3>1 DEF Spans, MaskOf
  <2>2. b \in Nat /\ l \in Nat /\ l <= b
    BY <1>9, <1>10, <1>15, <2>1
  <2>3. ASSUME l < b
        PROVE  FALSE
    <3>1. l \in f + 1 .. b - 1
      BY <1>10, <2>2, <2>3
    <3> QED
      BY <1>8, <1>9, <1>15, <3>1 DEF Spans
  <2> QED
    BY <2>2, <2>3
<1>17. /\ l + 1 \in 1 .. n + 1 /\ (l + 1) - 1 <= t /\ first + 2 \in 1 .. l + 1
       /\ Len(new) - (first + 2) = t - (l + 1)
  BY <1>1, <1>6, <1>9, <1>10 DEF MaskOf
<1>18. m[l + 1] = "code" /\ \A i \in f + 1 .. l : m[i] \in InString
  BY <1>15, <1>16 DEF Spans
<1>19. ASSUME NEW j \in l + 1 .. t
       PROVE  IF Remains(line, m, j) THEN SameAt(line, new, (first + 2) + (j - (l + 1)), j)
                                     ELSE BlankAt(new, (first + 2) + (j - (l + 1)))
  <2>1. /\ j - l \in 1 .. Len(tx) - last /\ first + 1 + (j - l) = (first + 2) + (j - (l + 1))
        /\ last + (j - l) = j + d /\ j \in p .. t
    BY <1>6, <1>9, <1>10
  <2>2. new[(first + 2) + (j - (l + 1))] = tx[j + d]
    BY <2>1 DEF MaskOf
  <2> QED
    BY <1>6, <2>1, <2>2 DEF SameAt, BlankAt
<1>20. ASSUME NEW j \in p .. f - 1
       PROVE  Remains(line, m, j) <=> j \in CodeAt(line, start)
  <2>1. j \in 1 .. n /\ j \in p .. f
    BY <1>1, <1>10
  <2>2. m[j] \notin InString
    BY <1>13, <2>1
  <2> QED
    BY <1>5, <1>12, <2>2, <2>1 DEF Remains, Shows, Outside, InString
<1>21. {new[i].at : i \in 1 .. (first + 2) - 1} \ {0} = {j \in CodeAt(line, start) : j < l + 1}
  <2>1. ASSUME NEW x \in {new[i].at : i \in 1 .. (first + 2) - 1} \ {0}
        PROVE  x \in {j \in CodeAt(line, start) : j < l + 1}
    <3>1. PICK i \in 1 .. (first + 2) - 1 : x = new[i].at /\ x # 0
      OBVIOUS
    <3>2. i # first /\ i # first + 1
      BY <3>1 DEF MaskOf
    <3>3. i \in 1 .. first - 1 /\ x = tx[i].at
      <4>1. i \in 1 .. first - 1
        BY <1>6, <1>9, <1>10, <3>1, <3>2
      <4> QED
        BY <3>1, <4>1 DEF MaskOf
    <3>4. CASE i < at
      <4>1. i \in 1 .. at - 1
        BY <1>6, <1>10, <3>4
      <4>2. x \in {tx[k].at : k \in 1 .. at - 1} \ {0}
        BY <3>1, <3>3, <4>1
      <4>3. x \in CodeAt(line, start) /\ x < p
        BY <1>7, <4>2
      <4>4. x \in 1 .. n
        BY <1>5, <4>3
      <4> QED
        BY <1>9, <1>10, <4>3, <4>4
    <3>5. CASE at <= i
      <4>1. PICK j \in p .. f - 1 : i = j + d
        <5>1. i - d \in p .. f - 1 /\ i = (i - d) + d
          BY <1>6, <1>9, <1>10, <3>3, <3>5
        <5> QED
          BY <5>1
      <4>2. j \in p .. t
        BY <1>9, <1>10
      <4>3. ~ BlankAt(tx, j + d)
        <5>1. tx[j + d].at # 0
          BY <3>1, <3>3, <4>1
        <5>2. BlankAt(tx, j + d) => tx[j + d].at = 0
          BY DEF BlankAt
        <5> QED
          BY <5>1, <5>2
      <4>4. Remains(line, m, j) /\ SameAt(line, tx, j + d, j)
        BY <1>6, <4>2, <4>3
      <4>5. x = j
        BY <3>3, <4>1, <4>4, CellIs
      <4> QED
        BY <1>10, <1>20, <4>4, <4>5
    <3> QED
      BY <1>6, <1>10, <3>3, <3>4, <3>5
  <2>2. ASSUME NEW x \in CodeAt(line, start), x < l + 1
        PROVE  x \in {new[i].at : i \in 1 .. (first + 2) - 1} \ {0}
    <3>1. x \in 1 .. n /\ m[x] = "code" /\ line[x] # "quote"
      BY <1>5
    <3>2. x < f
      <4>1. x # f
        BY <1>14, <3>1
      <4>2. x \notin f + 1 .. l
        BY <1>18, <3>1 DEF InString
      <4> QED
        BY <1>10, <2>2, <3>1, <4>1, <4>2
    <3>3. CASE x < p
      <4>1. x \in {tx[k].at : k \in 1 .. at - 1} \ {0}
        BY <1>7, <3>3
      <4>2. PICK k \in 1 .. at - 1 : x = tx[k].at /\ x # 0
        BY <4>1
      <4>3. k \in 1 .. first - 1 /\ k \in 1 .. (first + 2) - 1
        BY <1>6, <1>8, <1>9, <1>10
      <4>4. new[k].at = x
        BY <4>2, <4>3 DEF MaskOf
      <4> QED
        BY <4>2, <4>3, <4>4
    <3>4. CASE p <= x
      <4>1. x \in p .. f - 1 /\ x \in p .. t
        BY <1>9, <1>10, <3>1, <3>2, <3>4
      <4>2. SameAt(line, tx, x + d, x)
        BY <1>6, <1>20, <4>1
      <4>3. x + d \in 1 .. first - 1 /\ x + d \in 1 .. (first + 2) - 1
        BY <1>6, <1>9, <1>10, <3>1, <3>2, <3>4
      <4>4. new[x + d].at = x
        BY <4>2, <4>3, CellIs DEF MaskOf
      <4>5. x # 0
        BY <3>1
      <4> QED
        BY <4>3, <4>4, <4>5
    <3> QED
      BY <1>10, <3>1, <3>3, <3>4
  <2> QED
    BY <2>1, <2>2
<1>22. MaskedTo(line, start, m, new, first + 2, l + 1, t)
  BY <1>7, <1>17, <1>18, <1>19, <1>21 DEF MaskedTo, InString, n
<1> QED
  BY <1>4, <1>17, <1>22 DEF Masked, m, n

-----------------------------------------------------------------------------
(* The scanner. *)

\* A cell of the text: what the mask has put there is nothing a rule looks for,
\* and any other cell holds a character of the line.
Cells(line) ==
  {x \in Cell : IF x.at = 0 THEN x.c # Found
                            ELSE x.at \in 1 .. Len(line) /\ x.c = line[x.at]}

\* The line can be masked exactly.
Trusted == agreed /\ ~ Trap(raw, truth)

\* What is left of the line is what the steps so far should leave.
MaskedSoFar ==
  Trusted =>
    /\ phase = "inside" => Untouched(raw, truth, in_block, text)
    /\ phase = "block" => Unblocked(raw, truth, in_block, text)
    /\ phase = "comment" => Bare(raw, truth, in_block, text)
    /\ phase = "string" => Masked(raw, truth, in_block, text, cursor)
    /\ phase = "emit" => Exactly(raw, truth, in_block, text)

Masking == phase \in {"inside", "block", "comment", "string", "emit"}

\* The two counts agree as long as the masks have been exact.
Counts ==
  /\ Masking => seen < scanned /\ real < scanned /\ End(raw, truth) \notin InString
  /\ Masking \/ phase = "read" => (exact => seen = real)
  /\ phase \in {"report", "passed", "failed"} => (exact /\ fits => seen = real)
  /\ phase = "passed" => seen <= budget
  /\ phase \in {"inside", "block", "comment"} => cursor = 1
  /\ phase = "string" => cursor >= 1

ScanInv == ScanTypeOK /\ text \in Seq(Cells(raw)) /\ MaskedSoFar /\ Counts

\* A piece of a sequence.
LEMMA PieceIs ==
  ASSUME NEW S, NEW tx \in Seq(S), NEW a \in 0 .. Len(tx)
  PROVE  /\ SubSeq(tx, 1, a) \in Seq(S) /\ Len(SubSeq(tx, 1, a)) = a
         /\ \A i \in 1 .. a : SubSeq(tx, 1, a)[i] = tx[i]
         /\ SubSeq(tx, a + 1, Len(tx)) \in Seq(S)
         /\ Len(SubSeq(tx, a + 1, Len(tx))) = Len(tx) - a
         /\ \A i \in 1 .. Len(tx) - a : SubSeq(tx, a + 1, Len(tx))[i] = tx[a + i]
<1>1. Len(tx) \in Nat /\ \A i \in 1 .. Len(tx) : tx[i] \in S
  BY LenProperties, ElementOfSeq
<1>2. /\ SubSeq(tx, 1, a) \in Seq(S) /\ Len(SubSeq(tx, 1, a)) = a
      /\ \A i \in 1 .. a : SubSeq(tx, 1, a)[i] = tx[i]
  <2>1. 1 \in Int /\ a \in Int /\ \A i \in 1 .. a : tx[i] \in S
    BY <1>1
  <2>2. /\ SubSeq(tx, 1, a) \in Seq(S)
        /\ Len(SubSeq(tx, 1, a)) = IF 1 <= a THEN a - 1 + 1 ELSE 0
        /\ \A i \in 1 .. a - 1 + 1 : SubSeq(tx, 1, a)[i] = tx[1 + i - 1]
    BY <2>1, SubSeqProperties
  <2> QED
    BY <1>1, <2>2
<1>3. /\ SubSeq(tx, a + 1, Len(tx)) \in Seq(S)
      /\ Len(SubSeq(tx, a + 1, Len(tx))) = Len(tx) - a
      /\ \A i \in 1 .. Len(tx) - a : SubSeq(tx, a + 1, Len(tx))[i] = tx[a + i]
  <2> DEFINE b == a + 1
             n == Len(tx)
  <2>1. b \in Int /\ n \in Int /\ \A i \in b .. n : tx[i] \in S
    BY <1>1
  <2>2. b = a + 1 /\ n = Len(tx)
    OBVIOUS
  <2> HIDE DEF b, n
  <2>3. /\ SubSeq(tx, b, n) \in Seq(S)
        /\ Len(SubSeq(tx, b, n)) = IF b <= n THEN n - b + 1 ELSE 0
        /\ \A i \in 1 .. n - b + 1 : SubSeq(tx, b, n)[i] = tx[b + i - 1]
    BY <2>1, SubSeqProperties
  <2>4. n - b + 1 = n - a /\ (b <= n \/ n - a = 0) /\ n - a \in Nat
    BY <1>1, <2>2
  <2>5. \A i \in 1 .. n - a : SubSeq(tx, b, n)[i] = tx[a + i]
    <3> SUFFICES ASSUME NEW i \in 1 .. n - a
                 PROVE  SubSeq(tx, b, n)[i] = tx[a + i]
      OBVIOUS
    <3>1. b + i - 1 = a + i
      BY <2>1, <2>2, <2>4
    <3> QED
      BY <2>3, <2>4, <3>1
  <2>6. Len(SubSeq(tx, b, n)) = n - a
    BY <2>1, <2>3, <2>4
  <2> QED
    BY <2>2, <2>3, <2>5, <2>6
<1> QED
  BY <1>2, <1>3

\* A sequence whose middle gives way to another one.
Splice(tx, a, mid, b) == SubSeq(tx, 1, a) \o mid \o SubSeq(tx, b + 1, Len(tx))

Spliced(r, S, tx, a, mid, b) ==
  /\ r \in Seq(S) /\ Len(r) = a + Len(mid) + (Len(tx) - b)
  /\ \A i \in 1 .. a : r[i] = tx[i]
  /\ \A i \in 1 .. Len(mid) : r[a + i] = mid[i]
  /\ \A i \in 1 .. Len(tx) - b : r[a + Len(mid) + i] = tx[b + i]

\* It holds what was before, the new middle and what was after.
LEMMA SplicedIs ==
  ASSUME NEW S, NEW tx \in Seq(S), NEW mid \in Seq(S),
         NEW a \in 0 .. Len(tx), NEW b \in a .. Len(tx)
  PROVE  Spliced(Splice(tx, a, mid, b), S, tx, a, mid, b)
<1> DEFINE x == SubSeq(tx, 1, a)
           z == SubSeq(tx, b + 1, Len(tx))
           y == x \o mid
           r == Splice(tx, a, mid, b)
<1>1. Len(tx) \in Nat /\ Len(mid) \in Nat /\ a \in Nat /\ b \in Nat /\ b \in 0 .. Len(tx)
  BY LenProperties
<1>2. x \in Seq(S) /\ Len(x) = a /\ \A i \in 1 .. a : x[i] = tx[i]
  BY PieceIs
<1>3. z \in Seq(S) /\ Len(z) = Len(tx) - b /\ \A i \in 1 .. Len(tx) - b : z[i] = tx[b + i]
  BY <1>1, PieceIs
<1>4. r = y \o z
  BY DEF Splice
<1> HIDE DEF x, z, r
<1>5. /\ y \in Seq(S) /\ Len(y) = a + Len(mid)
      /\ \A i \in 1 .. a + Len(mid) : y[i] = IF i <= a THEN x[i] ELSE mid[i - a]
  BY <1>2, ConcatProperties
<1> HIDE DEF y
<1>6. /\ y \o z \in Seq(S) /\ Len(y \o z) = Len(y) + Len(z)
      /\ \A i \in 1 .. Len(y) + Len(z) : (y \o z)[i] = IF i <= Len(y) THEN y[i] ELSE z[i - Len(y)]
  BY <1>3, <1>5, ConcatProperties
<1>7. PICK k \in Nat, l \in Nat : k = a + Len(mid) /\ l = Len(tx) - b
  <2>1. a + Len(mid) \in Nat /\ Len(tx) - b \in Nat
    BY <1>1
  <2> QED
    BY <2>1
<1>8. /\ r \in Seq(S) /\ Len(r) = k + l /\ a <= k /\ k - a = Len(mid)
      /\ \A i \in 1 .. k + l : r[i] = IF i <= k THEN y[i] ELSE z[i - k]
      /\ \A i \in 1 .. k : y[i] = IF i <= a THEN x[i] ELSE mid[i - a]
      /\ \A i \in 1 .. l : z[i] = tx[b + i]
  <2>1. Len(y) = k /\ Len(z) = l
    BY <1>3, <1>5, <1>7
  <2>2. a <= k /\ k - a = Len(mid)
    BY <1>1, <1>7
  <2>3. /\ r \in Seq(S) /\ Len(r) = k + l
        /\ \A i \in 1 .. k + l : r[i] = IF i <= k THEN y[i] ELSE z[i - k]
    BY <1>4, <1>6, <2>1
  <2> QED
    BY <1>3, <1>5, <1>7, <2>2, <2>3
<1>9. \A i \in 1 .. a : r[i] = tx[i]
  <2> SUFFICES ASSUME NEW i \in 1 .. a
               PROVE  r[i] = tx[i]
    OBVIOUS
  <2>1. i \in Nat /\ 1 <= i /\ i <= a /\ a <= k
    BY <1>1, <1>8
  <2>2. i \in 1 .. k + l /\ i \in 1 .. k /\ i <= k
    BY <2>1
  <2> QED
    BY <1>2, <1>8, <2>1, <2>2
<1>10. \A i \in 1 .. Len(mid) : r[a + i] = mid[i]
  <2> SUFFICES ASSUME NEW i \in 1 .. Len(mid)
               PROVE  r[a + i] = mid[i]
    OBVIOUS
  <2>1. PICK j \in Nat : j = a + i
    BY <1>1
  <2>2. j \in 1 .. k + l /\ j \in 1 .. k /\ j <= k /\ ~ (j <= a) /\ j - a = i
    BY <1>1, <1>8, <2>1
  <2> QED
    BY <1>8, <2>1, <2>2
<1>11. \A i \in 1 .. l : r[k + i] = tx[b + i]
  <2> SUFFICES ASSUME NEW i \in 1 .. l
               PROVE  r[k + i] = tx[b + i]
    OBVIOUS
  <2>1. PICK j \in Nat : j = k + i
    OBVIOUS
  <2>2. j \in 1 .. k + l /\ ~ (j <= k) /\ j - k = i
    BY <2>1
  <2> QED
    BY <1>8, <2>1, <2>2
<1> QED
  BY <1>1, <1>7, <1>8, <1>9, <1>10, <1>11 DEF r, Spliced

\* The cells the mask puts in.
LEMMA MaskCells ==
  ASSUME NEW line
  PROVE  /\ \A k \in Nat : /\ Blanks(k) \in Seq(Cells(line)) /\ Len(Blanks(k)) = k
                           /\ \A i \in 1 .. k : BlankAt(Blanks(k), i)
         /\ <<Quote, Quote>> \in Seq(Cells(line)) /\ Len(<<Quote, Quote>>) = 2
         /\ <<Quote, Quote>>[1].at = 0 /\ <<Quote, Quote>>[2].at = 0
<1> DEFINE blank == [c |-> "blank", at |-> 0]
<1>1. 0 \in 0 .. MaxLength
  BY ScanBounds
<1>2. blank \in Cells(line) /\ Quote \in Cells(line)
  BY <1>1 DEF Cells, Cell, Quote, Found, Chars
<1>3. ASSUME NEW k \in Nat
      PROVE  /\ Blanks(k) \in Seq(Cells(line)) /\ Len(Blanks(k)) = k
             /\ \A i \in 1 .. k : BlankAt(Blanks(k), i)
  <2>1. Blanks(k) = [i \in 1 .. k |-> blank]
    BY DEF Blanks
  <2>2. \A i \in 1 .. k : BlankAt(Blanks(k), i)
    BY <2>1 DEF BlankAt
  <2> HIDE DEF blank
  <2>3. Blanks(k) \in Seq(Cells(line)) /\ Len(Blanks(k)) = k
    BY <1>2, <2>1
  <2> QED
    BY <2>2, <2>3
<1>4. Quote.at = 0
  BY DEF Quote
<1> HIDE DEF blank
<1>5. <<Quote, Quote>> \in Seq(Cells(line)) /\ Len(<<Quote, Quote>>) = 2
  BY <1>2
<1>6. <<Quote, Quote>>[1].at = 0 /\ <<Quote, Quote>>[2].at = 0
  BY <1>4
<1> QED
  BY <1>3, <1>5, <1>6

\* What the invariant says of a text.
LEMMA TextIs ==
  ASSUME NEW line, NEW tx \in Seq(Cells(line))
  PROVE  /\ tx \in Seq(Cell) /\ Len(tx) \in Nat /\ DOMAIN tx = 1 .. Len(tx)
         /\ \A i \in 1 .. Len(tx) : tx[i] \in Cells(line)
<1>1. Len(tx) \in Nat /\ DOMAIN tx = 1 .. Len(tx) /\ \A i \in 1 .. Len(tx) : tx[i] \in Cells(line)
  BY LenProperties, ElementOfSeq
<1>2. Cells(line) \subseteq Cell
  BY DEF Cells
<1> QED
  BY <1>1, <1>2

\* Cells that are blanked where they stand.
Blanked(r, line, tx, a, b) ==
  /\ r \in Seq(Cells(line)) /\ Len(r) = Len(tx)
  /\ \A i \in 1 .. a : r[i] = tx[i]
  /\ \A i \in a + 1 .. b : BlankAt(r, i)
  /\ \A i \in b + 1 .. Len(tx) : r[i] = tx[i]

\* They are blanked by a splice.
LEMMA BlankedIs ==
  ASSUME NEW line, NEW tx \in Seq(Cells(line)), NEW a \in 0 .. Len(tx), NEW b \in a .. Len(tx)
  PROVE  Blanked(Splice(tx, a, Blanks(b - a), b), line, tx, a, b)
<1> DEFINE r == Splice(tx, a, Blanks(b - a), b)
           mid == Blanks(b - a)
<1>1. /\ Len(tx) \in Nat /\ a \in Nat /\ b \in Nat /\ a <= b /\ b <= Len(tx)
      /\ b - a \in Nat
  BY LenProperties
<1>2. mid \in Seq(Cells(line)) /\ Len(mid) = b - a /\ \A i \in 1 .. b - a : BlankAt(mid, i)
  BY <1>1, MaskCells
<1>3. Spliced(r, Cells(line), tx, a, mid, b)
  BY <1>2, SplicedIs
<1> HIDE DEF r, mid
<1>4. r \in Seq(Cells(line)) /\ Len(r) = Len(tx)
  <2>1. r \in Seq(Cells(line)) /\ Len(r) = a + Len(mid) + (Len(tx) - b)
    BY <1>3 DEF Spliced
  <2>2. Len(r) = a + (b - a) + (Len(tx) - b)
    BY <1>2, <2>1
  <2>3. a + (b - a) + (Len(tx) - b) = Len(tx)
    BY <1>1
  <2> QED
    BY <2>1, <2>2, <2>3
<1>5. ASSUME NEW i \in a + 1 .. b
      PROVE  BlankAt(r, i)
  <2>1. PICK j \in 1 .. b - a : i = a + j
    <3>1. i - a \in 1 .. b - a /\ i = a + (i - a)
      BY <1>1
    <3> QED
      BY <3>1
  <2>2. r[i] = mid[j] /\ BlankAt(mid, j)
    BY <1>2, <1>3, <2>1 DEF Spliced
  <2> QED
    BY <2>2 DEF BlankAt
<1>6. ASSUME NEW i \in b + 1 .. Len(tx)
      PROVE  r[i] = tx[i]
  <2>1. PICK j \in 1 .. Len(tx) - b : i = b + j
    <3>1. i - b \in 1 .. Len(tx) - b /\ i = b + (i - b)
      BY <1>1
    <3> QED
      BY <3>1
  <2>2. a + Len(mid) + j = i
    BY <1>1, <1>2, <2>1
  <2>3. r[a + Len(mid) + j] = tx[b + j]
    BY <1>3, <2>1 DEF Spliced
  <2> QED
    BY <2>1, <2>2, <2>3
<1>7. \A i \in 1 .. a : r[i] = tx[i]
  BY <1>3 DEF Spliced
<1> QED
  BY <1>4, <1>5, <1>6, <1>7 DEF Blanked, r, mid

\* The scanner's operators, of the text it has.
LEMMA OfTheText ==
  /\ \A a, b : Marks(a, b) = MarksOf(text, a, b)
  /\ Strings = StringsOf(text, cursor)
  /\ Shown = ShownIn(text)
  /\ \A S \in SUBSET Nat : S # {} => Earliest(S) \in S /\ \A s \in S : Earliest(S) <= s
<1>1. \A i, k : Ends(i, k) = EndsIn(text, i, k)
  BY DEF Ends, EndsIn, RunOf
<1>2. Strings = StringsOf(text, cursor)
  BY <1>1 DEF Strings, StringsOf
<1>3. \A a, b : Marks(a, b) = MarksOf(text, a, b)
  BY DEF Marks, MarksOf
<1>4. Shown = ShownIn(text)
  BY DEF Shown, ShownIn
<1> QED
  BY <1>2, <1>3, <1>4, EarliestIs

\* A step on a line keeps the invariant if what it leaves is as it should be.
LEMMA LineStep ==
  ASSUME ScanInv, Masking, phase' \in {"block", "comment", "string", "emit"},
         UNCHANGED <<raw, agreed, fileVars, budget>>, in_block' \in BOOLEAN,
         text' \in Seq(Cells(raw)), Len(text') <= Len(raw), cursor' \in 1 .. MaxLength + 1,
         phase' \in {"block", "comment"} => cursor' = 1,
         Trusted => /\ phase' = "block" => Unblocked(raw, truth, in_block', text')
                    /\ phase' = "comment" => Bare(raw, truth, in_block', text')
                    /\ phase' = "string" => Masked(raw, truth, in_block', text', cursor')
                    /\ phase' = "emit" => Exactly(raw, truth, in_block', text')
  PROVE  ScanInv'
<1>1. /\ raw' = raw /\ agreed' = agreed /\ truth' = truth /\ exact' = exact /\ scanned' = scanned
      /\ fits' = fits /\ seen' = seen /\ real' = real /\ budget' = budget
  BY DEF fileVars
<1>2. MaxLength \in Nat
  BY ScanBounds
<1>3. ScanTypeOK'
  <2>1. text' \in Seq(Cell)
    BY TextIs
  <2>2. cursor' \in 0 .. MaxLength + 1
    BY <1>2
  <2>3. phase' \in Phases
    BY DEF Phases
  <2> QED
    BY <1>1, <2>1, <2>2, <2>3 DEF ScanInv, ScanTypeOK
<1>4. (text \in Seq(Cells(raw)))'
  BY <1>1
<1>5. MaskedSoFar'
  <2>1. Trusted' = Trusted
    BY <1>1 DEF Trusted
  <2> QED
    BY <1>1, <2>1 DEF MaskedSoFar
<1>6. Counts'
  <2>1. Masking' /\ ~ (phase' \in {"report", "passed", "failed"}) /\ phase' # "passed"
    BY DEF Masking
  <2>2. cursor' >= 1
    BY <1>2
  <2>3. seen' < scanned' /\ real' < scanned' /\ (End(raw, truth) \notin InString)'
    BY <1>1 DEF ScanInv, Counts
  <2>4. exact' => seen' = real'
    BY <1>1 DEF ScanInv, Counts
  <2> QED
    BY <2>1, <2>2, <2>3, <2>4 DEF Counts
<1> QED
  BY <1>3, <1>4, <1>5, <1>6 DEF ScanInv

\* What the invariant says where a line is being masked.
LEMMA LineFacts ==
  ASSUME ScanInv, Masking
  PROVE  /\ raw \in Lines /\ truth \in {"code", "block"} /\ in_block \in BOOLEAN
         /\ Len(raw) \in Nat /\ Len(raw) <= MaxLength /\ MaxLength \in Nat
         /\ text \in Seq(Cells(raw)) /\ text \in Seq(Cell) /\ Len(text) \in Nat
         /\ Len(text) <= Len(raw) /\ DOMAIN text = 1 .. Len(text)
         /\ End(raw, truth) \notin InString
         /\ phase \in {"inside", "block", "comment"} => cursor = 1
         /\ phase \in {"inside", "block", "comment", "string"} => cursor \in 1 .. MaxLength + 1
         /\ \A a, b : Marks(a, b) \in SUBSET Nat
<1>1. /\ raw \in Lines /\ truth \in {"code", "block"} /\ in_block \in BOOLEAN
      /\ text \in Seq(Cells(raw)) /\ Len(text) <= Len(raw) /\ cursor \in 0 .. MaxLength + 1
  BY DEF ScanInv, ScanTypeOK
<1>2. Len(raw) \in Nat /\ Len(raw) <= MaxLength /\ MaxLength \in Nat
  BY <1>1, LineIs, ScanBounds
<1>3. text \in Seq(Cell) /\ Len(text) \in Nat /\ DOMAIN text = 1 .. Len(text)
  BY <1>1, TextIs
<1>4. /\ End(raw, truth) \notin InString
      /\ phase \in {"inside", "block", "comment"} => cursor = 1
      /\ phase = "string" => cursor >= 1
  BY DEF ScanInv, Counts
<1>5. phase \in {"inside", "block", "comment", "string"} => cursor \in 1 .. MaxLength + 1
  BY <1>1, <1>2, <1>4
<1>6. \A a, b : Marks(a, b) \in SUBSET Nat
  BY <1>3 DEF Marks
<1> QED
  BY <1>1, <1>2, <1>3, <1>4, <1>5, <1>6

\* A line in a block comment: the whole line is dropped.
LEMMA StayInsideStep ==
  ASSUME ScanInv, StayInside
  PROVE  ScanInv'
<1>1. /\ Masking /\ phase = "inside" /\ Closes = {} /\ text' = <<>> /\ phase' = "emit"
      /\ raw' = raw /\ agreed' = agreed /\ in_block' = in_block /\ cursor' = cursor
      /\ UNCHANGED fileVars /\ budget' = budget
  BY DEF StayInside, Masking
<1>2. MarksOf(text, "*", "/") = {}
  BY <1>1, OfTheText DEF Closes
<1>3. Trusted => Exactly(raw, truth, in_block', text')
  <2> SUFFICES ASSUME Trusted
               PROVE  Exactly(raw, truth, in_block, <<>>)
    BY <1>1
  <2>1. Untouched(raw, truth, in_block, text)
    BY <1>1 DEF ScanInv, MaskedSoFar
  <2> QED
    BY <1>1, <1>2, <2>1, LineFacts, StaysInside
<1>4. text' \in Seq(Cells(raw)) /\ Len(text') <= Len(raw) /\ cursor' \in 1 .. MaxLength + 1
  BY <1>1, LineFacts, EmptySeq
<1>5. in_block' \in BOOLEAN
  BY <1>1, LineFacts
<1> QED
  BY <1>1, <1>3, <1>4, <1>5, LineStep

\* A line that leaves a block comment is blanked up to its end.
LEMMA LeaveBlockStep ==
  ASSUME ScanInv, LeaveBlock
  PROVE  ScanInv'
<1> DEFINE c == Earliest(Closes)
<1>1. /\ Masking /\ phase = "inside" /\ Closes # {} /\ phase' = "block"
      /\ raw' = raw /\ agreed' = agreed /\ in_block' = FALSE /\ cursor' = cursor
      /\ UNCHANGED fileVars /\ budget' = budget
      /\ text' = Blanks(c + 1) \o SubSeq(text, (c + 1) + 1, Len(text))
  BY DEF LeaveBlock, Masking, From
<1>2. /\ Closes = MarksOf(text, "*", "/")
      /\ c \in MarksOf(text, "*", "/") /\ \A i \in MarksOf(text, "*", "/") : c <= i
  BY <1>1, OfTheText, LineFacts DEF Closes
<1> HIDE DEF c
<1>3. /\ Len(text) \in Nat /\ Len(text) <= Len(raw) /\ text \in Seq(Cells(raw))
      /\ cursor = 1 /\ cursor \in 1 .. MaxLength + 1
  BY <1>1, LineFacts
<1>4. PICK b \in 0 .. Len(text) : b = c + 1 /\ b \in Nat /\ 0 \in 0 .. Len(text)
  BY <1>2, <1>3 DEF MarksOf
<1>5. text' = Splice(text, 0, Blanks(b - 0), b)
  <2>1. SubSeq(text, 1, 0) = <<>>
    BY SubSeqEmpty
  <2>2. <<>> \o Blanks(b) = Blanks(b) /\ b - 0 = b
    BY <1>4, MaskCells, ConcatEmptySeq
  <2> QED
    BY <1>1, <1>4, <2>1, <2>2 DEF Splice
<1>6. /\ text' \in Seq(Cells(raw)) /\ Len(text') = Len(text)
      /\ \A i \in 0 + 1 .. b : BlankAt(text', i)
      /\ \A i \in b + 1 .. Len(text) : text'[i] = text[i]
  <2>1. Blanked(text', raw, text, 0, b)
    BY <1>3, <1>4, <1>5, BlankedIs
  <2> QED
    BY <2>1 DEF Blanked
<1>7. \A i \in 1 .. c + 1 : BlankAt(text', i)
  BY <1>4, <1>6
<1>8. \A i \in c + 2 .. Len(text) : text'[i] = text[i]
  <2>1. c + 2 = b + 1
    BY <1>4, <1>2, <1>3 DEF MarksOf
  <2> QED
    BY <1>6, <2>1
<1>9. ASSUME Trusted
      PROVE  Unblocked(raw, truth, FALSE, text')
  <2>1. Untouched(raw, truth, in_block, text)
    BY <1>1, <1>9 DEF ScanInv, MaskedSoFar
  <2> QED
    BY <1>1, <1>2, <1>6, <1>7, <1>8, <2>1, LineFacts, LeavesBlock
<1> QED
  BY <1>1, <1>3, <1>6, <1>9, LineStep

\* A block comment that closes on its line is blanked.
LEMMA RemoveInlineStep ==
  ASSUME ScanInv, RemoveInline
  PROVE  ScanInv'
<1> DEFINE o == Earliest(Opens)
           c == Earliest(ClosesAfter(o))
<1>1. /\ Masking /\ phase = "block" /\ Opens # {} /\ ClosesAfter(o) # {} /\ phase' = "block"
      /\ raw' = raw /\ agreed' = agreed /\ in_block' = in_block /\ cursor' = cursor
      /\ UNCHANGED fileVars /\ budget' = budget
      /\ text' = SubSeq(text, 1, o - 1) \o Blanks((c + 1) - o + 1)
                   \o SubSeq(text, (c + 1) + 1, Len(text))
  BY DEF RemoveInline, Masking, From, Upto
<1>2. /\ Opens = MarksOf(text, "/", "*") /\ Closes = MarksOf(text, "*", "/")
      /\ o \in MarksOf(text, "/", "*") /\ \A i \in MarksOf(text, "/", "*") : o <= i
  BY <1>1, OfTheText, LineFacts DEF Opens, Closes
<1>3. c \in ClosesAfter(o) /\ \A i \in ClosesAfter(o) : c <= i
  <2>1. ClosesAfter(o) \in SUBSET Nat
    BY <1>1, LineFacts DEF ClosesAfter, Closes
  <2> QED
    BY <1>1, <2>1, OfTheText
<1> HIDE DEF o, c
<1>4. /\ c \in MarksOf(text, "*", "/") /\ c > o + 1
      /\ \A i \in MarksOf(text, "*", "/") : i > o + 1 => c <= i
  BY <1>2, <1>3 DEF ClosesAfter
<1>5. /\ Len(text) \in Nat /\ Len(text) <= Len(raw) /\ text \in Seq(Cells(raw))
      /\ cursor = 1 /\ cursor \in 1 .. MaxLength + 1 /\ in_block' \in BOOLEAN
  BY <1>1, LineFacts
<1>6. /\ o \in Nat /\ c \in Nat /\ o >= 1 /\ c + 1 <= Len(text)
  BY <1>2, <1>4, <1>5 DEF MarksOf
<1>7. PICK a \in 0 .. Len(text), b \in 0 .. Len(text) : a = o - 1 /\ b = c + 1
  <2>1. o - 1 \in 0 .. Len(text) /\ c + 1 \in 0 .. Len(text)
    BY <1>4, <1>5, <1>6
  <2> QED
    BY <2>1
<1>8. b \in a .. Len(text) /\ b - a = (c + 1) - o + 1 /\ a + 1 = o /\ b + 1 = c + 2
  BY <1>4, <1>5, <1>6, <1>7
<1>9. text' = Splice(text, a, Blanks(b - a), b)
  BY <1>1, <1>7, <1>8 DEF Splice
<1>10. /\ text' \in Seq(Cells(raw)) /\ Len(text') = Len(text)
       /\ \A i \in 1 .. a : text'[i] = text[i]
       /\ \A i \in a + 1 .. b : BlankAt(text', i)
       /\ \A i \in b + 1 .. Len(text) : text'[i] = text[i]
  <2>1. Blanked(text', raw, text, a, b)
    BY <1>5, <1>8, <1>9, BlankedIs
  <2> QED
    BY <2>1 DEF Blanked
<1>11. /\ \A i \in 1 .. o - 1 : text'[i] = text[i]
       /\ \A i \in o .. c + 1 : BlankAt(text', i)
       /\ \A i \in c + 2 .. Len(text) : text'[i] = text[i]
  BY <1>7, <1>8, <1>10
<1>12. ASSUME Trusted
       PROVE  Unblocked(raw, truth, in_block', text')
  <2>1. Unblocked(raw, truth, in_block, text) /\ ~ Trap(raw, truth)
    BY <1>1, <1>12 DEF ScanInv, MaskedSoFar, Trusted
  <2> QED
    BY <1>1, <1>2, <1>4, <1>10, <1>11, <2>1, LineFacts, RemovesInline
<1> QED
  BY <1>1, <1>5, <1>10, <1>12, LineStep

\* A block comment that stays open is cut off.
LEMMA OpenBlockStep ==
  ASSUME ScanInv, OpenBlock
  PROVE  ScanInv'
<1> DEFINE o == Earliest(Opens)
<1>1. /\ Masking /\ phase = "block" /\ Opens # {} /\ ClosesAfter(o) = {} /\ phase' = "comment"
      /\ raw' = raw /\ agreed' = agreed /\ in_block' = TRUE /\ cursor' = cursor
      /\ UNCHANGED fileVars /\ budget' = budget /\ text' = SubSeq(text, 1, o - 1)
  BY DEF OpenBlock, Masking, Upto
<1>2. /\ Opens = MarksOf(text, "/", "*") /\ Closes = MarksOf(text, "*", "/")
      /\ o \in MarksOf(text, "/", "*") /\ \A i \in MarksOf(text, "/", "*") : o <= i
  BY <1>1, OfTheText, LineFacts DEF Opens, Closes
<1> HIDE DEF o
<1>3. /\ Len(text) \in Nat /\ Len(text) <= Len(raw) /\ text \in Seq(Cells(raw))
      /\ cursor = 1 /\ cursor \in 1 .. MaxLength + 1 /\ Len(raw) \in Nat
  BY <1>1, LineFacts
<1>4. o \in Nat /\ o - 1 \in 0 .. Len(text)
  BY <1>2, <1>3 DEF MarksOf
<1>5. \A i \in MarksOf(text, "*", "/") : i <= o + 1
  <2>1. \A i \in MarksOf(text, "*", "/") : ~ (i > o + 1) /\ i \in Nat
    <3>1. MarksOf(text, "*", "/") \subseteq Nat
      BY <1>3 DEF MarksOf
    <3> QED
      BY <1>1, <1>2, <3>1 DEF ClosesAfter
  <2> QED
    BY <1>4, <2>1
<1>6. PICK a \in 0 .. Len(text) : a = o - 1
  BY <1>4
<1>7. text' \in Seq(Cells(raw)) /\ Len(text') = a /\ \A i \in 1 .. a : text'[i] = text[i]
  BY <1>1, <1>3, <1>6, PieceIs
<1>8. Len(text') <= Len(raw)
  BY <1>3, <1>7
<1>9. ASSUME Trusted
      PROVE  Bare(raw, truth, in_block', text')
  <2>1. Unblocked(raw, truth, in_block, text) /\ ~ Trap(raw, truth)
    BY <1>1, <1>9 DEF ScanInv, MaskedSoFar, Trusted
  <2>2. Bare(raw, truth, TRUE, text')
    BY <1>1, <1>2, <1>5, <1>6, <1>7, <2>1, LineFacts, OpensBlock
  <2> QED
    BY <1>1, <2>2
<1> QED
  BY <1>1, <1>3, <1>7, <1>8, <1>9, LineStep

\* No block comment is left.
LEMMA NoBlockStep ==
  ASSUME ScanInv, NoBlock
  PROVE  ScanInv'
<1>1. /\ Masking /\ phase = "block" /\ Opens = {} /\ phase' = "comment"
      /\ raw' = raw /\ text' = text /\ agreed' = agreed /\ in_block' = in_block
      /\ cursor' = cursor /\ UNCHANGED fileVars /\ budget' = budget
  BY DEF NoBlock, Masking, lineVars
<1>2. MarksOf(text, "/", "*") = {}
  BY <1>1, OfTheText DEF Opens
<1>3. /\ text \in Seq(Cells(raw)) /\ Len(text) <= Len(raw)
      /\ cursor = 1 /\ cursor \in 1 .. MaxLength + 1 /\ in_block \in BOOLEAN
  BY <1>1, LineFacts
<1>4. ASSUME Trusted
      PROVE  Bare(raw, truth, in_block', text')
  <2>1. Unblocked(raw, truth, in_block, text) /\ ~ Trap(raw, truth)
    BY <1>1, <1>4 DEF ScanInv, MaskedSoFar, Trusted
  <2> QED
    BY <1>1, <1>2, <2>1, LineFacts, NoBlockLeft
<1> QED
  BY <1>1, <1>3, <1>4, LineStep

\* The line comment is cut off.
LEMMA CutLineCommentStep ==
  ASSUME ScanInv, CutLineComment
  PROVE  ScanInv'
<1> DEFINE starts == {i \in Marks("/", "/") : i = 1 \/ text[i - 1].c # ":"}
<1>1. /\ Masking /\ phase = "comment" /\ phase' = "string"
      /\ raw' = raw /\ agreed' = agreed /\ in_block' = in_block /\ cursor' = cursor
      /\ UNCHANGED fileVars /\ budget' = budget
      /\ text' = IF starts = {} THEN text ELSE SubSeq(text, 1, Earliest(starts) - 1)
  BY DEF CutLineComment, Masking, Upto
<1>2. starts = LineMarks(text)
  BY OfTheText DEF LineMarks
<1> HIDE DEF starts
<1>3. /\ Len(text) \in Nat /\ Len(text) <= Len(raw) /\ text \in Seq(Cells(raw))
      /\ cursor = 1 /\ cursor \in 1 .. MaxLength + 1 /\ Len(raw) \in Nat /\ in_block \in BOOLEAN
  BY <1>1, LineFacts
<1>4. PICK t \in 0 .. Len(text) : text' \in Seq(Cells(raw)) /\ CutOff(text', text, t)
  <2>1. CASE starts = {}
    <3>1. text' = text /\ Len(text) \in 0 .. Len(text)
      BY <1>1, <1>3, <2>1
    <3> QED
      BY <1>2, <1>3, <2>1, <3>1 DEF CutOff
  <2>2. CASE starts # {}
    <3> DEFINE s == Earliest(starts)
    <3>1. LineMarks(text) \in SUBSET (1 .. Len(text) - 1)
      BY DEF LineMarks, MarksOf
    <3>2. s \in LineMarks(text) /\ \A i \in LineMarks(text) : s <= i
      <4>1. starts \in SUBSET Nat
        BY <1>2, <1>3, <3>1
      <4> QED
        BY <1>2, <2>2, <4>1, OfTheText
    <3>3. text' = SubSeq(text, 1, s - 1)
      BY <1>1, <2>2
    <3> HIDE DEF s
    <3>4. PICK t \in 0 .. Len(text) : t = s - 1 /\ t + 1 = s
      <4>1. s - 1 \in 0 .. Len(text) /\ (s - 1) + 1 = s
        BY <1>3, <3>1, <3>2
      <4> QED
        BY <4>1
    <3>5. text' \in Seq(Cells(raw)) /\ Len(text') = t /\ \A i \in 1 .. t : text'[i] = text[i]
      BY <1>3, <3>3, <3>4, PieceIs
    <3> QED
      BY <3>2, <3>4, <3>5 DEF CutOff
  <2> QED
    BY <2>1, <2>2
<1>5. Len(text') <= Len(raw)
  BY <1>3, <1>4 DEF CutOff
<1>6. ASSUME Trusted
      PROVE  Masked(raw, truth, in_block', text', cursor')
  <2>1. Bare(raw, truth, in_block, text) /\ ~ Trap(raw, truth)
    BY <1>1, <1>6 DEF ScanInv, MaskedSoFar, Trusted
  <2>2. Masked(raw, truth, in_block, text', 1)
    BY <1>1, <1>4, <2>1, LineFacts, CutsLine
  <2> QED
    BY <1>1, <1>3, <2>2
<1> QED
  BY <1>1, <1>3, <1>4, <1>5, <1>6, LineStep

\* The next string is masked.
LEMMA MaskStringStep ==
  ASSUME ScanInv, MaskString
  PROVE  ScanInv'
<1> DEFINE first == Earliest({s[1] : s \in Strings})
           last == Earliest({s[2] : s \in {t \in Strings : t[1] = first}})
<1>1. /\ Masking /\ phase = "string" /\ Strings # {} /\ phase' = "string"
      /\ raw' = raw /\ agreed' = agreed /\ in_block' = in_block /\ cursor' = first + 2
      /\ UNCHANGED fileVars /\ budget' = budget
      /\ text' = Splice(text, first - 1, <<Quote, Quote>>, last)
  BY DEF MaskString, Masking, Upto, From, Splice
<1>2. Strings = StringsOf(text, cursor)
  BY OfTheText
<1>3. /\ Len(text) \in Nat /\ Len(text) <= Len(raw) /\ text \in Seq(Cells(raw))
      /\ cursor \in 1 .. MaxLength + 1 /\ cursor \in Nat /\ Len(raw) \in Nat /\ in_block \in BOOLEAN
      /\ Len(raw) <= MaxLength /\ MaxLength \in Nat
  BY <1>1, LineFacts
<1>4. ASSUME NEW s \in Strings
      PROVE  /\ s[1] \in Nat /\ s[2] \in Nat /\ s = <<s[1], s[2]>>
             /\ cursor <= s[1] /\ s[1] < s[2] /\ s[2] <= Len(text)
  BY <1>3 DEF Strings
<1>5. first \in {s[1] : s \in Strings} /\ \A s \in Strings : first <= s[1]
  <2> DEFINE S == {s[1] : s \in Strings}
  <2>1. S \in SUBSET Nat /\ S # {}
    BY <1>1, <1>4
  <2>2. first \in S /\ \A i \in S : first <= i
    <3> HIDE DEF S
    <3> QED
      BY <2>1, OfTheText DEF S
  <2> QED
    BY <2>2
<1> HIDE DEF first
<1>6. /\ last \in {s[2] : s \in {t \in Strings : t[1] = first}}
      /\ \A s \in Strings : s[1] = first => last <= s[2]
  <2> DEFINE S == {s[2] : s \in {t \in Strings : t[1] = first}}
  <2>1. S \in SUBSET Nat /\ S # {}
    BY <1>4, <1>5
  <2>2. last \in S /\ \A i \in S : last <= i
    <3> HIDE DEF S
    <3> QED
      BY <2>1, OfTheText DEF S
  <2> QED
    BY <2>2
<1>7. <<first, last>> \in Strings
  <2>1. PICK s \in Strings : s[1] = first /\ s[2] = last
    BY <1>6
  <2> QED
    BY <1>4, <2>1
<1> HIDE DEF last
<1>8. /\ first \in Nat /\ last \in Nat /\ cursor <= first /\ first < last /\ last <= Len(text)
  <2>1. <<first, last>>[1] = first /\ <<first, last>>[2] = last
    OBVIOUS
  <2> QED
    BY <1>4, <1>7, <2>1
<1>9. PICK a \in 0 .. Len(text), b \in 0 .. Len(text) :
        a = first - 1 /\ b = last /\ b \in a .. Len(text) /\ a + 1 = first /\ a + 2 = first + 1
  <2>1. /\ first - 1 \in 0 .. Len(text) /\ last \in 0 .. Len(text)
        /\ last \in first - 1 .. Len(text) /\ (first - 1) + 1 = first /\ (first - 1) + 2 = first + 1
    BY <1>3, <1>8
  <2> QED
    BY <2>1
<1>10. Spliced(text', Cells(raw), text, a, <<Quote, Quote>>, b)
  <2>1. <<Quote, Quote>> \in Seq(Cells(raw))
    BY MaskCells
  <2>2. text' = Splice(text, a, <<Quote, Quote>>, b)
    BY <1>1, <1>9
  <2> QED
    BY <1>3, <1>9, <2>1, <2>2, SplicedIs
<1>11. Len(<<Quote, Quote>>) = 2 /\ <<Quote, Quote>>[1].at = 0 /\ <<Quote, Quote>>[2].at = 0
  BY MaskCells
<1>12. text' \in Seq(Cells(raw)) /\ Len(text') = first + 1 + (Len(text) - last)
  <2>1. text' \in Seq(Cells(raw)) /\ Len(text') = a + 2 + (Len(text) - b)
    BY <1>10, <1>11 DEF Spliced
  <2> QED
    BY <1>9, <2>1
<1>13. /\ \A i \in 1 .. first - 1 : text'[i] = text[i]
       /\ text'[first].at = 0 /\ text'[first + 1].at = 0
       /\ \A i \in 1 .. Len(text) - last : text'[first + 1 + i] = text[last + i]
  <2>1. \A i \in 1 .. a : text'[i] = text[i]
    BY <1>10 DEF Spliced
  <2>2. text'[a + 1] = <<Quote, Quote>>[1] /\ text'[a + 2] = <<Quote, Quote>>[2]
    <3>1. 1 \in 1 .. 2 /\ 2 \in 1 .. 2
      OBVIOUS
    <3> QED
      BY <1>10, <1>11, <3>1 DEF Spliced
  <2>3. \A i \in 1 .. Len(text) - b : text'[a + 2 + i] = text[b + i]
    BY <1>10, <1>11 DEF Spliced
  <2> QED
    BY <1>9, <1>11, <2>1, <2>2, <2>3
<1>14. Len(text') <= Len(raw) /\ cursor' \in 1 .. MaxLength + 1
  <2>1. Len(text') <= Len(text)
    BY <1>3, <1>8, <1>12
  <2>2. first + 2 \in 1 .. MaxLength + 1
    BY <1>3, <1>8
  <2> QED
    BY <1>1, <1>3, <1>12, <2>1, <2>2, LenProperties
<1>15. MaskOf(text', text, cursor, first, last)
  BY <1>2, <1>5, <1>6, <1>7, <1>12, <1>13 DEF MaskOf
<1>16. ASSUME Trusted
       PROVE  Masked(raw, truth, in_block', text', cursor')
  <2>1. Masked(raw, truth, in_block, text, cursor)
    BY <1>1, <1>16 DEF ScanInv, MaskedSoFar
  <2>2. Masked(raw, truth, in_block, text', first + 2)
    BY <1>1, <1>15, <2>1, LineFacts, MasksString
  <2> QED
    BY <1>1, <2>2
<1> QED
  BY <1>1, <1>3, <1>12, <1>14, <1>16, LineStep

\* No string is left.
LEMMA NoStringStep ==
  ASSUME ScanInv, NoString
  PROVE  ScanInv'
<1>1. /\ Masking /\ phase = "string" /\ Strings = {} /\ phase' = "emit"
      /\ raw' = raw /\ text' = text /\ agreed' = agreed /\ in_block' = in_block
      /\ cursor' = cursor /\ UNCHANGED fileVars /\ budget' = budget
  BY DEF NoString, Masking, lineVars
<1>2. StringsOf(text, cursor) = {}
  BY <1>1, OfTheText
<1>3. /\ text \in Seq(Cells(raw)) /\ Len(text) <= Len(raw)
      /\ cursor \in 1 .. MaxLength + 1 /\ in_block \in BOOLEAN
  BY <1>1, LineFacts
<1>4. ASSUME Trusted
      PROVE  Exactly(raw, truth, in_block', text')
  <2>1. Masked(raw, truth, in_block, text, cursor)
    BY <1>1, <1>4 DEF ScanInv, MaskedSoFar
  <2> QED
    BY <1>1, <1>2, <2>1, LineFacts, NoStringLeft
<1> QED
  BY <1>1, <1>3, <1>4, LineStep

\* A line is read.
LEMMA ReadLineStep ==
  ASSUME ScanInv, ReadLine
  PROVE  ScanInv'
<1>1. /\ phase = "read" /\ scanned < MaxFileLines /\ raw' \in Lines
      /\ End(raw', truth) \notin InString
      /\ text' = [i \in DOMAIN raw' |-> [c |-> raw'[i], at |-> i]] /\ cursor' = 1
      /\ agreed' = (in_block = (truth = "block")) /\ scanned' = scanned + 1
      /\ phase' = (IF in_block THEN "inside" ELSE "block")
      /\ in_block' = in_block /\ truth' = truth /\ exact' = exact /\ fits' = fits
      /\ seen' = seen /\ real' = real /\ budget' = budget
  BY DEF ReadLine, InString
<1>2. /\ in_block \in BOOLEAN /\ exact \in BOOLEAN /\ fits \in BOOLEAN
      /\ truth \in {"code", "block"} /\ scanned \in 0 .. MaxFileLines
      /\ seen \in 0 .. scanned /\ real \in 0 .. scanned /\ budget \in 0 .. MaxFileLines
  BY DEF ScanInv, ScanTypeOK
<1>3. MaxLength \in Nat /\ MaxFileLines \in Nat
  BY ScanBounds
<1>4. /\ Len(raw') \in Nat /\ Len(raw') <= MaxLength /\ DOMAIN raw' = 1 .. Len(raw')
      /\ \A i \in 1 .. Len(raw') : raw'[i] \in Chars
  BY <1>1, LineIs
<1>5. text' \in Seq(Cells(raw')) /\ Len(text') = Len(raw')
  <2>1. ASSUME NEW i \in 1 .. Len(raw')
        PROVE  [c |-> raw'[i], at |-> i] \in Cells(raw')
    BY <1>3, <1>4 DEF Cells, Cell
  <2>2. text' = [i \in 1 .. Len(raw') |-> [c |-> raw'[i], at |-> i]]
    BY <1>1, <1>4
  <2>3. text' \in [1 .. Len(raw') -> Cells(raw')]
    BY <2>1, <2>2
  <2> QED
    BY <1>4, <2>3
<1>6. \A i \in 1 .. Len(raw') : SameAt(raw', text', i, i)
  BY <1>1, <1>4 DEF SameAt
<1>7. ScanTypeOK'
  <2>1. text' \in Seq(Cell)
    BY <1>5, TextIs
  <2>2. Len(text') <= Len(raw')
    BY <1>4, <1>5
  <2>3. cursor' \in 0 .. MaxLength + 1 /\ phase' \in Phases /\ agreed' \in BOOLEAN
    BY <1>1, <1>3 DEF Phases
  <2>4. /\ scanned' \in 0 .. MaxFileLines /\ seen' \in 0 .. scanned' /\ real' \in 0 .. scanned'
    BY <1>1, <1>2, <1>3
  <2> QED
    BY <1>1, <1>2, <2>1, <2>2, <2>3, <2>4 DEF ScanTypeOK
<1>8. MaskedSoFar'
  <2> SUFFICES ASSUME Trusted'
               PROVE  /\ phase' = "inside" => Untouched(raw', truth', in_block', text')
                      /\ phase' = "block" => Unblocked(raw', truth', in_block', text')
    BY <1>1 DEF MaskedSoFar
  <2>1. in_block = (truth = "block")
    BY <1>1 DEF Trusted
  <2>2. CASE in_block
    <3>1. Untouched(raw', truth', in_block', text')
      BY <1>1, <1>5, <1>6, <2>1, <2>2 DEF Untouched
    <3> QED
      BY <1>1, <2>2, <3>1
  <2>3. CASE ~ in_block
    <3>1. truth = "code"
      BY <1>2, <2>1, <2>3
    <3>2. Modes(raw', truth)[1] = "code"
      BY <1>1, <1>2, <3>1, ModesWalk
    <3>3. BlankedTo(raw', Modes(raw', truth), text', 1)
      BY <1>4, <1>6, <3>2 DEF BlankedTo
    <3>4. 1 \in 1 .. Len(raw') + 1
      BY <1>4
    <3>5. Unblocked(raw', truth', in_block', text')
      BY <1>1, <1>5, <2>3, <3>3, <3>4 DEF Unblocked
    <3> QED
      BY <1>1, <2>3, <3>5
  <2> QED
    BY <2>2, <2>3
<1>9. Counts'
  <2>1. seen' < scanned' /\ real' < scanned'
    BY <1>1, <1>2, <1>3
  <2>2. (End(raw, truth) \notin InString)'
    BY <1>1
  <2>3. exact' => seen' = real'
    BY <1>1 DEF ScanInv, Counts
  <2>4. phase' \in {"inside", "block"}
    BY <1>1
  <2> QED
    BY <1>1, <2>1, <2>2, <2>3, <2>4 DEF Counts
<1> QED
  BY <1>5, <1>7, <1>8, <1>9 DEF ScanInv

\* A rule finds its character in the mask exactly where it is in the code.
LEMMA FoundInCode ==
  ASSUME NEW line \in Lines, NEW start, NEW block, NEW tx \in Seq(Cells(line)),
         Exactly(line, start, block, tx)
  PROVE  (\E i \in DOMAIN tx : tx[i].c = Found)
            <=> \E i \in CodeAt(line, start) : line[i] = Found
<1>1. DOMAIN tx = 1 .. Len(tx) /\ \A i \in 1 .. Len(tx) : tx[i] \in Cells(line)
  BY TextIs
<1>2. {tx[i].at : i \in DOMAIN tx} \ {0} = CodeAt(line, start)
  BY DEF Exactly, ShownIn
<1>3. ASSUME NEW i \in DOMAIN tx
      PROVE  IF tx[i].at = 0 THEN tx[i].c # Found ELSE tx[i].c = line[tx[i].at]
  BY <1>1 DEF Cells
<1>4. ASSUME NEW i \in DOMAIN tx, tx[i].c = Found
      PROVE  \E j \in CodeAt(line, start) : line[j] = Found
  <2>1. tx[i].at \in CodeAt(line, start) /\ line[tx[i].at] = Found
    BY <1>2, <1>3, <1>4
  <2> QED
    BY <2>1
<1>5. ASSUME NEW j \in CodeAt(line, start), line[j] = Found
      PROVE  \E i \in DOMAIN tx : tx[i].c = Found
  <2>1. PICK i \in DOMAIN tx : j = tx[i].at /\ j # 0
    BY <1>2
  <2> QED
    BY <1>3, <1>5, <2>1
<1> QED
  BY <1>4, <1>5

\* The masked line is kept, and both counts are brought up to date.
LEMMA EmitStep ==
  ASSUME ScanInv, Emit
  PROVE  ScanInv'
<1>1. /\ phase = "emit" /\ Masking
      /\ seen' = (IF \E i \in DOMAIN text : text[i].c = Found THEN seen + 1 ELSE seen)
      /\ real' = (IF \E i \in CodeAt(raw, truth) : raw[i] = Found THEN real + 1 ELSE real)
      /\ exact' = (exact /\ agreed /\ ~ Trap(raw, truth))
      /\ truth' = (IF End(raw, truth) = "block" THEN "block" ELSE "code")
      /\ raw' = <<>> /\ text' = <<>> /\ cursor' = 0 /\ agreed' = TRUE /\ phase' = "read"
      /\ in_block' = in_block /\ scanned' = scanned /\ fits' = fits /\ budget' = budget
  BY DEF Emit, Masking
<1>2. /\ in_block \in BOOLEAN /\ exact \in BOOLEAN /\ agreed \in BOOLEAN /\ fits \in BOOLEAN
      /\ scanned \in 0 .. MaxFileLines /\ raw \in Lines /\ text \in Seq(Cells(raw))
      /\ seen \in 0 .. scanned /\ real \in 0 .. scanned /\ budget \in 0 .. MaxFileLines
  BY DEF ScanInv, ScanTypeOK
<1>3. MaxLength \in Nat /\ MaxFileLines \in Nat
  BY ScanBounds
<1>4. seen < scanned /\ real < scanned /\ (exact => seen = real)
  BY <1>1 DEF ScanInv, Counts
<1>5. exact' => seen' = real'
  <2> SUFFICES ASSUME exact'
               PROVE  seen' = real'
    OBVIOUS
  <2>1. exact /\ Trusted
    BY <1>1 DEF Trusted
  <2>2. Exactly(raw, truth, in_block, text)
    BY <1>1, <2>1 DEF ScanInv, MaskedSoFar
  <2>3. (\E i \in DOMAIN text : text[i].c = Found)
          <=> \E i \in CodeAt(raw, truth) : raw[i] = Found
    BY <1>2, <2>2, FoundInCode
  <2> QED
    BY <1>1, <1>4, <2>1, <2>3
<1>6. <<>> \in Lines /\ <<>> \in Seq(Cells(<<>>)) /\ <<>> \in Seq(Cell) /\ Len(<<>>) = 0
  <2>1. 0 \in 0 .. MaxLength /\ <<>> \in [1 .. 0 -> Chars]
    BY <1>3
  <2> QED
    BY <2>1, EmptySeq DEF Lines
<1>7. ScanTypeOK'
  <2>1. seen' \in 0 .. scanned' /\ real' \in 0 .. scanned'
    BY <1>1, <1>2, <1>3, <1>4
  <2>2. exact' \in BOOLEAN /\ truth' \in {"code", "block"} /\ phase' \in Phases
    BY <1>1 DEF Phases
  <2>3. raw' \in Lines /\ text' \in Seq(Cell) /\ Len(text') <= Len(raw') /\ cursor' \in 0 .. MaxLength + 1
    BY <1>1, <1>3, <1>6
  <2> QED
    BY <1>1, <1>2, <2>1, <2>2, <2>3 DEF ScanTypeOK
<1>8. text' \in Seq(Cells(raw'))
  BY <1>1, <1>6
<1>9. MaskedSoFar'
  BY <1>1 DEF MaskedSoFar
<1>10. Counts'
  BY <1>1, <1>5 DEF Counts, Masking
<1> QED
  BY <1>7, <1>8, <1>9, <1>10 DEF ScanInv

\* The steps between two lines, two files and two runs.
LEMMA FileStep ==
  ASSUME ScanInv, FileRead \/ Gate \/ WriteBudget \/ Rescan
  PROVE  ScanInv'
<1>1. ScanTypeOK /\ text \in Seq(Cells(raw)) /\ Counts
  BY DEF ScanInv
<1>2. /\ raw' = raw /\ text' = text /\ cursor' = cursor /\ agreed' = agreed
      /\ phase' \in {"read", "report", "passed", "failed"}
  BY DEF FileRead, Gate, WriteBudget, Rescan, lineVars
<1>3. MaxFileLines \in Nat
  BY ScanBounds
<1>4. text' \in Seq(Cells(raw')) /\ MaskedSoFar' /\ ~ Masking'
  BY <1>1, <1>2 DEF MaskedSoFar, Masking
<1>5. CASE FileRead
  <2>1. /\ phase = "read" /\ phase' = "report" /\ seen' = (IF fits THEN seen ELSE 0)
        /\ in_block' = in_block /\ truth' = truth /\ exact' = exact /\ scanned' = scanned
        /\ fits' = fits /\ real' = real /\ budget' = budget
    BY <1>5 DEF FileRead
  <2>2. ScanTypeOK'
    <3>1. scanned \in 0 .. MaxFileLines /\ seen \in 0 .. scanned
      BY <1>1 DEF ScanTypeOK
    <3>2. seen' \in 0 .. scanned'
      BY <1>3, <2>1, <3>1
    <3>3. phase' \in Phases
      BY <2>1 DEF Phases
    <3> QED
      BY <1>1, <1>2, <2>1, <3>2, <3>3 DEF ScanTypeOK
  <2>3. exact => seen = real
    BY <1>1, <2>1 DEF Counts
  <2>4. Counts'
    BY <1>4, <2>1, <2>3 DEF Counts
  <2> QED
    BY <1>4, <2>2, <2>4 DEF ScanInv
<1>6. CASE Gate
  <2>1. /\ phase = "report" /\ phase' = (IF seen <= budget THEN "passed" ELSE "failed")
        /\ in_block' = in_block /\ truth' = truth /\ exact' = exact /\ scanned' = scanned
        /\ fits' = fits /\ seen' = seen /\ real' = real /\ budget' = budget
    BY <1>6 DEF Gate, WithinBudget, fileVars
  <2>2. ScanTypeOK'
    <3>1. phase' \in Phases
      BY <2>1 DEF Phases
    <3> QED
      BY <1>1, <1>2, <2>1, <3>1 DEF ScanTypeOK
  <2>3. Counts'
    BY <1>1, <1>4, <2>1 DEF Counts
  <2> QED
    BY <1>4, <2>2, <2>3 DEF ScanInv
<1>7. CASE WriteBudget
  <2>1. /\ phase = "report" /\ phase' = "passed" /\ budget' = seen
        /\ in_block' = in_block /\ truth' = truth /\ exact' = exact /\ scanned' = scanned
        /\ fits' = fits /\ seen' = seen /\ real' = real
    BY <1>7 DEF WriteBudget, fileVars
  <2>2. scanned \in 0 .. MaxFileLines /\ seen \in 0 .. scanned
    BY <1>1 DEF ScanTypeOK
  <2>3. ScanTypeOK'
    <3>1. phase' \in Phases
      BY <2>1 DEF Phases
    <3>2. budget' \in 0 .. MaxFileLines
      BY <1>3, <2>1, <2>2
    <3> QED
      BY <1>1, <1>2, <2>1, <3>1, <3>2 DEF ScanTypeOK
  <2>4. Counts'
    <3>1. seen' <= budget'
      BY <1>3, <2>1, <2>2
    <3> QED
      BY <1>1, <1>4, <2>1, <3>1 DEF Counts
  <2> QED
    BY <1>4, <2>3, <2>4 DEF ScanInv
<1>8. CASE Rescan
  <2>1. /\ phase' = "read" /\ in_block' = FALSE /\ truth' = "code" /\ exact' = TRUE
        /\ fits' \in BOOLEAN /\ scanned' = 0 /\ seen' = 0 /\ real' = 0 /\ budget' = budget
    BY <1>8 DEF Rescan
  <2>2. ScanTypeOK'
    <3>1. phase' \in Phases /\ 0 \in 0 .. MaxFileLines /\ 0 \in 0 .. 0
      BY <1>3, <2>1 DEF Phases
    <3> QED
      BY <1>1, <1>2, <2>1, <3>1 DEF ScanTypeOK
  <2>3. Counts'
    BY <1>4, <2>1 DEF Counts
  <2> QED
    BY <1>4, <2>2, <2>3 DEF ScanInv
<1> QED
  BY <1>5, <1>6, <1>7, <1>8

\* The scan of a first file starts with the invariant.
LEMMA ScanStarts ==
  ASSUME ScanInit
  PROVE  ScanInv
<1>1. MaxLength \in Nat /\ MaxFileLines \in Nat
  BY ScanBounds
<1>2. /\ raw = <<>> /\ text = <<>> /\ cursor = 0 /\ phase = "read" /\ in_block = FALSE
      /\ truth = "code" /\ agreed = TRUE /\ exact = TRUE
      /\ scanned = 0 /\ fits \in BOOLEAN /\ seen = 0 /\ real = 0 /\ budget = 0
  BY DEF ScanInit
<1>3. <<>> \in Lines /\ <<>> \in Seq(Cells(<<>>)) /\ <<>> \in Seq(Cell) /\ Len(<<>>) = 0
  <2>1. 0 \in 0 .. MaxLength /\ <<>> \in [1 .. 0 -> Chars]
    BY <1>1
  <2> QED
    BY <2>1, EmptySeq DEF Lines
<1>4. ScanTypeOK
  <2>1. 0 \in 0 .. MaxFileLines /\ 0 \in 0 .. 0 /\ 0 \in 0 .. MaxLength + 1 /\ "read" \in Phases
    BY <1>1 DEF Phases
  <2>2. raw \in Lines /\ text \in Seq(Cell) /\ Len(text) <= Len(raw)
    BY <1>2, <1>3
  <2>3. cursor \in 0 .. MaxLength + 1 /\ phase \in Phases /\ truth \in {"code", "block"}
    BY <1>2, <2>1
  <2>4. {in_block, agreed, exact, fits} \subseteq BOOLEAN
    BY <1>2
  <2>5. /\ scanned \in 0 .. MaxFileLines /\ seen \in 0 .. scanned /\ real \in 0 .. scanned
        /\ budget \in 0 .. MaxFileLines
    BY <1>2, <2>1
  <2> QED
    BY <2>2, <2>3, <2>4, <2>5 DEF ScanTypeOK
<1>5. text \in Seq(Cells(raw))
  BY <1>2, <1>3
<1>6. MaskedSoFar /\ Counts
  BY <1>2 DEF MaskedSoFar, Counts, Masking
<1> QED
  BY <1>4, <1>5, <1>6 DEF ScanInv

\* The inductive invariant.
THEOREM ScanInvariant == ScanSpec => []ScanInv
<1>1. ScanInit => ScanInv
  BY ScanStarts
<1>2. ScanInv /\ [ScanNext]_scanVars => ScanInv'
  <2> SUFFICES ASSUME ScanInv, [ScanNext]_scanVars
               PROVE  ScanInv'
    OBVIOUS
  <2>1. CASE ReadLine
    BY <2>1, ReadLineStep
  <2>2. CASE StayInside
    BY <2>2, StayInsideStep
  <2>3. CASE LeaveBlock
    BY <2>3, LeaveBlockStep
  <2>4. CASE RemoveInline
    BY <2>4, RemoveInlineStep
  <2>5. CASE OpenBlock
    BY <2>5, OpenBlockStep
  <2>6. CASE NoBlock
    BY <2>6, NoBlockStep
  <2>7. CASE CutLineComment
    BY <2>7, CutLineCommentStep
  <2>8. CASE MaskString
    BY <2>8, MaskStringStep
  <2>9. CASE NoString
    BY <2>9, NoStringStep
  <2>10. CASE Emit
    BY <2>10, EmitStep
  <2>11. CASE FileRead \/ Gate \/ WriteBudget \/ Rescan
    BY <2>11, FileStep
  <2>12. CASE UNCHANGED scanVars
    BY <2>12 DEF scanVars, lineVars, fileVars, ScanInv, ScanTypeOK, MaskedSoFar, Trusted, Counts, Masking
  <2> QED
    BY <2>1, <2>2, <2>3, <2>4, <2>5, <2>6, <2>7, <2>8, <2>9, <2>10, <2>11, <2>12 DEF ScanNext
<1> QED
  BY <1>1, <1>2, PTL DEF ScanSpec

\* The scanner keeps to its types: no mask is longer than its line, and no more
\* lines have a finding than the file has.
THEOREM ScanTypeCorrect == ScanSpec => []ScanTypeOK
<1>1. ScanInv => ScanTypeOK
  BY DEF ScanInv
<1> QED
  BY <1>1, ScanInvariant, PTL

\* The mask of a line that has no trap shows the code of the line and nothing
\* else, and the scanner knows whether a block comment goes on.
THEOREM MasksAreExact == ScanSpec => []MaskIsExact
<1>1. ScanInv => MaskIsExact
  BY OfTheText DEF ScanInv, MaskedSoFar, MaskIsExact, Trusted, Exactly
<1> QED
  BY <1>1, ScanInvariant, PTL

\* No file passes the gate with more findings in its code than the budget
\* records, as long as none of its lines has a trap and it is scanned at all.
THEOREM GateCatches == ScanSpec => []GateCatchesGrowth
<1>1. ScanInv => GateCatchesGrowth
  <2> SUFFICES ASSUME ScanInv, phase = "passed", exact, fits
               PROVE  real <= budget
    BY DEF GateCatchesGrowth
  <2>1. seen = real /\ seen <= budget
    BY DEF ScanInv, Counts
  <2> QED
    BY <2>1
<1> QED
  BY <1>1, ScanInvariant, PTL
=============================================================================
