---------------------------- MODULE LabelsProofs ----------------------------
(***************************************************************************)
(* Proofs about Labels: whatever people type into labels, an endpoint that *)
(* the source returns is well-formed, and an invalid label spoils its own  *)
(* record and no other, for any containers and any number of indices.      *)
(***************************************************************************)
EXTENDS Labels, Induction, SequenceTheorems

-----------------------------------------------------------------------------
(* Lists as the sets of their elements. *)

Elements(s) == {s[k] : k \in DOMAIN s}

\* Concatenation joins the elements.
LEMMA ElementsOfConcat ==
  ASSUME NEW S, NEW s \in Seq(S), NEW t \in Seq(S)
  PROVE  Elements(s \o t) = Elements(s) \cup Elements(t)
<1>1. /\ s \o t \in Seq(S) /\ Len(s \o t) = Len(s) + Len(t)
      /\ \A i \in 1 .. Len(s) + Len(t) :
            (s \o t)[i] = IF i <= Len(s) THEN s[i] ELSE t[i - Len(s)]
  BY ConcatProperties
<1>2. /\ Len(s) \in Nat /\ DOMAIN s = 1 .. Len(s)
      /\ Len(t) \in Nat /\ DOMAIN t = 1 .. Len(t)
      /\ DOMAIN (s \o t) = 1 .. Len(s) + Len(t)
  BY <1>1, LenProperties
<1> DEFINE u == s \o t
<1> HIDE DEF u
<1>3. ASSUME NEW k \in DOMAIN u PROVE u[k] \in Elements(s) \cup Elements(t)
  <2>1. k \in 1 .. Len(s) + Len(t)
    BY <1>2 DEF u
  <2>2. CASE k <= Len(s)
    <3>1. k \in DOMAIN s /\ u[k] = s[k]
      BY <1>1, <1>2, <2>1, <2>2 DEF u
    <3> QED BY <3>1 DEF Elements
  <2>3. CASE ~(k <= Len(s))
    <3>1. k - Len(s) \in DOMAIN t /\ u[k] = t[k - Len(s)]
      BY <1>1, <1>2, <2>1, <2>3 DEF u
    <3> QED BY <3>1 DEF Elements
  <2> QED BY <2>2, <2>3
<1>4. ASSUME NEW k \in DOMAIN s PROVE s[k] \in Elements(u)
  <2>1. k \in DOMAIN u /\ u[k] = s[k]
    BY <1>1, <1>2 DEF u
  <2> QED BY <2>1 DEF Elements
<1>5. ASSUME NEW k \in DOMAIN t PROVE t[k] \in Elements(u)
  <2>1. k + Len(s) \in 1 .. Len(s) + Len(t) /\ ~(k + Len(s) <= Len(s)) /\ (k + Len(s)) - Len(s) = k
    BY <1>2
  <2>2. k + Len(s) \in DOMAIN u /\ u[k + Len(s)] = t[k]
    BY <1>1, <1>2, <2>1 DEF u
  <2> QED BY <2>2 DEF Elements
<1>6. Elements(u) = Elements(s) \cup Elements(t)
  BY <1>3, <1>4, <1>5 DEF Elements
<1> QED BY <1>6 DEF u

\* A list with one element and a list with none.
LEMMA ElementsOfShort ==
  ASSUME NEW e PROVE Elements(<<e>>) = {e} /\ Elements(<<>>) = {}
BY DEF Elements

\* The elements of a list over S are in S.
LEMMA ElementsOfSeq ==
  ASSUME NEW S, NEW s \in Seq(S) PROVE \A e \in Elements(s) : e \in S
BY LenProperties, ElementOfSeq DEF Elements

-----------------------------------------------------------------------------
(* One index. *)

\* The texts that the labels have at index i, without the space around them.
HostText(m, i) == TrimSpace(Get(m, "hostname", i))
TargText(m, i) == TrimSpace(Get(m, "target", i))
TypeText(m, i) == TrimSpace(Get(m, "record-type", i))

\* The labels at index i are accepted, and the endpoint that they give.
Accepted(m, i) ==
  /\ HostText(m, i) \in DOMAIN Hostname /\ TargText(m, i) \in DOMAIN TargetText
  /\ ValidTTL(Get(m, "ttl", i))

Parsed(m, i) ==
  New(Hostname[HostText(m, i)], <<TargetText[TargText(m, i)]>>,
      IF TypeText(m, i) = "" THEN InferRecordType(TargetText[TargText(m, i)]) ELSE TypeText(m, i),
      TTLOf(Get(m, "ttl", i)))

\* ParseIndex gives this endpoint or none.
LEMMA ParseCases ==
  ASSUME NEW m, NEW i
  PROVE  ParseIndex(m, i) = IF Accepted(m, i) THEN <<Parsed(m, i)>> ELSE <<>>
BY DEF ParseIndex, parseSingle, Accepted, Parsed, HostText, TargText, TypeText

\* A TTL that is accepted is a natural number.
LEMMA TTLIsNat ==
  ASSUME NEW raw, ValidTTL(raw) PROVE TTLOf(raw) \in Nat
<1>1. CASE raw = ""
  <2>1. TTLOf(raw) = DefaultTTL
    BY <1>1, Zenon DEF TTLOf
  <2> QED BY <2>1, DefaultTTLAssumption
<1>2. CASE raw # ""
  <2>1. TTLOf(raw) = Numeral[TrimSpace(raw)]
    BY <1>2, Zenon DEF TTLOf
  <2>2. TrimSpace(raw) \in DOMAIN Numeral /\ Numeral[TrimSpace(raw)] >= 0
    BY <1>2, Zenon DEF ValidTTL
  <2>3. Numeral[TrimSpace(raw)] \in Int
    BY <2>2, TextAssumption
  <2> QED BY <2>1, <2>2, <2>3
<1> QED BY <1>1, <1>2

\* The type of a record is one of the labels' or one of the program's own.
LEMMA TypeIsName ==
  ASSUME NEW m \in LabelMaps, NEW i \in Index, NEW t
  PROVE  (IF TypeText(m, i) = "" THEN InferRecordType(t) ELSE TypeText(m, i)) \in TypeName
<1>1. TypeText(m, i) \in TypeName \cup {""}
  BY RecordTypeAssumption, Zenon DEF TypeText
<1>2. InferRecordType(t) \in TypeName
  <2>1. \/ InferRecordType(t) = RecordTypeA \/ InferRecordType(t) = RecordTypeAAAA
        \/ InferRecordType(t) = RecordTypeCNAME
    BY DEF InferRecordType
  <2> QED BY <2>1, Zenon DEF TypeName, SupportedType
<1> QED BY <1>1, <1>2, Zenon

\* What is accepted gives an endpoint as the planner expects it.
LEMMA ParsedIsEndpoint ==
  ASSUME NEW m \in LabelMaps, NEW i \in Index, Accepted(m, i)
  PROVE  Parsed(m, i) \in LabelEndpoint
<1> DEFINE h == Hostname[HostText(m, i)]
           t == TargetText[TargText(m, i)]
           rt == IF TypeText(m, i) = "" THEN InferRecordType(t) ELSE TypeText(m, i)
           ttl == TTLOf(Get(m, "ttl", i))
<1>1. h \in Name /\ t \in LabelTarget
  BY TextAssumption, Zenon DEF Accepted
<1>2. rt \in TypeName
  BY TypeIsName
<1>3. ttl \in Nat
  BY TTLIsNat DEF Accepted
<1>4. Parsed(m, i) = New(h, <<t>>, rt, ttl)
  BY DEF Parsed
<1> HIDE DEF h, t, rt, ttl
<1>5. New(h, <<t>>, rt, ttl) \in LabelEndpoint
  <2>1. <<t>> \in Seq(LabelTarget) /\ Len(<<t>>) = 1
    BY <1>1
  <2> DEFINE ts == <<t>>
             d == IF ttl = 0 THEN DefaultTTL ELSE ttl
  <2>2. d \in Nat /\ d > 0
    BY <1>3, DefaultTTLAssumption
  <2>3. New(h, ts, rt, ttl) = [DNSName |-> h, Targets |-> ts, RecordType |-> rt, TTL |-> d]
    BY Zenon DEF New
  <2> HIDE DEF ts, d
  <2>4. ts \in Seq(LabelTarget) /\ Len(ts) = 1
    BY <2>1 DEF ts
  <2>5. [DNSName |-> h, Targets |-> ts, RecordType |-> rt, TTL |-> d]
          \in [DNSName : Name, Targets : Seq(LabelTarget), RecordType : TypeName, TTL : Nat]
    BY <1>1, <1>2, <2>2, <2>4
  <2>6. New(h, ts, rt, ttl) \in LabelEndpoint
    BY <2>2, <2>3, <2>4, <2>5 DEF LabelEndpoint
  <2> QED BY <2>6 DEF ts
<1> QED BY <1>4, <1>5

\* So ParseIndex gives a list of such endpoints.
LEMMA ParseIsList ==
  ASSUME NEW m \in LabelMaps, NEW i \in Index
  PROVE  /\ ParseIndex(m, i) \in Seq(LabelEndpoint)
         /\ Elements(ParseIndex(m, i)) = {e \in {Parsed(m, i)} : Accepted(m, i)}
<1>1. CASE Accepted(m, i)
  <2>1. ParseIndex(m, i) = <<Parsed(m, i)>>
    BY <1>1, ParseCases
  <2> QED BY <1>1, <2>1, ParsedIsEndpoint, ElementsOfShort
<1>2. CASE ~Accepted(m, i)
  <2>1. ParseIndex(m, i) = <<>>
    BY <1>2, ParseCases
  <2>2. Elements(<<>>) = {}
    BY ElementsOfShort
  <2>3. ParseIndex(m, i) \in Seq(LabelEndpoint)
    BY <2>1
  <2> QED BY <1>2, <2>1, <2>2, <2>3
<1> QED BY <1>1, <1>2

\* Without a host name label, nothing is accepted.
LEMMA NoHostNothing ==
  ASSUME NEW m, NEW i, ~Has(m, i) PROVE ~Accepted(m, i)
<1>1. HostText(m, i) = ""
  BY TextAssumption, Zenon DEF HostText, Get, Has, TrimSpace
<1> QED BY <1>1, TextAssumption, Zenon DEF Accepted

-----------------------------------------------------------------------------
(* The loop over the indices. *)

\* f gives for every index from k on what the loop returns when it starts there.
Loop(m, k, f) ==
  f = [i \in k .. MaxIndex + 1 |-> IF Has(m, i) THEN ParseIndex(m, i) \o f[i + 1] ELSE <<>>]

\* No labels have an index beyond the last.
LEMMA NothingBeyond ==
  ASSUME NEW m \in LabelMaps PROVE ~Has(m, MaxIndex + 1)
<1>1. MaxIndex + 1 \notin Index
  BY MaxIndexAssumption DEF Index, Plain
<1>2. DOMAIN m \subseteq {"hostname", "target", "ttl", "record-type"} \X Index
  BY LabelMapsAssumption
<1> QED BY <1>1, <1>2, Zenon DEF Has

\* The recursion has a solution: it is built from the last index downwards.
LEMMA LoopExists ==
  ASSUME NEW m \in LabelMaps
  PROVE  \E f : Loop(m, 0, f)
<1> DEFINE N == MaxIndex + 1
           T == {k \in Nat : k <= N => \E f : Loop(m, N - k, f)}
<1>1. N \in Nat
  BY MaxIndexAssumption
<1>2. 0 \in T
  <2>1. N - 0 = N /\ \A i \in N .. N : i = N
    BY <1>1
  <2>2. ~Has(m, N)
    BY NothingBeyond
  <2> DEFINE f == [i \in N .. N |-> <<>>]
  <2>3. Loop(m, N, f)
    BY <2>1, <2>2 DEF Loop
  <2> QED BY <2>1, <2>3
<1>3. ASSUME NEW k \in Nat, k \in T PROVE k + 1 \in T
  <2> SUFFICES ASSUME k + 1 <= N PROVE \E f : Loop(m, N - (k + 1), f)
    OBVIOUS
  <2>1. PICK f : Loop(m, N - k, f)
    BY <1>1, <1>3
  <2> DEFINE a == N - (k + 1)
             One(i, F) == IF Has(m, i) THEN ParseIndex(m, i) \o F[i + 1] ELSE <<>>
             g == [i \in a .. N |-> IF i = a THEN One(a, f) ELSE f[i]]
  <2>2. /\ a \in Nat /\ a + 1 = N - k /\ a \in a .. N /\ a + 1 \in a .. N /\ a + 1 # a
        /\ \A i \in a .. N : i = a \/ (i \in (a + 1) .. N /\ i # a)
        /\ \A i \in (a + 1) .. N : i \in a .. N /\ i # a /\ i + 1 # a
        /\ \A i \in (a + 1) .. N : i # N => i + 1 \in (a + 1) .. N
    BY <1>1
  <2>3. \A i \in (a + 1) .. N : f[i] = One(i, f)
    BY <2>1, <2>2 DEF Loop
  <2>4. g[a] = One(a, f) /\ \A i \in (a + 1) .. N : g[i] = f[i]
    BY <2>2
  <2>5. DOMAIN g = a .. N /\ g = [i \in DOMAIN g |-> g[i]]
    OBVIOUS
  <2>6. ~Has(m, N)
    BY NothingBeyond
  <2>7. a + 1 \in (a + 1) .. N
    BY <1>1, <2>2
  <2> HIDE DEF g, a, N
  <2>8. ASSUME NEW i \in a .. N PROVE g[i] = One(i, g)
    <3>1. CASE i = a
      <4>1. g[a + 1] = f[a + 1]
        BY <2>4, <2>7
      <4> QED BY <2>4, <3>1, <4>1
    <3>2. CASE i \in (a + 1) .. N /\ i # N
      <4>1. g[i + 1] = f[i + 1]
        BY <2>2, <2>4, <3>2
      <4> QED BY <2>3, <2>4, <3>2, <4>1
    <3>3. CASE i \in (a + 1) .. N /\ i = N
      BY <2>3, <2>4, <2>6, <3>3
    <3> QED BY <2>2, <3>1, <3>2, <3>3
  <2>9. g = [i \in a .. N |-> One(i, g)]
    BY <2>5, <2>8
  <2>10. Loop(m, a, g)
    BY <2>9 DEF Loop, N
  <2> QED BY <2>10 DEF a
<1>4. N \in T
  <2> HIDE DEF T
  <2> QED BY <1>1, <1>2, <1>3, SetInduction
<1>5. N <= N /\ N - N = 0
  BY <1>1
<1> QED BY <1>4, <1>5

\* Index j is reached by a loop that starts at k.
Reached(m, k, j) == \A l \in k .. j : Has(m, l)

\* What the loop returns from index k on: the endpoints of the indices that it
\* reaches, each that is accepted.
FromIndex(m, k) ==
  {Parsed(m, j) : j \in {l \in k .. MaxIndex : Reached(m, k, l) /\ Accepted(m, l)}}

\* The loop returns them, and nothing else.
LEMMA LoopFacts ==
  ASSUME NEW m \in LabelMaps, NEW f, Loop(m, 0, f)
  PROVE  f[0] \in Seq(LabelEndpoint) /\ Elements(f[0]) = FromIndex(m, 0)
<1> DEFINE N == MaxIndex + 1
           Good(k) == f[k] \in Seq(LabelEndpoint) /\ Elements(f[k]) = FromIndex(m, k)
           T == {k \in Nat : k <= N => Good(N - k)}
<1>1. N \in Nat /\ N - 1 = MaxIndex
  BY MaxIndexAssumption
<1>2. \A i \in 0 .. N : f[i] = IF Has(m, i) THEN ParseIndex(m, i) \o f[i + 1] ELSE <<>>
  BY DEF Loop
<1>3. ASSUME NEW i \in 0 .. N, ~Has(m, i) PROVE Good(i)
  <2>1. f[i] = <<>>
    BY <1>2, <1>3
  <2>2. Elements(f[i]) = {}
    BY <2>1, ElementsOfShort
  <2>3. ASSUME NEW l \in i .. MaxIndex PROVE ~Reached(m, i, l)
    <3>1. i \in i .. l
      BY <1>1
    <3> QED BY <1>3, <3>1 DEF Reached
  <2>4. f[i] \in Seq(LabelEndpoint)
    BY <2>1
  <2> QED BY <2>2, <2>3, <2>4 DEF FromIndex
<1>4. 0 \in T
  <2>1. N - 0 = N /\ N \in 0 .. N
    BY <1>1
  <2> QED BY <1>3, <2>1, NothingBeyond
<1>5. ASSUME NEW k \in Nat, k \in T PROVE k + 1 \in T
  <2> SUFFICES ASSUME k + 1 <= N PROVE Good(N - (k + 1))
    OBVIOUS
  <2> DEFINE a == N - (k + 1)
  <2>1. a \in 0 .. N /\ a + 1 = N - k /\ a \in 0 .. MaxIndex /\ k <= N
    BY <1>1
  <2>2. Good(a + 1)
    BY <1>5, <2>1
  <2>3. CASE ~Has(m, a)
    BY <1>3, <2>1, <2>3
  <2>4. CASE Has(m, a)
    <3>1. f[a] = ParseIndex(m, a) \o f[a + 1]
      BY <1>2, <2>1, <2>4
    <3>2. a \in Index
      BY <2>1 DEF Index
    <3> HIDE DEF a
    <3>3. /\ ParseIndex(m, a) \in Seq(LabelEndpoint)
          /\ Elements(ParseIndex(m, a)) = {e \in {Parsed(m, a)} : Accepted(m, a)}
      BY <3>2, ParseIsList
    <3>4. f[a] \in Seq(LabelEndpoint)
      BY <2>2, <3>1, <3>3, ConcatProperties
    <3>5. Elements(f[a]) = {e \in {Parsed(m, a)} : Accepted(m, a)} \cup FromIndex(m, a + 1)
      BY <2>2, <3>1, <3>3, ElementsOfConcat
    <3>6. \A l \in a .. MaxIndex : l = a \/ (l # a /\ l \in (a + 1) .. MaxIndex)
      BY <2>1
    <3>7. a \in a .. MaxIndex /\ Reached(m, a, a)
      BY <2>1, <2>4 DEF Reached
    <3>8. ASSUME NEW l \in (a + 1) .. MaxIndex
          PROVE  l \in a .. MaxIndex /\ (Reached(m, a, l) <=> Reached(m, a + 1, l))
      <4>1. /\ l \in a .. MaxIndex
            /\ \A x \in a .. l : x = a \/ x \in (a + 1) .. l
            /\ \A x \in (a + 1) .. l : x \in a .. l
        BY <2>1
      <4> QED BY <2>4, <4>1 DEF Reached
    <3>9. FromIndex(m, a) = {e \in {Parsed(m, a)} : Accepted(m, a)} \cup FromIndex(m, a + 1)
      BY <3>6, <3>7, <3>8 DEF FromIndex
    <3> QED BY <3>4, <3>5, <3>9 DEF a
  <2> QED BY <2>3, <2>4
<1>6. N \in T
  <2> HIDE DEF T
  <2> QED BY <1>1, <1>4, <1>5, SetInduction
<1>7. N <= N /\ N - N = 0
  BY <1>1
<1>8. Good(0)
  BY <1>6, <1>7
<1> QED BY <1>8

\* The endpoints of a container: the labels without index, if accepted, and those
\* of the indices up to the first without a host name.
LEMMA EndpointsOfLabels ==
  ASSUME NEW m \in LabelMaps
  PROVE  /\ endpointsFromLabels(m) \in Seq(LabelEndpoint)
         /\ Elements(endpointsFromLabels(m))
              = {e \in {Parsed(m, Plain)} : Accepted(m, Plain)} \cup FromIndex(m, 0)
<1> DEFINE from == CHOOSE f : Loop(m, 0, f)
<1>1. endpointsFromLabels(m) = ParseIndex(m, Plain) \o from[0]
  BY DEF endpointsFromLabels, Loop
<1>2. Loop(m, 0, from)
  BY LoopExists
<1> HIDE DEF from
<1>3. from[0] \in Seq(LabelEndpoint) /\ Elements(from[0]) = FromIndex(m, 0)
  BY <1>2, LoopFacts
<1>4. Plain \in Index
  BY DEF Index
<1>5. /\ ParseIndex(m, Plain) \in Seq(LabelEndpoint)
      /\ Elements(ParseIndex(m, Plain)) = {e \in {Parsed(m, Plain)} : Accepted(m, Plain)}
  BY <1>4, ParseIsList
<1> QED BY <1>1, <1>3, <1>5, ConcatProperties, ElementsOfConcat

-----------------------------------------------------------------------------
(* The specification. *)

\* A container's labels are among LabelMaps, in Docker and in the list.
LabelsKnown ==
  /\ DOMAIN running \subseteq Container /\ \A c \in DOMAIN running : running[c] \in LabelMaps
  /\ DOMAIN listed \subseteq Container /\ \A c \in DOMAIN listed : listed[c] \in LabelMaps
  /\ seen \subseteq LabelMaps

\* The endpoints returned so far are well-formed.
EndpointsKnown == pc \in {"idle", "parse"} /\ eps \in Seq(LabelEndpoint)

\* What has been returned and what is still to come is what the list asks for.
Wanted(S) == UNION {Elements(endpointsFromLabels(m)) : m \in S}

NothingLost ==
  pc = "parse" => Elements(eps) \cup Wanted({listed[c] : c \in DOMAIN listed}) = Wanted(seen)

LabelsInv == LabelsKnown /\ EndpointsKnown /\ NothingLost

\* The invariant holds at first.
LEMMA LabelsInit == Init => LabelsInv
<1> SUFFICES ASSUME Init PROVE LabelsInv
  OBVIOUS
<1>1. LabelsKnown
  BY DEF Init, LabelsKnown
<1>2. EndpointsKnown
  BY DEF Init, EndpointsKnown
<1>3. NothingLost
  BY DEF Init, NothingLost
<1> QED BY <1>1, <1>2, <1>3 DEF LabelsInv

\* The list is taken: all is still to come.
LEMMA ListKeeps == LabelsInv /\ ContainerList => LabelsInv'
<1> SUFFICES ASSUME LabelsInv, ContainerList PROVE LabelsInv'
  OBVIOUS
<1>1. LabelsKnown'
  BY DEF LabelsInv, LabelsKnown, ContainerList
<1>2. EndpointsKnown'
  BY DEF EndpointsKnown, ContainerList
<1>3. NothingLost'
  <2>1. eps' = <<>> /\ {listed'[c] : c \in DOMAIN listed'} = seen'
    BY DEF ContainerList
  <2>2. Elements(<<>>) = {}
    BY ElementsOfShort
  <2>3. Elements(eps') = {}
    BY <2>1, <2>2
  <2> QED BY <2>1, <2>3 DEF NothingLost, Wanted
<1> QED BY <1>1, <1>2, <1>3 DEF LabelsInv

\* One container's endpoints move from what is to come to what is returned.
LEMMA ExtractKeeps == ASSUME NEW c \in Container PROVE LabelsInv /\ Extract(c) => LabelsInv'
<1> SUFFICES ASSUME LabelsInv, Extract(c) PROVE LabelsInv'
  OBVIOUS
<1> DEFINE new == endpointsFromLabels(listed[c])
<1>1. /\ c \in DOMAIN listed /\ listed[c] \in LabelMaps
      /\ DOMAIN listed' = DOMAIN listed \ {c}
      /\ \A x \in DOMAIN listed' : listed'[x] = listed[x]
  BY DEF LabelsInv, LabelsKnown, Extract, Without
<1>2. new \in Seq(LabelEndpoint) /\ eps \in Seq(LabelEndpoint) /\ eps' = eps \o new
  BY <1>1, EndpointsOfLabels DEF LabelsInv, EndpointsKnown, Extract
<1>3. LabelsKnown'
  BY <1>1 DEF LabelsInv, LabelsKnown, Extract
<1>4. EndpointsKnown'
  BY <1>2, ConcatProperties DEF LabelsInv, EndpointsKnown, Extract
<1>5. NothingLost'
  <2>1. Elements(eps') = Elements(eps) \cup Elements(new)
    BY <1>2, ElementsOfConcat
  <2> DEFINE old == {listed[x] : x \in DOMAIN listed}
             rest == {listed'[x] : x \in DOMAIN listed'}
  <2>2. old = rest \cup {listed[c]}
    BY <1>1
  <2>3. Elements(eps) \cup Wanted(old) = Wanted(seen) /\ seen' = seen
    BY DEF LabelsInv, NothingLost, Extract
  <2> HIDE DEF old, rest
  <2>4. Wanted(old) = Wanted(rest) \cup Elements(new)
    BY <2>2 DEF Wanted
  <2>5. Elements(eps') \cup Wanted(rest) = Wanted(seen')
    BY <2>1, <2>3, <2>4
  <2> QED BY <2>5 DEF NothingLost, rest
<1> QED BY <1>3, <1>4, <1>5 DEF LabelsInv

\* The other steps leave the list and what is returned alone.
LEMMA OthersKeep ==
  ASSUME LabelsInv,
         \/ ListFails
         \/ EndpointsReturns
         \/ \E c \in Container : ContainerStop(c) \/ \E m \in LabelMaps : ContainerStart(c, m)
         \/ UNCHANGED vars
  PROVE  LabelsInv'
<1>1. CASE EndpointsReturns
  BY <1>1 DEF LabelsInv, LabelsKnown, EndpointsKnown, NothingLost, EndpointsReturns
<1>2. ASSUME NEW c \in Container, ContainerStop(c) PROVE LabelsInv'
  <2>1. LabelsKnown'
    BY <1>2 DEF LabelsInv, LabelsKnown, ContainerStop, Without
  <2> QED BY <1>2, <2>1 DEF LabelsInv, EndpointsKnown, NothingLost, ContainerStop
<1>3. ASSUME NEW c \in Container, NEW m \in LabelMaps, ContainerStart(c, m) PROVE LabelsInv'
  <2>1. LabelsKnown'
    BY <1>3 DEF LabelsInv, LabelsKnown, ContainerStart
  <2> QED BY <1>3, <2>1 DEF LabelsInv, EndpointsKnown, NothingLost, ContainerStart
<1>4. CASE UNCHANGED vars
  BY <1>4 DEF LabelsInv, LabelsKnown, EndpointsKnown, NothingLost, vars
<1>5. CASE ListFails
  BY <1>5 DEF LabelsInv, LabelsKnown, EndpointsKnown, NothingLost, ListFails
<1> QED BY <1>1, <1>2, <1>3, <1>4, <1>5

\* The invariant holds always.
LEMMA LabelsInvariant == Spec => []LabelsInv
<1>1. LabelsInv /\ [Next]_vars => LabelsInv'
  BY ListKeeps, ExtractKeeps, OthersKeep DEF Next
<1> QED BY <1>1, LabelsInit, PTL DEF Spec

\* Whatever is typed into labels, what Endpoints has returned is a list of
\* endpoints with a valid name, one valid target and a positive TTL.
THEOREM LabelsTypeOK == Spec => []TypeOK
<1>1. LabelsInv => TypeOK
  <2> SUFFICES ASSUME LabelsInv PROVE TypeOK
    OBVIOUS
  <2>1. \A ep \in Elements(eps) : ep \in LabelEndpoint
    BY ElementsOfSeq DEF LabelsInv, EndpointsKnown
  <2> QED BY <2>1 DEF LabelsInv, LabelsKnown, EndpointsKnown, TypeOK, Returned, Elements
<1> QED BY <1>1, LabelsInvariant, PTL

-----------------------------------------------------------------------------
(* What the labels ask for. *)

\* A TTL text is accepted where ValidIndices says so.
LEMMA TTLAgrees ==
  ASSUME NEW m, NEW i \in Index
  PROVE  i \in ValidIndices(m) <=> ValidTTL(Get(m, "ttl", i))
<1> DEFINE raw == Get(m, "ttl", i)
<1>1. i \in ValidIndices(m)
        <=> (raw # "" => \E s \in DOMAIN Numeral : Numeral[s] >= 0 /\ s = TrimSpace(raw))
  BY Zenon DEF ValidIndices
<1> HIDE DEF raw
<1>2. (\E s \in DOMAIN Numeral : Numeral[s] >= 0 /\ s = TrimSpace(raw))
        <=> (TrimSpace(raw) \in DOMAIN Numeral /\ Numeral[TrimSpace(raw)] >= 0)
  BY Zenon
<1>3. ValidTTL(raw) <=> (raw = "" \/ (TrimSpace(raw) \in DOMAIN Numeral /\ Numeral[TrimSpace(raw)] >= 0))
  BY Zenon DEF ValidTTL
<1> QED BY <1>1, <1>2, <1>3, Zenon DEF raw

\* The type and the TTL of an endpoint are those asked for.
LEMMA TypeAndTTLAgree ==
  ASSUME NEW m, NEW i, ValidTTL(Get(m, "ttl", i)), NEW h, NEW t
  PROVE  New(h, <<t>>, IF TypeText(m, i) = "" THEN InferRecordType(t) ELSE TypeText(m, i),
             TTLOf(Get(m, "ttl", i)))
           = [ DNSName |-> h, Targets |-> <<t>>,
               RecordType |-> TypeAsked(m, i, t), TTL |-> TTLAsked(m, i) ]
<1> DEFINE raw == Get(m, "ttl", i)
           n == TTLOf(raw)
<1>1. TypeAsked(m, i, t) = IF TypeText(m, i) = "" THEN InferRecordType(t) ELSE TypeText(m, i)
  BY Zenon DEF TypeAsked, TypeText
<1>2. TTLAsked(m, i) = IF TrimSpace(raw) \in DOMAIN Numeral /\ Numeral[TrimSpace(raw)] # 0
                         THEN Numeral[TrimSpace(raw)] ELSE DefaultTTL
  BY Zenon DEF TTLAsked
<1>3. CASE raw = ""
  <2>1. n = DefaultTTL
    BY <1>3, Zenon DEF TTLOf
  <2>2. TrimSpace(raw) = ""
    BY <1>3, TextAssumption, Zenon DEF TrimSpace
  <2>3. TTLAsked(m, i) = DefaultTTL
    BY <1>2, <2>2, TextAssumption, Zenon
  <2> QED BY <1>1, <2>1, <2>3, DefaultTTLAssumption DEF New
<1>4. CASE raw # ""
  <2>1. n = Numeral[TrimSpace(raw)] /\ TrimSpace(raw) \in DOMAIN Numeral
    BY <1>4, Zenon DEF TTLOf, ValidTTL
  <2>2. TTLAsked(m, i) = IF n # 0 THEN n ELSE DefaultTTL
    BY <1>2, <2>1
  <2> QED BY <1>1, <2>2 DEF New
<1> QED BY <1>3, <1>4

\* What is asked for at an index and valid is what ParseIndex makes of it.
LEMMA AskedIsParsed ==
  ASSUME NEW m, NEW i \in Index, NEW e
  PROVE  (i \in ValidIndices(m) /\ e \in Asked(m, i)) <=> (Accepted(m, i) /\ e = Parsed(m, i))
<1> DEFINE h == HostText(m, i)
           t == TargText(m, i)
           One(a, b) == [ DNSName |-> Hostname[a], Targets |-> <<TargetText[b]>>,
                          RecordType |-> TypeAsked(m, i, TargetText[b]), TTL |-> TTLAsked(m, i) ]
<1>1. e \in Asked(m, i) <=> (h \in DOMAIN Hostname /\ t \in DOMAIN TargetText /\ e = One(h, t))
  <2>1. Asked(m, i) = {One(a, b) : a \in DOMAIN Hostname \cap {h}, b \in DOMAIN TargetText \cap {t}}
    BY DEF Asked, HostText, TargText
  <2> HIDE DEF h, t, One
  <2>2. e \in Asked(m, i) <=> \E a \in DOMAIN Hostname \cap {h}, b \in DOMAIN TargetText \cap {t} :
                                e = One(a, b)
    BY <2>1
  <2> QED BY <2>2
<1>2. Accepted(m, i)
        <=> (h \in DOMAIN Hostname /\ t \in DOMAIN TargetText /\ i \in ValidIndices(m))
  BY TTLAgrees, Zenon DEF Accepted
<1>3. ASSUME Accepted(m, i) PROVE Parsed(m, i) = One(h, t)
  BY <1>3, TypeAndTTLAgree DEF Accepted, Parsed
<1> HIDE DEF h, t, One
<1> QED BY <1>1, <1>2, <1>3

\* The indices that count: everything below them has a host name.
Counts(m, i) == \A j \in 0 .. i - 1 : Has(m, j)

\* A container's endpoints are those of the indices that count.
LEMMA EndpointsCount ==
  ASSUME NEW m \in LabelMaps, NEW e
  PROVE  e \in Elements(endpointsFromLabels(m))
           <=> \E i \in Index : Counts(m, i) /\ Accepted(m, i) /\ e = Parsed(m, i)
<1>1. e \in Elements(endpointsFromLabels(m))
        <=> (\/ Accepted(m, Plain) /\ e = Parsed(m, Plain)
             \/ \E i \in 0 .. MaxIndex : Reached(m, 0, i) /\ Accepted(m, i) /\ e = Parsed(m, i))
  BY EndpointsOfLabels DEF FromIndex
<1>2. Plain \in Index /\ Counts(m, Plain)
  BY DEF Index, Plain, Counts
<1>3. ASSUME NEW i \in 0 .. MaxIndex, Accepted(m, i) PROVE Reached(m, 0, i) <=> Counts(m, i)
  <2>1. Has(m, i)
    BY <1>3, NoHostNothing
  <2>2. i \in Nat
    BY MaxIndexAssumption
  <2>3. \A j \in 0 .. i : j = i \/ j \in 0 .. i - 1
    BY <2>2
  <2>4. \A j \in 0 .. i - 1 : j \in 0 .. i
    BY <2>2
  <2> QED BY <2>1, <2>3, <2>4 DEF Reached, Counts
<1>4. \A i : i \in Index <=> (i = Plain \/ i \in 0 .. MaxIndex)
  BY DEF Index
<1> QED BY <1>1, <1>2, <1>3, <1>4

\* openspec docker-source: "other valid indices are still processed".  For any
\* labels, when all containers are parsed, what is returned is what the valid
\* labels ask for up to the first index without a host name: an invalid label
\* takes nothing away elsewhere and adds nothing.
THEOREM LabelsNothingSpoiled == Spec => []NothingSpoiled
<1>1. LabelsInv => NothingSpoiled
  <2> SUFFICES ASSUME LabelsInv, AllParsed PROVE NothingSpoiled
    BY DEF NothingSpoiled
  <2> DEFINE Q == {q \in seen \X Index : /\ q[2] \in ValidIndices(q[1])
                                         /\ \A j \in 0 .. q[2] - 1 : Has(q[1], j)}
             A == UNION {Asked(p[1], p[2]) : p \in Q}
  <2>1. Elements(eps) = Wanted(seen)
    BY DEF LabelsInv, NothingLost, AllParsed, Wanted
  <2>2. seen \subseteq LabelMaps
    BY DEF LabelsInv, LabelsKnown
  <2>4. \A e : e \in Elements(eps) <=> \E m \in seen : e \in Elements(endpointsFromLabels(m))
    BY <2>1 DEF Wanted
  <2>5. \A x : x \in A <=> \E q \in Q : x \in Asked(q[1], q[2])
    OBVIOUS
  <2> HIDE DEF A
  <2>6. ASSUME NEW e \in Elements(eps) PROVE e \in A
    <3>1. PICK m \in seen : e \in Elements(endpointsFromLabels(m))
      BY <2>4
    <3>2. PICK i \in Index : Counts(m, i) /\ Accepted(m, i) /\ e = Parsed(m, i)
      BY <2>2, <3>1, EndpointsCount
    <3>3. i \in ValidIndices(m) /\ e \in Asked(m, i)
      BY <3>2, AskedIsParsed
    <3>4. <<m, i>> \in Q
      BY <3>2, <3>3 DEF Counts
    <3>5. e \in Asked(<<m, i>>[1], <<m, i>>[2])
      BY <3>3
    <3> HIDE DEF Q
    <3> QED BY <2>5, <3>4, <3>5
  <2>7. ASSUME NEW e \in A PROVE e \in Elements(eps)
    <3>1. PICK q \in Q : e \in Asked(q[1], q[2])
      BY <2>5
    <3>2. PICK m \in seen, i \in Index : q = <<m, i>>
      OBVIOUS
    <3>3. Counts(m, i) /\ i \in ValidIndices(m) /\ e \in Asked(m, i)
      BY <3>1, <3>2 DEF Counts
    <3>4. Accepted(m, i) /\ e = Parsed(m, i)
      BY <3>3, AskedIsParsed
    <3>5. e \in Elements(endpointsFromLabels(m))
      BY <2>2, <3>3, <3>4, EndpointsCount
    <3> QED BY <2>4, <3>5
  <2>8. Returned = A
    BY <2>6, <2>7 DEF Returned, Elements
  <2> QED BY <2>8, Zenon DEF NothingSpoiled, A
<1> QED BY <1>1, LabelsInvariant, PTL
=============================================================================
