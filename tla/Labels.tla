------------------------------- MODULE Labels -------------------------------
(***************************************************************************)
(* DockerSource.Endpoints: the running containers are listed, and the      *)
(* labels of one after the other turned into endpoints, while containers   *)
(* come and go.                                                            *)
(*                                                                         *)
(* A label map is a function from keys to the texts that people typed.  A  *)
(* key is a field and an index, or Plain for a label without index.  What  *)
(* the regular expressions and parsers accept is given by three functions, *)
(* from a text without surrounding space to what it stands for.            *)
(***************************************************************************)
EXTENDS Endpoint, Integers

CONSTANTS
  Hostname,    \* the valid host names -> the name
  TargetText,  \* the valid targets -> the target
  Numeral,     \* the texts that parse as a number -> the number
  Spaced,      \* the texts with space around them -> the text without
  Container,   \* the containers
  LabelMaps,   \* the label maps that containers may have
  MaxIndex     \* bound: the largest index in them

Plain == -1
Index == {Plain} \cup 0 .. MaxIndex

ASSUME MaxIndexAssumption == MaxIndex \in Nat
ASSUME TextAssumption ==
  /\ "" \notin DOMAIN Hostname \cup DOMAIN TargetText \cup DOMAIN Numeral \cup DOMAIN Spaced
  /\ \A s \in DOMAIN Hostname : Hostname[s] \in Name
  /\ \A s \in DOMAIN TargetText : TargetText[s] \in LabelTarget
  /\ \A s \in DOMAIN Numeral : Numeral[s] \in Int
ASSUME LabelMapsAssumption ==
  \A m \in LabelMaps : DOMAIN m \subseteq {"hostname", "target", "ttl", "record-type"} \X Index

VARIABLES
  running,   \* container -> its labels, for the containers that run
  listed,    \* the same when ContainerList returned, for those not yet parsed
  seen,      \* history: the label maps that ContainerList returned, none if it failed
  pc,        \* "idle" or "parse"
  eps        \* the endpoints of the containers parsed so far, in order

vars == <<running, listed, seen, pc, eps>>

-----------------------------------------------------------------------------
TrimSpace(s) == IF s \in DOMAIN Spaced THEN Spaced[s] ELSE s

\* labels[key]: a key that is not there gives the empty text.
Get(labels, field, i) == IF <<field, i>> \in DOMAIN labels THEN labels[<<field, i>>] ELSE ""

\* OtherType has every type that a label asks for, known to the provider or not.
ASSUME RecordTypeAssumption ==
  \A m \in LabelMaps, i \in Index : TrimSpace(Get(m, "record-type", i)) \in TypeName \cup {""}

\* Fault injection: any number is taken for a TTL.
ValidTTL_AnySign(raw) == raw = "" \/ TrimSpace(raw) \in DOMAIN Numeral

ValidTTL(raw) == raw = "" \/ (TrimSpace(raw) \in DOMAIN Numeral /\ Numeral[TrimSpace(raw)] >= 0)

TTLOf(raw) == IF raw = "" THEN DefaultTTL ELSE Numeral[TrimSpace(raw)]

\* One endpoint, or none when a label is absent or invalid.
parseSingle(hostname, target, rawTTL, rawRecordType) ==
  LET h == TrimSpace(hostname)
      t == TrimSpace(target)
      recordType == TrimSpace(rawRecordType)
  IN  IF h \in DOMAIN Hostname /\ t \in DOMAIN TargetText /\ ValidTTL(rawTTL)
        THEN << New(Hostname[h], <<TargetText[t]>>,
                    IF recordType = "" THEN InferRecordType(TargetText[t]) ELSE recordType,
                    TTLOf(rawTTL)) >>
        ELSE <<>>

ParseIndex(labels, i) ==
  parseSingle(Get(labels, "hostname", i), Get(labels, "target", i), Get(labels, "ttl", i),
              Get(labels, "record-type", i))

Has(labels, i) == <<"hostname", i>> \in DOMAIN labels

\* Fault injection: the loop ends at the first index without an endpoint.
endpointsFromLabels_StopsAtInvalid(labels) ==
  LET from[i \in 0 .. MaxIndex + 1] ==
        IF ~Has(labels, i) \/ ParseIndex(labels, i) = <<>> THEN <<>>
        ELSE ParseIndex(labels, i) \o from[i + 1]
  IN  ParseIndex(labels, Plain) \o from[0]

\* The labels without index, then index 0, 1, ... up to the first that has no
\* host name.
endpointsFromLabels(labels) ==
  LET from[i \in 0 .. MaxIndex + 1] ==
        IF Has(labels, i) THEN ParseIndex(labels, i) \o from[i + 1] ELSE <<>>
  IN  ParseIndex(labels, Plain) \o from[0]

-----------------------------------------------------------------------------
Init ==
  /\ running = <<>>
  /\ listed = <<>>
  /\ seen = {}
  /\ pc = "idle"
  /\ eps = <<>>

Without(f, c) == [x \in DOMAIN f \ {c} |-> f[x]]

ContainerList ==
  /\ pc = "idle"
  /\ listed' = running
  /\ seen' = {running[c] : c \in DOMAIN running}
  /\ eps' = <<>>
  /\ pc' = "parse"
  /\ UNCHANGED running

\* The list cannot be had: an error, and no endpoints.
ListFails ==
  /\ pc = "idle"
  /\ seen' = {}
  /\ eps' = <<>>
  /\ UNCHANGED <<running, listed, pc>>

\* One iteration of the loop; Docker lists containers in any order.
Extract(c) ==
  /\ pc = "parse"
  /\ c \in DOMAIN listed
  /\ eps' = eps \o endpointsFromLabels(listed[c])
  /\ listed' = Without(listed, c)
  /\ UNCHANGED <<running, seen, pc>>

EndpointsReturns ==
  /\ pc = "parse" /\ DOMAIN listed = {}
  /\ pc' = "idle"
  /\ UNCHANGED <<running, listed, seen, eps>>

\* External: a container starts with these labels, or stops.
ContainerStart(c, m) ==
  /\ c \notin DOMAIN running
  /\ running' = [x \in DOMAIN running \cup {c} |-> IF x = c THEN m ELSE running[x]]
  /\ UNCHANGED <<listed, seen, pc, eps>>

ContainerStop(c) ==
  /\ c \in DOMAIN running
  /\ running' = Without(running, c)
  /\ UNCHANGED <<listed, seen, pc, eps>>

Next ==
  \/ ContainerList \/ ListFails \/ EndpointsReturns
  \/ \E c \in Container : Extract(c) \/ ContainerStop(c) \/ \E m \in LabelMaps : ContainerStart(c, m)

Spec == Init /\ [][Next]_vars

-----------------------------------------------------------------------------
(* Properties. *)

Returned == {eps[k] : k \in DOMAIN eps}

\* What Reconcile.tla and MultiZone.tla assume of the source: whatever is typed
\* into labels, an endpoint has a valid name, one valid target and a positive TTL.
TypeOK ==
  /\ pc \in {"idle", "parse"}
  /\ DOMAIN running \subseteq Container /\ DOMAIN listed \subseteq Container
  /\ \A ep \in Returned : ep \in LabelEndpoint

\* The endpoint that the labels at this index ask for, if its name and target are
\* valid: what is typed, and where nothing is, the target's own type and the default TTL.
TypeAsked(labels, i, target) ==
  LET typed == TrimSpace(Get(labels, "record-type", i))
  IN  IF typed # "" THEN typed ELSE InferRecordType(target)

TTLAsked(labels, i) ==
  LET typed == TrimSpace(Get(labels, "ttl", i))
  IN  IF typed \in DOMAIN Numeral /\ Numeral[typed] # 0 THEN Numeral[typed] ELSE DefaultTTL

Asked(labels, i) ==
  { [ DNSName    |-> Hostname[h],
      Targets    |-> <<TargetText[t]>>,
      RecordType |-> TypeAsked(labels, i, TargetText[t]),
      TTL        |-> TTLAsked(labels, i) ] :
      h \in DOMAIN Hostname \cap {TrimSpace(Get(labels, "hostname", i))},
      t \in DOMAIN TargetText \cap {TrimSpace(Get(labels, "target", i))} }

ValidIndices(labels) ==
  {i \in Index : Get(labels, "ttl", i) # "" =>
                   \E s \in DOMAIN Numeral : Numeral[s] >= 0 /\ s = TrimSpace(Get(labels, "ttl", i))}

AllParsed == pc = "parse" /\ DOMAIN listed = {}

\* openspec docker-source: "other valid indices are still processed": what is returned
\* is exactly what the valid labels ask for, name, target, type and TTL, without index
\* and at the indices up to the first that has no host name.  An invalid label spoils
\* its own index and no other index or container.
NothingSpoiled ==
  AllParsed =>
    Returned = UNION {Asked(p[1], p[2]) :
      p \in {q \in seen \X Index : /\ q[2] \in ValidIndices(q[1])
                                   /\ \A j \in 0 .. q[2] - 1 : Has(q[1], j)}}

\* openspec docker-source: "each index pair SHALL produce a separate Endpoint".
EveryIndexCounts ==
  AllParsed => \A m \in seen : \A i \in ValidIndices(m) : Asked(m, i) \subseteq Returned
=============================================================================
