--------------------------- MODULE RFC2136Proofs ---------------------------
(***************************************************************************)
(* Lemmas about the planner, the provider's conversions and the server,    *)
(* for every daemon that uses them: what Calculate makes of claimed labels *)
(* and a zone whose ownership records are claims is an UPDATE that touches *)
(* only claimed names and no other owner's marks.                          *)
(***************************************************************************)
EXTENDS RFC2136, FiniteSetTheorems, TLAPS

-----------------------------------------------------------------------------
(* Names. *)

\* Completing a name drops its dot and nothing else.
LEMMA FqdnFacts ==
  ASSUME NEW n \in Name
  PROVE  /\ Fqdn(n) \in Name
         /\ Fqdn(n).dot = FALSE
         /\ n.dot = FALSE => Fqdn(n) = n
  BY DEF Fqdn, Name

\* The ownership name of a name, and what buildOwnedSet recovers from it.
LEMMA OwnershipNameFacts ==
  ASSUME NEW n \in Name
  PROVE  /\ ownershipName(n) \in Name
         /\ ownershipName(n).dot = n.dot
         /\ HasOwnerPrefix(ownershipName(n))
         /\ ManagedName(ownershipName(n)) = n
         /\ Fqdn(ownershipName(n)) = ownershipName(Fqdn(n))
<1>1. n = [host |-> n.host, owner |-> n.owner, dot |-> n.dot] /\ n.owner \in Nat
  BY DEF Name
<1>2. ownershipName(n) = [host |-> n.host, owner |-> n.owner + 1, dot |-> n.dot]
  BY <1>1 DEF ownershipName, Name
<1>3. ownershipName(n) \in Name
  BY <1>1, <1>2 DEF Name
<1>4. ManagedName(ownershipName(n)) = n
  <2>1. ManagedName(ownershipName(n)) =
          [host |-> n.host, owner |-> (n.owner + 1) - 1, dot |-> n.dot]
    BY <1>2 DEF ManagedName
  <2>2. (n.owner + 1) - 1 = n.owner
    BY <1>1
  <2> QED
    BY <2>1, <2>2, <1>1, Zenon
<1>5. Fqdn(ownershipName(n)) = ownershipName(Fqdn(n))
  BY <1>1 DEF Fqdn, Name, ownershipName
<1> QED
  BY <1>1, <1>2, <1>3, <1>4, <1>5 DEF HasOwnerPrefix

\* The name below an ownership name, and back.
LEMMA ManagedNameFacts ==
  ASSUME NEW n \in Name, HasOwnerPrefix(n)
  PROVE  /\ ManagedName(n) \in Name
         /\ ownershipName(ManagedName(n)) = n
<1>1. n = [host |-> n.host, owner |-> n.owner, dot |-> n.dot] /\ n.owner \in Nat
  BY DEF Name
<1>2. ManagedName(n) = [host |-> n.host, owner |-> n.owner - 1, dot |-> n.dot]
  BY <1>1 DEF ManagedName, Name
<1>3. n.owner - 1 \in Nat /\ (n.owner - 1) + 1 = n.owner
  BY <1>1 DEF HasOwnerPrefix
<1>4. ManagedName(n) \in Name
  BY <1>1, <1>2, <1>3 DEF Name
<1>5. ownershipName(ManagedName(n)) =
        [host |-> n.host, owner |-> (n.owner - 1) + 1, dot |-> n.dot]
  BY <1>2 DEF ownershipName
<1> QED
  BY <1>1, <1>3, <1>4, <1>5, Zenon

-----------------------------------------------------------------------------
(* Conversions. *)

\* A TTL on the wire is a natural number.
LEMMA TTLType == ASSUME NEW t \in Nat PROVE effectiveTTL(t) % TTLModulus \in Nat
  BY MinTTLAssumption, TTLModulusAssumption DEF effectiveTTL

\* Record data that the provider writes are targets.
LEMMA RdataType ==
  ASSUME NEW rt, NEW t \in Target
  PROVE  Rdata(rt, t) \in Target
<1>1. CASE t \in LabelTarget
  <2>1. [t EXCEPT !.canonical = TRUE] \in LabelTarget
    BY <1>1 DEF LabelTarget
  <2> QED
    BY <2>1 DEF Rdata, Target
<1>2. CASE t \in OwnerTarget
  <2>1. [t EXCEPT !.canonical = TRUE] \in OwnerTarget
    BY <1>2 DEF OwnerTarget
  <2> QED
    BY <2>1 DEF Rdata, Target
<1> QED
  BY <1>1, <1>2 DEF Target

\* The entries of a sequence of one.
LEMMA Singleton == ASSUME NEW x, NEW j \in DOMAIN <<x>> PROVE <<x>>[j] = x
  OBVIOUS

\* What endpointToRRs returns: records at the endpoint's name, of its type, and
\* with one of its targets as the only datum.
LEMMA EndpointToRRs ==
  ASSUME NEW ep \in EndpointRecord, NEW rr \in endpointToRRs(ep)
  PROVE  /\ rr \in ResourceRecord
         /\ rr.name = Fqdn(ep.DNSName)
         /\ rr.type = ep.RecordType
         /\ \E k \in DOMAIN ep.Targets : rr.rdata = <<Rdata(ep.RecordType, ep.Targets[k])>>
<1>1. Convertible(ep)
  BY DEF endpointToRRs
<1>2. PICK k \in DOMAIN ep.Targets :
        rr = [ name  |-> Fqdn(ep.DNSName),
               type  |-> ep.RecordType,
               rdata |-> <<Rdata(ep.RecordType, ep.Targets[k])>>,
               ttl   |-> effectiveTTL(ep.TTL) % TTLModulus ]
  BY <1>1 DEF endpointToRRs
<1>3. ep.Targets[k] \in Target
  BY DEF EndpointRecord
<1>4. <<Rdata(ep.RecordType, ep.Targets[k])>> \in Seq(Target)
  BY <1>3, RdataType
<1>5. Fqdn(ep.DNSName) \in Name /\ ep.RecordType \in TypeName
  BY <1>1, FqdnFacts DEF EndpointRecord
<1>6. effectiveTTL(ep.TTL) % TTLModulus \in Nat
  BY TTLType DEF EndpointRecord
<1>7. rr \in ResourceRecord
  BY <1>2, <1>4, <1>5, <1>6 DEF ResourceRecord
<1> QED
  BY <1>2, <1>7

\* What a zone transfer turns a record into.
LEMMA RrToEndpoint ==
  ASSUME NEW rr \in ResourceRecord
  PROVE  /\ rrToEndpoint(rr) \in EndpointRecord
         /\ rrToEndpoint(rr).DNSName = rr.name
         /\ rrToEndpoint(rr).Targets = rr.rdata
         /\ rrToEndpoint(rr).RecordType = rr.type
<1>1. rr.type \in TypeName
  BY DEF ResourceRecord
<1>2. rr.name \in Name /\ rr.rdata \in Seq(Target) /\ rr.ttl \in Nat
  BY DEF ResourceRecord
<1>3. (IF rr.ttl = 0 THEN DefaultTTL ELSE rr.ttl) \in Nat
  BY <1>2, DefaultTTLAssumption
<1> DEFINE ttl == IF rr.ttl = 0 THEN DefaultTTL ELSE rr.ttl
<1> HIDE DEF ttl
<1>4. rrToEndpoint(rr) =
        [DNSName |-> rr.name, Targets |-> rr.rdata, RecordType |-> rr.type, TTL |-> ttl]
  BY DEF rrToEndpoint, New, ttl
<1>5. rrToEndpoint(rr) \in EndpointRecord
  BY <1>1, <1>2, <1>3, <1>4 DEF EndpointRecord, ttl
<1> QED
  BY <1>4, <1>5
-----------------------------------------------------------------------------
(* The server. *)

\* Performing insertions adds only what was sent and loses only what one of
\* them replaces.
LEMMA InsertAllFacts ==
  ASSUME NEW before, NEW rrs, NEW after \in InsertAll(before, rrs)
  PROVE  /\ after \subseteq before \cup rrs
         /\ \A z \in before \ after : \E a \in rrs : Replaces(a, z)
<1>1. PICK s \in Surviving(before, rrs) :
        after = {z \in before : ~\E a \in s : Replaces(a, z)} \cup s
  BY DEF InsertAll
<1>2. s \subseteq rrs
  BY DEF Surviving
<1> QED
  BY <1>1, <1>2

\* The same for a whole UPDATE: a record that disappears has its name, type and
\* data in the message, or is a CNAME and the message has one for its name.
LEMMA ProcessFacts ==
  ASSUME NEW before, NEW m, NEW after \in Process(before, m)
  PROVE  /\ after \subseteq before \cup m.replace \cup m.create
         /\ \A z \in before \ after :
              \E rr \in m.remove \cup m.replace \cup m.create :
                SameRecord(rr, z) \/ Replaces(rr, z)
<1>1. PICK mid \in InsertAll(RemoveAll(before, m.remove), m.replace) :
        after \in InsertAll(mid, m.create)
  BY DEF Process
<1>2. /\ mid \subseteq RemoveAll(before, m.remove) \cup m.replace
      /\ \A z \in RemoveAll(before, m.remove) \ mid : \E a \in m.replace : Replaces(a, z)
  BY <1>1, InsertAllFacts
<1>3. /\ after \subseteq mid \cup m.create
      /\ \A z \in mid \ after : \E a \in m.create : Replaces(a, z)
  BY <1>1, InsertAllFacts
<1>4. /\ RemoveAll(before, m.remove) \subseteq before
      /\ \A z \in before \ RemoveAll(before, m.remove) : \E rr \in m.remove : SameRecord(rr, z)
  BY DEF RemoveAll
<1>5. after \subseteq before \cup m.replace \cup m.create
  BY <1>2, <1>3, <1>4
<1>6. ASSUME NEW z \in before \ after
      PROVE  \E rr \in m.remove \cup m.replace \cup m.create :
               SameRecord(rr, z) \/ Replaces(rr, z)
  <2>1. CASE z \notin RemoveAll(before, m.remove)
    BY <2>1, <1>4
  <2>2. CASE z \in RemoveAll(before, m.remove) \ mid
    BY <2>2, <1>2
  <2>3. CASE z \in mid
    BY <2>3, <1>3
  <2> QED
    BY <2>1, <2>2, <2>3
<1> QED
  BY <1>5, <1>6

-----------------------------------------------------------------------------
(* What one UPDATE may contain. *)

\* A record of an UPDATE of owner id, who has a claim to these names: at a name
\* the owner may touch, and an ownership record only if it is the owner's own,
\* for a name it has a claim to.
SafeRR(id, names, rr) ==
  /\ rr.name.dot = FALSE
  /\ rr.name \in Touchable(names)
  /\ \A o \in OwnerID : OwnershipRR(o, rr) => o = id /\ ManagedName(rr.name) \in names

SafeMessage(id, names, m) ==
  \A rr \in m.remove \cup m.replace \cup m.create : SafeRR(id, names, rr)

\* What a daemon may read from a zone: endpoints at complete names.
ReadBack(eps) == eps \subseteq EndpointRecord /\ \A ep \in eps : ep.DNSName.dot = FALSE

\* The names of a zone are complete.
CompleteNames(zone) == \A rr \in zone : rr.name.dot = FALSE

\* A label's endpoint becomes safe records once its name is claimed.
LEMMA LabelSafe ==
  ASSUME NEW id \in OwnerID, NEW names, NEW ep \in LabelEndpoint, Fqdn(ep.DNSName) \in names,
         NEW rr \in endpointToRRs(ep)
  PROVE  rr \in ResourceRecord /\ SafeRR(id, names, rr)
<1>1. /\ ep \in EndpointRecord
      /\ \A k \in DOMAIN ep.Targets : ep.Targets[k] \in LabelTarget
  BY DEF LabelEndpoint, EndpointRecord, Target
<1>2. /\ rr \in ResourceRecord
      /\ rr.name = Fqdn(ep.DNSName)
      /\ rr.type = ep.RecordType
      /\ \E k \in DOMAIN ep.Targets : rr.rdata = <<Rdata(ep.RecordType, ep.Targets[k])>>
  BY <1>1, EndpointToRRs
<1>3. rr.name.dot = FALSE
  BY <1>1, <1>2, FqdnFacts DEF EndpointRecord
<1>4. ASSUME NEW o \in OwnerID PROVE ~OwnershipRR(o, rr)
  <2>1. PICK k \in DOMAIN ep.Targets : rr.rdata = <<Rdata(ep.RecordType, ep.Targets[k])>>
    BY <1>2
  <2>2. Rdata(ep.RecordType, ep.Targets[k]) \in LabelTarget
    BY <1>1 DEF Rdata, LabelTarget
  <2>3. ownershipValue(o) \notin LabelTarget
    BY DEF ownershipValue, LabelTarget
  <2>4. ASSUME NEW j \in DOMAIN rr.rdata PROVE rr.rdata[j] # ownershipValue(o)
    <3> DEFINE x == Rdata(ep.RecordType, ep.Targets[k])
    <3>1. rr.rdata = <<x>> /\ x # ownershipValue(o)
      BY <2>1, <2>2, <2>3, Zenon
    <3> HIDE DEF x
    <3>2. rr.rdata[j] = x
      BY <3>1, Singleton, Zenon
    <3> QED
      BY <3>1, <3>2, Zenon
  <2> QED
    BY <2>4, Zenon DEF OwnershipRR
<1> QED
  BY <1>2, <1>3, <1>4 DEF SafeRR, Touchable

\* So does the ownership record of a claimed name.
LEMMA CompanionSafe ==
  ASSUME NEW id \in OwnerID, NEW names, NEW n \in Name, Fqdn(n) \in names,
         NEW rr \in endpointToRRs(ownershipTXTFor(id, n))
  PROVE  rr \in ResourceRecord /\ SafeRR(id, names, rr)
<1> DEFINE ep == ownershipTXTFor(id, n)
<1>1. ownershipValue(id) \in Target
  BY DEF ownershipValue, Target, OwnerTarget
<1>2. /\ ep = [ DNSName |-> ownershipName(n), Targets |-> <<ownershipValue(id)>>,
                RecordType |-> RecordTypeTXT, TTL |-> DefaultTTL ]
  BY DefaultTTLAssumption DEF ownershipTXTFor, New, ownershipTTL
<1>3. <<ownershipValue(id)>> \in Seq(Target) /\ RecordTypeTXT \in TypeName
  BY <1>1 DEF TypeName, SupportedType
<1>4. ownershipName(n) \in Name /\ ep \in EndpointRecord
  BY <1>2, <1>3, OwnershipNameFacts, DefaultTTLAssumption DEF EndpointRecord
<1> HIDE DEF ep
<1>5. /\ rr \in ResourceRecord
      /\ rr.name = Fqdn(ep.DNSName)
      /\ \E k \in DOMAIN ep.Targets : rr.rdata = <<Rdata(ep.RecordType, ep.Targets[k])>>
  BY <1>4, EndpointToRRs DEF ep
<1>6. rr.name = ownershipName(Fqdn(n))
  BY <1>2, <1>5, OwnershipNameFacts
<1>7. Fqdn(n) \in Name /\ Fqdn(n).dot = FALSE
  BY FqdnFacts
<1>8. rr.name.dot = FALSE /\ ManagedName(rr.name) = Fqdn(n)
  BY <1>6, <1>7, OwnershipNameFacts
<1>9. rr.rdata = <<ownershipValue(id)>>
  <2>1. PICK k \in DOMAIN ep.Targets : rr.rdata = <<Rdata(ep.RecordType, ep.Targets[k])>>
    BY <1>5
  <2>2. ep.Targets[k] = ownershipValue(id) /\ ep.RecordType = RecordTypeTXT
    BY <1>2, Singleton
  <2>3. Rdata(RecordTypeTXT, ownershipValue(id)) = ownershipValue(id)
    BY DEF Rdata, RecordTypeTXT, RecordTypeA, RecordTypeAAAA, RecordTypeCNAME
  <2> QED
    BY <2>1, <2>2, <2>3
<1>10. ASSUME NEW o \in OwnerID, OwnershipRR(o, rr) PROVE o = id
  <2>1. PICK j \in DOMAIN rr.rdata : rr.rdata[j] = ownershipValue(o)
    BY <1>10 DEF OwnershipRR
  <2>2. ownershipValue(id) = ownershipValue(o)
    BY <1>9, <2>1, Singleton
  <2> QED
    BY <2>2 DEF ownershipValue
<1> QED
  BY <1>5, <1>6, <1>8, <1>10 DEF SafeRR, Touchable

\* And so does an endpoint read from the zone that filterOwnershipTXTs lets pass,
\* once its name is claimed.
LEMMA CurrentSafe ==
  ASSUME NEW id \in OwnerID, NEW names, NEW current, ReadBack(current),
         NEW ep \in filterOwnershipTXTs(current), ep.DNSName \in names
  PROVE  /\ ep \in EndpointRecord
         /\ Fqdn(ep.DNSName) = ep.DNSName
         /\ \A rr \in endpointToRRs(ep) : rr \in ResourceRecord /\ SafeRR(id, names, rr)
<1>1. ep \in EndpointRecord /\ ep.DNSName \in Name /\ ep.DNSName.dot = FALSE
  BY DEF filterOwnershipTXTs, ReadBack, EndpointRecord
<1>2. Fqdn(ep.DNSName) = ep.DNSName
  BY <1>1, FqdnFacts
<1>3. ASSUME NEW rr \in endpointToRRs(ep) PROVE rr \in ResourceRecord /\ SafeRR(id, names, rr)
  <2>1. rr \in ResourceRecord /\ rr.name = ep.DNSName /\ rr.type = ep.RecordType
    BY <1>1, <1>2, EndpointToRRs
  <2>2. \A o \in OwnerID : ~OwnershipRR(o, rr)
    BY <2>1 DEF OwnershipRR, filterOwnershipTXTs
  <2> QED
    BY <2>1, <2>2, <1>1 DEF SafeRR, Touchable
<1> QED
  BY <1>1, <1>2, <1>3

\* A zone transfer returns endpoints at complete names, and buildOwnedSet finds in
\* it exactly the names that the zone's ownership records mark.
LEMMA RecordsFacts ==
  ASSUME NEW zone \in SUBSET ResourceRecord, CompleteNames(zone)
  PROVE  /\ ReadBack(Records(zone))
         /\ \A id \in OwnerID : buildOwnedSet(id, Records(zone)) = OwnedNames(id, zone)
<1>1. ASSUME NEW z \in zone
      PROVE  /\ rrToEndpoint(z) \in EndpointRecord
             /\ rrToEndpoint(z).DNSName = z.name
             /\ rrToEndpoint(z).Targets = z.rdata
             /\ rrToEndpoint(z).RecordType = z.type
  BY RrToEndpoint
<1>2. ReadBack(Records(zone))
  BY <1>1 DEF ReadBack, Records, CompleteNames
<1>3. ASSUME NEW id \in OwnerID, NEW n \in buildOwnedSet(id, Records(zone))
      PROVE  n \in OwnedNames(id, zone)
  <2>1. PICK ep \in Records(zone) :
          /\ n = ManagedName(ep.DNSName)
          /\ ep.RecordType = RecordTypeTXT
          /\ HasOwnerPrefix(ep.DNSName)
          /\ \E k \in DOMAIN ep.Targets : ep.Targets[k] = ownershipValue(id)
    BY DEF buildOwnedSet
  <2>2. PICK z \in zone : ep = rrToEndpoint(z)
    BY DEF Records
  <2>3. OwnershipRR(id, z) /\ n = ManagedName(z.name)
    BY <1>1, <2>1, <2>2 DEF OwnershipRR
  <2> QED
    BY <2>3 DEF OwnedNames
<1>4. ASSUME NEW id \in OwnerID, NEW n \in OwnedNames(id, zone)
      PROVE  n \in buildOwnedSet(id, Records(zone))
  <2>1. PICK z \in zone : OwnershipRR(id, z) /\ n = ManagedName(z.name)
    BY DEF OwnedNames
  <2>2. z.type \in SupportedType
    BY <2>1 DEF OwnershipRR, SupportedType
  <2>3. rrToEndpoint(z) \in Records(zone)
    BY <2>2 DEF Records
  <2> QED
    BY <1>1, <2>1, <2>3 DEF buildOwnedSet, OwnershipRR
<1> QED
  BY <1>2, <1>3, <1>4

\* The heart of the matter: whatever Calculate returns for claimed labels and for
\* endpoints whose marks are claims, the UPDATE made of it, or of any part of it,
\* is safe.
LEMMA PlanSafe ==
  ASSUME NEW id \in OwnerID, NEW names, NEW current, ReadBack(current),
         buildOwnedSet(id, current) \subseteq names,
         NEW eps, eps \subseteq LabelEndpoint,
         \A ep \in eps : Fqdn(ep.DNSName) \in names,
         NEW changes \in Calculate(id, eps, current),
         NEW part,
         part.Create \subseteq changes.Create,
         part.Update \subseteq changes.Update,
         part.Delete \subseteq changes.Delete
  PROVE  UpdateMessage(part) \in Message /\ SafeMessage(id, names, UpdateMessage(part))
<1> DEFINE plain == filterOwnershipTXTs(current)
           owned == buildOwnedSet(id, current)
           Good(rr) == rr \in ResourceRecord /\ SafeRR(id, names, rr)
<1>1. PICK d \in indexEndpoints(eps), c \in indexEndpoints(plain) :
        /\ changes.Create = CreateChanges(id, d, c)
        /\ changes.Update = UpdateChanges(d, c, owned)
        /\ changes.Delete = DeleteChanges(id, d, c, owned)
  BY DEF Calculate
<1>2. d \subseteq eps /\ c \subseteq plain
  BY DEF indexEndpoints
<1>3. owned \subseteq names
  OBVIOUS
<1> HIDE DEF plain, owned
<1>4. ASSUME NEW ep \in d, NEW rr \in endpointToRRs(ep) PROVE Good(rr)
  BY <1>2, LabelSafe
<1>5. ASSUME NEW ep \in c, ep.DNSName \in owned
      PROVE  /\ \A rr \in endpointToRRs(ep) : Good(rr)
             /\ \A rr \in endpointToRRs(ownershipTXTFor(id, ep.DNSName)) : Good(rr)
  <2>1. /\ ep \in EndpointRecord
        /\ Fqdn(ep.DNSName) = ep.DNSName
        /\ \A rr \in endpointToRRs(ep) : Good(rr)
    BY <1>2, <1>3, <1>5, CurrentSafe DEF plain
  <2>2. ep.DNSName \in Name /\ Fqdn(ep.DNSName) \in names
    BY <2>1, <1>3, <1>5 DEF EndpointRecord
  <2> QED
    BY <2>1, <2>2, CompanionSafe
<1>6. ASSUME NEW rr \in RRsOf(part.Create) PROVE Good(rr)
  <2>1. PICK ep \in part.Create : rr \in endpointToRRs(ep)
    BY DEF RRsOf
  <2>2. CASE ep \in d
    BY <2>1, <2>2, <1>4
  <2>3. CASE \E w \in d : ep = ownershipTXTFor(id, w.DNSName)
    <3>1. PICK w \in d : ep = ownershipTXTFor(id, w.DNSName)
      BY <2>3
    <3>2. w.DNSName \in Name /\ Fqdn(w.DNSName) \in names
      BY <1>2 DEF LabelEndpoint
    <3> QED
      BY <2>1, <3>1, <3>2, CompanionSafe
  <2> QED
    BY <2>1, <2>2, <2>3, <1>1 DEF CreateChanges
<1>7. ASSUME NEW rr \in RRsOf(part.Delete) PROVE Good(rr)
  <2>1. PICK ep \in part.Delete : rr \in endpointToRRs(ep)
    BY DEF RRsOf
  <2>2. CASE ep \in c /\ ep.DNSName \in owned
    BY <2>1, <2>2, <1>5
  <2>3. CASE \E have \in c : /\ have.DNSName \in owned
                            /\ ep = ownershipTXTFor(id, have.DNSName)
    BY <2>1, <2>3, <1>5
  <2> QED
    BY <2>1, <2>2, <2>3, <1>1 DEF DeleteChanges
<1>8. ASSUME NEW p \in part.Update
      PROVE  /\ p.old \in c /\ p.new \in d
             /\ p.old.DNSName \in owned
  BY <1>1 DEF UpdateChanges, epKey
<1>9. ASSUME NEW rr \in RRsOf({p.old : p \in part.Update}) PROVE Good(rr)
  <2>1. PICK p \in part.Update : rr \in endpointToRRs(p.old)
    BY DEF RRsOf
  <2> QED
    BY <2>1, <1>8, <1>5
<1>10. ASSUME NEW rr \in RRsOf({p.new : p \in {q \in part.Update : Convertible(q.old)}})
       PROVE  Good(rr)
  <2>1. PICK p \in part.Update : rr \in endpointToRRs(p.new)
    BY DEF RRsOf
  <2> QED
    BY <2>1, <1>8, <1>4
<1> QED
  BY <1>6, <1>7, <1>9, <1>10 DEF UpdateMessage, Message, SafeMessage

\* More claims make nothing unsafe.
LEMMA SafeMonotone ==
  ASSUME NEW id, NEW names, NEW more, names \subseteq more, NEW m, SafeMessage(id, names, m)
  PROVE  SafeMessage(id, more, m)
  BY DEF SafeMessage, SafeRR, Touchable

\* A safe UPDATE, applied to any zone at any time, keeps the zone's names complete,
\* adds ownership records only where its owner has a claim, and changes what the
\* owner may touch, other owners' marks excepted.
LEMMA ApplySafe ==
  ASSUME NEW id \in OwnerID, NEW names, NEW before \in SUBSET ResourceRecord,
         CompleteNames(before), NEW m \in Message, SafeMessage(id, names, m),
         NEW after \in Process(before, m)
  PROVE  /\ after \in SUBSET ResourceRecord
         /\ CompleteNames(after)
         /\ \A o \in OwnerID : \A rr \in after :
              OwnershipRR(o, rr) => rr \in before \/ (o = id /\ ManagedName(rr.name) \in names)
         /\ \A rr \in (before \ after) \cup (after \ before) :
              /\ rr.name \in Touchable(names)
              /\ \A other \in OwnerID \ {id} : ~OwnershipRR(other, rr)
<1>1. /\ after \subseteq before \cup m.replace \cup m.create
      /\ \A z \in before \ after :
           \E rr \in m.remove \cup m.replace \cup m.create :
             SameRecord(rr, z) \/ Replaces(rr, z)
  BY ProcessFacts
<1>2. after \in SUBSET ResourceRecord
  BY <1>1 DEF Message
<1>3. \A rr \in m.replace \cup m.create : SafeRR(id, names, rr)
  BY DEF SafeMessage
<1>4. CompleteNames(after)
  BY <1>1, <1>3 DEF CompleteNames, SafeRR
<1>5. \A o \in OwnerID : \A rr \in after :
        OwnershipRR(o, rr) => rr \in before \/ (o = id /\ ManagedName(rr.name) \in names)
  BY <1>1, <1>3 DEF SafeRR
<1>6. ASSUME NEW rr \in after \ before
      PROVE  /\ rr.name \in Touchable(names)
             /\ \A other \in OwnerID \ {id} : ~OwnershipRR(other, rr)
  BY <1>1, <1>3, <1>6 DEF SafeRR
<1>7. ASSUME NEW z \in before \ after
      PROVE  /\ z.name \in Touchable(names)
             /\ \A other \in OwnerID \ {id} : ~OwnershipRR(other, z)
  <2>1. PICK rr \in m.remove \cup m.replace \cup m.create :
          SameRecord(rr, z) \/ Replaces(rr, z)
    BY <1>1, <1>7
  <2>2. SafeRR(id, names, rr)
    BY DEF SafeMessage
  <2>3. rr.name = z.name /\ rr.type = z.type
    BY <2>1 DEF SameRecord, Replaces
  <2>4. ASSUME NEW other \in OwnerID \ {id}, OwnershipRR(other, z) PROVE FALSE
    <3>1. z.type # RecordTypeCNAME
      BY <2>4 DEF OwnershipRR, RecordTypeTXT, RecordTypeCNAME
    <3>2. rr.rdata = z.rdata
      BY <2>1, <2>3, <3>1 DEF SameRecord, Replaces
    <3>3. OwnershipRR(other, rr)
      BY <2>3, <2>4, <3>2 DEF OwnershipRR
    <3> QED
      BY <3>3, <2>2 DEF SafeRR
  <2> QED
    BY <2>2, <2>3, <2>4 DEF SafeRR
<1> QED
  BY <1>2, <1>4, <1>5, <1>6, <1>7

-----------------------------------------------------------------------------
(* Records and their companions. *)

\* The provider can name this record in a deletion: what it makes of the endpoint
\* that it reads is the record again.
ReadsBack(z) == \E r \in endpointToRRs(rrToEndpoint(z)) : SameRecord(r, z)

\* Writing a datum twice is writing it once, and does not change its kind.
LEMMA RdataTwice ==
  ASSUME NEW rt, NEW x \in Target
  PROVE  Rdata(rt, Rdata(rt, x)) = Rdata(rt, x) /\ Rdata(rt, x).kind = x.kind
<1> DEFINE y == [x EXCEPT !.canonical = TRUE]
<1>1. y.kind = x.kind /\ [y EXCEPT !.canonical = TRUE] = y
  BY DEF Target, LabelTarget, OwnerTarget
<1> HIDE DEF y
<1>2. CASE rt \in {RecordTypeA, RecordTypeAAAA} \/ (rt = RecordTypeCNAME /\ x.kind = "hostname")
  <2>1. Rdata(rt, x) = y
    BY <1>2, Zenon DEF Rdata, y
  <2>2. Rdata(rt, y) = [y EXCEPT !.canonical = TRUE]
    BY <1>1, <1>2, Zenon DEF Rdata
  <2> QED BY <1>1, <2>1, <2>2, Zenon
<1>3. CASE ~(rt \in {RecordTypeA, RecordTypeAAAA} \/ (rt = RecordTypeCNAME /\ x.kind = "hostname"))
  <2>1. Rdata(rt, x) = x
    BY <1>3, Zenon DEF Rdata
  <2> QED BY <2>1, Zenon
<1> QED BY <1>2, <1>3, Zenon

\* What the provider has written reads back.
LEMMA WrittenReadsBack ==
  ASSUME NEW ep \in EndpointRecord, NEW z \in endpointToRRs(ep)
  PROVE  ReadsBack(z) /\ z.type \in SupportedType
<1> DEFINE rt == ep.RecordType
<1>1. Convertible(ep) /\ rt \in SupportedType
  BY DEF endpointToRRs, Convertible
<1>2. /\ z \in ResourceRecord /\ z.name = Fqdn(ep.DNSName) /\ z.type = rt
      /\ \E k \in DOMAIN ep.Targets : z.rdata = <<Rdata(rt, ep.Targets[k])>>
  BY EndpointToRRs
<1>3. PICK k \in DOMAIN ep.Targets : z.rdata = <<Rdata(rt, ep.Targets[k])>>
  BY <1>2
<1> DEFINE x == ep.Targets[k]
           t == Rdata(rt, x)
           e == rrToEndpoint(z)
<1>4. x \in Target
  BY DEF EndpointRecord
<1>5. Rdata(rt, t) = t /\ t.kind = x.kind
  BY <1>4, RdataTwice
<1>6. /\ rt = RecordTypeA => x.kind = "ipv4"
      /\ rt = RecordTypeAAAA => x.kind \in {"ipv4", "ipv6"}
  BY <1>1 DEF Convertible
<1>7. e.DNSName = z.name /\ e.Targets = z.rdata /\ e.RecordType = rt
  BY <1>2, RrToEndpoint
<1>8. Fqdn(z.name) = z.name
  BY <1>2, FqdnFacts DEF EndpointRecord
<1> HIDE DEF t, e, x, rt
<1>9. z.rdata = <<t>>
  BY <1>3 DEF t, x, rt
<1>10. 1 \in DOMAIN e.Targets /\ e.Targets[1] = t /\ \A j \in DOMAIN e.Targets : e.Targets[j] = t
  BY <1>7, <1>9
<1>11. Convertible(e)
  BY <1>1, <1>5, <1>6, <1>7, <1>10 DEF Convertible
<1> DEFINE r == [ name  |-> Fqdn(e.DNSName), type |-> e.RecordType,
                  rdata |-> <<Rdata(e.RecordType, e.Targets[1])>>,
                  ttl   |-> effectiveTTL(e.TTL) % TTLModulus ]
<1>12. r \in endpointToRRs(e)
  BY <1>10, <1>11 DEF endpointToRRs
<1>13. r.name = z.name /\ r.type = z.type /\ r.rdata = z.rdata
  BY <1>2, <1>5, <1>7, <1>8, <1>9, <1>10
<1> HIDE DEF r
<1> QED BY <1>1, <1>2, <1>12, <1>13 DEF ReadsBack, SameRecord, e

\* A record that reads back is of a type that the provider knows.
LEMMA ReadsBackType ==
  ASSUME NEW z \in ResourceRecord, ReadsBack(z) PROVE z.type \in SupportedType
BY RrToEndpoint DEF ReadsBack, endpointToRRs, Convertible

\* The companion of a name is one record that marks it.
LEMMA CompanionRR ==
  ASSUME NEW id \in OwnerID, NEW n \in Name, n.dot = FALSE
  PROVE  /\ \E rr : rr \in endpointToRRs(ownershipTXTFor(id, n))
         /\ \A rr \in endpointToRRs(ownershipTXTFor(id, n)) :
              /\ OwnershipRR(id, rr) /\ rr.name = ownershipName(n) /\ ManagedName(rr.name) = n
<1> DEFINE ep == ownershipTXTFor(id, n)
           v == ownershipValue(id)
<1>1. v \in Target /\ Rdata(RecordTypeTXT, v) = v
  BY DEF ownershipValue, Target, OwnerTarget, Rdata, RecordTypeTXT, RecordTypeA, RecordTypeAAAA,
         RecordTypeCNAME
<1>2. ep = [ DNSName |-> ownershipName(n), Targets |-> <<v>>, RecordType |-> RecordTypeTXT,
             TTL |-> DefaultTTL ]
  BY DefaultTTLAssumption DEF ownershipTXTFor, New, ownershipTTL
<1>3. Convertible(ep)
  <2>1. RecordTypeTXT \in SupportedType /\ RecordTypeTXT # RecordTypeA /\ RecordTypeTXT # RecordTypeAAAA
    BY DEF SupportedType, RecordTypeTXT, RecordTypeA, RecordTypeAAAA
  <2>2. ep.RecordType = RecordTypeTXT
    BY <1>2
  <2> HIDE DEF ep
  <2> QED BY <2>1, <2>2, Zenon DEF Convertible
<1>4. /\ Fqdn(n) = n /\ Fqdn(ownershipName(n)) = ownershipName(n)
      /\ HasOwnerPrefix(ownershipName(n)) /\ ManagedName(ownershipName(n)) = n
  BY FqdnFacts, OwnershipNameFacts
<1> HIDE DEF v
<1>5. ep.DNSName = ownershipName(n) /\ ep.Targets = <<v>> /\ ep.RecordType = RecordTypeTXT
  BY <1>2
<1> HIDE DEF ep
<1>6. 1 \in DOMAIN ep.Targets /\ \A k \in DOMAIN ep.Targets : ep.Targets[k] = v
  BY <1>5
<1>7. ASSUME NEW rr \in endpointToRRs(ep)
      PROVE  OwnershipRR(id, rr) /\ rr.name = ownershipName(n) /\ ManagedName(rr.name) = n
  <2>1. PICK k \in DOMAIN ep.Targets :
          rr = [ name |-> Fqdn(ep.DNSName), type |-> ep.RecordType,
                 rdata |-> <<Rdata(ep.RecordType, ep.Targets[k])>>,
                 ttl |-> effectiveTTL(ep.TTL) % TTLModulus ]
    BY <1>3 DEF endpointToRRs
  <2>2. rr.name = ownershipName(n) /\ rr.type = RecordTypeTXT /\ rr.rdata = <<v>>
    BY <1>1, <1>4, <1>5, <1>6, <2>1
  <2>3. 1 \in DOMAIN rr.rdata /\ rr.rdata[1] = v
    BY <2>2
  <2> QED BY <1>4, <2>2, <2>3 DEF OwnershipRR, v
<1>8. \E rr : rr \in endpointToRRs(ep)
  BY <1>3, <1>6 DEF endpointToRRs
<1> QED BY <1>7, <1>8 DEF ep

\* A label gives at most one record.
LEMMA LabelOneRR ==
  ASSUME NEW ep \in LabelEndpoint, NEW a \in endpointToRRs(ep), NEW b \in endpointToRRs(ep)
  PROVE  a = b
<1>1. \A j, k \in DOMAIN ep.Targets : j = k
  BY DEF LabelEndpoint
<1> QED BY <1>1 DEF endpointToRRs

\* Names that carry no ownership prefix, spelt as the zone spells them.
PlainNames(names) ==
  names \subseteq Name /\ \A n \in names : ~HasOwnerPrefix(n) /\ n.dot = FALSE

\* A zone in which ownership is unambiguous: the marks of these owners are for these
\* names, and each name has at most one record that the provider sees, and can
\* delete; what it does not see there is not its business (X).
Tidy(owners, names, Z, X) ==
  /\ \A z \in Z : HasOwnerPrefix(z.name) => z.type # RecordTypeCNAME
  /\ \A id \in owners : \A z \in Z : OwnershipRR(id, z) => ManagedName(z.name) \in names
  /\ \A a, b \in Z : /\ a.name \in names /\ a.name = b.name
                     /\ a.type \in SupportedType /\ b.type \in SupportedType
                     => a = b
  /\ \A z \in Z : z.name \in names /\ z.type \in SupportedType => ReadsBack(z)
  /\ \A z \in Z : z.name \in names /\ z.type \notin SupportedType => z \in X

\* The records of a name have the type that the labels ask for.
Agrees(Z, L) ==
  \A z \in Z, ep \in L :
    z.name = Fqdn(ep.DNSName) /\ z.type \in SupportedType => z.type = ep.RecordType

\* Every record but those of X is an ownership record of these owners or has one.
Attended(owners, Z, X) ==
  \A rr \in Z \ X :
    \/ \E id \in owners : OwnershipRR(id, rr)
    \/ \E id \in owners : rr.name \in OwnedNames(id, Z)

OwnMark(id, names, rr) == OwnershipRR(id, rr) /\ ManagedName(rr.name) \in names
FromLabel(names, L, rr) == rr.name \in names /\ \E ep \in L : rr \in endpointToRRs(ep)

\* An UPDATE that keeps records and companions together when it reaches zone Z: a
\* new record comes with its companion to a name that has none, the companion of a
\* replaced one is there and stays, and a companion goes only with its record.
CreatesMarked(id, names, Z, m) ==
  \A a \in m.create : a.name \in names =>
    /\ \E mk \in m.create : OwnMark(id, names, mk) /\ ManagedName(mk.name) = a.name
    /\ \A z \in Z : z.name = a.name => z.type \notin SupportedType
    /\ \A b \in m.create : b.name = a.name => b = a
    /\ \A b \in m.replace : b.name # a.name

ReplacesMarked(id, Z, m) ==
  \A a \in m.replace :
    /\ a.name \in OwnedNames(id, Z)
    /\ \A r \in m.remove : OwnershipRR(id, r) => ManagedName(r.name) # a.name
    /\ \A z \in Z : z.name = a.name /\ z.type \in SupportedType =>
         \E r \in m.remove : SameRecord(r, z)
    /\ \A b \in m.replace : b.name = a.name => b = a

RemovesBoth(id, Z, m) ==
  \A r \in m.remove : OwnershipRR(id, r) =>
    \A z \in Z : z.name = ManagedName(r.name) /\ z.type \in SupportedType =>
      \E s \in m.remove : SameRecord(s, z)

Sound(id, names, L, Z, m) ==
  /\ \A rr \in m.create : FromLabel(names, L, rr) \/ OwnMark(id, names, rr)
  /\ \A rr \in m.replace : FromLabel(names, L, rr)
  /\ \A rr \in m.remove : rr.name \in names \/ OwnMark(id, names, rr)
  /\ CreatesMarked(id, names, Z, m)
  /\ ReplacesMarked(id, Z, m)
  /\ RemovesBoth(id, Z, m)

\* An ownership record gives way only to one that marks the same name.
LEMMA MarkStays ==
  ASSUME NEW before, NEW rrs, NEW after \in InsertAll(before, rrs), NEW id,
         NEW n \in OwnedNames(id, before)
  PROVE  n \in OwnedNames(id, after)
<1>1. PICK s \in Surviving(before, rrs) :
        after = {z \in before : ~\E a \in s : Replaces(a, z)} \cup s
  BY DEF InsertAll
<1>2. PICK mk \in before : OwnershipRR(id, mk) /\ n = ManagedName(mk.name)
  BY DEF OwnedNames
<1>3. CASE mk \in after
  BY <1>2, <1>3 DEF OwnedNames
<1>4. CASE mk \notin after
  <2>1. PICK a \in s : Replaces(a, mk)
    BY <1>1, <1>2, <1>4
  <2>2. mk.type # RecordTypeCNAME
    BY <1>2 DEF OwnershipRR, RecordTypeTXT, RecordTypeCNAME
  <2>3. a.name = mk.name /\ a.type = mk.type /\ a.rdata = mk.rdata
    BY <2>1, <2>2 DEF Replaces
  <2>4. OwnershipRR(id, a) /\ n = ManagedName(a.name) /\ a \in after
    BY <1>1, <1>2, <2>3 DEF OwnershipRR
  <2> QED BY <2>4 DEF OwnedNames
<1> QED BY <1>3, <1>4

\* An ownership record that is sent arrives, where no CNAME is in its way.
LEMMA MarkArrives ==
  ASSUME NEW before, NEW rrs, NEW after \in InsertAll(before, rrs), NEW id,
         NEW mk \in rrs, OwnershipRR(id, mk),
         \A z \in before \cup rrs : HasOwnerPrefix(z.name) => z.type # RecordTypeCNAME
  PROVE  ManagedName(mk.name) \in OwnedNames(id, after)
<1>1. PICK s \in Surviving(before, rrs) :
        after = {z \in before : ~\E a \in s : Replaces(a, z)} \cup s
  BY DEF InsertAll
<1>2. /\ s \subseteq rrs
      /\ mk \in s \/ (\E z \in before : Conflicts(mk, z)) \/ \E b \in s : Conflicts(mk, b) \/ Replaces(mk, b)
  BY DEF Surviving
<1>3. mk.type # RecordTypeCNAME /\ HasOwnerPrefix(mk.name)
  BY DEF OwnershipRR, RecordTypeTXT, RecordTypeCNAME
<1>4. \A z \in before \cup rrs : ~Conflicts(mk, z)
  BY <1>3 DEF Conflicts
<1>5. PICK b \in s : b = mk \/ Replaces(mk, b)
  BY <1>2, <1>4
<1>6. b.name = mk.name /\ b.type = mk.type /\ b.rdata = mk.rdata
  BY <1>3, <1>5 DEF Replaces
<1>7. OwnershipRR(id, b) /\ b \in after
  BY <1>1, <1>6 DEF OwnershipRR
<1> QED BY <1>6, <1>7 DEF OwnedNames

\* A sound UPDATE leaves a tidy zone tidy and every record attended.
LEMMA ApplySound ==
  ASSUME NEW owners \in SUBSET OwnerID, NEW id \in owners, NEW names, PlainNames(names),
         NEW L, L \subseteq LabelEndpoint,
         \A ep \in L : Fqdn(ep.DNSName) \in names,
         \A a, b \in L : Fqdn(a.DNSName) = Fqdn(b.DNSName) => a.RecordType = b.RecordType,
         NEW Z, NEW X, Tidy(owners, names, Z, X), Agrees(Z, L), Attended(owners, Z, X),
         NEW m, Sound(id, names, L, Z, m), NEW after \in Process(Z, m)
  PROVE  Tidy(owners, names, after, X) /\ Agrees(after, L) /\ Attended(owners, after, X)
<1> DEFINE Z1 == RemoveAll(Z, m.remove)
<1>1. PICK mid \in InsertAll(Z1, m.replace) : after \in InsertAll(mid, m.create)
  BY DEF Process
<1>2. /\ Z1 \subseteq Z /\ \A z \in Z1 : ~\E r \in m.remove : SameRecord(r, z)
      /\ \A z \in Z \ Z1 : \E r \in m.remove : SameRecord(r, z)
  BY DEF RemoveAll
<1> HIDE DEF Z1
<1>3. mid \subseteq Z1 \cup m.replace /\ after \subseteq mid \cup m.create
  BY <1>1, InsertAllFacts
<1>4. ASSUME NEW rr, FromLabel(names, L, rr)
      PROVE  /\ rr.name \in names /\ ~HasOwnerPrefix(rr.name)
             /\ rr.type \in SupportedType /\ ReadsBack(rr)
             /\ \A o : ~OwnershipRR(o, rr)
             /\ \A ep \in L : rr.name = Fqdn(ep.DNSName) => rr.type = ep.RecordType
  <2>1. PICK ep \in L : rr \in endpointToRRs(ep)
    BY <1>4 DEF FromLabel
  <2>2. ep \in EndpointRecord
    BY DEF LabelEndpoint, EndpointRecord, Target
  <2>3. rr.name = Fqdn(ep.DNSName) /\ rr.type = ep.RecordType
    BY <2>1, <2>2, EndpointToRRs
  <2>4. ReadsBack(rr) /\ rr.type \in SupportedType
    BY <2>1, <2>2, WrittenReadsBack
  <2> QED BY <1>4, <2>3, <2>4 DEF FromLabel, PlainNames, OwnershipRR
<1>5. ASSUME NEW rr, OwnMark(id, names, rr)
      PROVE  /\ HasOwnerPrefix(rr.name) /\ rr.name \notin names /\ rr.type # RecordTypeCNAME
             /\ \E o \in owners : OwnershipRR(o, rr)
             /\ \A ep \in L : rr.name # Fqdn(ep.DNSName)
  BY <1>5 DEF OwnMark, OwnershipRR, PlainNames, RecordTypeTXT, RecordTypeCNAME
<1>6. /\ \A rr \in m.create : FromLabel(names, L, rr) \/ OwnMark(id, names, rr)
      /\ \A rr \in m.replace : FromLabel(names, L, rr)
      /\ \A rr \in m.remove : rr.name \in names \/ OwnMark(id, names, rr)
  BY DEF Sound
<1>7. Tidy(owners, names, after, X)
  <2>1. \A z \in after : HasOwnerPrefix(z.name) => z.type # RecordTypeCNAME
    BY <1>2, <1>3, <1>4, <1>5, <1>6 DEF Tidy
  <2>2. \A o \in owners : \A z \in after : OwnershipRR(o, z) => ManagedName(z.name) \in names
    BY <1>2, <1>3, <1>4, <1>6 DEF Tidy, OwnMark
  <2>3. \A z \in after : z.name \in names /\ z.type \in SupportedType => ReadsBack(z)
    BY <1>2, <1>3, <1>4, <1>5, <1>6 DEF Tidy
  <2>4. \A z \in after : z.name \in names /\ z.type \notin SupportedType => z \in X
    BY <1>2, <1>3, <1>4, <1>5, <1>6 DEF Tidy
  <2>5. ASSUME NEW a \in after, NEW b \in after, a.name \in names, a.name = b.name,
               a.type \in SupportedType, b.type \in SupportedType
        PROVE  a = b
    <3>1. CASE a \in m.create \/ b \in m.create
      BY <1>2, <1>3, <2>5, <3>1 DEF Sound, CreatesMarked
    <3>2. CASE (a \in m.replace \/ b \in m.replace) /\ a \notin m.create /\ b \notin m.create
      BY <1>2, <1>3, <2>5, <3>2 DEF Sound, ReplacesMarked
    <3>3. CASE a \in Z /\ b \in Z
      BY <2>5, <3>3 DEF Tidy
    <3> QED BY <1>2, <1>3, <3>1, <3>2, <3>3
  <2> QED BY <2>1, <2>2, <2>3, <2>4, <2>5 DEF Tidy
<1>8. Agrees(after, L)
  BY <1>2, <1>3, <1>4, <1>5, <1>6 DEF Agrees
<1>9. ASSUME NEW a \in after, a \notin X
      PROVE  \/ \E o \in owners : OwnershipRR(o, a)
             \/ \E o \in owners : a.name \in OwnedNames(o, after)
  <2>1. CASE a \in m.create
    <3>1. CASE OwnMark(id, names, a)
      BY <1>5, <3>1
    <3>2. CASE FromLabel(names, L, a)
      <4>1. PICK mk \in m.create : OwnMark(id, names, mk) /\ ManagedName(mk.name) = a.name
        BY <2>1, <3>2 DEF Sound, CreatesMarked, FromLabel
      <4>2. \A z \in mid \cup m.create : HasOwnerPrefix(z.name) => z.type # RecordTypeCNAME
        BY <1>2, <1>3, <1>4, <1>5, <1>6 DEF Tidy
      <4>3. a.name \in OwnedNames(id, after)
        BY <1>1, <4>1, <4>2, MarkArrives DEF OwnMark
      <4> QED BY <4>3
    <3> QED BY <1>6, <2>1, <3>1, <3>2
  <2>2. ASSUME NEW o \in owners, a.name \in OwnedNames(o, Z1) PROVE a.name \in OwnedNames(o, after)
    BY <1>1, <2>2, MarkStays
  <2>3. CASE a \in m.replace
    <3>1. a.name \in OwnedNames(id, Z)
      BY <2>3 DEF Sound, ReplacesMarked
    <3>2. PICK mk \in Z : OwnershipRR(id, mk) /\ ManagedName(mk.name) = a.name
      BY <3>1 DEF OwnedNames
    <3>3. ASSUME NEW r \in m.remove, SameRecord(r, mk) PROVE FALSE
      <4>1. OwnershipRR(id, r) /\ ManagedName(r.name) = a.name
        BY <3>2, <3>3 DEF SameRecord, OwnershipRR
      <4> QED BY <2>3, <4>1 DEF Sound, ReplacesMarked
    <3>4. mk \in Z1
      BY <1>2, <3>2, <3>3
    <3>5. a.name \in OwnedNames(id, Z1)
      BY <3>2, <3>4 DEF OwnedNames
    <3> QED BY <2>2, <3>5
  <2>4. CASE a \in Z1
    <3>1. CASE \E o \in owners : OwnershipRR(o, a)
      BY <3>1
    <3>2. ASSUME NEW o \in owners, a.name \in OwnedNames(o, Z)
          PROVE  \E x \in owners : a.name \in OwnedNames(x, after)
      <4>1. PICK mk \in Z : OwnershipRR(o, mk) /\ ManagedName(mk.name) = a.name
        BY <3>2 DEF OwnedNames
      <4>2. a.name \in names /\ a.type \in SupportedType
        BY <1>2, <1>9, <2>4, <4>1 DEF Tidy
      <4>3. ASSUME NEW r \in m.remove, SameRecord(r, mk) PROVE FALSE
        <5>1. HasOwnerPrefix(mk.name) /\ r.name = mk.name
          BY <4>1, <4>3 DEF OwnershipRR, SameRecord
        <5>2. OwnershipRR(id, r) /\ ManagedName(r.name) = a.name
          BY <1>6, <4>1, <5>1 DEF PlainNames, OwnMark
        <5>3. \E t \in m.remove : SameRecord(t, a)
          BY <1>2, <2>4, <4>2, <5>2 DEF Sound, RemovesBoth
        <5> QED BY <1>2, <2>4, <5>3
      <4>4. mk \in Z1
        BY <1>2, <4>1, <4>3
      <4>5. a.name \in OwnedNames(o, Z1)
        BY <4>1, <4>4 DEF OwnedNames
      <4> QED BY <2>2, <4>5
    <3> QED BY <1>2, <1>9, <2>4, <3>1, <3>2 DEF Attended
  <2> QED BY <1>3, <2>1, <2>3, <2>4
<1>10. Attended(owners, after, X)
  BY <1>9 DEF Attended
<1> QED BY <1>7, <1>8, <1>10

\* What Calculate makes of a tidy zone, and the UPDATE it becomes, given the indexes d
\* of desired and c of current endpoints.
Fresh(d, c) == {w \in d : epKey(w) \notin Keys(c)}
Stale(d, c, owned) == {h \in c : epKey(h) \notin Keys(d) /\ h.DNSName \in owned}

\* The desired endpoints, one per key; they are at plain names.
ShapeDesired(names, L, eps, d) ==
  /\ d \subseteq eps
  /\ \A ep \in eps : epKey(ep) \in Keys(d)
  /\ \A a, b \in d : epKey(a) = epKey(b) => a = b
  /\ \A ep \in d :
       /\ ep \in LabelEndpoint /\ ep \in L /\ ep.DNSName \in names
       /\ \A rr \in endpointToRRs(ep) :
            /\ rr.name = ep.DNSName /\ rr.type = ep.RecordType
            /\ FromLabel(names, L, rr) /\ ~HasOwnerPrefix(rr.name)

\* The current endpoints: each stands for a record, at an owned name for the only one.
ShapeCurrent(owned, Z, c) ==
  /\ \A h \in c : \E z \in Z : /\ h = rrToEndpoint(z) /\ z.type \in SupportedType
                               /\ h.DNSName = z.name /\ h.RecordType = z.type
  /\ \A z \in Z : z.type \in SupportedType /\ ~HasOwnerPrefix(z.name) => <<z.name, z.type>> \in Keys(c)
  /\ \A h \in c : h.DNSName \in owned =>
       /\ \A z \in Z : z.name = h.DNSName /\ z.type \in SupportedType =>
            h = rrToEndpoint(z) /\ \E r \in endpointToRRs(h) : SameRecord(r, z)
       /\ \A r \in endpointToRRs(h) : r.name = h.DNSName /\ r.type \in SupportedType
       /\ \A g \in c : h.DNSName = g.DNSName => h = g

\* What is sent: records and companions to create at names without records, what is
\* replaced, and what goes.
ShapeMessage(id, owned, Z, changes, d, c) ==
  LET m == UpdateMessage(changes)
  IN  /\ \A rr : rr \in m.create <=>
           \E w \in Fresh(d, c) : \/ rr \in endpointToRRs(w)
                                  \/ rr \in endpointToRRs(ownershipTXTFor(id, w.DNSName))
      /\ \A rr : rr \in m.replace <=>
           \E p \in changes.Update : Convertible(p.old) /\ rr \in endpointToRRs(p.new)
      /\ \A rr : rr \in m.remove <=>
           \/ \E h \in Stale(d, c, owned) : \/ rr \in endpointToRRs(h)
                                            \/ rr \in endpointToRRs(ownershipTXTFor(id, h.DNSName))
           \/ \E p \in changes.Update : rr \in endpointToRRs(p.old)
      /\ changes.Update = UpdateChanges(d, c, owned)
      /\ \A p \in changes.Update : /\ p.old \in c /\ p.new \in d /\ epKey(p.old) = epKey(p.new)
                                   /\ p.new.DNSName = p.old.DNSName /\ p.old.DNSName \in owned
      /\ IsEmpty(changes) <=> Fresh(d, c) = {} /\ changes.Update = {} /\ Stale(d, c, owned) = {}
      /\ \A w \in Fresh(d, c) : \A z \in Z : z.name = w.DNSName => z.type \notin SupportedType

\* The companion of a plain name is one record, and marks it.
ShapeCompanions(id, names) ==
  \A n \in names :
    /\ n \in Name /\ n.dot = FALSE /\ Fqdn(n) = n /\ ~HasOwnerPrefix(n)
    /\ \E rr : rr \in endpointToRRs(ownershipTXTFor(id, n))
    /\ \A rr \in endpointToRRs(ownershipTXTFor(id, n)) :
         OwnMark(id, names, rr) /\ ManagedName(rr.name) = n /\ HasOwnerPrefix(rr.name)

Shape(id, names, L, eps, Z, changes, d, c) ==
  /\ OwnedNames(id, Z) \subseteq names
  /\ ShapeDesired(names, L, eps, d)
  /\ ShapeCurrent(OwnedNames(id, Z), Z, c)
  /\ ShapeMessage(id, OwnedNames(id, Z), Z, changes, d, c)
  /\ ShapeCompanions(id, names)

\* Calculate returns such a plan.
LEMMA PlanShape ==
  ASSUME NEW owners \in SUBSET OwnerID, NEW id \in owners, NEW names, PlainNames(names),
         NEW L, L \subseteq LabelEndpoint,
         \A ep \in L : ep.DNSName \in names,
         \A a, b \in L : a.DNSName = b.DNSName => a.RecordType = b.RecordType,
         NEW Z, Z \in SUBSET ResourceRecord, CompleteNames(Z),
         NEW X, Tidy(owners, names, Z, X), Agrees(Z, L),
         NEW eps, eps \subseteq L, NEW changes \in Calculate(id, eps, Records(Z))
  PROVE  \E d, c : Shape(id, names, L, eps, Z, changes, d, c)
<1> DEFINE current == Records(Z)
           owned == buildOwnedSet(id, current)
           plain == filterOwnershipTXTs(current)
<1>1. PICK d \in indexEndpoints(eps), c \in indexEndpoints(plain) :
        /\ changes.Create = CreateChanges(id, d, c)
        /\ changes.Update = UpdateChanges(d, c, owned)
        /\ changes.Delete = DeleteChanges(id, d, c, owned)
  BY DEF Calculate
<1>2. /\ d \subseteq eps /\ d \subseteq L /\ c \subseteq plain
      /\ \A ep \in eps : epKey(ep) \in Keys(d)
      /\ \A ep \in plain : epKey(ep) \in Keys(c)
      /\ \A a, b \in d : epKey(a) = epKey(b) => a = b
  BY DEF indexEndpoints
<1>3. owned = OwnedNames(id, Z)
  BY RecordsFacts
<1>4. owned \subseteq names
  BY <1>3 DEF OwnedNames, Tidy
<1>5. ASSUME NEW n \in names
      PROVE  n \in Name /\ n.dot = FALSE /\ Fqdn(n) = n /\ ~HasOwnerPrefix(n)
  BY FqdnFacts DEF PlainNames
<1>6. ASSUME NEW ep \in d
      PROVE  ep \in LabelEndpoint /\ ep \in L /\ ep.DNSName \in names /\ Fqdn(ep.DNSName) = ep.DNSName
  BY <1>2, <1>5
<1>7. ASSUME NEW ep \in c
      PROVE  \E z \in Z : /\ ep = rrToEndpoint(z) /\ z.type \in SupportedType
                          /\ ep.DNSName = z.name /\ ep.RecordType = z.type
  <2>1. ep \in Records(Z)
    BY <1>2 DEF filterOwnershipTXTs
  <2>2. PICK z \in Z : ep = rrToEndpoint(z) /\ z.type \in SupportedType
    BY <2>1 DEF Records
  <2> QED BY <2>2, RrToEndpoint
<1> HIDE DEF current, owned, plain
\* At an owned name the zone has the one record that the endpoint stands for.
<1>8. ASSUME NEW ep \in c, ep.DNSName \in owned
      PROVE  /\ \A z \in Z : z.name = ep.DNSName /\ z.type \in SupportedType =>
                   ep = rrToEndpoint(z) /\ \E r \in endpointToRRs(ep) : SameRecord(r, z)
             /\ \A r \in endpointToRRs(ep) : r.name = ep.DNSName /\ r.type \in SupportedType
  <2>1. PICK z \in Z : /\ ep = rrToEndpoint(z) /\ z.type \in SupportedType
                       /\ ep.DNSName = z.name /\ ep.RecordType = z.type
    BY <1>7
  <2>2. ep.DNSName \in names
    BY <1>4, <1>8
  <2>3. \A x \in Z : x.name = ep.DNSName /\ x.type \in SupportedType => x = z
    BY <2>1, <2>2 DEF Tidy
  <2>4. ReadsBack(z)
    BY <2>1, <2>2 DEF Tidy
  <2>5. ep \in EndpointRecord
    BY <2>1, RrToEndpoint
  <2>6. \A r \in endpointToRRs(ep) : r.name = ep.DNSName /\ r.type \in SupportedType
    BY <1>5, <2>2, <2>5, EndpointToRRs, WrittenReadsBack
  <2> QED BY <2>1, <2>3, <2>4, <2>6 DEF ReadsBack
<1>9. ASSUME NEW n \in names
      PROVE  /\ \E rr : rr \in endpointToRRs(ownershipTXTFor(id, n))
             /\ \A rr \in endpointToRRs(ownershipTXTFor(id, n)) :
                  OwnMark(id, names, rr) /\ ManagedName(rr.name) = n /\ HasOwnerPrefix(rr.name)
  <2>1. n \in Name /\ n.dot = FALSE
    BY <1>5
  <2>2. \E rr : rr \in endpointToRRs(ownershipTXTFor(id, n))
    BY <2>1, CompanionRR
  <2>3. \A rr \in endpointToRRs(ownershipTXTFor(id, n)) : OwnershipRR(id, rr) /\ ManagedName(rr.name) = n
    BY <2>1, CompanionRR
  <2>4. \A rr : OwnershipRR(id, rr) => HasOwnerPrefix(rr.name)
    BY DEF OwnershipRR
  <2> QED BY <2>2, <2>3, <2>4 DEF OwnMark
<1>10. ASSUME NEW ep \in d, NEW rr \in endpointToRRs(ep)
       PROVE  /\ rr.name = ep.DNSName /\ rr.type = ep.RecordType
              /\ FromLabel(names, L, rr) /\ ~HasOwnerPrefix(rr.name)
  <2>1. ep \in EndpointRecord
    BY <1>6 DEF LabelEndpoint, EndpointRecord, Target
  <2>2. rr.name = ep.DNSName /\ rr.type = ep.RecordType
    BY <1>6, <2>1, EndpointToRRs
  <2> QED BY <1>5, <1>6, <2>2 DEF FromLabel
<1> DEFINE m == UpdateMessage(changes)
           fresh == Fresh(d, c)
           stale == Stale(d, c, owned)
<1>11. ASSUME NEW rr
       PROVE  /\ rr \in m.create <=> \E w \in fresh : \/ rr \in endpointToRRs(w)
                                                     \/ rr \in endpointToRRs(ownershipTXTFor(id, w.DNSName))
              /\ rr \in m.replace <=> \E p \in changes.Update : Convertible(p.old) /\ rr \in endpointToRRs(p.new)
              /\ rr \in m.remove <=>
                   \/ \E h \in stale : \/ rr \in endpointToRRs(h)
                                       \/ rr \in endpointToRRs(ownershipTXTFor(id, h.DNSName))
                   \/ \E p \in changes.Update : rr \in endpointToRRs(p.old)
  BY <1>1 DEF UpdateMessage, RRsOf, CreateChanges, DeleteChanges, Fresh, Stale
<1>12. ASSUME NEW p \in changes.Update
       PROVE  /\ p.old \in c /\ p.new \in d /\ epKey(p.old) = epKey(p.new)
              /\ p.new.DNSName = p.old.DNSName /\ p.old.DNSName \in owned
  BY <1>1 DEF UpdateChanges, epKey
<1>13. IsEmpty(changes) <=> fresh = {} /\ changes.Update = {} /\ stale = {}
  BY <1>1 DEF IsEmpty, CreateChanges, DeleteChanges, Fresh, Stale
\* A name that the plan creates a record for has none that the provider sees.
<1>14. ASSUME NEW w \in fresh, NEW z \in Z, z.name = w.DNSName PROVE z.type \notin SupportedType
  <2> SUFFICES ASSUME z.type \in SupportedType PROVE FALSE
    OBVIOUS
  <2>1. w \in L /\ Fqdn(w.DNSName) = w.DNSName /\ ~HasOwnerPrefix(z.name)
    BY <1>5, <1>6, <1>14 DEF Fresh
  <2>2. z.type = w.RecordType
    BY <1>14, <2>1 DEF Agrees
  <2> DEFINE e == rrToEndpoint(z)
  <2>3. e \in Records(Z) /\ e.DNSName = z.name /\ e.RecordType = z.type
    BY RrToEndpoint DEF Records
  <2> HIDE DEF e
  <2>4. e \in plain
    BY <2>1, <2>3 DEF plain, current, filterOwnershipTXTs
  <2>5. epKey(e) = epKey(w)
    BY <1>14, <2>2, <2>3 DEF epKey
  <2> QED BY <1>2, <2>4, <2>5 DEF Fresh
\* The record that an endpoint of an owned name stands for is in no other's place.
<1>15. ASSUME NEW h \in c, NEW g \in c, h.DNSName = g.DNSName, h.DNSName \in owned PROVE h = g
  <2>1. PICK z \in Z : g = rrToEndpoint(z) /\ z.type \in SupportedType /\ g.DNSName = z.name
    BY <1>7
  <2> QED BY <1>8, <1>15, <2>1
<1>16. ASSUME NEW z \in Z, z.type \in SupportedType, ~HasOwnerPrefix(z.name)
       PROVE  <<z.name, z.type>> \in Keys(c)
  <2> DEFINE e == rrToEndpoint(z)
  <2>1. e \in Records(Z) /\ e.DNSName = z.name /\ e.RecordType = z.type
    BY <1>16, RrToEndpoint DEF Records
  <2> HIDE DEF e
  <2>2. e \in plain
    BY <1>16, <2>1 DEF plain, current, filterOwnershipTXTs
  <2>3. epKey(e) = <<z.name, z.type>>
    BY <2>1 DEF epKey
  <2> QED BY <1>2, <2>2, <2>3
<1> HIDE DEF m, fresh, stale
<1>17. ShapeDesired(names, L, eps, d)
  BY <1>2, <1>6, <1>10 DEF ShapeDesired
<1>18. ShapeCurrent(owned, Z, c)
  BY <1>7, <1>8, <1>15, <1>16 DEF ShapeCurrent
<1>19. ShapeMessage(id, owned, Z, changes, d, c)
  BY <1>1, <1>11, <1>12, <1>13, <1>14 DEF ShapeMessage, m, fresh, stale
<1>20. ShapeCompanions(id, names)
  BY <1>5, <1>9 DEF ShapeCompanions
<1> QED BY <1>3, <1>4, <1>17, <1>18, <1>19, <1>20 DEF Shape

\* It is a sound UPDATE.
LEMMA PlanSound ==
  ASSUME NEW owners \in SUBSET OwnerID, NEW id \in owners, NEW names, PlainNames(names),
         NEW L, L \subseteq LabelEndpoint,
         \A ep \in L : ep.DNSName \in names,
         \A a, b \in L : a.DNSName = b.DNSName => a.RecordType = b.RecordType,
         NEW Z, Z \in SUBSET ResourceRecord, CompleteNames(Z),
         NEW X, Tidy(owners, names, Z, X), Agrees(Z, L),
         NEW eps, eps \subseteq L, NEW changes \in Calculate(id, eps, Records(Z))
  PROVE  Sound(id, names, L, Z, UpdateMessage(changes))
<1> DEFINE m == UpdateMessage(changes)
           owned == OwnedNames(id, Z)
<1>1. PICK d, c : Shape(id, names, L, eps, Z, changes, d, c)
  BY PlanShape
<1> DEFINE fresh == Fresh(d, c)
           stale == Stale(d, c, owned)
<1>2. \A a, b \in d : epKey(a) = epKey(b) => a = b
  BY <1>1 DEF Shape, ShapeDesired
<1>3. fresh \subseteq d /\ stale \subseteq c
  BY DEF Fresh, Stale
<1>4. owned \subseteq names
  BY <1>1 DEF Shape
<1>5. \A n \in names : Fqdn(n) = n /\ ~HasOwnerPrefix(n)
  BY <1>1 DEF Shape, ShapeCompanions
<1>6. \A ep \in d : ep \in LabelEndpoint /\ ep \in L /\ ep.DNSName \in names
  BY <1>1 DEF Shape, ShapeDesired
<1>7. \A h \in c : \E z \in Z : z.type \in SupportedType /\ h.DNSName = z.name
  BY <1>1 DEF Shape, ShapeCurrent
<1>8. \A h \in c : h.DNSName \in owned =>
        /\ \A z \in Z : z.name = h.DNSName /\ z.type \in SupportedType =>
             \E r \in endpointToRRs(h) : SameRecord(r, z)
        /\ \A r \in endpointToRRs(h) : r.name = h.DNSName
        /\ \A g \in c : h.DNSName = g.DNSName => h = g
  BY <1>1 DEF Shape, ShapeCurrent
<1>9. \A n \in names :
        /\ \E rr : rr \in endpointToRRs(ownershipTXTFor(id, n))
        /\ \A rr \in endpointToRRs(ownershipTXTFor(id, n)) :
             OwnMark(id, names, rr) /\ ManagedName(rr.name) = n /\ HasOwnerPrefix(rr.name)
  BY <1>1 DEF Shape, ShapeCompanions
<1>10. \A ep \in d : \A rr \in endpointToRRs(ep) : rr.name = ep.DNSName /\ FromLabel(names, L, rr)
  BY <1>1 DEF Shape, ShapeDesired
<1>11. \A rr : /\ rr \in m.create <=>
                    \E w \in fresh : \/ rr \in endpointToRRs(w)
                                     \/ rr \in endpointToRRs(ownershipTXTFor(id, w.DNSName))
               /\ rr \in m.replace => \E p \in changes.Update : rr \in endpointToRRs(p.new)
               /\ rr \in m.remove <=>
                    \/ \E h \in stale : \/ rr \in endpointToRRs(h)
                                        \/ rr \in endpointToRRs(ownershipTXTFor(id, h.DNSName))
                    \/ \E p \in changes.Update : rr \in endpointToRRs(p.old)
  BY <1>1 DEF Shape, ShapeMessage
<1>12. \A p \in changes.Update : /\ p.old \in c /\ p.new \in d /\ epKey(p.old) = epKey(p.new)
                                 /\ p.new.DNSName = p.old.DNSName /\ p.old.DNSName \in owned
  BY <1>1 DEF Shape, ShapeMessage
<1>13. \A w \in fresh : \A z \in Z : z.name = w.DNSName => z.type \notin SupportedType
  BY <1>1 DEF Shape, ShapeMessage
<1>14. \A h \in stale : h.DNSName \in owned /\ epKey(h) \notin Keys(d)
  BY DEF Stale
<1> HIDE DEF m, owned, fresh, stale
<1>15. \A rr \in m.create : FromLabel(names, L, rr) \/ OwnMark(id, names, rr)
  BY <1>3, <1>6, <1>9, <1>10, <1>11
<1>16. \A rr \in m.replace : FromLabel(names, L, rr)
  BY <1>10, <1>11, <1>12
<1>17. \A rr \in m.remove : rr.name \in names \/ OwnMark(id, names, rr)
  BY <1>3, <1>4, <1>8, <1>9, <1>11, <1>12, <1>14
<1>18. CreatesMarked(id, names, Z, m)
  <2> SUFFICES ASSUME NEW a \in m.create, a.name \in names
               PROVE  /\ \E mk \in m.create : OwnMark(id, names, mk) /\ ManagedName(mk.name) = a.name
                      /\ \A z \in Z : z.name = a.name => z.type \notin SupportedType
                      /\ \A b \in m.create : b.name = a.name => b = a
                      /\ \A b \in m.replace : b.name # a.name
    BY DEF CreatesMarked
  <2>1. ASSUME NEW b \in m.create, b.name = a.name
        PROVE  \E w \in fresh : b \in endpointToRRs(w) /\ b.name = w.DNSName
    <3>1. PICK w \in fresh : \/ b \in endpointToRRs(w)
                             \/ b \in endpointToRRs(ownershipTXTFor(id, w.DNSName))
      BY <1>11
    <3>2. b \notin endpointToRRs(ownershipTXTFor(id, w.DNSName))
      BY <1>3, <1>5, <1>6, <1>9, <2>1
    <3> QED BY <1>3, <1>10, <3>1, <3>2
  <2>2. PICK w \in fresh : a \in endpointToRRs(w) /\ a.name = w.DNSName
    BY <2>1
  <2>3. w.DNSName \in names /\ w \in L /\ w \in LabelEndpoint
    BY <1>3, <1>6
  <2>4. PICK mk : mk \in endpointToRRs(ownershipTXTFor(id, w.DNSName))
    BY <1>9, <2>3
  <2>5. mk \in m.create /\ OwnMark(id, names, mk) /\ ManagedName(mk.name) = a.name
    BY <1>9, <1>11, <2>2, <2>3, <2>4
  <2>6. \A z \in Z : z.name = a.name => z.type \notin SupportedType
    BY <1>13, <2>2
  <2>7. ASSUME NEW b \in m.create, b.name = a.name PROVE b = a
    <3>1. PICK v \in fresh : b \in endpointToRRs(v) /\ b.name = v.DNSName
      BY <2>1, <2>7
    <3>2. v.DNSName = w.DNSName /\ v \in L /\ v \in d /\ w \in d
      BY <1>3, <1>6, <2>2, <2>7, <3>1
    <3>3. epKey(v) = epKey(w)
      BY <2>3, <3>2 DEF epKey
    <3>4. v = w
      BY <1>2, <3>2, <3>3
    <3> QED BY <2>2, <2>3, <3>1, <3>4, LabelOneRR
  <2>8. ASSUME NEW b \in m.replace, b.name = a.name PROVE FALSE
    <3>1. PICK p \in changes.Update : b \in endpointToRRs(p.new)
      BY <1>11
    <3>2. p.old \in c /\ b.name = p.old.DNSName
      BY <1>10, <1>12, <3>1
    <3>3. PICK z \in Z : z.type \in SupportedType /\ p.old.DNSName = z.name
      BY <1>7, <3>2
    <3> QED BY <2>6, <2>8, <3>2, <3>3
  <2> QED BY <2>5, <2>6, <2>7, <2>8
<1>19. ReplacesMarked(id, Z, m)
  <2> SUFFICES ASSUME NEW a \in m.replace
               PROVE  /\ a.name \in OwnedNames(id, Z)
                      /\ \A r \in m.remove : OwnershipRR(id, r) => ManagedName(r.name) # a.name
                      /\ \A z \in Z : z.name = a.name /\ z.type \in SupportedType =>
                           \E r \in m.remove : SameRecord(r, z)
                      /\ \A b \in m.replace : b.name = a.name => b = a
    BY DEF ReplacesMarked
  <2>1. PICK p \in changes.Update : a \in endpointToRRs(p.new)
    BY <1>11
  <2>2. /\ a.name = p.old.DNSName /\ a.name = p.new.DNSName /\ p.old \in c /\ p.new \in d
        /\ a.name \in owned /\ epKey(p.old) \in Keys(d)
    BY <1>10, <1>12, <2>1 DEF Keys
  <2>3. ASSUME NEW r \in m.remove, OwnershipRR(id, r), ManagedName(r.name) = a.name PROVE FALSE
    <3>1. HasOwnerPrefix(r.name)
      BY <2>3 DEF OwnershipRR
    <3>2. \A h \in c : h.DNSName \in owned => r \notin endpointToRRs(h)
      BY <1>4, <1>5, <1>8, <3>1
    <3>3. PICK h \in stale : r \in endpointToRRs(ownershipTXTFor(id, h.DNSName))
      BY <1>3, <1>11, <1>12, <1>14, <3>2
    <3>4. h.DNSName = a.name
      BY <1>3, <1>4, <1>9, <1>14, <2>3, <3>3
    <3>5. h = p.old
      BY <1>3, <1>8, <1>14, <2>2, <3>4
    <3> QED BY <1>14, <2>2, <3>5
  <2>4. \A z \in Z : z.name = a.name /\ z.type \in SupportedType => \E r \in m.remove : SameRecord(r, z)
    BY <1>8, <1>11, <2>2
  <2>5. ASSUME NEW b \in m.replace, b.name = a.name PROVE b = a
    <3>1. PICK q \in changes.Update : b \in endpointToRRs(q.new)
      BY <1>11
    <3>2. b.name = q.new.DNSName /\ q.new \in d
      BY <1>10, <1>12, <3>1
    <3>3. q.new \in L /\ p.new \in L /\ p.new \in LabelEndpoint /\ q.new.DNSName = p.new.DNSName
      BY <1>6, <2>2, <2>5, <3>2
    <3>4. epKey(q.new) = epKey(p.new)
      BY <3>3 DEF epKey
    <3>5. q.new = p.new
      BY <1>2, <2>2, <3>2, <3>4
    <3> QED BY <2>1, <3>1, <3>3, <3>5, LabelOneRR
  <2> QED BY <2>2, <2>3, <2>4, <2>5 DEF owned
<1>20. RemovesBoth(id, Z, m)
  <2> SUFFICES ASSUME NEW r \in m.remove, OwnershipRR(id, r),
                      NEW z \in Z, z.name = ManagedName(r.name), z.type \in SupportedType
               PROVE  \E s \in m.remove : SameRecord(s, z)
    BY DEF RemovesBoth
  <2>1. HasOwnerPrefix(r.name)
    BY DEF OwnershipRR
  <2>2. \A h \in c : h.DNSName \in owned => r \notin endpointToRRs(h)
    BY <1>4, <1>5, <1>8, <2>1
  <2>3. PICK h \in stale : r \in endpointToRRs(ownershipTXTFor(id, h.DNSName))
    BY <1>3, <1>11, <1>12, <1>14, <2>2
  <2>4. h.DNSName = z.name
    BY <1>3, <1>4, <1>9, <1>14, <2>3
  <2>5. \E s \in endpointToRRs(h) : SameRecord(s, z)
    BY <1>3, <1>8, <1>14, <2>4
  <2> QED BY <1>11, <2>5
<1> QED BY <1>15, <1>16, <1>17, <1>18, <1>19, <1>20 DEF Sound, m

\* It stays sound while others take away records but no marks, or add what the
\* provider does not see.
LEMMA SoundStable ==
  ASSUME NEW id, NEW names, PlainNames(names), NEW L, NEW Z, NEW m, Sound(id, names, L, Z, m),
         NEW Y, \A z \in Y : z.name \in names /\ z.type \in SupportedType => z \in Z,
         OwnedNames(id, Z) \subseteq OwnedNames(id, Y)
  PROVE  Sound(id, names, L, Y, m)
<1>1. CreatesMarked(id, names, Y, m)
  BY DEF Sound, CreatesMarked
<1>2. ReplacesMarked(id, Y, m)
  BY DEF Sound, ReplacesMarked, FromLabel
<1>3. \A r \in m.remove : OwnershipRR(id, r) => ManagedName(r.name) \in names
  BY DEF Sound, OwnMark, OwnershipRR, PlainNames
<1>4. RemovesBoth(id, Y, m)
  BY <1>3 DEF Sound, RemovesBoth
<1> QED BY <1>1, <1>2, <1>4 DEF Sound

-----------------------------------------------------------------------------
(* What one UPDATE achieves. *)

\* Labels that are written as one record, which reads back as the label.
ReadAsWritten(L) ==
  \A ep \in L : \E rr \in endpointToRRs(ep) : rrToEndpoint(rr) = ep /\ rr.ttl # 0

\* No record at one of these names has the TTL that is read as another.
Timed(names, Z) ==
  \A z \in Z : z.name \in names /\ z.type \in SupportedType => z.ttl # 0

\* Somebody else's record (X, or another owner's) is where ep's would be.
Obstructed(owners, id, ep, Z, X) ==
  \E z \in Z :
    /\ z.name = Fqdn(ep.DNSName)
    /\ z.type = ep.RecordType \/ Conflicts([name |-> z.name, type |-> ep.RecordType], z)
    /\ z \in X \/ \E o \in owners \ {id} : z.name \in OwnedNames(o, Z)

\* Zone Z holds what eps ask for, and nothing else at the names of owner id.
Synced(owners, id, eps, Z, X) ==
  /\ \A ep \in eps :
       \/ \E e \in eps : epKey(e) = epKey(ep) /\ endpointToRRs(e) \subseteq Z
       \/ Obstructed(owners, id, ep, Z, X)
  /\ \A rr \in Z :
       rr.type \in SupportedType /\ rr.name \in OwnedNames(id, Z) =>
         \E ep \in eps : Fqdn(ep.DNSName) = rr.name /\ ep.RecordType = rr.type

\* An UPDATE that does all that eps ask for in zone Z: each of them has its record
\* written or left in place, unless its name is somebody else's; what nobody asks for
\* goes, and nothing else is written or removed.
Kept(Z, m, rr) == rr \in Z /\ ~\E r \in m.remove : SameRecord(r, rr)

Answers(id, eps, Z, m) ==
  \A ep \in eps :
    \/ \E e \in eps : /\ epKey(e) = epKey(ep)
                      /\ \E rr \in endpointToRRs(e) :
                           rr \in m.create \/ rr \in m.replace \/ Kept(Z, m, rr)
    \/ \E z \in Z : z.name = ep.DNSName /\ z.type = ep.RecordType /\ z.name \notin OwnedNames(id, Z)

Clears(id, eps, Z, m) ==
  \A z \in Z : z.type \in SupportedType /\ z.name \in OwnedNames(id, Z) =>
    \/ \E r \in m.remove : SameRecord(r, z)
    \/ \E ep \in eps : ep.DNSName = z.name /\ ep.RecordType = z.type

WritesAsked(names, eps, m) ==
  \A rr \in m.create \cup m.replace : rr.name \in names =>
    \E ep \in eps : ep.DNSName = rr.name /\ ep.RecordType = rr.type

RemovesOwn(id, names, Z, m) ==
  \A r \in m.remove :
    r.type \in SupportedType /\ (r.name \in OwnedNames(id, Z) \/ OwnMark(id, names, r))

MarksFree(id, Z, m) ==
  \A mk \in m.create : OwnershipRR(id, mk) =>
    \A z \in Z : z.name = ManagedName(mk.name) => z.type \notin SupportedType

Complete(id, names, eps, Z, m) ==
  /\ Answers(id, eps, Z, m)
  /\ Clears(id, eps, Z, m)
  /\ WritesAsked(names, eps, m)
  /\ RemovesOwn(id, names, Z, m)
  /\ MarksFree(id, Z, m)

\* An inserted record for whose name there is no other arrives, or what it conflicts
\* with remains.
LEMMA InsertArrives ==
  ASSUME NEW before, NEW rrs, NEW after \in InsertAll(before, rrs),
         NEW a \in rrs, \A b \in rrs : b.name = a.name => b = a
  PROVE  a \in after \/ \E z \in before : Conflicts(a, z) /\ z \in after
<1>1. PICK s \in Surviving(before, rrs) :
        after = {z \in before : ~\E b \in s : Replaces(b, z)} \cup s
  BY DEF InsertAll
<1>2. /\ s \subseteq rrs /\ \A b \in s : ~\E z \in before : Conflicts(b, z)
      /\ a \in s \/ (\E z \in before : Conflicts(a, z)) \/ \E b \in s : Conflicts(a, b) \/ Replaces(a, b)
  BY DEF Surviving
<1>3. CASE a \in s
  BY <1>1, <1>3
<1>4. CASE a \notin s
  <2>1. \A b \in s : b.name # a.name
    BY <1>2, <1>4
  <2>2. PICK z \in before : Conflicts(a, z)
    BY <1>2, <1>4, <2>1 DEF Conflicts, Replaces
  <2>3. z.name = a.name /\ \A b \in s : ~Replaces(b, z)
    BY <2>1, <2>2 DEF Conflicts, Replaces
  <2> QED BY <1>1, <2>2, <2>3
<1> QED BY <1>3, <1>4

\* A record stays where nothing of its name and type is inserted.
LEMMA InsertKeeps ==
  ASSUME NEW before, NEW rrs, NEW after \in InsertAll(before, rrs), NEW z \in before,
         \A b \in rrs : ~(b.name = z.name /\ b.type = z.type)
  PROVE  z \in after
BY InsertAllFacts DEF Replaces

\* A complete and sound UPDATE brings the zone in sync, in whatever order the server
\* performs it.
LEMMA CompleteSyncs ==
  ASSUME NEW owners \in SUBSET OwnerID, NEW id \in owners, NEW names, PlainNames(names),
         NEW L, L \subseteq LabelEndpoint,
         \A ep \in L : ep.DNSName \in names /\ Fqdn(ep.DNSName) = ep.DNSName,
         \A a, b \in L : a.DNSName = b.DNSName => a.RecordType = b.RecordType,
         NEW Z, NEW X, Tidy(owners, names, Z, X), Agrees(Z, L), Attended(owners, Z, X),
         NEW eps, eps \subseteq L, NEW m, Sound(id, names, L, Z, m), Complete(id, names, eps, Z, m),
         NEW after \in Process(Z, m)
  PROVE  Synced(owners, id, eps, after, X)
<1> DEFINE Z1 == RemoveAll(Z, m.remove)
<1>1. PICK mid \in InsertAll(Z1, m.replace) : after \in InsertAll(mid, m.create)
  BY DEF Process
<1>2. /\ Z1 \subseteq Z /\ \A z \in Z1 : ~\E r \in m.remove : SameRecord(r, z)
      /\ \A z \in Z \ Z1 : \E r \in m.remove : SameRecord(r, z)
  BY DEF RemoveAll
<1> HIDE DEF Z1
<1>3. mid \subseteq Z1 \cup m.replace /\ after \subseteq mid \cup m.create
  BY <1>1, InsertAllFacts
<1>4. Tidy(owners, names, after, X)
  BY ApplySound
<1>5. ASSUME NEW rr, FromLabel(names, L, rr)
      PROVE  rr.name \in names /\ ~HasOwnerPrefix(rr.name) /\ rr.type \in SupportedType
  <2>1. PICK ep \in L : rr \in endpointToRRs(ep)
    BY <1>5 DEF FromLabel
  <2>2. ep \in EndpointRecord
    BY DEF LabelEndpoint, EndpointRecord, Target
  <2> QED BY <1>5, <2>1, <2>2, WrittenReadsBack DEF FromLabel, PlainNames
<1>6. /\ \A rr \in m.create : FromLabel(names, L, rr) \/ (OwnMark(id, names, rr) /\ HasOwnerPrefix(rr.name))
      /\ \A rr \in m.replace : FromLabel(names, L, rr)
      /\ \A r \in m.remove : /\ r.type \in SupportedType
                             /\ \/ r.name \in OwnedNames(id, Z)
                                \/ OwnMark(id, names, r) /\ HasOwnerPrefix(r.name)
  BY DEF Sound, OwnMark, OwnershipRR, Complete, RemovesOwn
\* What is at a plain name stays, where nothing is removed or inserted in its place.
<1>7. ASSUME NEW z \in Z, z.name \in names, z.type \notin SupportedType PROVE z \in after
  <2>1. z \in Z1
    BY <1>2, <1>6, <1>7 DEF SameRecord
  <2>2. z \in mid
    BY <1>1, <1>5, <1>6, <1>7, <2>1, InsertKeeps
  <2>3. \A b \in m.create : ~(b.name = z.name /\ b.type = z.type)
    BY <1>5, <1>6, <1>7 DEF PlainNames
  <2> QED BY <1>1, <2>2, <2>3, InsertKeeps
<1>8. ASSUME NEW z \in Z1, z.name \in names, z.type \in SupportedType PROVE z \in after
  <2>1. \A b \in m.replace : b.name # z.name
    BY <1>2, <1>8 DEF Sound, ReplacesMarked
  <2>2. z \in mid
    BY <1>1, <2>1, InsertKeeps
  <2>3. \A b \in m.create : b.name # z.name
    BY <1>2, <1>8 DEF Sound, CreatesMarked
  <2> QED BY <1>1, <2>2, <2>3, InsertKeeps
\* What is written arrives, or an operator's record is in the way.
<1>9. ASSUME NEW a \in m.create \cup m.replace, a.name \in names
      PROVE  a \in after \/ \E z \in after : Conflicts(a, z) /\ z \in X
  <2>1. CASE a \in m.create
    <3>1. \A b \in m.create : b.name = a.name => b = a
      BY <1>9, <2>1 DEF Sound, CreatesMarked
    <3>2. SUFFICES ASSUME NEW z \in mid, Conflicts(a, z), z \in after PROVE z \in X
      BY <1>1, <2>1, <3>1, InsertArrives
    <3>3. z.name = a.name
      BY <3>2 DEF Conflicts
    <3>4. z \in Z
      BY <1>2, <1>3, <1>9, <2>1, <3>3 DEF Sound, CreatesMarked
    <3>5. z.type \notin SupportedType
      BY <1>9, <2>1, <3>3, <3>4 DEF Sound, CreatesMarked
    <3> QED BY <1>9, <3>3, <3>4, <3>5 DEF Tidy
  <2>2. CASE a \in m.replace
    <3>1. /\ \A b \in m.replace : b.name = a.name => b = a
          /\ \A b \in m.create : b.name # a.name
          /\ \A z \in Z1 : z.name = a.name => z.type \notin SupportedType
      BY <1>2, <1>9, <2>2 DEF Sound, CreatesMarked, ReplacesMarked
    <3>2. CASE a \in mid
      BY <1>1, <3>1, <3>2, InsertKeeps
    <3>3. CASE a \notin mid
      <4>1. PICK z \in Z1 : Conflicts(a, z)
        BY <1>1, <2>2, <3>1, <3>3, InsertArrives
      <4>2. z.name = a.name /\ z.type \notin SupportedType /\ z \in Z
        BY <1>2, <3>1, <4>1 DEF Conflicts
      <4>3. z \in X /\ z \in after
        BY <1>7, <1>9, <4>2 DEF Tidy
      <4> QED BY <4>1, <4>3
    <3> QED BY <3>2, <3>3
  <2> QED BY <1>9, <2>1, <2>2
<1>10. ASSUME NEW ep \in eps
       PROVE  \/ \E e \in eps : epKey(e) = epKey(ep) /\ endpointToRRs(e) \subseteq after
              \/ Obstructed(owners, id, ep, after, X)
  <2>1. ep \in L /\ ep.DNSName \in names /\ Fqdn(ep.DNSName) = ep.DNSName
    OBVIOUS
  <2>2. ASSUME NEW e \in eps, epKey(e) = epKey(ep), NEW rr \in endpointToRRs(e),
               rr \in m.create \/ rr \in m.replace \/ Kept(Z, m, rr)
        PROVE  \/ endpointToRRs(e) \subseteq after
               \/ Obstructed(owners, id, ep, after, X)
    <3>1. e \in LabelEndpoint /\ e \in EndpointRecord
      BY DEF LabelEndpoint, EndpointRecord, Target
    <3>2. rr.name = ep.DNSName /\ rr.type = ep.RecordType /\ rr.type \in SupportedType
      BY <2>1, <2>2, <3>1, EndpointToRRs, WrittenReadsBack DEF epKey
    <3>3. endpointToRRs(e) = {rr}
      BY <3>1, LabelOneRR
    <3>4. rr \in after \/ \E z \in after : Conflicts(rr, z) /\ z \in X
      <4>1. CASE Kept(Z, m, rr)
        BY <1>2, <1>8, <2>1, <3>2, <4>1 DEF Kept
      <4> QED BY <1>9, <2>1, <2>2, <3>2, <4>1
    <3>5. CASE rr \in after
      BY <3>3, <3>5
    <3>6. ASSUME NEW z \in after, Conflicts(rr, z), z \in X PROVE Obstructed(owners, id, ep, after, X)
      BY <2>1, <3>2, <3>6 DEF Obstructed, Conflicts
    <3> QED BY <3>4, <3>5, <3>6
  <2>3. ASSUME NEW z \in Z, z.name = ep.DNSName, z.type = ep.RecordType, z.name \notin OwnedNames(id, Z)
        PROVE  Obstructed(owners, id, ep, after, X)
    <3>1. z \in after
      <4>1. CASE z.type \in SupportedType
        <5>1. z \in Z1
          BY <1>2, <1>6, <2>1, <2>3 DEF SameRecord, PlainNames
        <5> QED BY <1>8, <2>1, <2>3, <4>1, <5>1
      <4> QED BY <1>7, <2>1, <2>3, <4>1
    <3>2. z \in X \/ \E o \in owners \ {id} : z.name \in OwnedNames(o, Z)
      <4>1. \A o : ~OwnershipRR(o, z)
        BY <2>1, <2>3 DEF PlainNames, OwnershipRR
      <4> QED BY <2>3, <4>1 DEF Attended
    <3>3. ASSUME NEW o \in owners \ {id}, z.name \in OwnedNames(o, Z)
          PROVE  z.name \in OwnedNames(o, after)
      <4>1. PICK mk \in Z : OwnershipRR(o, mk) /\ z.name = ManagedName(mk.name)
        BY <3>3 DEF OwnedNames
      <4>2. ~OwnershipRR(id, mk)
        BY <2>3, <4>1 DEF OwnedNames
      <4>3. ASSUME NEW r \in m.remove, SameRecord(r, mk) PROVE FALSE
        <5>1. HasOwnerPrefix(r.name)
          BY <4>1, <4>3 DEF SameRecord, OwnershipRR
        <5>2. OwnedNames(id, Z) \subseteq names
          BY DEF OwnedNames, Tidy
        <5>3. OwnershipRR(id, r)
          BY <1>6, <5>1, <5>2 DEF PlainNames, OwnMark
        <5> QED BY <4>2, <4>3, <5>3 DEF SameRecord, OwnershipRR
      <4>4. mk \in Z1
        BY <1>2, <4>3
      <4>5. z.name \in OwnedNames(o, Z1)
        BY <4>1, <4>4 DEF OwnedNames
      <4>6. z.name \in OwnedNames(o, mid)
        BY <1>1, <4>5, MarkStays
      <4> QED BY <1>1, <4>6, MarkStays
    <3> QED BY <2>1, <2>3, <3>1, <3>2, <3>3 DEF Obstructed
  <2> QED BY <2>2, <2>3 DEF Complete, Answers
<1>11. ASSUME NEW rr \in after, rr.type \in SupportedType, rr.name \in OwnedNames(id, after)
       PROVE  \E ep \in eps : Fqdn(ep.DNSName) = rr.name /\ ep.RecordType = rr.type
  <2>1. rr.name \in names
    BY <1>4, <1>11 DEF OwnedNames, Tidy
  <2>2. CASE rr \in m.create \cup m.replace
    <3>1. PICK ep \in eps : ep.DNSName = rr.name /\ ep.RecordType = rr.type
      BY <2>1, <2>2 DEF Complete, WritesAsked
    <3>2. Fqdn(ep.DNSName) = ep.DNSName
      OBVIOUS
    <3> QED BY <3>1, <3>2
  <2>3. CASE rr \in Z1 /\ rr \notin m.create
    <3>1. PICK mk \in after : OwnershipRR(id, mk) /\ rr.name = ManagedName(mk.name)
      BY <1>11 DEF OwnedNames
    <3>2. mk \notin m.replace
      BY <1>5, <1>6, <3>1 DEF OwnershipRR
    <3>3. mk \notin m.create
      BY <1>2, <1>11, <2>3, <3>1 DEF Complete, MarksFree
    <3>4. rr.name \in OwnedNames(id, Z)
      BY <1>2, <1>3, <3>1, <3>2, <3>3 DEF OwnedNames
    <3>5. PICK ep \in eps : ep.DNSName = rr.name /\ ep.RecordType = rr.type
      BY <1>2, <1>11, <2>3, <3>4 DEF Complete, Clears
    <3>6. Fqdn(ep.DNSName) = ep.DNSName
      OBVIOUS
    <3> QED BY <3>5, <3>6
  <2> QED BY <1>3, <2>2, <2>3
<1> QED BY <1>10, <1>11 DEF Synced

\* A record that reads as a label's endpoint does is the label's record.
LEMMA SameEndpoint ==
  ASSUME NEW z \in ResourceRecord, ReadsBack(z), z.ttl # 0,
         NEW ep \in LabelEndpoint, NEW rr \in endpointToRRs(ep), rrToEndpoint(rr) = ep, rr.ttl # 0,
         z.name = ep.DNSName, z.type = ep.RecordType, endpointsEqual(rrToEndpoint(z), ep)
  PROVE  z = rr
<1> DEFINE e == rrToEndpoint(z)
<1>1. ep \in EndpointRecord
  BY DEF LabelEndpoint, EndpointRecord, Target
<1>2. /\ rr \in ResourceRecord /\ \E k \in DOMAIN ep.Targets : rr.rdata = <<Rdata(ep.RecordType, ep.Targets[k])>>
  BY <1>1, EndpointToRRs
<1>3. PICK u : rr.rdata = <<u>>
  BY <1>2
<1>4. /\ ep.DNSName = rr.name /\ ep.Targets = rr.rdata /\ ep.RecordType = rr.type
  BY <1>2, RrToEndpoint
<1>5. ep.TTL = rr.ttl /\ e.TTL = z.ttl
  BY DEF rrToEndpoint, New
<1>6. /\ e.DNSName = z.name /\ e.Targets = z.rdata /\ e.RecordType = z.type /\ e \in EndpointRecord
  BY RrToEndpoint
<1>7. PICK t : z.rdata = <<t>>
  <2>1. PICK r \in endpointToRRs(e) : SameRecord(r, z)
    BY DEF ReadsBack
  <2>2. \E k \in DOMAIN e.Targets : r.rdata = <<Rdata(e.RecordType, e.Targets[k])>>
    BY <1>6, <2>1, EndpointToRRs
  <2> QED BY <2>1, <2>2 DEF SameRecord
<1> HIDE DEF e
<1>8. /\ z.ttl = rr.ttl
      /\ \A x \in {e.Targets[k] : k \in DOMAIN e.Targets} :
           Cardinality({k \in DOMAIN e.Targets : e.Targets[k] = x}) =
             Cardinality({k \in DOMAIN ep.Targets : ep.Targets[k] = x})
  BY <1>5 DEF endpointsEqual, e
<1>9. t = u
  <2> SUFFICES ASSUME t # u PROVE FALSE
    OBVIOUS
  <2>1. e.Targets = <<t>> /\ ep.Targets = <<u>>
    BY <1>3, <1>4, <1>6, <1>7
  <2>2. {k \in DOMAIN e.Targets : e.Targets[k] = t} = {1}
    BY <2>1
  <2>3. {k \in DOMAIN ep.Targets : ep.Targets[k] = t} = {}
    BY <2>1
  <2>4. t \in {e.Targets[k] : k \in DOMAIN e.Targets}
    BY <2>1
  <2>5. Cardinality({1}) = Cardinality({})
    BY <1>8, <2>2, <2>3, <2>4
  <2>6. Cardinality({1}) = 1 /\ Cardinality({}) = 0
    BY FS_Singleton, FS_EmptySet
  <2> QED BY <2>5, <2>6
<1>10. z.name = rr.name /\ z.type = rr.type /\ z.rdata = rr.rdata /\ z.ttl = rr.ttl
  BY <1>3, <1>4, <1>7, <1>8, <1>9
<1> QED BY <1>2, <1>10 DEF ResourceRecord

\* The UPDATE that Calculate's plan becomes takes away only what is its owner's.
LEMMA PlanRemovesOwn ==
  ASSUME NEW owners \in SUBSET OwnerID, NEW id \in owners, NEW names, PlainNames(names),
         NEW L, L \subseteq LabelEndpoint,
         \A ep \in L : ep.DNSName \in names,
         \A a, b \in L : a.DNSName = b.DNSName => a.RecordType = b.RecordType,
         NEW Z, Z \in SUBSET ResourceRecord, CompleteNames(Z),
         NEW X, Tidy(owners, names, Z, X), Agrees(Z, L),
         NEW eps, eps \subseteq L, NEW changes \in Calculate(id, eps, Records(Z))
  PROVE  RemovesOwn(id, names, Z, UpdateMessage(changes))
<1> DEFINE m == UpdateMessage(changes)
           owned == OwnedNames(id, Z)
<1>1. PICK d, c : Shape(id, names, L, eps, Z, changes, d, c)
  BY PlanShape
<1> DEFINE stale == Stale(d, c, owned)
<1>2. \A h \in c : h.DNSName \in owned =>
        \A r \in endpointToRRs(h) : r.name = h.DNSName /\ r.type \in SupportedType
  BY <1>1 DEF Shape, ShapeCurrent
<1>3. /\ owned \subseteq names
      /\ \A n \in names : \A rr \in endpointToRRs(ownershipTXTFor(id, n)) : OwnMark(id, names, rr)
  BY <1>1 DEF Shape, ShapeCompanions
<1>4. \A rr \in m.remove :
        \/ \E h \in stale : \/ rr \in endpointToRRs(h)
                            \/ rr \in endpointToRRs(ownershipTXTFor(id, h.DNSName))
        \/ \E p \in changes.Update : rr \in endpointToRRs(p.old)
  BY <1>1 DEF Shape, ShapeMessage
<1>5. \A p \in changes.Update : p.old \in c /\ p.old.DNSName \in owned
  BY <1>1 DEF Shape, ShapeMessage
<1>6. \A h \in stale : h \in c /\ h.DNSName \in owned
  BY DEF Stale
<1> HIDE DEF m, owned, stale
<1> SUFFICES ASSUME NEW r \in m.remove
             PROVE  r.type \in SupportedType /\ (r.name \in owned \/ OwnMark(id, names, r))
  BY DEF RemovesOwn, m, owned
<1>7. \A rr : OwnMark(id, names, rr) => rr.type \in SupportedType
  BY DEF OwnMark, OwnershipRR, SupportedType
<1>8. ASSUME NEW h \in c, h.DNSName \in owned, r \in endpointToRRs(h)
      PROVE  r.type \in SupportedType /\ r.name \in owned
  BY <1>2, <1>8
<1>9. ASSUME NEW h \in c, h.DNSName \in owned, r \in endpointToRRs(ownershipTXTFor(id, h.DNSName))
      PROVE  OwnMark(id, names, r)
  BY <1>3, <1>9
<1> QED BY <1>4, <1>5, <1>6, <1>7, <1>8, <1>9

\* Carried out by the server while the zone still is as it was, or holds more of the
\* owner's marks, such an UPDATE loses no record of anybody else.
LEMMA LossesAreOwn ==
  ASSUME NEW id, NEW names, PlainNames(names), NEW L, L \subseteq LabelEndpoint,
         NEW Z, NEW m, Sound(id, names, L, Z, m), RemovesOwn(id, names, Z, m),
         NEW after \in Process(Z, m), NEW z \in Z \ after
  PROVE  z.name \in OwnedNames(id, Z) \/ OwnershipRR(id, z)
<1>1. PICK rr \in m.remove \cup m.replace \cup m.create : SameRecord(rr, z) \/ Replaces(rr, z)
  BY ProcessFacts
<1>2. rr.name = z.name /\ rr.type = z.type /\ (rr.rdata = z.rdata \/ rr.type = RecordTypeCNAME)
  BY <1>1 DEF SameRecord, Replaces
<1>3. CASE OwnMark(id, names, rr)
  BY <1>2, <1>3 DEF OwnMark, OwnershipRR, RecordTypeTXT, RecordTypeCNAME
<1>4. CASE rr.name \in OwnedNames(id, Z)
  BY <1>2, <1>4
<1>5. ASSUME rr \in m.create, FromLabel(names, L, rr) PROVE FALSE
  <2>1. PICK ep \in L : rr \in endpointToRRs(ep)
    BY <1>5 DEF FromLabel
  <2>2. ep \in EndpointRecord
    BY DEF LabelEndpoint, EndpointRecord, Target
  <2>3. rr.type \in SupportedType
    BY <2>1, <2>2, WrittenReadsBack
  <2> QED BY <1>2, <1>5, <2>3 DEF FromLabel, Sound, CreatesMarked
<1> QED BY <1>3, <1>4, <1>5 DEF Sound, ReplacesMarked, RemovesOwn

\* The UPDATE that Calculate's plan becomes is complete.
LEMMA PlanComplete ==
  ASSUME NEW owners \in SUBSET OwnerID, NEW id \in owners, NEW names, PlainNames(names),
         NEW L, L \subseteq LabelEndpoint,
         \A ep \in L : ep.DNSName \in names,
         \A a, b \in L : a.DNSName = b.DNSName => a.RecordType = b.RecordType,
         NEW Z, Z \in SUBSET ResourceRecord, CompleteNames(Z),
         NEW X, Tidy(owners, names, Z, X), Agrees(Z, L),
         NEW eps, eps \subseteq L, NEW changes \in Calculate(id, eps, Records(Z)),
         ReadAsWritten(L), Timed(names, Z)
  PROVE  Complete(id, names, eps, Z, UpdateMessage(changes))
<1> DEFINE m == UpdateMessage(changes)
           owned == OwnedNames(id, Z)
<1>1. PICK d, c : Shape(id, names, L, eps, Z, changes, d, c)
  BY PlanShape
<1> DEFINE fresh == Fresh(d, c)
           stale == Stale(d, c, owned)
<1>2. /\ d \subseteq eps
      /\ \A ep \in eps : epKey(ep) \in Keys(d)
      /\ \A a, b \in d : epKey(a) = epKey(b) => a = b
      /\ \A ep \in d : /\ ep \in LabelEndpoint /\ ep \in L /\ ep.DNSName \in names
                       /\ \A rr \in endpointToRRs(ep) :
                            rr.name = ep.DNSName /\ rr.type = ep.RecordType /\ ~HasOwnerPrefix(rr.name)
  BY <1>1 DEF Shape, ShapeDesired
<1>3. /\ \A h \in c : \E z \in Z : /\ h = rrToEndpoint(z) /\ z.type \in SupportedType
                                   /\ h.DNSName = z.name /\ h.RecordType = z.type
      /\ \A z \in Z : z.type \in SupportedType /\ ~HasOwnerPrefix(z.name) => <<z.name, z.type>> \in Keys(c)
  BY <1>1 DEF Shape, ShapeCurrent
<1>4. \A h \in c : h.DNSName \in owned =>
       /\ \A z \in Z : z.name = h.DNSName /\ z.type \in SupportedType =>
            h = rrToEndpoint(z) /\ \E r \in endpointToRRs(h) : SameRecord(r, z)
       /\ \A r \in endpointToRRs(h) : r.name = h.DNSName /\ r.type \in SupportedType
       /\ \A g \in c : h.DNSName = g.DNSName => h = g
  BY <1>1 DEF Shape, ShapeCurrent
<1>5. /\ owned \subseteq names
      /\ \A n \in names :
           /\ ~HasOwnerPrefix(n)
           /\ \A rr \in endpointToRRs(ownershipTXTFor(id, n)) :
                OwnMark(id, names, rr) /\ ManagedName(rr.name) = n /\ HasOwnerPrefix(rr.name)
  BY <1>1 DEF Shape, ShapeCompanions
<1>6. \A rr : /\ rr \in m.create <=>
                   \E w \in fresh : \/ rr \in endpointToRRs(w)
                                    \/ rr \in endpointToRRs(ownershipTXTFor(id, w.DNSName))
              /\ rr \in m.replace <=>
                   \E p \in changes.Update : Convertible(p.old) /\ rr \in endpointToRRs(p.new)
              /\ rr \in m.remove <=>
                   \/ \E h \in stale : \/ rr \in endpointToRRs(h)
                                       \/ rr \in endpointToRRs(ownershipTXTFor(id, h.DNSName))
                   \/ \E p \in changes.Update : rr \in endpointToRRs(p.old)
  BY <1>1 DEF Shape, ShapeMessage
<1>7. /\ \A p \in changes.Update : /\ p.old \in c /\ p.new \in d /\ epKey(p.old) = epKey(p.new)
                                   /\ p.new.DNSName = p.old.DNSName /\ p.old.DNSName \in owned
      /\ changes.Update = UpdateChanges(d, c, owned)
      /\ \A w \in fresh : \A z \in Z : z.name = w.DNSName => z.type \notin SupportedType
  BY <1>1 DEF Shape, ShapeMessage
<1>8. fresh = {w \in d : epKey(w) \notin Keys(c)} /\ stale = {h \in c : epKey(h) \notin Keys(d) /\ h.DNSName \in owned}
  BY DEF Fresh, Stale
<1>9. \A ep, e : epKey(ep) = epKey(e) <=> ep.DNSName = e.DNSName /\ ep.RecordType = e.RecordType
  BY DEF epKey
<1> HIDE DEF m, owned, fresh, stale
<1>10. Answers(id, eps, Z, m)
  <2> SUFFICES ASSUME NEW ep \in eps
               PROVE  \/ \E e \in eps : /\ epKey(e) = epKey(ep)
                                        /\ \E rr \in endpointToRRs(e) :
                                             rr \in m.create \/ rr \in m.replace \/ Kept(Z, m, rr)
                      \/ \E z \in Z : z.name = ep.DNSName /\ z.type = ep.RecordType /\ z.name \notin owned
    BY DEF Answers, owned
  <2>1. PICK e \in d : epKey(e) = epKey(ep)
    BY <1>2 DEF Keys
  <2>2. e \in eps /\ e \in L /\ e \in LabelEndpoint /\ e.DNSName \in names
    BY <1>2
  <2>3. PICK rr \in endpointToRRs(e) : rrToEndpoint(rr) = e /\ rr.ttl # 0
    BY <2>2 DEF ReadAsWritten
  <2>4. CASE epKey(e) \notin Keys(c)
    BY <1>6, <1>8, <2>1, <2>2, <2>3, <2>4
  <2>5. CASE epKey(e) \in Keys(c)
    <3>1. PICK h \in c : epKey(h) = epKey(e)
      BY <2>5 DEF Keys
    <3>2. PICK z \in Z : /\ h = rrToEndpoint(z) /\ z.type \in SupportedType
                         /\ h.DNSName = z.name /\ h.RecordType = z.type
      BY <1>3
    <3>3. /\ z.name = e.DNSName /\ z.type = e.RecordType
          /\ z.name = ep.DNSName /\ z.type = ep.RecordType
      BY <1>9, <2>1, <3>1, <3>2
    <3>4. CASE z.name \notin owned
      BY <3>3, <3>4
    <3>5. CASE z.name \in owned /\ ~endpointsEqual(h, e)
      <4>1. [old |-> h, new |-> e] \in UpdateChanges(d, c, owned)
        BY <3>1, <3>3, <3>5 DEF UpdateChanges
      <4>2. Convertible(h)
        <5>1. \E r : r \in endpointToRRs(h)
          BY <1>4, <3>2, <3>5
        <5> QED BY <5>1 DEF endpointToRRs
      <4>3. rr \in m.replace
        BY <1>6, <1>7, <2>3, <4>1, <4>2
      <4> QED BY <2>1, <2>2, <4>3
    <3>6. CASE z.name \in owned /\ endpointsEqual(h, e)
      <4>1. z \in ResourceRecord /\ ReadsBack(z) /\ z.ttl # 0
        BY <2>2, <3>2, <3>3 DEF Tidy, Timed
      <4>2. z = rr
        BY <2>2, <2>3, <3>2, <3>3, <3>6, <4>1, SameEndpoint
      <4>3. ASSUME NEW r \in m.remove, SameRecord(r, z) PROVE FALSE
        <5>1. r.name = z.name /\ ~HasOwnerPrefix(r.name) /\ epKey(h) \in Keys(d)
          BY <1>5, <2>2, <3>1, <3>3, <4>3 DEF SameRecord, Keys
        <5>2. ASSUME NEW g \in stale, r \in endpointToRRs(g) PROVE FALSE
          <6>1. g \in c /\ g.DNSName \in owned /\ epKey(g) \notin Keys(d)
            BY <1>8
          <6>2. g = h
            BY <1>4, <3>2, <5>1, <5>2, <6>1
          <6> QED BY <5>1, <6>1, <6>2
        <5>3. ASSUME NEW g \in stale, r \in endpointToRRs(ownershipTXTFor(id, g.DNSName)) PROVE FALSE
          BY <1>5, <1>8, <5>1, <5>3
        <5>4. ASSUME NEW p \in changes.Update, r \in endpointToRRs(p.old) PROVE FALSE
          <6>1. p.old = h
            BY <1>4, <1>7, <3>2, <5>1, <5>4
          <6>2. p.new = e
            BY <1>2, <1>7, <3>1, <6>1
          <6>3. ~endpointsEqual(p.old, p.new)
            BY <1>7 DEF UpdateChanges
          <6> QED BY <3>6, <6>1, <6>2, <6>3
        <5> QED BY <1>6, <5>2, <5>3, <5>4
      <4>4. Kept(Z, m, rr)
        BY <4>2, <4>3 DEF Kept
      <4> QED BY <2>1, <2>2, <4>4
    <3> QED BY <3>4, <3>5, <3>6
  <2> QED BY <2>4, <2>5
<1>11. Clears(id, eps, Z, m)
  <2> SUFFICES ASSUME NEW z \in Z, z.type \in SupportedType, z.name \in owned
               PROVE  \/ \E r \in m.remove : SameRecord(r, z)
                      \/ \E ep \in eps : ep.DNSName = z.name /\ ep.RecordType = z.type
    BY DEF Clears, owned
  <2>1. <<z.name, z.type>> \in Keys(c)
    BY <1>3, <1>5
  <2>2. PICK h \in c : h.DNSName = z.name /\ h.RecordType = z.type
    BY <2>1 DEF Keys, epKey
  <2>3. PICK r \in endpointToRRs(h) : SameRecord(r, z)
    BY <1>4, <2>2
  <2>4. CASE epKey(h) \in Keys(d)
    <3>1. PICK ep \in d : epKey(ep) = epKey(h)
      BY <2>4 DEF Keys
    <3> QED BY <1>2, <1>9, <2>2, <3>1
  <2>5. CASE epKey(h) \notin Keys(d)
    BY <1>6, <1>8, <2>2, <2>3, <2>5
  <2> QED BY <2>4, <2>5
<1>12. WritesAsked(names, eps, m)
  <2> SUFFICES ASSUME NEW rr \in m.create \cup m.replace, rr.name \in names
               PROVE  \E ep \in eps : ep.DNSName = rr.name /\ ep.RecordType = rr.type
    BY DEF WritesAsked
  <2>1. \A w \in fresh : rr \notin endpointToRRs(ownershipTXTFor(id, w.DNSName))
    BY <1>2, <1>5, <1>8
  <2>2. PICK ep \in d : rr \in endpointToRRs(ep)
    BY <1>6, <1>7, <1>8, <2>1
  <2> QED BY <1>2, <2>2
<1>13. RemovesOwn(id, names, Z, m)
  BY PlanRemovesOwn DEF m
<1>14. MarksFree(id, Z, m)
  <2> SUFFICES ASSUME NEW mk \in m.create, OwnershipRR(id, mk),
                      NEW z \in Z, z.name = ManagedName(mk.name)
               PROVE  z.type \notin SupportedType
    BY DEF MarksFree
  <2>1. HasOwnerPrefix(mk.name)
    BY DEF OwnershipRR
  <2>2. PICK w \in fresh : mk \in endpointToRRs(ownershipTXTFor(id, w.DNSName))
    BY <1>2, <1>6, <1>8, <2>1
  <2>3. ManagedName(mk.name) = w.DNSName
    BY <1>2, <1>5, <1>8, <2>2
  <2> QED BY <1>7, <2>3
<1> QED BY <1>10, <1>11, <1>12, <1>13, <1>14 DEF Complete, m
\* A plan with nothing in it is an UPDATE that leaves the zone as it is.
LEMMA EmptyUpdate ==
  ASSUME NEW changes, IsEmpty(changes), NEW Z
  PROVE  Z \in Process(Z, UpdateMessage(changes))
<1> DEFINE m == UpdateMessage(changes)
<1>1. m.remove = {} /\ m.replace = {} /\ m.create = {}
  BY DEF IsEmpty, UpdateMessage, RRsOf
<1>2. RemoveAll(Z, {}) = Z
  BY DEF RemoveAll
<1>3. Z \in InsertAll(Z, {})
  <2>1. {} \in Surviving(Z, {})
    BY DEF Surviving
  <2>2. Z = {z \in Z : ~\E a \in {} : Replaces(a, z)} \cup {}
    OBVIOUS
  <2> QED BY <2>1, <2>2 DEF InsertAll
<1> HIDE DEF m
<1>4. Z \in Process(Z, m)
  BY <1>1, <1>2, <1>3 DEF Process
<1> QED BY <1>4 DEF m

\* So whether anything is sent or not, a plan that is carried out brings the zone in
\* sync.
LEMMA PlanSyncs ==
  ASSUME NEW owners \in SUBSET OwnerID, NEW id \in owners, NEW names, PlainNames(names),
         NEW L, L \subseteq LabelEndpoint,
         \A ep \in L : ep.DNSName \in names /\ Fqdn(ep.DNSName) = ep.DNSName,
         \A a, b \in L : a.DNSName = b.DNSName => a.RecordType = b.RecordType,
         NEW Z, Z \in SUBSET ResourceRecord, CompleteNames(Z),
         NEW X, Tidy(owners, names, Z, X), Agrees(Z, L), Attended(owners, Z, X),
         NEW eps, eps \subseteq L, NEW changes \in Calculate(id, eps, Records(Z)),
         ReadAsWritten(L), Timed(names, Z), NEW after \in Process(Z, UpdateMessage(changes))
  PROVE  Synced(owners, id, eps, after, X)
<1>1. Sound(id, names, L, Z, UpdateMessage(changes))
  BY PlanSound
<1>2. Complete(id, names, eps, Z, UpdateMessage(changes))
  BY PlanComplete
<1> QED BY <1>1, <1>2, CompleteSyncs

\* A record that a sound UPDATE adds has its label's TTL.
LEMMA ApplyTimed ==
  ASSUME NEW id, NEW names, PlainNames(names), NEW L, L \subseteq LabelEndpoint, ReadAsWritten(L),
         NEW Z, Timed(names, Z), NEW m, Sound(id, names, L, Z, m), NEW after \in Process(Z, m)
  PROVE  Timed(names, after)
<1>1. ASSUME NEW rr, FromLabel(names, L, rr) PROVE rr.ttl # 0
  <2>1. PICK ep \in L : rr \in endpointToRRs(ep)
    BY <1>1 DEF FromLabel
  <2>2. PICK r \in endpointToRRs(ep) : r.ttl # 0
    BY DEF ReadAsWritten
  <2> QED BY <2>1, <2>2, LabelOneRR
<1>2. \A rr : OwnMark(id, names, rr) => rr.name \notin names
  BY DEF OwnMark, OwnershipRR, PlainNames
<1>3. PICK mid \in InsertAll(RemoveAll(Z, m.remove), m.replace) : after \in InsertAll(mid, m.create)
  BY DEF Process
<1>4. RemoveAll(Z, m.remove) \subseteq Z
  BY DEF RemoveAll
<1>5. after \subseteq Z \cup m.replace \cup m.create
  BY <1>3, <1>4, InsertAllFacts
<1> QED BY <1>1, <1>2, <1>5 DEF Timed, Sound

\* No record that the provider does not see is where a label asks for a CNAME.
Open(Z, L) ==
  \A z \in Z, ep \in L :
    z.name = Fqdn(ep.DNSName) /\ ep.RecordType = RecordTypeCNAME => z.type \in SupportedType

\* The UPDATE has an effect: it creates a record, or removes one and does not put it back.
Needed(names, Z, m) ==
  \/ \E a \in m.create : a.name \in names
  \/ \E z \in Z : /\ z.name \in names /\ z.type \in SupportedType
                  /\ \E r \in m.remove : SameRecord(r, z)
                  /\ z \notin m.replace

\* A sound UPDATE adds only records that the provider sees.
LEMMA ApplyOpen ==
  ASSUME NEW id, NEW names, NEW L, L \subseteq LabelEndpoint, NEW Z, Open(Z, L),
         NEW m, Sound(id, names, L, Z, m), NEW after \in Process(Z, m)
  PROVE  Open(after, L)
<1>1. ASSUME NEW rr, FromLabel(names, L, rr) \/ OwnMark(id, names, rr) PROVE rr.type \in SupportedType
  <2>1. CASE FromLabel(names, L, rr)
    <3>1. PICK ep \in L : rr \in endpointToRRs(ep)
      BY <2>1 DEF FromLabel
    <3>2. ep \in EndpointRecord
      BY DEF LabelEndpoint, EndpointRecord, Target
    <3> QED BY <3>1, <3>2, WrittenReadsBack
  <2>2. CASE OwnMark(id, names, rr)
    BY <2>2 DEF OwnMark, OwnershipRR, SupportedType
  <2> QED BY <1>1, <2>1, <2>2
<1>2. PICK mid \in InsertAll(RemoveAll(Z, m.remove), m.replace) : after \in InsertAll(mid, m.create)
  BY DEF Process
<1>3. RemoveAll(Z, m.remove) \subseteq Z
  BY DEF RemoveAll
<1>4. after \subseteq Z \cup m.replace \cup m.create
  BY <1>2, <1>3, InsertAllFacts
<1> QED BY <1>1, <1>4 DEF Open, Sound

\* A plan with something in it becomes such an UPDATE.
LEMMA PlanNeeded ==
  ASSUME NEW owners \in SUBSET OwnerID, NEW id \in owners, NEW names, PlainNames(names),
         NEW L, L \subseteq LabelEndpoint,
         \A ep \in L : ep.DNSName \in names,
         \A a, b \in L : a.DNSName = b.DNSName => a.RecordType = b.RecordType,
         NEW Z, Z \in SUBSET ResourceRecord, CompleteNames(Z),
         NEW X, Tidy(owners, names, Z, X), Agrees(Z, L),
         NEW eps, eps \subseteq L, NEW changes \in Calculate(id, eps, Records(Z)),
         ReadAsWritten(L), ~IsEmpty(changes)
  PROVE  Needed(names, Z, UpdateMessage(changes))
<1> DEFINE m == UpdateMessage(changes)
           owned == OwnedNames(id, Z)
<1>1. PICK d, c : Shape(id, names, L, eps, Z, changes, d, c)
  BY PlanShape
<1> DEFINE fresh == Fresh(d, c)
           stale == Stale(d, c, owned)
<1>2. /\ \A a, b \in d : epKey(a) = epKey(b) => a = b
      /\ \A ep \in d : /\ ep \in LabelEndpoint /\ ep \in L /\ ep.DNSName \in names
                       /\ \A rr \in endpointToRRs(ep) : rr.name = ep.DNSName
  BY <1>1 DEF Shape, ShapeDesired
<1>3. \A h \in c : h.DNSName \in owned =>
       /\ \E z \in Z : /\ h = rrToEndpoint(z) /\ z.type \in SupportedType /\ h.DNSName = z.name
                       /\ \E r \in endpointToRRs(h) : SameRecord(r, z)
       /\ \A g \in c : h.DNSName = g.DNSName => h = g
  BY <1>1 DEF Shape, ShapeCurrent
<1>4. owned \subseteq names
  BY <1>1 DEF Shape
<1>5. /\ \A w \in fresh : endpointToRRs(w) \subseteq m.create
      /\ \A rr \in m.replace : \E p \in changes.Update : rr \in endpointToRRs(p.new)
      /\ \A h \in stale : endpointToRRs(h) \subseteq m.remove
      /\ \A p \in changes.Update : endpointToRRs(p.old) \subseteq m.remove
  BY <1>1 DEF Shape, ShapeMessage
<1>6. /\ \A p \in changes.Update : /\ p.old \in c /\ p.new \in d /\ epKey(p.old) = epKey(p.new)
                                   /\ p.new.DNSName = p.old.DNSName /\ p.old.DNSName \in owned
                                   /\ ~endpointsEqual(p.old, p.new)
      /\ ~(fresh = {} /\ changes.Update = {} /\ stale = {})
  BY <1>1 DEF Shape, ShapeMessage, UpdateChanges
<1>7. fresh \subseteq d /\ stale = {h \in c : epKey(h) \notin Keys(d) /\ h.DNSName \in owned}
  BY DEF Fresh, Stale
<1> HIDE DEF m, owned, fresh, stale
<1>8. ASSUME NEW w \in fresh PROVE Needed(names, Z, m)
  <2>1. PICK rr \in endpointToRRs(w) : TRUE
    BY <1>2, <1>7 DEF ReadAsWritten
  <2> QED BY <1>2, <1>5, <1>7, <2>1 DEF Needed
\* What replaces the record of an owned name is the update of its endpoint.
<1>9. ASSUME NEW h \in c, h.DNSName \in owned, NEW rr \in m.replace, rr.name = h.DNSName
      PROVE  \E p \in changes.Update : p.old = h /\ rr \in endpointToRRs(p.new)
  <2>1. PICK p \in changes.Update : rr \in endpointToRRs(p.new)
    BY <1>5
  <2>2. p.old \in c /\ p.old.DNSName = h.DNSName
    BY <1>2, <1>6, <1>9, <2>1
  <2> QED BY <1>3, <1>9, <2>1, <2>2
<1>10. ASSUME NEW h \in stale PROVE Needed(names, Z, m)
  <2>1. h \in c /\ h.DNSName \in owned /\ epKey(h) \notin Keys(d)
    BY <1>7
  <2>2. PICK z \in Z : /\ z.type \in SupportedType /\ h.DNSName = z.name
                       /\ \E r \in endpointToRRs(h) : SameRecord(r, z)
    BY <1>3, <2>1
  <2>3. z \notin m.replace
    BY <1>6, <1>9, <2>1, <2>2 DEF Keys
  <2> QED BY <1>4, <1>5, <2>1, <2>2, <2>3 DEF Needed
<1>11. ASSUME NEW p \in changes.Update PROVE Needed(names, Z, m)
  <2>1. p.old \in c /\ p.old.DNSName \in owned /\ p.new \in d
    BY <1>6
  <2>2. PICK z \in Z : /\ p.old = rrToEndpoint(z) /\ z.type \in SupportedType /\ p.old.DNSName = z.name
                       /\ \E r \in endpointToRRs(p.old) : SameRecord(r, z)
    BY <1>3, <2>1
  <2>3. ASSUME z \in m.replace PROVE FALSE
    <3>1. PICK q \in changes.Update : q.old = p.old /\ z \in endpointToRRs(q.new)
      BY <1>9, <2>1, <2>2, <2>3
    <3>2. q.new = p.new
      BY <1>2, <1>6, <3>1
    <3>3. PICK rr \in endpointToRRs(p.new) : rrToEndpoint(rr) = p.new
      BY <1>2, <2>1 DEF ReadAsWritten
    <3>4. rr = z
      BY <1>2, <2>1, <3>1, <3>2, <3>3, LabelOneRR
    <3>5. p.old = p.new
      BY <2>2, <3>3, <3>4
    <3>6. endpointsEqual(p.new, p.new)
      BY DEF endpointsEqual
    <3> QED BY <1>6, <3>5, <3>6
  <2> QED BY <1>4, <1>5, <2>1, <2>2, <2>3 DEF Needed
<1> QED BY <1>6, <1>8, <1>10, <1>11 DEF m

\* ... after which the zone is another, where nothing unseen is in a CNAME's way.
LEMMA NeededChanges ==
  ASSUME NEW id, NEW names, PlainNames(names), NEW L, L \subseteq LabelEndpoint,
         \A ep \in L : ep.DNSName \in names /\ Fqdn(ep.DNSName) = ep.DNSName,
         NEW Z, Open(Z, L), NEW m, Sound(id, names, L, Z, m), Needed(names, Z, m)
  PROVE  Z \notin Process(Z, m)
<1> SUFFICES ASSUME Z \in Process(Z, m) PROVE FALSE
  OBVIOUS
<1> DEFINE Z1 == RemoveAll(Z, m.remove)
<1>1. PICK mid \in InsertAll(Z1, m.replace) : Z \in InsertAll(mid, m.create)
  BY DEF Process
<1>2. Z1 \subseteq Z /\ \A z \in Z1 : ~\E r \in m.remove : SameRecord(r, z)
  BY DEF RemoveAll
<1> HIDE DEF Z1
<1>3. mid \subseteq Z1 \cup m.replace /\ Z \subseteq mid \cup m.create
  BY <1>1, InsertAllFacts
<1>4. ASSUME NEW a \in m.create, a.name \in names PROVE FALSE
  <2>1. /\ \A b \in m.create : b.name = a.name => b = a
        /\ \A z \in Z : z.name = a.name => z.type \notin SupportedType
        /\ \A b \in m.replace : b.name # a.name
    BY <1>4 DEF Sound, CreatesMarked
  <2>2. FromLabel(names, L, a)
    BY <1>4 DEF Sound, OwnMark, OwnershipRR, PlainNames
  <2>3. PICK ep \in L : a \in endpointToRRs(ep)
    BY <2>2 DEF FromLabel
  <2>4. ep \in EndpointRecord
    BY DEF LabelEndpoint, EndpointRecord, Target
  <2>5. a.name = Fqdn(ep.DNSName) /\ a.type = ep.RecordType /\ a.type \in SupportedType
    BY <2>3, <2>4, EndpointToRRs, WrittenReadsBack
  <2>6. PICK z \in mid : Conflicts(a, z)
    BY <1>1, <2>1, <2>5, InsertArrives
  <2>7. z \in Z /\ z.name = a.name
    BY <1>2, <1>3, <2>1, <2>6 DEF Conflicts
  <2>8. z.type \notin SupportedType /\ RecordTypeCNAME \in SupportedType
    BY <2>1, <2>7 DEF SupportedType
  <2>9. a.type = RecordTypeCNAME
    BY <2>6, <2>8 DEF Conflicts
  <2> QED BY <2>5, <2>7, <2>8, <2>9 DEF Open
<1>5. ASSUME NEW z \in Z, z.name \in names, z.type \in SupportedType,
             \E r \in m.remove : SameRecord(r, z), z \notin m.replace
      PROVE  FALSE
  <2>1. z \notin mid
    BY <1>2, <1>3, <1>5
  <2> QED BY <1>3, <1>4, <1>5, <2>1
<1> QED BY <1>4, <1>5 DEF Needed

-----------------------------------------------------------------------------
(* The plan for some of the names. *)

\* Every list of endpoints has an index.
LEMMA IndexExists == ASSUME NEW eps PROVE \E idx : idx \in indexEndpoints(eps)
<1> DEFINE Pick(k) == CHOOSE ep \in eps : epKey(ep) = k
           idx == {Pick(k) : k \in Keys(eps)}
<1>1. \A k \in Keys(eps) : Pick(k) \in eps /\ epKey(Pick(k)) = k
  BY DEF Keys
<1> HIDE DEF Pick
<1>2. idx \in SUBSET eps
  BY <1>1
<1>3. \A a, b \in idx : epKey(a) = epKey(b) => a = b
  BY <1>1
<1>4. \A ep \in eps : epKey(ep) \in Keys(idx)
  BY <1>1 DEF Keys
<1> QED BY <1>2, <1>3, <1>4 DEF indexEndpoints

\* The endpoints of a list at some of the names.
AtNames(K, eps) == {ep \in eps : ep.DNSName \in K}

\* Of two lists that agree at these names, so may the indexes.
LEMMA IndexAgrees ==
  ASSUME NEW K, NEW S, NEW T, AtNames(K, S) = AtNames(K, T), NEW c \in indexEndpoints(S)
  PROVE  \E e \in indexEndpoints(T) : AtNames(K, e) = AtNames(K, c)
<1> DEFINE others == {ep \in T : ep.DNSName \notin K}
<1>1. PICK r : r \in indexEndpoints(others)
  BY IndexExists
<1>2. /\ c \subseteq S /\ \A ep \in S : epKey(ep) \in Keys(c)
      /\ \A a, b \in c : epKey(a) = epKey(b) => a = b
      /\ r \subseteq others /\ \A ep \in others : epKey(ep) \in Keys(r)
      /\ \A a, b \in r : epKey(a) = epKey(b) => a = b
  BY <1>1 DEF indexEndpoints
<1>3. \A a, b : epKey(a) = epKey(b) => a.DNSName = b.DNSName
  BY DEF epKey
<1> DEFINE e == AtNames(K, c) \cup r
<1>4. e \in SUBSET T
  BY <1>2 DEF AtNames
<1>5. \A a, b \in e : epKey(a) = epKey(b) => a = b
  BY <1>2, <1>3 DEF AtNames
<1>6. ASSUME NEW ep \in T PROVE epKey(ep) \in Keys(e)
  <2>1. CASE ep.DNSName \in K
    <3>1. ep \in S
      BY <2>1 DEF AtNames
    <3>2. PICK h \in c : epKey(h) = epKey(ep)
      BY <1>2, <3>1 DEF Keys
    <3>3. h \in e
      BY <1>3, <2>1, <3>2 DEF AtNames
    <3> QED BY <3>2, <3>3 DEF Keys
  <2>2. CASE ep.DNSName \notin K
    BY <1>2, <2>2 DEF Keys
  <2> QED BY <2>1, <2>2
<1>7. e \in indexEndpoints(T)
  BY <1>4, <1>5, <1>6 DEF indexEndpoints
<1>8. AtNames(K, e) = AtNames(K, c)
  BY <1>2 DEF AtNames
<1> QED BY <1>7, <1>8

\* What a plan holds about these names.
PlanAt(K, id, d, c, owned) ==
  [ Create |-> CreateChanges(id, AtNames(K, d), c),
    Update |-> {p \in UpdateChanges(d, c, owned) : p.old.DNSName \in K},
    Delete |-> DeleteChanges(id, d, AtNames(K, c), owned) ]

\* A plan for all names, taken at some of them, is the plan that Calculate makes for
\* those names alone, from any list that agrees with the whole one about them.
LEMMA PlanRestricts ==
  ASSUME NEW id, NEW K, NEW D, NEW d \in indexEndpoints(D),
         NEW C, NEW c \in indexEndpoints(filterOwnershipTXTs(C)),
         NEW E, AtNames(K, filterOwnershipTXTs(C)) = AtNames(K, filterOwnershipTXTs(E)),
         NEW owned, buildOwnedSet(id, E) = owned \cap K
  PROVE  PlanAt(K, id, d, c, owned) \in Calculate(id, AtNames(K, D), E)
<1> DEFINE ownedK == owned \cap K
<1>1. PICK e \in indexEndpoints(filterOwnershipTXTs(E)) : AtNames(K, e) = AtNames(K, c)
  BY IndexAgrees
<1>2. PICK f \in indexEndpoints(AtNames(K, D)) : AtNames(K, f) = AtNames(K, d)
  <2>1. AtNames(K, D) = AtNames(K, AtNames(K, D))
    BY DEF AtNames
  <2> QED BY <2>1, IndexAgrees
<1>3. f = AtNames(K, d)
  BY <1>2 DEF indexEndpoints, AtNames
<1>4. \A a, b : epKey(a) = epKey(b) => a.DNSName = b.DNSName
  BY DEF epKey
<1>5. \A h : h.DNSName \in K => /\ h \in e <=> h \in c
                                /\ h \in f <=> h \in d
                                /\ epKey(h) \in Keys(e) <=> epKey(h) \in Keys(c)
                                /\ epKey(h) \in Keys(f) <=> epKey(h) \in Keys(d)
  <2>1. \A h : h.DNSName \in K => (h \in e <=> h \in c) /\ (h \in f <=> h \in d)
    BY <1>1, <1>2 DEF AtNames
  <2> QED BY <1>4, <2>1 DEF Keys
<1>6. f \subseteq d /\ \A w \in f : w.DNSName \in K
  BY <1>3 DEF AtNames
<1>7. CreateChanges(id, AtNames(K, d), c) = CreateChanges(id, f, e)
  <2>1. {w \in f : epKey(w) \notin Keys(c)} = {w \in f : epKey(w) \notin Keys(e)}
    BY <1>5, <1>6
  <2> QED BY <1>3, <2>1 DEF CreateChanges
<1>8. {p \in UpdateChanges(d, c, owned) : p.old.DNSName \in K} = UpdateChanges(f, e, ownedK)
  BY <1>4, <1>5 DEF UpdateChanges
<1>9. DeleteChanges(id, d, AtNames(K, c), owned) = DeleteChanges(id, f, e, ownedK)
  <2>1. {h \in AtNames(K, c) : epKey(h) \notin Keys(d) /\ h.DNSName \in owned}
          = {h \in e : epKey(h) \notin Keys(f) /\ h.DNSName \in ownedK}
    BY <1>5 DEF AtNames
  <2> QED BY <2>1 DEF DeleteChanges
<1>10. ASSUME NEW o, o = buildOwnedSet(id, E)
       PROVE  [ Create |-> CreateChanges(id, f, e), Update |-> UpdateChanges(f, e, o),
                Delete |-> DeleteChanges(id, f, e, o) ] \in Calculate(id, AtNames(K, D), E)
  <2> DEFINE DK == AtNames(K, D)
             CE == filterOwnershipTXTs(E)
             Result(x, y) == [ Create |-> CreateChanges(id, x, y), Update |-> UpdateChanges(x, y, o),
                               Delete |-> DeleteChanges(id, x, y, o) ]
  <2>1. Calculate(id, DK, E) = {Result(x, y) : x \in indexEndpoints(DK), y \in indexEndpoints(CE)}
    BY <1>10 DEF Calculate
  <2>2. f \in indexEndpoints(DK) /\ e \in indexEndpoints(CE)
    BY <1>1, <1>2
  <2> HIDE DEF DK, CE, Result
  <2>3. Result(f, e) \in Calculate(id, DK, E)
    BY <2>1, <2>2
  <2> QED BY <2>3, Zenon DEF Result, DK
<1>11. ownedK = buildOwnedSet(id, E)
  OBVIOUS
<1> HIDE DEF ownedK
<1> QED BY <1>7, <1>8, <1>9, <1>10, <1>11, Zenon DEF PlanAt
=============================================================================
