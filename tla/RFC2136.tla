------------------------------- MODULE RFC2136 -------------------------------
(***************************************************************************)
(* pkg/provider/rfc2136/rfc2136.go: what one zone transfer returns and the *)
(* one UPDATE message that a set of changes becomes.  The second half is   *)
(* the authoritative server, which is not part of the repository: it is    *)
(* modelled as RFC 2136 section 3.4 requires, from how the provider uses   *)
(* it.                                                                     *)
(*                                                                         *)
(* A resource record has no trailing dot to disagree about (dns.Fqdn and   *)
(* TrimSuffix cancel out), so the name of a record has dot = FALSE.        *)
(***************************************************************************)
EXTENDS Plan

CONSTANTS
  MinTTL,       \* the provider's configured floor, 0 when there is none
  TTLModulus,   \* one more than the largest TTL of the wire format (2^32)
  ZoneHost      \* the hosts whose names lie in the configured zone

ASSUME MinTTLAssumption == MinTTL \in Nat
ASSUME TTLModulusAssumption == TTLModulus \in Nat \ {0}
ASSUME ZoneHostAssumption == ZoneHost \subseteq Host

ResourceRecord ==
  [name : Name, type : TypeName, rdata : Seq(Target), ttl : Nat]

Fqdn(dnsName) == [dnsName EXCEPT !.dot = FALSE]

effectiveTTL(ttl) == IF MinTTL > 0 /\ ttl < MinTTL THEN MinTTL ELSE ttl

\* The conversion error of endpointToRRs: an A record takes only IPv4, an
\* AAAA record any address, and any other type string is unsupported.
Convertible(ep) ==
  /\ ep.RecordType \in SupportedType
  /\ \A k \in DOMAIN ep.Targets :
       /\ ep.RecordType = RecordTypeA => ep.Targets[k].kind = "ipv4"
       /\ ep.RecordType = RecordTypeAAAA => ep.Targets[k].kind \in {"ipv4", "ipv6"}

\* Parsing an address, and completing the host name of a CNAME, forget the
\* spelling; the text of a TXT record is written as it is.
Rdata(recordType, target) ==
  IF \/ recordType \in {RecordTypeA, RecordTypeAAAA}
     \/ recordType = RecordTypeCNAME /\ target.kind = "hostname"
  THEN [target EXCEPT !.canonical = TRUE]
  ELSE target

\* One record per target; none at all when one target cannot be converted
\* (the caller logs a warning and skips the endpoint).
endpointToRRs(ep) ==
  IF ~Convertible(ep) THEN {}
  ELSE {[ name  |-> Fqdn(ep.DNSName),
          type  |-> ep.RecordType,
          rdata |-> <<Rdata(ep.RecordType, ep.Targets[k])>>,
          ttl   |-> effectiveTTL(ep.TTL) % TTLModulus ] : k \in DOMAIN ep.Targets}

RRsOf(eps) == UNION {endpointToRRs(ep) : ep \in eps}

\* Fault injection: the trailing dot of the wire format is kept.
rrToEndpoint_Dotted(rr) == New([rr.name EXCEPT !.dot = TRUE], rr.rdata, rr.type, rr.ttl)

rrToEndpoint(rr) == New(rr.name, rr.rdata, rr.type, rr.ttl)

\* A successful AXFR: one endpoint per record of a known type.
Records(zone) == {rrToEndpoint(rr) : rr \in {r \in zone : r.type \in SupportedType}}

-----------------------------------------------------------------------------
\* The record marks the name below its prefix as managed by the owner.
OwnershipRR(id, rr) ==
  /\ rr.type = RecordTypeTXT
  /\ HasOwnerPrefix(rr.name)
  /\ \E k \in DOMAIN rr.rdata : rr.rdata[k] = ownershipValue(id)

OwnedNames(id, zone) == {ManagedName(rr.name) : rr \in {r \in zone : OwnershipRR(id, r)}}

\* Where an owner with a claim to these names may write.
Touchable(names) == names \cup {ownershipName(n) : n \in names}

-----------------------------------------------------------------------------
\* Fault injection: updates remove the old records and never insert the new ones.
UpdateMessage_NoReplace(changes) ==
  [ remove  |-> RRsOf(changes.Delete) \cup RRsOf({p.old : p \in changes.Update}),
    replace |-> {},
    create  |-> RRsOf(changes.Create) ]

\* The UPDATE of ApplyChanges.  All removals precede the insertions they
\* could affect, and the insertions of updates precede those of creates.  An
\* update whose old endpoint cannot be converted is skipped altogether; one
\* whose new endpoint cannot be converted still removes the old records.
UpdateMessage(changes) ==
  [ remove  |-> RRsOf(changes.Delete) \cup RRsOf({p.old : p \in changes.Update}),
    replace |-> RRsOf({p.new : p \in {q \in changes.Update : Convertible(q.old)}}),
    create  |-> RRsOf(changes.Create) ]

\* What UpdateMessage returns.
Message ==
  [remove : SUBSET ResourceRecord,
   replace : SUBSET ResourceRecord,
   create : SUBSET ResourceRecord]

-----------------------------------------------------------------------------
\* External: the server.

\* A name that holds a CNAME record holds nothing else.
Conflicts(a, b) ==
  a.name = b.name /\ (a.type = RecordTypeCNAME) # (b.type = RecordTypeCNAME)

\* Adding a replaces b: same data with another TTL, or the one CNAME of a name.
Replaces(a, b) ==
  /\ a.name = b.name
  /\ a.type = b.type
  /\ a.rdata = b.rdata \/ a.type = RecordTypeCNAME

\* Deleting a record from an RRset compares everything but the TTL.
SameRecord(a, b) == a.name = b.name /\ a.type = b.type /\ a.rdata = b.rdata

RemoveAll(zone, rrs) == {z \in zone : ~\E rr \in rrs : SameRecord(rr, z)}

\* The insertions of one section that survive when they are performed one by
\* one in some order: a conflicting one is silently ignored, and of two that
\* replace each other the later one remains.
Surviving(zone, rrs) ==
  {s \in SUBSET rrs :
     /\ \A a \in s : ~\E z \in zone : Conflicts(a, z)
     /\ \A a, b \in s : ~Conflicts(a, b) /\ (Replaces(a, b) => a = b)
     /\ \A a \in rrs \ s : \/ \E z \in zone : Conflicts(a, z)
                           \/ \E b \in s : Conflicts(a, b) \/ Replaces(a, b)}

InsertAll(zone, rrs) ==
  {{z \in zone : ~\E a \in s : Replaces(a, z)} \cup s : s \in Surviving(zone, rrs)}

\* Every zone that the UPDATE may leave behind.
Process(zone, m) ==
  UNION {InsertAll(z, m.create) : z \in InsertAll(RemoveAll(zone, m.remove), m.replace)}

\* One name outside the zone and the server refuses the message (NOTZONE).
Acceptable(m) ==
  \A rr \in m.remove \cup m.replace \cup m.create : rr.name.host \in ZoneHost
=============================================================================
