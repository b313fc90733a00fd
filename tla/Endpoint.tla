------------------------------ MODULE Endpoint ------------------------------
(***************************************************************************)
(* pkg/endpoint: the DNS endpoint that the source produces, the planner    *)
(* compares and the provider reads and writes.                             *)
(*                                                                         *)
(* Strings are abstracted to what the code tells apart.  A DNS name is a   *)
(* host below the zone, the number of ownership prefixes in front of it    *)
(* (plan.go's ownerPrefix) and whether it is spelt with a trailing dot,    *)
(* which Go's string comparison sees and the DNS server does not.  A       *)
(* target is an IPv4 address, an IPv6 address, a host name, or the value   *)
(* of an ownership TXT record; `canonical' is whether it is spelt the way  *)
(* the provider will spell it when it reads it back from the zone.         *)
(* Letter case, which Go's comparison also sees and the server does not,   *)
(* is left out: two names that differ are two names to both.               *)
(***************************************************************************)
EXTENDS Naturals, Sequences

CONSTANTS
  Host,         \* the host names that labels and operators use
  Value,        \* what distinguishes two targets of one kind
  OwnerID,      \* owner IDs of the daemons that share the zone
  OtherType,    \* record types that the provider does not know ("MX", "SRV", ...)
  DefaultTTL    \* the TTL of an endpoint that names none (300 in the code)

ASSUME DefaultTTLAssumption == DefaultTTL \in Nat \ {0}

RecordTypeA     == "A"
RecordTypeAAAA  == "AAAA"
RecordTypeCNAME == "CNAME"
RecordTypeTXT   == "TXT"

\* A label's record-type override is passed on unvalidated, so an endpoint may
\* carry a type that the provider does not support.
SupportedType == {RecordTypeA, RecordTypeAAAA, RecordTypeCNAME, RecordTypeTXT}
TypeName == SupportedType \cup OtherType

ASSUME OtherTypeAssumption == OtherType \cap SupportedType = {}

Name == [host : Host, owner : Nat, dot : BOOLEAN]

LabelTarget == [kind : {"ipv4", "ipv6", "hostname"}, val : Value, canonical : BOOLEAN]
OwnerTarget == [kind : {"owner"}, val : OwnerID, canonical : {TRUE}]
Target == LabelTarget \cup OwnerTarget

EndpointRecord ==
  [DNSName : Name, Targets : Seq(Target), RecordType : TypeName, TTL : Nat]

\* What parseSingle returns: one target, which came from a label.
LabelEndpoint ==
  {ep \in [DNSName : Name, Targets : Seq(LabelTarget), RecordType : TypeName, TTL : Nat] :
     Len(ep.Targets) = 1 /\ ep.TTL > 0}

\* A TTL of 0 stands for "not given" and becomes the default.
New(dnsName, targets, recordType, ttl) ==
  [ DNSName    |-> dnsName,
    Targets    |-> targets,
    RecordType |-> recordType,
    TTL        |-> IF ttl = 0 THEN DefaultTTL ELSE ttl ]

\* The record type of a label that overrides none.
InferRecordType(target) ==
  CASE target.kind = "ipv4" -> RecordTypeA
    [] target.kind = "ipv6" -> RecordTypeAAAA
    [] OTHER -> RecordTypeCNAME
=============================================================================
