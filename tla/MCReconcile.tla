---------------------------- MODULE MCReconcile ----------------------------
(***************************************************************************)
(* Small instances of Reconcile for TLC.                                   *)
(***************************************************************************)
EXTENDS Reconcile, TLC

CONSTANTS d1, d2, o1, o2, h1, h2, h3, h4, v1, v2, v9

At(h) == [host |-> h, owner |-> 0, dot |-> FALSE]
OwnerAt(h) == [host |-> h, owner |-> 1, dot |-> FALSE]
IPv4(v) == [kind |-> "ipv4", val |-> v, canonical |-> TRUE]
IPv6(v) == [kind |-> "ipv6", val |-> v, canonical |-> TRUE]
HostName(v) == [kind |-> "hostname", val |-> v, canonical |-> TRUE]

\* A container's label without a record-type override, with the default TTL.
Label(h, t) == New(At(h), <<t>>, InferRecordType(t), 0)

RR(h, type, t) == [name |-> At(h), type |-> type, rdata |-> <<t>>, ttl |-> DefaultTTL]
Mark(h, id) ==
  [ name |-> OwnerAt(h), type |-> RecordTypeTXT,
    rdata |-> <<ownershipValue(id)>>, ttl |-> DefaultTTL ]

\* One daemon whose containers use one record type per name, over a zone left
\* by an earlier life and by an operator whose record was there first, or is of a
\* type that the provider does not see.  h4 lies outside the zone.  Beside it a
\* dry-run instance with the same owner ID and no containers, to which every record
\* of the real one is surplus.
SoloOwner == d1 :> o1
TwinOwner == d1 :> o1 @@ d2 :> o1
SoloLabels ==
  d1 :> {Label(h1, IPv4(v1)), Label(h1, IPv4(v2)), Label(h2, HostName(v1)),
         Label(h4, IPv4(v1))} @@
  d2 :> {}
SoloZone == {RR(h1, "A", IPv4(v2)), Mark(h1, o1), RR(h2, "CNAME", HostName(v9))}
SoloManual == {RR(h1, "MX", HostName(v9))}
SoloRemovable == {RR(h2, "CNAME", HostName(v9))}

\* This instance meets the condition of all theorems about records and companions.
ASSUME SoloAssumption == Labels = SoloLabels /\ InitialZone = SoloZone => Orderly

\* Two owners who contend for one name, with awkward labels: a name with a
\* trailing dot and an ownership name; the operator adds to the contended name
\* and releases it.
PairOwner == d1 :> o1 @@ d2 :> o2
Dotted(h) == [At(h) EXCEPT !.dot = TRUE]
PairLabels ==
  d1 :> {Label(h1, IPv4(v1)), New(Dotted(h1), <<IPv6(v1)>>, RecordTypeAAAA, 60)} @@
  d2 :> {Label(h1, IPv4(v2)),
         New(OwnerAt(h1), <<HostName(v2)>>, RecordTypeCNAME, 0)}
PairZone == {RR(h1, "A", IPv4(v1)), Mark(h1, o1), RR(h3, "TXT", HostName(v9))}
PairManual == {RR(h1, "CNAME", HostName(v9)), RR(h2, "A", IPv4(v9))}
PairRemovable == {Mark(h1, o1), Mark(h1, o2)}

\* An operator's IPv6 record at the name that a container wants as IPv4.
HijackLabels == d1 :> {Label(h1, IPv4(v1))}
HijackZone == {RR(h1, "AAAA", IPv6(v9))}

\* Two owners whose containers ask for one and the same record.
SharedLabels == d1 :> {Label(h1, IPv4(v1))} @@ d2 :> {Label(h1, IPv4(v1))}
OwnedZone == {RR(h1, "A", IPv4(v1)), Mark(h1, o1)}

\* The operator takes a record back by removing its mark.
ReleasedRemovable == {Mark(h1, o1)}

\* A dual-stack container: one name, an IPv4 and an IPv6 label.
DualLabels == d1 :> {Label(h1, IPv4(v1)), Label(h1, IPv6(v1))}

\* A label whose TTL is below the provider's floor.
LowTTLLabels == d1 :> {New(At(h1), <<IPv4(v1)>>, RecordTypeA, 60)}

\* A record-type override that the target's address does not fit.
MisfitLabels == d1 :> {New(At(h1), <<IPv6(v1)>>, RecordTypeA, 0)}

\* An operator's record, of a type the provider does not see, where a container
\* wants a CNAME.
ObstructedLabels == d1 :> {Label(h1, HostName(v1))}
ObstructedZone == {RR(h1, "MX", HostName(v9))}

=============================================================================
