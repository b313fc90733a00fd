---------------------------- MODULE MCMultiZone ----------------------------
(***************************************************************************)
(* A small instance of MultiZone for TLC: a zone, a zone delegated below   *)
(* it and an unrelated one; labels below each zone and outside all of      *)
(* them.                                                                   *)
(***************************************************************************)
EXTENDS MultiZone, TLC

CONSTANTS o1, o2, apex, inSub, inParent, other, outside, www, v1, v9

MCLabelsOf == apex     :> <<"com", "example", "sub">> @@
              inSub    :> <<"com", "example", "sub", "app">> @@
              inParent :> <<"com", "example", "subapp">> @@
              other    :> <<"ro", "bke", "app">> @@
              www      :> <<"ro", "bke", "www">> @@
              outside  :> <<"tld", "unknown", "app">>

MCZones == << <<"com", "example">>, <<"com", "example", "sub">>, <<"ro", "bke">> >>

At(h) == [host |-> h, owner |-> 0, dot |-> FALSE]
IPv4(v) == [kind |-> "ipv4", val |-> v, canonical |-> TRUE]
Label(h, v) == New(At(h), <<IPv4(v)>>, RecordTypeA, 0)

MCLabels == {Label(inSub, v1), Label(inParent, v1), Label(other, v1), Label(outside, v1)}

RR(h, v) == [name |-> At(h), type |-> RecordTypeA, rdata |-> <<IPv4(v)>>, ttl |-> DefaultTTL]
MarkOf(id, h) == [ name |-> [At(h) EXCEPT !.owner = 1], type |-> RecordTypeTXT,
                   rdata |-> <<ownershipValue(id)>>, ttl |-> DefaultTTL ]
Mark(h) == MarkOf(o1, h)

\* What an earlier life left: a record to update and one, at the apex of the
\* delegated zone, to delete; and a record that another owner has marked.
MCInitialZones ==
  << {}, {RR(inSub, v9), Mark(inSub), RR(apex, v9), Mark(apex)}, {RR(www, v9), MarkOf(o2, www)} >>

\* This instance meets the conditions of the theorems about MultiZone.
ASSUME InstanceAssumption ==
  Zones = MCZones /\ InitialZones = MCInitialZones => Orderly /\ Exact /\ Unobstructed

\* The delegated zone is new: its records are still in the parent zone.
RezonedZones == << {RR(inSub, v9), Mark(inSub)}, {}, {} >>

\* One zone on two servers.
TwinZones == << <<"com", "example">>, <<"com", "example">> >>
TwinLabels == {Label(inParent, v1)}
NoRecords == << {}, {} >>

\* A zone whose own name is an ownership name: the companion of a record in the parent.
OwnerZones == << <<"com", "example">>, <<"com", "example", "sub", OwnerLabel>> >>
OwnerZoneLabels == {Label(apex, v1)}
=============================================================================
