-------------------------------- MODULE Plan --------------------------------
(***************************************************************************)
(* pkg/plan: the pure diff of desired against current endpoints, and the   *)
(* ownership rule it enforces.                                             *)
(*                                                                         *)
(* The code's endpoint lists arrive in an order nobody fixes (Docker's     *)
(* listing, a map of labels, the answer of a zone transfer) and are folded *)
(* into a map in which the last endpoint of a key wins.  Here a list is    *)
(* the set of its endpoints, and an index is any subset of it with exactly *)
(* one endpoint per key.                                                   *)
(***************************************************************************)
EXTENDS Endpoint, FiniteSets

\* The TTL that ownership TXT records are written with.
ownershipTTL == DefaultTTL

\* The TXT value that marks a name as managed by owner id.
ownershipValue(id) == [kind |-> "owner", val |-> id, canonical |-> TRUE]

\* Fault injection: the prefix is trimmed where it should be added.
ownershipName_Trimmed(dnsName) == [dnsName EXCEPT !.owner = @ - 1]
ownershipName(dnsName) == [dnsName EXCEPT !.owner = @ + 1]
ManagedName(txtName) == [txtName EXCEPT !.owner = @ - 1]
HasOwnerPrefix(dnsName) == dnsName.owner > 0

ownershipTXTFor(id, dnsName) ==
  New(ownershipName(dnsName), <<ownershipValue(id)>>, RecordTypeTXT, ownershipTTL)

\* Fault injection: any owner's value counts.
buildOwnedSet_AnyOwner(id, current) ==
  {ManagedName(ep.DNSName) :
     ep \in {e \in current : e.RecordType = RecordTypeTXT /\ HasOwnerPrefix(e.DNSName)}}

\* The names whose ownership TXT record carries this owner's value, whatever
\* else the record carries.
buildOwnedSet(id, current) ==
  LET Marks(ep) == /\ ep.RecordType = RecordTypeTXT
                   /\ HasOwnerPrefix(ep.DNSName)
                   /\ \E k \in DOMAIN ep.Targets : ep.Targets[k] = ownershipValue(id)
  IN  {ManagedName(ep.DNSName) : ep \in {e \in current : Marks(e)}}

filterOwnershipTXTs(eps) ==
  {ep \in eps : ~(ep.RecordType = RecordTypeTXT /\ HasOwnerPrefix(ep.DNSName))}

epKey(ep) == <<ep.DNSName, ep.RecordType>>
Keys(eps) == {epKey(ep) : ep \in eps}

\* Every index the code may end up with.
indexEndpoints(eps) ==
  {idx \in SUBSET eps :
     /\ \A ep \in eps : epKey(ep) \in Keys(idx)
     /\ \A a, b \in idx : epKey(a) = epKey(b) => a = b}

\* Fault injection: only the TTL is compared.
endpointsEqual_TTLOnly(a, b) == a.TTL = b.TTL

\* Equal TTLs, and targets equal as multisets (the code compares sorted copies).
endpointsEqual(a, b) ==
  LET Count(ep, t) == Cardinality({k \in DOMAIN ep.Targets : ep.Targets[k] = t})
      TargetsOf(ep) == {ep.Targets[k] : k \in DOMAIN ep.Targets}
  IN  /\ a.TTL = b.TTL
      /\ \A t \in TargetsOf(a) \cup TargetsOf(b) : Count(a, t) = Count(b, t)

-----------------------------------------------------------------------------
\* Fault injection: the record comes without its companion.
CreateChanges_Alone(id, desiredIdx, currentIdx) ==
  {want \in desiredIdx : epKey(want) \notin Keys(currentIdx)}

\* A new record and its companion.
CreateChanges(id, desiredIdx, currentIdx) ==
  LET fresh == {want \in desiredIdx : epKey(want) \notin Keys(currentIdx)}
  IN  fresh \cup {ownershipTXTFor(id, want.DNSName) : want \in fresh}

\* Fault injection: records that have not changed are updated too.
UpdateChanges_Always(desiredIdx, currentIdx, owned) ==
  {p \in [old : currentIdx, new : desiredIdx] :
     epKey(p.old) = epKey(p.new) /\ p.new.DNSName \in owned}

\* An owned record whose targets or TTL changed: the code's parallel slices
\* UpdateOld and UpdateNew as pairs.
UpdateChanges(desiredIdx, currentIdx, owned) ==
  {p \in [old : currentIdx, new : desiredIdx] :
     /\ epKey(p.old) = epKey(p.new)
     /\ p.new.DNSName \in owned
     /\ ~endpointsEqual(p.old, p.new)}

\* Fault injection: whatever is not desired goes, owned or not.
DeleteChanges_Unowned(id, desiredIdx, currentIdx, owned) ==
  LET stale == {have \in currentIdx : epKey(have) \notin Keys(desiredIdx)}
  IN  stale \cup {ownershipTXTFor(id, have.DNSName) : have \in stale}

\* An owned record that is no longer desired, and its companion.
DeleteChanges(id, desiredIdx, currentIdx, owned) ==
  LET stale == {have \in currentIdx : /\ epKey(have) \notin Keys(desiredIdx)
                                      /\ have.DNSName \in owned}
  IN  stale \cup {ownershipTXTFor(id, have.DNSName) : have \in stale}

\* Every result Calculate may return, one per pair of indexes.
Calculate(id, desired, current) ==
  LET owned == buildOwnedSet(id, current)
  IN  {[ Create |-> CreateChanges(id, d, c),
         Update |-> UpdateChanges(d, c, owned),
         Delete |-> DeleteChanges(id, d, c, owned) ] :
         d \in indexEndpoints(desired),
         c \in indexEndpoints(filterOwnershipTXTs(current))}

IsEmpty(changes) ==
  changes.Create = {} /\ changes.Update = {} /\ changes.Delete = {}
=============================================================================
