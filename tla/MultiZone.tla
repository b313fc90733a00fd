----------------------------- MODULE MultiZone -----------------------------
(***************************************************************************)
(* pkg/provider/rfc2136/multizone.go: one daemon over several zones, each  *)
(* with a server of its own.  Records transfers all zones in parallel and  *)
(* merges them; ApplyChanges splits one set of changes by the longest      *)
(* matching zone and sends one UPDATE per zone, in configuration order,    *)
(* until one fails.  There is no transaction over the zones: a cycle may   *)
(* end, or the process die, with some zones updated and others not.        *)
(*                                                                         *)
(* A host name is the sequence of its labels, top-level label first, so a  *)
(* name lies in a zone when the zone is a prefix of it.  The code compares *)
(* byte lengths; of two zones that one name lies in, the longer one is the *)
(* one with more labels.  All zones have the same minimum TTL.             *)
(***************************************************************************)
EXTENDS RFC2136

CONSTANTS
  ownerID,       \* the owner ID of the daemon
  LabelsOf,      \* host -> its labels
  OwnerLabel,    \* the label that ownerPrefix puts in front of a name
  Zones,         \* the configured zones, in order, each the sequence of its labels
  Labels,        \* the endpoints that containers' labels can ask for
  InitialZones,  \* what the zones hold before the daemon starts: records of its
                 \* earlier life, of other owners and of nobody
  MaxEdits,      \* bound: changes of containers
  MaxFaults      \* bound: failed requests and crashes

Entry == DOMAIN Zones

ASSUME OwnerAssumption == ownerID \in OwnerID
ASSUME ZonesAssumption == Zones \in Seq(Seq(STRING)) /\ OwnerLabel \in STRING
ASSUME LabelsOfAssumption == LabelsOf \in [Host -> Seq(STRING)]
ASSUME LabelsAssumption == \A ep \in Labels : ep \in LabelEndpoint
ASSUME InitialZonesAssumption == InitialZones \in [Entry -> SUBSET ResourceRecord]
ASSUME CanonicalAssumption == \A i \in Entry : \A rr \in InitialZones[i] : rr.name.dot = FALSE
ASSUME BoundsAssumption == MaxEdits \in Nat /\ MaxFaults \in Nat

VARIABLES
  zones,     \* entry -> the records its server holds
  refusing,  \* the entries whose server refuses every UPDATE (no allow-update)
  want,      \* the endpoints of the running containers
  pc,        \* "idle", "transfer" (in Records) or "apply" (in ApplyChanges)
  desired,   \* the endpoints this cycle works with
  waiting,   \* the entries whose transfer has not returned
  failed,    \* a transfer of this cycle returned an error
  current,   \* the merged endpoints of the transfers that returned
  todo,      \* the entries with changes whose provider has not been called
  pending,   \* entry -> the UPDATE with its changes
  result,    \* what the last cycle returned
  calm,      \* history: no container changed since the cycle began
  claimed,   \* history: the names that containers asked for or that were marked before
  edits,     \* how many changes the environment has made
  faults     \* how many faults have happened

cvars == <<pc, desired, waiting, failed, current, todo, pending, result>>
evars == <<want, claimed>>
vars == <<zones, refusing, evars, cvars, calm, edits, faults>>

NoMessage == [remove |-> {}, replace |-> {}, create |-> {}]

-----------------------------------------------------------------------------
(* Routing. *)

FullName(n) == LabelsOf[n.host] \o [k \in 1 .. n.owner |-> OwnerLabel]

\* The test of zoneFor, for a name that is not empty; the root zone never passes.
Below(n, zone) ==
  /\ zone # <<>>
  /\ Len(zone) <= Len(FullName(n))
  /\ SubSeq(FullName(n), 1, Len(zone)) = zone

\* Fault injection: the first zone that matches is taken.
zoneFor_First(n) ==
  LET best[k \in 0 .. Len(Zones)] ==
        IF k = 0 THEN 0
        ELSE IF Below(n, Zones[k]) /\ best[k - 1] = 0 THEN k ELSE best[k - 1]
  IN  best[Len(Zones)]

\* The loop of zoneFor: the entry it returns, or 0 for none.
zoneFor(n) ==
  LET best[k \in 0 .. Len(Zones)] ==
        IF k = 0 THEN 0
        ELSE IF /\ Below(n, Zones[k])
                /\ best[k - 1] = 0 \/ Len(Zones[k]) > Len(Zones[best[k - 1]])
             THEN k
             ELSE best[k - 1]
  IN  best[Len(Zones)]

\* byZone is keyed by the zone's name: two entries of one zone share their changes.
Routed(n, i) == zoneFor(n) # 0 /\ Zones[zoneFor(n)] = Zones[i]

\* The part of the changes that entry i receives; what no zone matches is left out.
ChangesFor(i, changes) ==
  [ Create |-> {ep \in changes.Create : Routed(ep.DNSName, i)},
    Update |-> {p \in changes.Update : Routed(p.old.DNSName, i)},
    Delete |-> {ep \in changes.Delete : Routed(ep.DNSName, i)} ]

\* External: the server of entry i answers NOERROR.
Accepts(i, m) ==
  /\ i \notin refusing
  /\ \A rr \in m.remove \cup m.replace \cup m.create : Below(rr.name, Zones[i])

-----------------------------------------------------------------------------
Init ==
  /\ zones = InitialZones
  /\ refusing \in SUBSET Entry
  /\ want \in SUBSET Labels
  /\ pc = "idle"
  /\ desired = {}
  /\ waiting = {}
  /\ failed = FALSE
  /\ current = {}
  /\ todo = {}
  /\ pending = [i \in Entry |-> NoMessage]
  /\ result = "none"
  /\ calm = FALSE
  /\ claimed = {Fqdn(ep.DNSName) : ep \in want} \cup
               UNION {OwnedNames(ownerID, InitialZones[i]) : i \in Entry}
  /\ edits = 0
  /\ faults = 0

-----------------------------------------------------------------------------
(* One cycle. *)

Return(r) ==
  /\ pc' = "idle"
  /\ desired' = {}
  /\ waiting' = {}
  /\ failed' = FALSE
  /\ current' = {}
  /\ todo' = {}
  /\ pending' = [i \in Entry |-> NoMessage]
  /\ result' = r

Fault == faults < MaxFaults /\ faults' = faults + 1

\* Fault injection: the error of an earlier cycle is kept and returned again.
FetchDesired_StickyError ==
  /\ pc = "idle"
  /\ IF result = "error"
     THEN Return("error") /\ UNCHANGED calm
     ELSE /\ pc' = "transfer"
          /\ desired' = want
          /\ waiting' = Entry
          /\ calm' = TRUE
          /\ UNCHANGED <<failed, current, todo, pending, result>>
  /\ UNCHANGED <<zones, refusing, evars, edits, faults>>

\* source.Endpoints succeeds, and Records starts one goroutine per zone.
FetchDesired ==
  /\ pc = "idle"
  /\ pc' = "transfer"
  /\ desired' = want
  /\ waiting' = Entry
  /\ calm' = TRUE
  /\ UNCHANGED <<zones, refusing, evars, failed, current, todo, pending, result, edits, faults>>

FetchFails ==
  /\ pc = "idle"
  /\ Fault
  /\ Return("error")
  /\ UNCHANGED <<zones, refusing, evars, calm, edits>>

\* One goroutine: Records of one zone's provider.
Transfer(i) ==
  /\ i \in waiting
  /\ waiting' = waiting \ {i}
  /\ current' = current \cup Records(zones[i])
  /\ UNCHANGED <<zones, refusing, evars, pc, desired, failed, todo, pending, result, calm, edits,
                 faults>>

TransferFails(i) ==
  /\ i \in waiting
  /\ Fault
  /\ waiting' = waiting \ {i}
  /\ failed' = TRUE
  /\ UNCHANGED <<zones, refusing, evars, pc, desired, current, todo, pending, result, calm, edits>>

\* wg.Wait returns: one zone's error is the error of all.
RecordsFails ==
  /\ pc = "transfer"
  /\ waiting = {}
  /\ failed
  /\ Return("error")
  /\ UNCHANGED <<zones, refusing, evars, calm, edits, faults>>

Plans == Calculate(ownerID, desired, current)

NothingToApply ==
  /\ pc = "transfer"
  /\ waiting = {}
  /\ ~failed
  /\ \E changes \in Plans : IsEmpty(changes)
  /\ Return("ok")
  /\ UNCHANGED <<zones, refusing, evars, calm, edits, faults>>

\* ApplyChanges splits the changes; zones without changes are not called.
Split ==
  /\ pc = "transfer"
  /\ waiting = {}
  /\ ~failed
  /\ \E changes \in Plans :
       /\ ~IsEmpty(changes)
       /\ todo' = {i \in Entry : ~IsEmpty(ChangesFor(i, changes))}
       /\ pending' = [i \in Entry |-> UpdateMessage(ChangesFor(i, changes))]
  /\ pc' = "apply"
  /\ UNCHANGED <<zones, refusing, evars, desired, waiting, failed, current, result, calm, edits,
                 faults>>

\* The entry whose turn it is.
Turn(i) == pc = "apply" /\ i \in todo /\ \A j \in todo : i <= j

\* The provider of entry i sends its UPDATE, and the reply is NOERROR.
Apply(i) ==
  /\ Turn(i)
  /\ Accepts(i, pending[i])
  /\ \E z \in Process(zones[i], pending[i]) : zones' = [zones EXCEPT ![i] = z]
  /\ todo' = todo \ {i}
  /\ UNCHANGED <<refusing, evars, pc, desired, waiting, failed, current, pending, result, calm,
                 edits, faults>>

\* Fault injection: a refused UPDATE is logged and the loop goes on.
ApplyRefused_Swallowed(i) ==
  /\ Turn(i)
  /\ ~Accepts(i, pending[i])
  /\ todo' = todo \ {i}
  /\ UNCHANGED <<zones, refusing, evars, pc, desired, waiting, failed, current, pending, result,
                 calm, edits, faults>>

\* ... or an error, which ends ApplyChanges before the zones after it.
ApplyRefused(i) ==
  /\ Turn(i)
  /\ ~Accepts(i, pending[i])
  /\ Return("error")
  /\ UNCHANGED <<zones, refusing, evars, calm, edits, faults>>

\* The request or the reply to an applied one is lost.
ApplyFails(i) ==
  /\ Turn(i)
  /\ Fault
  /\ \/ UNCHANGED zones
     \/ /\ Accepts(i, pending[i])
        /\ \E z \in Process(zones[i], pending[i]) : zones' = [zones EXCEPT ![i] = z]
  /\ Return("error")
  /\ UNCHANGED <<refusing, evars, calm, edits>>

ApplyReturns ==
  /\ pc = "apply"
  /\ todo = {}
  /\ Return("ok")
  /\ UNCHANGED <<zones, refusing, evars, calm, edits, faults>>

\* The process dies and is started again.
Crash ==
  /\ Fault
  /\ pc # "idle"
  /\ Return("none")
  /\ UNCHANGED <<zones, refusing, evars, calm, edits>>

-----------------------------------------------------------------------------
(* The environment. *)

Edit == edits < MaxEdits /\ edits' = edits + 1

\* External: a container with this label starts; the last one stops.
ContainerStart(ep) ==
  /\ Edit
  /\ ep \notin want
  /\ want' = want \cup {ep}
  /\ claimed' = claimed \cup {Fqdn(ep.DNSName)}
  /\ calm' = FALSE
  /\ UNCHANGED <<cvars, zones, refusing, faults>>

ContainerStop(ep) ==
  /\ Edit
  /\ want' = want \ {ep}
  /\ calm' = FALSE
  /\ UNCHANGED <<cvars, claimed, zones, refusing, faults>>

-----------------------------------------------------------------------------
Cycle ==
  \/ FetchDesired
  \/ \E i \in Entry : Transfer(i)
  \/ RecordsFails
  \/ NothingToApply
  \/ Split
  \/ \E i \in Entry : Apply(i) \/ ApplyRefused(i)
  \/ ApplyReturns

Failure ==
  \/ FetchFails
  \/ \E i \in Entry : TransferFails(i) \/ ApplyFails(i)
  \/ Crash

Environment ==
  \/ \E ep \in Labels : ContainerStart(ep)
  \/ \E ep \in want : ContainerStop(ep)

Next == Cycle \/ Failure \/ Environment

Spec == Init /\ [][Next]_vars

\* As in Reconcile: cycles start again and again and every call returns.
Fairness == WF_vars(Cycle)
FairSpec == Spec /\ Fairness

-----------------------------------------------------------------------------
(* Properties. *)

\* Every variable has the type its comment gives it.
TypeOK ==
  /\ zones \in [Entry -> SUBSET ResourceRecord]
  /\ refusing \in SUBSET Entry
  /\ want \in SUBSET LabelEndpoint
  /\ pc \in {"idle", "transfer", "apply"}
  /\ desired \in SUBSET LabelEndpoint
  /\ waiting \in SUBSET Entry
  /\ failed \in BOOLEAN
  /\ current \in SUBSET EndpointRecord
  /\ todo \in SUBSET Entry
  /\ pending \in [Entry -> Message]
  /\ result \in {"none", "ok", "error"}
  /\ calm \in BOOLEAN
  /\ claimed \in SUBSET Name
  /\ edits \in Nat
  /\ faults \in Nat

\* The zone that resolvers are referred to for a name: it is served by entry i
\* when the name lies in the zone of i and in no configured zone below it.
ServedBy(n, i) ==
  /\ Below(n, Zones[i])
  /\ \A j \in Entry : Below(n, Zones[j]) => Len(Zones[j]) <= Len(Zones[i])

\* README.md, "Zone routing": whatever the daemon wrote, companions included, it
\* wrote where resolvers look for it, never into a parent zone that delegates
\* the name; a record with its mark in another zone could not be deleted.
AtHome ==
  \A i \in Entry : \A rr \in zones[i] \ InitialZones[i] : ServedBy(rr.name, i)

\* README.md, "Ownership": the daemon keeps the promise of ManagedZone in every
\* zone that it manages, whatever part of a cycle fails.  The other owners have
\* the names that they marked before.
Claims ==
  [id \in OwnerID |-> IF id = ownerID THEN claimed
                      ELSE UNION {OwnedNames(id, InitialZones[j]) : j \in Entry}]
MZ(i) == INSTANCE ManagedZone WITH zone <- zones[i], manual <- {}, claimed <- Claims
ImplementsManagedZone ==
  /\ \A i \in Entry : MZ(i)!Init
  /\ [][\A i \in Entry : [MZ(i)!Next]_(MZ(i)!zvars)]_vars

\* A record and its ownership TXT record arrive together in one zone: no failure,
\* crash or order of the per-zone UPDATEs leaves one without the other.
CompanionBeside ==
  \A i \in Entry : \A rr \in zones[i] \ InitialZones[i] :
    OwnershipRR(ownerID, rr) \/ rr.name \in OwnedNames(ownerID, zones[i])

\* What CompanionBeside needs, because a record and its companion are routed by their
\* own names and ownership is recorded per name: the zones differ, and none begins
\* with the ownership label; labels have no ownership prefix, no trailing dot, and one
\* record type per name; what the provider sees at a name that may be managed is, at
\* first, in the zone that serves the name, the only record there, of that type and
\* spelt as the provider spells it, and the daemon's marks are where they are served.
ManageableNames ==
  {Fqdn(ep.DNSName) : ep \in Labels} \cup UNION {OwnedNames(ownerID, InitialZones[i]) : i \in Entry}

Orderly ==
  /\ \A i, j \in Entry : Zones[i] = Zones[j] => i = j
  /\ \A i \in Entry : Zones[i] # <<>> => Zones[i][Len(Zones[i])] # OwnerLabel
  /\ \A n \in ManageableNames : ~HasOwnerPrefix(n)
  /\ \A ep \in Labels : ep.DNSName.dot = FALSE
  /\ \A a, b \in Labels : a.DNSName = b.DNSName => a.RecordType = b.RecordType
  /\ \A i \in Entry : \A rr \in InitialZones[i] :
       /\ OwnershipRR(ownerID, rr) => ServedBy(rr.name, i)
       /\ HasOwnerPrefix(rr.name) => rr.type # RecordTypeCNAME
       /\ rr.name \in ManageableNames /\ rr.type \in SupportedType =>
            /\ ServedBy(rr.name, i)
            /\ \A z \in InitialZones[i] : z.name = rr.name /\ z.type \in SupportedType => z = rr
            /\ \A ep \in Labels : ep.DNSName = rr.name => ep.RecordType = rr.type
            /\ \E r \in endpointToRRs(rrToEndpoint(rr)) : SameRecord(r, rr)

\* What SuccessMeansInSync needs besides: as in Reconcile, a label is written as one
\* record that reads back as the label, and no record that may be managed has TTL 0 ...
Exact ==
  /\ \A ep \in Labels : \E rr \in endpointToRRs(ep) : rrToEndpoint(rr) = ep /\ rr.ttl # 0
  /\ \A i \in Entry : \A rr \in InitialZones[i] :
       rr.name \in ManageableNames /\ rr.type \in SupportedType => rr.ttl # 0

\* ... and nobody else holds the place of a label: what the provider sees there is
\* the daemon's, and where a CNAME is asked for there is nothing that it does not see.
Unobstructed ==
  \A i \in Entry : \A rr \in InitialZones[i] : \A ep \in Labels : rr.name = Fqdn(ep.DNSName) =>
    /\ rr.type \in SupportedType => rr.name \in OwnedNames(ownerID, InitialZones[i])
    /\ ep.RecordType = RecordTypeCNAME => rr.type \in SupportedType

\* Entry i serves what the containers ask of it and nothing they gave up.
InSync(i) ==
  /\ \A ep \in want :
       ServedBy(ep.DNSName, i) =>
         \E e \in want : epKey(e) = epKey(ep) /\ endpointToRRs(e) \subseteq zones[i]
  /\ \A rr \in zones[i] :
       rr.type \in SupportedType /\ rr.name \in OwnedNames(ownerID, zones[i]) =>
         \E ep \in want : Fqdn(ep.DNSName) = rr.name /\ ep.RecordType = rr.type

\* ApplyChanges returns nil only when every zone has taken its part: a cycle
\* that succeeds while no container changed has brought all zones in sync, and a
\* partial failure is never reported as success.
SuccessMeansInSync == pc = "idle" /\ result = "ok" /\ calm => \A i \in Entry : InSync(i)

\* Once containers rest and requests stop failing, a zone comes in sync and
\* stays so, unless its server, or one before it in configuration order, refuses
\* all UPDATEs; a name outside all zones holds nobody up.
Converges == \A i \in Entry : <>[](InSync(i) \/ \E j \in 1 .. i : j \in refusing)
=============================================================================
