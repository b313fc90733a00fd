------------------------------ MODULE Reconcile ------------------------------
(***************************************************************************)
(* Controller.reconcile over the DNS server: one or more daemons, each     *)
(* running fetch desired -> fetch current -> diff -> apply over and over   *)
(* against one shared zone, while containers come and go, operators edit   *)
(* the zone by hand, requests and replies are lost, an UPDATE that timed   *)
(* out reaches the server after newer ones, and daemons crash.             *)
(*                                                                         *)
(* A cycle is several steps because the world moves between them: the      *)
(* container list is read first, the zone transfer second, and the UPDATE  *)
(* computed from both takes effect at the server some time later.  The     *)
(* diff itself is local to the daemon and happens with the transfer.       *)
(* When the next cycle starts is the controller's loop (Controller.tla):   *)
(* here it may start at any time.                                          *)
(***************************************************************************)
EXTENDS RFC2136

CONSTANTS
  Daemon,        \* the running instances
  ownerID,       \* instance -> the owner ID it is configured with
  Labels,        \* instance -> the endpoints its containers' labels can ask for
  InitialZone,   \* what the zone holds before the first instance starts
  ManualRR,      \* the records an operator may add by hand
  RemovableRR,   \* the records an operator may take away
  DryRun,        \* the instances that run with --dry-run
  MaxEdits,      \* bound: changes of containers and edits by operators
  MaxFaults,     \* bound: failed, lost or late requests, and crashes
  MaxLate        \* bound: timed-out UPDATEs under way at once

\* Nobody but a daemon writes ownership records.
Unmarked(rr) == \A k \in DOMAIN rr.rdata : rr.rdata[k] \in LabelTarget

ASSUME OwnerAssumption == ownerID \in [Daemon -> OwnerID]
ASSUME LabelsAssumption ==
  /\ DOMAIN Labels = Daemon
  /\ \A d \in Daemon : \A ep \in Labels[d] : ep \in LabelEndpoint
ASSUME InitialZoneAssumption == \A rr \in InitialZone : rr \in ResourceRecord
ASSUME ManualAssumption == \A rr \in ManualRR : rr \in ResourceRecord /\ Unmarked(rr)
ASSUME CanonicalAssumption == \A rr \in InitialZone \cup ManualRR : rr.name.dot = FALSE
ASSUME DryRunAssumption == DryRun \subseteq Daemon
ASSUME BoundsAssumption == MaxEdits \in Nat /\ MaxFaults \in Nat /\ MaxLate \in Nat

VARIABLES
  zone,      \* the records the server holds
  manual,    \* history: the operator's records (see ManagedZone)
  claimed,   \* history: owner -> the names it has a claim to (see ManagedZone)
  want,      \* daemon -> the endpoints of its running containers
  pc,        \* daemon -> where its reconcile is
  desired,   \* daemon -> the endpoints this cycle works with
  msg,       \* daemon -> the UPDATE under way
  late,      \* UPDATEs nobody waits for any more and the server may still apply
  result,    \* daemon -> what its last cycle returned
  ready,     \* daemon -> IsReady
  calm,      \* history: daemon -> nothing else moved since its cycle began
  edits,     \* how many changes the environment has made
  faults     \* how many faults have happened

dvars == <<want, pc, desired, msg, result, ready>>
vars == <<zone, manual, claimed, want, pc, desired, msg, late, result, ready, calm,
          edits, faults>>

MZ == INSTANCE ManagedZone WITH zone <- zone, manual <- manual, claimed <- claimed

NoMessage == [remove |-> {}, replace |-> {}, create |-> {}]
LateUpdate == [owner : OwnerID, msg : Message]

-----------------------------------------------------------------------------
Init ==
  /\ zone = InitialZone
  /\ want \in [Daemon -> UNION {SUBSET Labels[d] : d \in Daemon}]
  /\ \A d \in Daemon : want[d] \subseteq Labels[d]
  /\ claimed = [id \in OwnerID |->
        OwnedNames(id, zone) \cup
        UNION {{Fqdn(ep.DNSName) : ep \in want[d]} : d \in {e \in Daemon : ownerID[e] = id}}]
  /\ manual = {rr \in zone : \A id \in OwnerID : /\ rr.name \notin OwnedNames(id, zone)
                                                 /\ ~OwnershipRR(id, rr)}
  /\ pc = [d \in Daemon |-> "idle"]
  /\ desired = [d \in Daemon |-> {}]
  /\ msg = [d \in Daemon |-> NoMessage]
  /\ late = {}
  /\ result = [d \in Daemon |-> "none"]
  /\ ready = [d \in Daemon |-> FALSE]
  /\ calm = [d \in Daemon |-> FALSE]
  /\ edits = 0
  /\ faults = 0

-----------------------------------------------------------------------------
(* One cycle of daemon d. *)

\* reconcile returns: nil makes the daemon ready, for good; an error does not
\* take readiness away.
Return(d, r) ==
  /\ pc' = [pc EXCEPT ![d] = "idle"]
  /\ desired' = [desired EXCEPT ![d] = {}]
  /\ msg' = [msg EXCEPT ![d] = NoMessage]
  /\ result' = [result EXCEPT ![d] = r]
  /\ ready' = [ready EXCEPT ![d] = @ \/ r = "ok"]

Fault == faults < MaxFaults /\ faults' = faults + 1

\* source.Endpoints succeeds.
FetchDesired(d) ==
  /\ pc[d] = "idle"
  /\ pc' = [pc EXCEPT ![d] = "listed"]
  /\ desired' = [desired EXCEPT ![d] = want[d]]
  /\ calm' = [calm EXCEPT ![d] = TRUE]
  /\ UNCHANGED <<zone, manual, claimed, want, msg, late, result, ready, edits, faults>>

\* source.Endpoints or provider.Records fails.
FetchFails(d) ==
  /\ pc[d] \in {"idle", "listed"}
  /\ Fault
  /\ Return(d, "error")
  /\ UNCHANGED <<zone, manual, claimed, want, late, calm, edits>>

\* What Calculate may return for a cycle of d that reads the zone now.
Plans(d) == Calculate(ownerID[d], desired[d], Records(zone))

\* provider.Records succeeds and there is nothing to do, or dry-run forbids it.
NothingToApply(d) ==
  /\ pc[d] = "listed"
  /\ \E changes \in Plans(d) : IsEmpty(changes) \/ d \in DryRun
  /\ Return(d, "ok")
  /\ UNCHANGED <<zone, manual, claimed, want, late, calm, edits, faults>>

\* Fault injection: dry-run does not stop ApplyChanges.
SendUpdate_InDryRun(d) ==
  /\ pc[d] = "listed"
  /\ \E changes \in Plans(d) :
       /\ ~IsEmpty(changes)
       /\ msg' = [msg EXCEPT ![d] = UpdateMessage(changes)]
  /\ pc' = [pc EXCEPT ![d] = "sent"]
  /\ UNCHANGED <<zone, manual, claimed, want, desired, late, result, ready, calm, edits, faults>>

\* provider.Records succeeds and ApplyChanges sends the UPDATE.
SendUpdate(d) ==
  /\ pc[d] = "listed"
  /\ d \notin DryRun
  /\ \E changes \in Plans(d) :
       /\ ~IsEmpty(changes)
       /\ msg' = [msg EXCEPT ![d] = UpdateMessage(changes)]
  /\ pc' = [pc EXCEPT ![d] = "sent"]
  /\ UNCHANGED <<zone, manual, claimed, want, desired, late, result, ready, calm, edits, faults>>

\* External: the server performs the UPDATE.
ServerApplies(d) ==
  /\ pc[d] = "sent"
  /\ Acceptable(msg[d])
  /\ zone' \in Process(zone, msg[d])
  /\ pc' = [pc EXCEPT ![d] = "applied"]
  /\ calm' = [e \in Daemon |-> calm[e] /\ e = d]
  /\ UNCHANGED <<manual, claimed, want, desired, msg, late, result, ready, edits, faults>>

\* ApplyChanges returns nil.
UpdateSucceeds(d) ==
  /\ pc[d] = "applied"
  /\ Return(d, "ok")
  /\ UNCHANGED <<zone, manual, claimed, want, late, calm, edits, faults>>

\* A reply that is not NOERROR: the server refuses a name outside its zone.
UpdateRefused(d) ==
  /\ pc[d] = "sent"
  /\ ~Acceptable(msg[d])
  /\ Return(d, "error")
  /\ UNCHANGED <<zone, manual, claimed, want, late, calm, edits, faults>>

\* The request never arrives, or the reply to an applied one is lost.
ExchangeFails(d) ==
  /\ pc[d] \in {"sent", "applied"}
  /\ Fault
  /\ Return(d, "error")
  /\ UNCHANGED <<zone, manual, claimed, want, late, calm, edits>>

\* The exchange times out with the request still on its way.
LeaveBehind(d) ==
  /\ pc[d] = "sent"
  /\ Acceptable(msg[d])
  /\ Cardinality(late) < MaxLate
  /\ late' = late \cup {[owner |-> ownerID[d], msg |-> msg[d]]}

ExchangeTimesOut(d) ==
  /\ LeaveBehind(d)
  /\ Fault
  /\ Return(d, "error")
  /\ UNCHANGED <<zone, manual, claimed, want, calm, edits>>

\* The process dies and is started again: it keeps nothing.
Crash(d) ==
  /\ Fault
  /\ pc[d] # "idle"
  /\ pc' = [pc EXCEPT ![d] = "idle"]
  /\ desired' = [desired EXCEPT ![d] = {}]
  /\ msg' = [msg EXCEPT ![d] = NoMessage]
  /\ result' = [result EXCEPT ![d] = "none"]
  /\ ready' = [ready EXCEPT ![d] = FALSE]
  /\ \/ UNCHANGED late
     \/ LeaveBehind(d)
  /\ UNCHANGED <<zone, manual, claimed, want, calm, edits>>

-----------------------------------------------------------------------------
(* The environment. *)

Edit == edits < MaxEdits /\ edits' = edits + 1
Disturbed == [e \in Daemon |-> FALSE]

\* External: the server performs an UPDATE whose sender has given up on it.
LateApply(u) ==
  /\ zone' \in Process(zone, u.msg)
  /\ late' = late \ {u}
  /\ calm' = Disturbed
  /\ UNCHANGED <<dvars, manual, claimed, edits, faults>>

\* External: a container with this label starts; the last one stops.
ContainerStart(d, ep) ==
  /\ Edit
  /\ ep \notin want[d]
  /\ want' = [want EXCEPT ![d] = @ \cup {ep}]
  /\ claimed' = [claimed EXCEPT ![ownerID[d]] = @ \cup {Fqdn(ep.DNSName)}]
  /\ calm' = [calm EXCEPT ![d] = FALSE]
  /\ UNCHANGED <<zone, manual, pc, desired, msg, late, result, ready, faults>>

ContainerStop(d, ep) ==
  /\ Edit
  /\ want' = [want EXCEPT ![d] = @ \ {ep}]
  /\ calm' = [calm EXCEPT ![d] = FALSE]
  /\ UNCHANGED <<zone, manual, claimed, pc, desired, msg, late, result, ready, faults>>

\* External: an operator adds a record that the server accepts as new.
OperatorAdd(rr) ==
  /\ Edit
  /\ ~\E z \in zone : Conflicts(rr, z) \/ Replaces(rr, z)
  /\ zone' = zone \cup {rr}
  /\ manual' = manual \cup {rr}
  /\ calm' = Disturbed
  /\ UNCHANGED <<dvars, claimed, late, faults>>

\* External: an operator takes a record away.  Who removes an ownership record
\* releases the name, and answers for the records that remain there.
OperatorRemove(rr) ==
  /\ Edit
  /\ zone' = zone \ {rr}
  /\ manual' = (manual \ {rr}) \cup
               {z \in zone' : /\ HasOwnerPrefix(rr.name)
                              /\ z.name = ManagedName(rr.name)}
  /\ calm' = Disturbed
  /\ UNCHANGED <<dvars, claimed, late, faults>>

-----------------------------------------------------------------------------
Cycle(d) ==
  \/ FetchDesired(d)
  \/ NothingToApply(d)
  \/ SendUpdate(d)
  \/ ServerApplies(d)
  \/ UpdateSucceeds(d)
  \/ UpdateRefused(d)

Failure(d) ==
  \/ FetchFails(d)
  \/ ExchangeFails(d)
  \/ ExchangeTimesOut(d)
  \/ Crash(d)

Environment ==
  \/ \E u \in late : LateApply(u)
  \/ \E d \in Daemon : \E ep \in Labels[d] : ContainerStart(d, ep)
  \/ \E d \in Daemon : \E ep \in want[d] : ContainerStop(d, ep)
  \/ \E rr \in ManualRR : OperatorAdd(rr)
  \/ \E rr \in zone \cap RemovableRR : OperatorRemove(rr)

Next == Environment \/ \E d \in Daemon : Cycle(d) \/ Failure(d)

Spec == Init /\ [][Next]_vars

\* The controller starts a cycle again and again (a timer is always pending),
\* every call of a cycle returns (AXFR and UPDATE have timeouts; the container
\* list has none, and Docker is assumed to answer), and only finitely many
\* requests fail.  An UPDATE left behind need not arrive, and a dry-run instance
\* need not run.
Fairness == \A d \in Daemon \ DryRun : WF_vars(Cycle(d))
FairSpec == Spec /\ Fairness
-----------------------------------------------------------------------------
(* Properties. *)

\* Every variable has the type its comment gives it.
TypeOK ==
  /\ zone \in SUBSET ResourceRecord
  /\ manual \in SUBSET ResourceRecord
  /\ claimed \in [OwnerID -> SUBSET Name]
  /\ want \in [Daemon -> SUBSET LabelEndpoint]
  /\ pc \in [Daemon -> {"idle", "listed", "sent", "applied"}]
  /\ desired \in [Daemon -> SUBSET LabelEndpoint]
  /\ msg \in [Daemon -> Message]
  /\ late \in SUBSET LateUpdate
  /\ result \in [Daemon -> {"none", "ok", "error"}]
  /\ ready \in [Daemon -> BOOLEAN]
  /\ calm \in [Daemon -> BOOLEAN]
  /\ edits \in Nat
  /\ faults \in Nat

\* The zone, as the daemons and the operators together change it, behaves as
\* ManagedZone says: whatever is lost, late or stale, an UPDATE computed by
\* Calculate changes records only at names its owner has a claim to (or their
\* ownership names) and leaves the other owners' marks alone.
ImplementsManagedZone == MZ!Spec

\* A record that an operator added stays as long as no container of any daemon
\* ever asked for its name (README: "Manually-created records are left
\* untouched", in the part that the ownership check of Calculate guarantees).
UnclaimedUntouched ==
  \A rr \in manual :
    (\A id \in OwnerID : rr.name \notin Touchable(claimed[id])) => rr \in zone

\* What README.md promises in full: no daemon ever removes an operator's record.
ManualUntouched == manual \subseteq zone

\* A record some daemon wrote stays under management: while it exists, so does
\* an ownership TXT record for its name, or no cycle would ever update or
\* delete it again.
NoOrphans ==
  \A rr \in zone \ manual :
    \/ \E id \in OwnerID : OwnershipRR(id, rr)
    \/ \E id \in OwnerID : rr.name \in OwnedNames(id, zone)

\* README.md: "Only records with a matching ownership TXT record are ever modified or
\* deleted."  The match is that of the transfer the UPDATE was computed from: what it
\* takes away must still be its owner's when the server performs it.
TakesOnlyOwned(id) ==
  \A rr \in zone \ zone' : rr.name \in OwnedNames(id, zone) \/ OwnershipRR(id, rr)

OnlyOwnedChanged ==
  [][/\ \A d \in Daemon : pc[d] = "sent" /\ pc'[d] = "applied" => TakesOnlyOwned(ownerID[d])
     /\ \A u \in late \ late' : TakesOnlyOwned(u.owner)]_vars

\* What NoOrphans needs, because ownership is recorded per name and an UPDATE has no
\* prerequisites: one daemon that writes, and no UPDATE that comes late; nobody
\* takes ownership records away; labels have no ownership prefix, no trailing dot,
\* and one record type per name; a name that may be managed has at first no more
\* than one record, of that type and spelt as the provider spells it, and operators
\* add to it only what the provider does not see.
WriterLabels == UNION {Labels[d] : d \in Daemon \ DryRun}
ManageableNames ==
  {Fqdn(ep.DNSName) : ep \in WriterLabels} \cup UNION {OwnedNames(id, InitialZone) : id \in OwnerID}

Orderly ==
  /\ MaxLate = 0
  /\ \A d, e \in Daemon \ DryRun : d = e
  /\ \A rr \in RemovableRR : \A id \in OwnerID : ~OwnershipRR(id, rr)
  /\ \A n \in ManageableNames : ~HasOwnerPrefix(n)
  /\ \A ep \in WriterLabels : ep.DNSName.dot = FALSE
  /\ \A a, b \in WriterLabels : a.DNSName = b.DNSName => a.RecordType = b.RecordType
  /\ \A rr \in InitialZone : rr.name \in ManageableNames =>
       /\ \A z \in InitialZone : z.name = rr.name => z = rr
       /\ \A ep \in WriterLabels : ep.DNSName = rr.name => ep.RecordType = rr.type
       /\ \E r \in endpointToRRs(rrToEndpoint(rr)) : SameRecord(r, rr)
  /\ \A rr \in ManualRR : rr.name \in ManageableNames => rr.type \notin SupportedType
  /\ \A rr \in InitialZone \cup ManualRR : HasOwnerPrefix(rr.name) => rr.type # RecordTypeCNAME

\* What SuccessMeansInSync needs besides: a label is written as one record that reads
\* back as the label (no TTL below the floor, no target that is respelt or refused),
\* and no record at a name that may be managed has TTL 0, which reads as the default.
Exact ==
  /\ \A ep \in WriterLabels : \E rr \in endpointToRRs(ep) : rrToEndpoint(rr) = ep /\ rr.ttl # 0
  /\ \A rr \in InitialZone : rr.name \in ManageableNames => rr.ttl # 0

\* What NoNeedlessUpdate needs besides: where a label asks for a CNAME there is never
\* a record of a type that the provider does not see, or the CNAME is sent for ever.
Unobstructed ==
  \A ep \in WriterLabels : ep.RecordType = RecordTypeCNAME =>
    \A rr \in InitialZone \cup ManualRR : rr.name = Fqdn(ep.DNSName) => rr.type \in SupportedType

\* Somebody else holds the place that endpoint ep of daemon d would take.
Blocked(d, ep) ==
  \E z \in zone :
    /\ z.name = Fqdn(ep.DNSName)
    /\ z.type = ep.RecordType \/ Conflicts([name |-> z.name, type |-> ep.RecordType], z)
    /\ z \in manual \/ \E id \in OwnerID \ {ownerID[d]} : z.name \in OwnedNames(id, zone)

\* The zone is what the containers of daemon d ask for: one endpoint of every
\* key is served exactly, unless somebody else holds its place, and nothing is
\* left at a name that d owns and no container asks for.
InSync(d) ==
  /\ \A ep \in want[d] :
       \/ \E e \in want[d] : epKey(e) = epKey(ep) /\ endpointToRRs(e) \subseteq zone
       \/ Blocked(d, ep)
  /\ \A rr \in zone :
       rr.type \in SupportedType /\ rr.name \in OwnedNames(ownerID[d], zone) =>
         \E ep \in want[d] : Fqdn(ep.DNSName) = rr.name /\ ep.RecordType = rr.type

\* One cycle that returns nil while nothing else moved has brought the zone in
\* sync: no second cycle is needed, and success is never reported for less.
SuccessMeansInSync ==
  \A d \in Daemon \ DryRun : pc[d] = "idle" /\ result[d] = "ok" /\ calm[d] => InSync(d)

\* openspec provider: after ApplyChanges with "a non-empty `Create` list" the "new
\* DNS records appear in the zone": a successful cycle leaves no endpoint of a
\* container without a record, unless somebody else holds its place.
CreatesAppear ==
  \A d \in Daemon \ DryRun : pc[d] = "idle" /\ result[d] = "ok" /\ calm[d] =>
    \A ep \in want[d] :
      \/ \E rr \in zone : rr.name = Fqdn(ep.DNSName) /\ rr.type = ep.RecordType
      \/ Blocked(d, ep)

\* plan.go promises "the minimal set of Changes needed to converge the DNS
\* state": an UPDATE is only sent when it would change the zone just read.
NoNeedlessUpdate ==
  [][\A d \in Daemon : SendUpdate(d) => Process(zone, msg'[d]) # {zone}]_vars

\* A container asks for a name outside the zone, and every UPDATE is refused.
Poisoned(d) == \E ep \in want[d] : ep.DNSName.host \notin ZoneHost

\* Once containers and operators rest and requests stop failing, the zone comes
\* in sync and stays so, unless a container that asks for a name outside the
\* zone keeps running; whatever was refused because of it is made good later.
Converges == \A d \in Daemon \ DryRun : <>[](InSync(d) \/ Poisoned(d))

\* Two containers ask for the same name and type: which one is served may
\* change with the order in which Docker lists them.
Contested(d) == \E a, b \in want[d] : a # b /\ epKey(a) = epKey(b)

\* ... and the daemon falls silent: no UPDATE is sent any more, unless its
\* containers contradict each other or one of them has every UPDATE refused.
Quiesces == \A d \in Daemon : <>[](pc[d] # "sent" \/ Contested(d) \/ Poisoned(d))
=============================================================================
