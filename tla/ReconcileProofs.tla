-------------------------- MODULE ReconcileProofs --------------------------
(***************************************************************************)
(* Proofs about Reconcile.tla: for every set of daemons, labels and zone   *)
(* contents, and with every fault and late UPDATE of the model, the        *)
(* daemons together implement ManagedZone.                                 *)
(***************************************************************************)
EXTENDS Reconcile, RFC2136Proofs, FiniteSetTheorems

\* Data from labels mark nothing.
LEMMA UnmarkedIsNoMark ==
  ASSUME NEW rr, Unmarked(rr), NEW id \in OwnerID
  PROVE  ~OwnershipRR(id, rr)
<1>1. ownershipValue(id) \notin LabelTarget
  BY DEF ownershipValue, LabelTarget
<1> QED
  BY <1>1 DEF Unmarked, OwnershipRR

-----------------------------------------------------------------------------
(* The inductive invariant. *)

\* Names in the zone are complete.
NamesAreComplete == CompleteNames(zone)

\* Every ownership record of the zone is for a name its owner has a claim to.
MarksAreClaims ==
  \A id \in OwnerID : \A rr \in zone :
    OwnershipRR(id, rr) => ManagedName(rr.name) \in claimed[id]

\* A daemon asks, and plans, only for names its owner has a claim to.
WantsAreClaims ==
  \A d \in Daemon : \A ep \in want[d] \cup desired[d] :
    Fqdn(ep.DNSName) \in claimed[ownerID[d]]

\* Every UPDATE under way is safe, however old it is.
MessagesAreSafe ==
  /\ \A d \in Daemon : SafeMessage(ownerID[d], claimed[ownerID[d]], msg[d])
  /\ \A u \in late : SafeMessage(u.owner, claimed[u.owner], u.msg)

ClaimsInv ==
  /\ TypeOK
  /\ NamesAreComplete
  /\ MarksAreClaims
  /\ WantsAreClaims
  /\ MessagesAreSafe

\* Nothing to send is safe.
LEMMA NoMessageSafe ==
  ASSUME NEW id, NEW names PROVE NoMessage \in Message /\ SafeMessage(id, names, NoMessage)
  BY DEF NoMessage, Message, SafeMessage

\* What Calculate reads in the zone, and takes to be owned, is claimed.
LEMMA OwnedAreClaimed ==
  ASSUME NEW id \in OwnerID, ClaimsInv
  PROVE  /\ ReadBack(Records(zone))
         /\ buildOwnedSet(id, Records(zone)) \subseteq claimed[id]
<1>1. ReadBack(Records(zone)) /\ buildOwnedSet(id, Records(zone)) = OwnedNames(id, zone)
  BY RecordsFacts DEF ClaimsInv, TypeOK, NamesAreComplete
<1> QED
  BY <1>1 DEF ClaimsInv, MarksAreClaims, OwnedNames

\* What a safe UPDATE of owner id does to the zone.
LEMMA UpdateSafe ==
  ASSUME NEW id \in OwnerID, ClaimsInv, NEW m \in Message, SafeMessage(id, claimed[id], m),
         zone' \in Process(zone, m), claimed' = claimed
  PROVE  /\ zone' \in SUBSET ResourceRecord
         /\ NamesAreComplete'
         /\ MarksAreClaims'
         /\ \A rr \in (zone \ zone') \cup (zone' \ zone) :
              /\ rr.name \in Touchable(claimed[id])
              /\ \A other \in OwnerID \ {id} : ~OwnershipRR(other, rr)
<1>1. /\ zone' \in SUBSET ResourceRecord
      /\ CompleteNames(zone')
      /\ \A o \in OwnerID : \A rr \in zone' :
           OwnershipRR(o, rr) => rr \in zone \/ (o = id /\ ManagedName(rr.name) \in claimed[id])
      /\ \A rr \in (zone \ zone') \cup (zone' \ zone) :
           /\ rr.name \in Touchable(claimed[id])
           /\ \A other \in OwnerID \ {id} : ~OwnershipRR(other, rr)
  BY ApplySafe DEF ClaimsInv, TypeOK, NamesAreComplete
<1> QED
  BY <1>1 DEF ClaimsInv, NamesAreComplete, MarksAreClaims

-----------------------------------------------------------------------------
\* The invariant holds at the start.
LEMMA ClaimsInit == Init => ClaimsInv
<1> SUFFICES ASSUME Init PROVE ClaimsInv
  OBVIOUS
<1>1. zone \in SUBSET ResourceRecord /\ NamesAreComplete
  BY InitialZoneAssumption, CanonicalAssumption DEF Init, NamesAreComplete, CompleteNames
<1>2. want \in [Daemon -> SUBSET LabelEndpoint]
  BY LabelsAssumption DEF Init
<1>3. ASSUME NEW id \in OwnerID PROVE OwnedNames(id, zone) \subseteq Name
  BY <1>1, ManagedNameFacts DEF OwnedNames, OwnershipRR, ResourceRecord
<1>4. ASSUME NEW d \in Daemon, NEW ep \in want[d] PROVE Fqdn(ep.DNSName) \in Name
  <2>1. ep \in LabelEndpoint
    BY <1>2
  <2>2. ep.DNSName \in Name
    BY <2>1 DEF LabelEndpoint
  <2> QED
    BY <2>2, FqdnFacts
<1>5. claimed \in [OwnerID -> SUBSET Name]
  BY <1>3, <1>4 DEF Init
<1>6. MarksAreClaims
  BY DEF Init, MarksAreClaims, OwnedNames
<1>7. WantsAreClaims
  BY OwnerAssumption DEF Init, WantsAreClaims
<1>8. MessagesAreSafe
  BY NoMessageSafe DEF Init, MessagesAreSafe
<1>9. TypeOK
  <2>1. manual \in SUBSET ResourceRecord
    BY <1>1 DEF Init
  <2>2. /\ pc \in [Daemon -> {"idle", "listed", "sent", "applied"}]
        /\ desired \in [Daemon -> SUBSET LabelEndpoint]
        /\ late \in SUBSET LateUpdate
        /\ result \in [Daemon -> {"none", "ok", "error"}]
    BY DEF Init
  <2>3. ready \in [Daemon -> BOOLEAN] /\ calm \in [Daemon -> BOOLEAN]
    BY Zenon DEF Init
  <2>4. msg \in [Daemon -> Message] /\ edits \in Nat /\ faults \in Nat
    BY NoMessageSafe DEF Init
  <2> QED
    BY <1>1, <1>2, <1>5, <2>1, <2>2, <2>3, <2>4 DEF TypeOK
<1> QED
  BY <1>1, <1>6, <1>7, <1>8, <1>9 DEF ClaimsInv

\* Returning from reconcile keeps it.
LEMMA ClaimsReturn ==
  ASSUME ClaimsInv, NEW d \in Daemon, NEW r \in {"ok", "error"}, Return(d, r),
         UNCHANGED <<zone, manual, claimed, want, calm>>,
         late' \in SUBSET LateUpdate,
         \A u \in late' : u \in late \/ SafeMessage(u.owner, claimed[u.owner], u.msg),
         edits' \in Nat, faults' \in Nat
  PROVE  ClaimsInv'
<1>1. /\ pc' \in [Daemon -> {"idle", "listed", "sent", "applied"}]
      /\ desired' \in [Daemon -> SUBSET LabelEndpoint]
      /\ result' \in [Daemon -> {"none", "ok", "error"}]
  BY DEF ClaimsInv, TypeOK, Return
<1>2. msg' \in [Daemon -> Message]
  BY NoMessageSafe DEF ClaimsInv, TypeOK, Return
<1>3. ready' \in [Daemon -> BOOLEAN]
  <2>1. (ready[d] \/ r = "ok") \in BOOLEAN
    OBVIOUS
  <2> QED
    BY <2>1 DEF ClaimsInv, TypeOK, Return
<1>4. TypeOK'
  BY <1>1, <1>2, <1>3 DEF ClaimsInv, TypeOK
<1>5. NamesAreComplete' /\ MarksAreClaims'
  BY DEF ClaimsInv, NamesAreComplete, MarksAreClaims
<1>6. WantsAreClaims'
  BY DEF ClaimsInv, TypeOK, WantsAreClaims, Return
<1>7. MessagesAreSafe'
  <2>1. \A e \in Daemon : msg'[e] = msg[e] \/ msg'[e] = NoMessage
    BY DEF ClaimsInv, TypeOK, Return
  <2> QED
    BY <2>1, NoMessageSafe DEF ClaimsInv, MessagesAreSafe
<1> QED
  BY <1>4, <1>5, <1>6, <1>7 DEF ClaimsInv

\* Every step of a daemon's cycle keeps it.
LEMMA ClaimsCycle ==
  ASSUME ClaimsInv, NEW d \in Daemon, Cycle(d)
  PROVE  ClaimsInv'
<1> USE DEF ClaimsInv
<1>0. ownerID[d] \in OwnerID
  BY OwnerAssumption
<1>1. CASE FetchDesired(d)
  <2>1. TypeOK'
    <3>1. calm' \in [Daemon -> BOOLEAN]
      BY <1>1 DEF FetchDesired, TypeOK
    <3> QED
      BY <1>1, <3>1 DEF FetchDesired, TypeOK
  <2>2. NamesAreComplete' /\ MarksAreClaims'
    BY <1>1 DEF FetchDesired, NamesAreComplete, MarksAreClaims
  <2>3. WantsAreClaims'
    BY <1>1 DEF FetchDesired, TypeOK, WantsAreClaims
  <2>4. MessagesAreSafe'
    BY <1>1 DEF FetchDesired, MessagesAreSafe
  <2> QED
    BY <2>1, <2>2, <2>3, <2>4
<1>2. CASE NothingToApply(d) \/ UpdateSucceeds(d) \/ UpdateRefused(d)
  <2>1. PICK r \in {"ok", "error"} : Return(d, r)
    BY <1>2 DEF NothingToApply, UpdateSucceeds, UpdateRefused
  <2>2. /\ UNCHANGED <<zone, manual, claimed, want, calm>>
        /\ late' = late /\ edits' = edits /\ faults' = faults
    BY <1>2 DEF NothingToApply, UpdateSucceeds, UpdateRefused
  <2>3. late' \in SUBSET LateUpdate /\ edits' \in Nat /\ faults' \in Nat
    BY <2>2 DEF TypeOK
  <2> QED
    BY <2>1, <2>2, <2>3, ClaimsReturn
<1>3. CASE SendUpdate(d)
  <2>1. PICK changes \in Plans(d) : msg' = [msg EXCEPT ![d] = UpdateMessage(changes)]
    BY <1>3 DEF SendUpdate
  <2>2. /\ UpdateMessage(changes) \in Message
        /\ SafeMessage(ownerID[d], claimed[ownerID[d]], UpdateMessage(changes))
    <3>1. changes \in Calculate(ownerID[d], desired[d], Records(zone))
      BY DEF Plans
    <3>2. /\ zone \subseteq ResourceRecord
          /\ desired[d] \subseteq LabelEndpoint
          /\ \A ep \in desired[d] : Fqdn(ep.DNSName) \in claimed[ownerID[d]]
      BY DEF TypeOK, WantsAreClaims
    <3> QED
      BY <1>0, <3>1, <3>2, PlanSafe, OwnedAreClaimed
  <2>3. TypeOK'
    BY <1>3, <2>1, <2>2 DEF SendUpdate, TypeOK
  <2>4. NamesAreComplete' /\ MarksAreClaims' /\ WantsAreClaims'
    BY <1>3 DEF SendUpdate, NamesAreComplete, MarksAreClaims, WantsAreClaims
  <2>5. MessagesAreSafe'
    <3>1. \A e \in Daemon : msg'[e] = IF e = d THEN UpdateMessage(changes) ELSE msg[e]
      BY <2>1 DEF TypeOK
    <3>2. \A e \in Daemon : SafeMessage(ownerID[e], claimed[ownerID[e]], msg'[e])
      BY <2>2, <3>1 DEF MessagesAreSafe
    <3>3. claimed' = claimed /\ late' = late
      BY <1>3 DEF SendUpdate
    <3> QED
      BY <3>2, <3>3 DEF MessagesAreSafe
  <2> QED
    BY <2>3, <2>4, <2>5
<1>4. CASE ServerApplies(d)
  <2>1. /\ msg[d] \in Message /\ SafeMessage(ownerID[d], claimed[ownerID[d]], msg[d])
        /\ zone' \in Process(zone, msg[d]) /\ claimed' = claimed
    BY <1>4 DEF ServerApplies, TypeOK, MessagesAreSafe
  <2>2. zone' \in SUBSET ResourceRecord /\ NamesAreComplete' /\ MarksAreClaims'
    BY <1>0, <2>1, UpdateSafe
  <2>3. calm' \in [Daemon -> BOOLEAN]
    BY <1>4, Zenon DEF ServerApplies, TypeOK
  <2>4. TypeOK'
    BY <1>4, <2>2, <2>3 DEF ServerApplies, TypeOK
  <2>5. WantsAreClaims'
    BY <1>4 DEF ServerApplies, WantsAreClaims
  <2>6. MessagesAreSafe'
    BY <1>4 DEF ServerApplies, MessagesAreSafe
  <2> QED
    BY <2>2, <2>4, <2>5, <2>6
<1> QED
  BY <1>1, <1>2, <1>3, <1>4 DEF Cycle

\* So does every failure, whatever it leaves under way.
LEMMA ClaimsFailure ==
  ASSUME ClaimsInv, NEW d \in Daemon, Failure(d)
  PROVE  ClaimsInv'
<1> USE DEF ClaimsInv
<1>0. ownerID[d] \in OwnerID
  BY OwnerAssumption
<1>1. ASSUME Fault PROVE faults' \in Nat
  BY <1>1 DEF Fault, TypeOK
<1>2. ASSUME late' = late \/ LeaveBehind(d)
      PROVE  /\ late' \in SUBSET LateUpdate
             /\ \A u \in late' : u \in late \/ SafeMessage(u.owner, claimed[u.owner], u.msg)
  <2>1. CASE late' = late
    BY <2>1 DEF TypeOK
  <2>2. CASE LeaveBehind(d)
    <3> DEFINE u == [owner |-> ownerID[d], msg |-> msg[d]]
    <3>1. late' = late \cup {u}
      BY <2>2 DEF LeaveBehind
    <3>2. u \in LateUpdate
      BY <1>0 DEF TypeOK, LateUpdate
    <3>3. SafeMessage(u.owner, claimed[u.owner], u.msg)
      BY DEF MessagesAreSafe
    <3> QED
      BY <3>1, <3>2, <3>3 DEF TypeOK
  <2> QED
    BY <1>2, <2>1, <2>2
<1>3. CASE FetchFails(d) \/ ExchangeFails(d) \/ ExchangeTimesOut(d)
  <2>1. /\ Return(d, "error") /\ Fault /\ (late' = late \/ LeaveBehind(d))
        /\ UNCHANGED <<zone, manual, claimed, want, calm>>
        /\ edits' = edits
    BY <1>3 DEF FetchFails, ExchangeFails, ExchangeTimesOut
  <2>2. edits' \in Nat
    BY <2>1 DEF TypeOK
  <2> QED
    BY <2>1, <2>2, <1>1, <1>2, ClaimsReturn
<1>4. CASE Crash(d)
  <2>1. late' \in SUBSET LateUpdate /\ faults' \in Nat
    BY <1>1, <1>2, <1>4 DEF Crash
  <2>2. ready' \in [Daemon -> BOOLEAN]
    BY <1>4 DEF Crash, TypeOK
  <2>3. msg' \in [Daemon -> Message]
    BY <1>4, NoMessageSafe DEF Crash, TypeOK
  <2>4. TypeOK'
    BY <1>4, <2>1, <2>2, <2>3 DEF Crash, TypeOK
  <2>5. NamesAreComplete' /\ MarksAreClaims'
    BY <1>4 DEF Crash, NamesAreComplete, MarksAreClaims
  <2>6. WantsAreClaims'
    BY <1>4 DEF Crash, TypeOK, WantsAreClaims
  <2>7. MessagesAreSafe'
    <3>1. \A e \in Daemon : msg'[e] = msg[e] \/ msg'[e] = NoMessage
      BY <1>4 DEF Crash, TypeOK
    <3>2. claimed' = claimed
      BY <1>4 DEF Crash
    <3>3. \A u \in late' : u \in late \/ SafeMessage(u.owner, claimed[u.owner], u.msg)
      BY <1>2, <1>4 DEF Crash
    <3> QED
      BY <3>1, <3>2, <3>3, NoMessageSafe DEF MessagesAreSafe
  <2> QED
    BY <2>4, <2>5, <2>6, <2>7
<1> QED
  BY <1>3, <1>4 DEF Failure

\* And so do late UPDATEs, containers and operators.
LEMMA ClaimsEnvironment ==
  ASSUME ClaimsInv, Environment
  PROVE  ClaimsInv'
<1> USE DEF ClaimsInv
<1>0. ASSUME Edit PROVE edits' \in Nat
  BY <1>0 DEF Edit, TypeOK
<1>00. Disturbed \in [Daemon -> BOOLEAN]
  BY Zenon DEF Disturbed
<1>1. ASSUME NEW u \in late, LateApply(u) PROVE ClaimsInv'
  <2>1. /\ u.owner \in OwnerID /\ u.msg \in Message /\ SafeMessage(u.owner, claimed[u.owner], u.msg)
        /\ zone' \in Process(zone, u.msg) /\ claimed' = claimed
    BY <1>1 DEF LateApply, TypeOK, LateUpdate, MessagesAreSafe
  <2>2. zone' \in SUBSET ResourceRecord /\ NamesAreComplete' /\ MarksAreClaims'
    BY <2>1, UpdateSafe
  <2>3. TypeOK'
    BY <1>1, <1>00, <2>2 DEF LateApply, TypeOK, dvars
  <2>4. WantsAreClaims'
    BY <1>1 DEF LateApply, WantsAreClaims, dvars
  <2>5. MessagesAreSafe'
    BY <1>1 DEF LateApply, MessagesAreSafe, dvars
  <2> QED
    BY <2>2, <2>3, <2>4, <2>5
<1>2. ASSUME NEW d \in Daemon, NEW ep \in Labels[d], ContainerStart(d, ep) PROVE ClaimsInv'
  <2>1. ep \in LabelEndpoint /\ ownerID[d] \in OwnerID
    BY LabelsAssumption, OwnerAssumption
  <2>2. Fqdn(ep.DNSName) \in Name
    <3>1. ep.DNSName \in Name
      BY <2>1 DEF LabelEndpoint
    <3> QED
      BY <3>1, FqdnFacts
  <2>3. /\ claimed' \in [OwnerID -> SUBSET Name]
        /\ \A id \in OwnerID : claimed[id] \subseteq claimed'[id]
        /\ Fqdn(ep.DNSName) \in claimed'[ownerID[d]]
    BY <1>2, <2>1, <2>2 DEF ContainerStart, TypeOK
  <2>4. want' \in [Daemon -> SUBSET LabelEndpoint]
    BY <1>2, <2>1 DEF ContainerStart, TypeOK
  <2>5. calm' \in [Daemon -> BOOLEAN]
    BY <1>2 DEF ContainerStart, TypeOK
  <2>6. TypeOK'
    BY <1>0, <1>2, <2>3, <2>4, <2>5 DEF ContainerStart, TypeOK
  <2>7. NamesAreComplete' /\ MarksAreClaims'
    BY <1>2, <2>3 DEF ContainerStart, NamesAreComplete, MarksAreClaims
  <2>8. WantsAreClaims'
    <3>1. \A e \in Daemon : want'[e] \subseteq want[e] \cup (IF e = d THEN {ep} ELSE {})
      BY <1>2 DEF ContainerStart, TypeOK
    <3>2. desired' = desired /\ \A e \in Daemon : ownerID[e] \in OwnerID
      BY <1>2, OwnerAssumption DEF ContainerStart
    <3> QED
      BY <2>3, <3>1, <3>2 DEF WantsAreClaims
  <2>9. MessagesAreSafe'
    <3>1. msg' = msg /\ late' = late
      BY <1>2 DEF ContainerStart
    <3>2. ASSUME NEW e \in Daemon PROVE SafeMessage(ownerID[e], claimed'[ownerID[e]], msg[e])
      BY <2>3, OwnerAssumption, SafeMonotone DEF MessagesAreSafe
    <3>3. ASSUME NEW u \in late PROVE SafeMessage(u.owner, claimed'[u.owner], u.msg)
      BY <2>3, SafeMonotone DEF MessagesAreSafe, TypeOK, LateUpdate
    <3> QED
      BY <3>1, <3>2, <3>3 DEF MessagesAreSafe
  <2> QED
    BY <2>6, <2>7, <2>8, <2>9
<1>3. ASSUME NEW d \in Daemon, NEW ep \in want[d], ContainerStop(d, ep) PROVE ClaimsInv'
  <2>1. calm' \in [Daemon -> BOOLEAN]
    BY <1>3 DEF ContainerStop, TypeOK
  <2>2. TypeOK'
    BY <1>0, <1>3, <2>1 DEF ContainerStop, TypeOK
  <2>3. NamesAreComplete' /\ MarksAreClaims'
    BY <1>3 DEF ContainerStop, NamesAreComplete, MarksAreClaims
  <2>4. WantsAreClaims'
    BY <1>3 DEF ContainerStop, TypeOK, WantsAreClaims
  <2>5. MessagesAreSafe'
    BY <1>3 DEF ContainerStop, MessagesAreSafe
  <2> QED
    BY <2>2, <2>3, <2>4, <2>5
<1>4. ASSUME NEW rr \in ManualRR, OperatorAdd(rr) PROVE ClaimsInv'
  <2>1. rr \in ResourceRecord /\ rr.name.dot = FALSE /\ Unmarked(rr)
    BY ManualAssumption, CanonicalAssumption
  <2>2. \A id \in OwnerID : ~OwnershipRR(id, rr)
    BY <2>1, UnmarkedIsNoMark
  <2>3. TypeOK'
    BY <1>0, <1>00, <1>4, <2>1 DEF OperatorAdd, TypeOK, dvars
  <2>4. NamesAreComplete' /\ MarksAreClaims'
    BY <1>4, <2>1, <2>2 DEF OperatorAdd, NamesAreComplete, CompleteNames, MarksAreClaims
  <2>5. WantsAreClaims' /\ MessagesAreSafe'
    BY <1>4 DEF OperatorAdd, WantsAreClaims, MessagesAreSafe, dvars
  <2> QED
    BY <2>3, <2>4, <2>5
<1>5. ASSUME NEW rr \in zone \cap RemovableRR, OperatorRemove(rr) PROVE ClaimsInv'
  <2>1. TypeOK'
    BY <1>0, <1>00, <1>5 DEF OperatorRemove, TypeOK, dvars
  <2>2. NamesAreComplete' /\ MarksAreClaims'
    BY <1>5 DEF OperatorRemove, NamesAreComplete, CompleteNames, MarksAreClaims
  <2>3. WantsAreClaims' /\ MessagesAreSafe'
    BY <1>5 DEF OperatorRemove, WantsAreClaims, MessagesAreSafe, dvars
  <2> QED
    BY <2>1, <2>2, <2>3
<1> QED
  BY <1>1, <1>2, <1>3, <1>4, <1>5 DEF Environment

\* The invariant is inductive.
LEMMA ClaimsNext == ClaimsInv /\ [Next]_vars => ClaimsInv'
<1> SUFFICES ASSUME ClaimsInv, [Next]_vars PROVE ClaimsInv'
  OBVIOUS
<1>1. CASE UNCHANGED vars
  BY <1>1 DEF vars, ClaimsInv, TypeOK, NamesAreComplete, MarksAreClaims, WantsAreClaims,
              MessagesAreSafe
<1> QED
  BY <1>1, ClaimsCycle, ClaimsFailure, ClaimsEnvironment DEF Next

\* ... and holds in every reachable state.
LEMMA ClaimsInvariant == Spec => []ClaimsInv
  BY ClaimsInit, ClaimsNext, PTL DEF Spec

\* Type correctness of the daemons, the zone and everything under way.
THEOREM ReconcileTypeOK == Spec => []TypeOK
<1>1. ClaimsInv => TypeOK
  BY DEF ClaimsInv
<1> QED
  BY <1>1, ClaimsInvariant, PTL

-----------------------------------------------------------------------------
(* Refinement. *)

\* The instance of ManagedZone has its own copy of every definition; these are
\* the ones its specification uses.
LEMMA SameDefinitions ==
  /\ \A id, rr : MZ!OwnershipRR(id, rr) <=> OwnershipRR(id, rr)
  /\ \A id, z : MZ!OwnedNames(id, z) = OwnedNames(id, z)
  /\ \A names : MZ!Touchable(names) = Touchable(names)
  /\ MZ!ResourceRecord = ResourceRecord
  /\ MZ!Name = Name
<1>1. MZ!ResourceRecord = ResourceRecord /\ MZ!Name = Name
  BY Zenon DEF MZ!ResourceRecord, ResourceRecord, MZ!Name, Name, MZ!TypeName, TypeName,
    MZ!SupportedType, SupportedType, MZ!RecordTypeA, RecordTypeA, MZ!RecordTypeAAAA,
    RecordTypeAAAA, MZ!RecordTypeCNAME, RecordTypeCNAME, MZ!RecordTypeTXT, RecordTypeTXT,
    MZ!Target, Target, MZ!LabelTarget, LabelTarget, MZ!OwnerTarget, OwnerTarget
<1>2. ASSUME NEW id, NEW rr PROVE MZ!OwnershipRR(id, rr) <=> OwnershipRR(id, rr)
  BY Zenon DEF MZ!OwnershipRR, OwnershipRR, MZ!RecordTypeTXT, RecordTypeTXT,
    MZ!HasOwnerPrefix, HasOwnerPrefix, MZ!ownershipValue, ownershipValue
<1>3. ASSUME NEW id, NEW z PROVE MZ!OwnedNames(id, z) = OwnedNames(id, z)
  BY <1>2 DEF MZ!OwnedNames, OwnedNames, MZ!ManagedName, ManagedName
<1>4. ASSUME NEW names PROVE MZ!Touchable(names) = Touchable(names)
  BY Zenon DEF MZ!Touchable, Touchable, MZ!ownershipName, ownershipName
<1> QED
  BY <1>1, <1>2, <1>3, <1>4, Zenon

\* Every initial state of the daemons is one of ManagedZone.
LEMMA RefineInit == Init => MZ!Init
<1> SUFFICES ASSUME Init PROVE MZ!Init
  OBVIOUS
<1>1. zone \in SUBSET ResourceRecord /\ claimed \in [OwnerID -> SUBSET Name]
  BY ClaimsInit DEF ClaimsInv, TypeOK
<1>2. manual \in SUBSET zone
  BY DEF Init
<1>3. \A id \in OwnerID : OwnedNames(id, zone) \subseteq claimed[id]
  BY DEF Init
<1> QED
  BY <1>1, <1>2, <1>3, SameDefinitions DEF MZ!Init

\* Every step of the daemons and their environment is one of ManagedZone, or
\* leaves the zone alone.
LEMMA RefineNext == ClaimsInv /\ [Next]_vars => [MZ!Next]_(MZ!zvars)
<1> SUFFICES ASSUME ClaimsInv, [Next]_vars PROVE [MZ!Next]_(MZ!zvars)
  OBVIOUS
<1>0. ClaimsInv'
  BY ClaimsNext
<1> DEFINE Quiet == zone' = zone /\ manual' = manual /\ claimed' = claimed
<1>1. ASSUME Quiet PROVE [MZ!Next]_(MZ!zvars)
  BY <1>1 DEF MZ!zvars
<1>2. ASSUME NEW id \in OwnerID, NEW m \in Message, SafeMessage(id, claimed[id], m),
             zone' \in Process(zone, m), manual' = manual, claimed' = claimed
      PROVE  MZ!Manage(id)
  <2>1. /\ zone' \in SUBSET ResourceRecord
        /\ \A rr \in (zone \ zone') \cup (zone' \ zone) :
             /\ rr.name \in Touchable(claimed[id])
             /\ \A other \in OwnerID \ {id} : ~OwnershipRR(other, rr)
    BY <1>2, UpdateSafe
  <2> QED
    BY <1>2, <2>1, SameDefinitions DEF MZ!Manage
<1>3. ASSUME NEW d \in Daemon, Cycle(d) PROVE [MZ!Next]_(MZ!zvars)
  <2>1. CASE ServerApplies(d)
    <3>1. MZ!Manage(ownerID[d])
      BY <2>1, <1>2, OwnerAssumption DEF ServerApplies, ClaimsInv, TypeOK, MessagesAreSafe
    <3> QED
      BY <3>1, OwnerAssumption DEF MZ!Next
  <2>2. CASE ~ServerApplies(d)
    <3>1. Quiet
      BY <1>3, <2>2 DEF Cycle, FetchDesired, NothingToApply, SendUpdate, UpdateSucceeds,
                        UpdateRefused
    <3> QED
      BY <3>1, <1>1
  <2> QED
    BY <2>1, <2>2
<1>4. ASSUME NEW d \in Daemon, Failure(d) PROVE [MZ!Next]_(MZ!zvars)
  <2>1. Quiet
    BY <1>4 DEF Failure, FetchFails, ExchangeFails, ExchangeTimesOut, Crash
  <2> QED
    BY <2>1, <1>1
<1>5. ASSUME NEW u \in late, LateApply(u) PROVE [MZ!Next]_(MZ!zvars)
  <2>1. u.owner \in OwnerID /\ u.msg \in Message /\ SafeMessage(u.owner, claimed[u.owner], u.msg)
    BY DEF ClaimsInv, TypeOK, LateUpdate, MessagesAreSafe
  <2>2. MZ!Manage(u.owner)
    BY <1>5, <2>1, <1>2 DEF LateApply
  <2> QED
    BY <2>1, <2>2 DEF MZ!Next
<1>6. ASSUME NEW d \in Daemon, NEW ep \in Labels[d], ContainerStart(d, ep)
      PROVE  [MZ!Next]_(MZ!zvars)
  <2>1. ownerID[d] \in OwnerID
    BY OwnerAssumption
  <2>2. /\ claimed' \in [OwnerID -> SUBSET Name]
        /\ claimed[ownerID[d]] \subseteq claimed'[ownerID[d]]
        /\ \A other \in OwnerID \ {ownerID[d]} : claimed'[other] = claimed[other]
        /\ zone' = zone /\ manual' = manual
    BY <1>0, <1>6, <2>1 DEF ContainerStart, ClaimsInv, TypeOK
  <2>3. MZ!Claim(ownerID[d])
    BY <2>2, SameDefinitions DEF MZ!Claim
  <2> QED
    BY <2>1, <2>3 DEF MZ!Next
<1>7. ASSUME NEW d \in Daemon, NEW ep \in want[d], ContainerStop(d, ep)
      PROVE  [MZ!Next]_(MZ!zvars)
  BY <1>1, <1>7 DEF ContainerStop
<1>8. ASSUME NEW rr \in ManualRR, OperatorAdd(rr) PROVE [MZ!Next]_(MZ!zvars)
  <2>1. \A id \in OwnerID : ~OwnershipRR(id, rr)
    BY ManualAssumption, UnmarkedIsNoMark
  <2>2. zone' \in SUBSET ResourceRecord
    BY <1>0 DEF ClaimsInv, TypeOK
  <2>3. MZ!Operate
    BY <1>8, <2>1, <2>2, SameDefinitions DEF OperatorAdd, MZ!Operate
  <2> QED
    BY <2>3 DEF MZ!Next
<1>9. ASSUME NEW rr \in zone \cap RemovableRR, OperatorRemove(rr) PROVE [MZ!Next]_(MZ!zvars)
  <2>1. zone' \in SUBSET ResourceRecord
    BY <1>0 DEF ClaimsInv, TypeOK
  <2>2. MZ!Operate
    BY <1>9, <2>1, SameDefinitions DEF OperatorRemove, MZ!Operate
  <2> QED
    BY <2>2 DEF MZ!Next
<1>10. CASE UNCHANGED vars
  BY <1>1, <1>10 DEF vars
<1> QED
  BY <1>3, <1>4, <1>5, <1>6, <1>7, <1>8, <1>9, <1>10 DEF Next, Environment

\* The daemons implement ManagedZone: whatever is lost, late, repeated or stale,
\* an owner changes records only where it has a claim and never another owner's
\* marks.
THEOREM ReconcileImplementsManagedZone == Spec => ImplementsManagedZone
<1>1. Spec => MZ!Spec
  BY RefineInit, RefineNext, ClaimsInvariant, PTL DEF Spec, MZ!Spec
<1> QED
  BY <1>1 DEF ImplementsManagedZone

\* An operator's record at a name no container ever asked for is never lost.
THEOREM ReconcileUnclaimedUntouched == Spec => []UnclaimedUntouched
<1>1. Init => UnclaimedUntouched
  BY DEF Init, UnclaimedUntouched
<1>2. ClaimsInv /\ UnclaimedUntouched /\ [Next]_vars => UnclaimedUntouched'
  <2> SUFFICES ASSUME ClaimsInv, UnclaimedUntouched, [MZ!Next]_(MZ!zvars)
               PROVE  UnclaimedUntouched'
    BY RefineNext
  <2>1. CASE MZ!Operate
    BY <2>1 DEF MZ!Operate, UnclaimedUntouched
  <2>2. ASSUME NEW id \in OwnerID, MZ!Claim(id) PROVE UnclaimedUntouched'
    <3>1. \A o \in OwnerID : Touchable(claimed[o]) \subseteq Touchable(claimed'[o])
      BY <2>2 DEF MZ!Claim, Touchable
    <3> QED
      BY <2>2, <3>1 DEF MZ!Claim, UnclaimedUntouched
  <2>3. ASSUME NEW id \in OwnerID, MZ!Manage(id) PROVE UnclaimedUntouched'
    BY <2>3, SameDefinitions DEF MZ!Manage, UnclaimedUntouched
  <2>4. CASE UNCHANGED MZ!zvars
    BY <2>4 DEF MZ!zvars, UnclaimedUntouched
  <2> QED
    BY <2>1, <2>2, <2>3, <2>4 DEF MZ!Next
<1> QED
  BY <1>1, <1>2, ClaimsInvariant, PTL DEF Spec

-----------------------------------------------------------------------------
(* Records and their ownership records. *)

\* Containers ask for what their labels say, and so does a cycle.
WantsAreLabels == \A d \in Daemon : want[d] \cup desired[d] \subseteq Labels[d]

\* No UPDATE is under way but that of the daemon that writes.
OneWriter == late = {} /\ \A d \in DryRun : pc[d] # "sent"

\* The zone is tidy, and an UPDATE that is on its way is sound for it as it is now.
ZoneIsTidy == Tidy(OwnerID, ManageableNames, zone, manual) /\ Agrees(zone, WriterLabels)

MessagesAreSound ==
  \A d \in Daemon : pc[d] = "sent" =>
    Sound(ownerID[d], ManageableNames, WriterLabels, zone, msg[d])

OrphanInv == WantsAreLabels /\ OneWriter /\ ZoneIsTidy /\ MessagesAreSound /\ NoOrphans

\* The names that may be managed are plain, and the labels ask for some of them.
LEMMA ManageableFacts ==
  ASSUME Orderly
  PROVE  /\ PlainNames(ManageableNames)
         /\ WriterLabels \subseteq LabelEndpoint
         /\ \A ep \in WriterLabels : ep.DNSName \in ManageableNames /\ Fqdn(ep.DNSName) = ep.DNSName
         /\ \A a, b \in WriterLabels : a.DNSName = b.DNSName => a.RecordType = b.RecordType
<1>1. WriterLabels \subseteq LabelEndpoint
  BY LabelsAssumption DEF WriterLabels
<1>2. ASSUME NEW ep \in WriterLabels
      PROVE  ep.DNSName \in Name /\ Fqdn(ep.DNSName) = ep.DNSName /\ ep.DNSName.dot = FALSE
  <2>1. ep.DNSName \in Name /\ ep.DNSName.dot = FALSE
    BY <1>1 DEF LabelEndpoint, Orderly
  <2> QED BY <2>1, FqdnFacts
<1>3. ASSUME NEW id \in OwnerID, NEW n \in OwnedNames(id, InitialZone)
      PROVE  n \in Name /\ n.dot = FALSE
  <2>1. PICK rr \in InitialZone : OwnershipRR(id, rr) /\ n = ManagedName(rr.name)
    BY DEF OwnedNames
  <2>2. rr.name \in Name /\ rr.name.dot = FALSE /\ HasOwnerPrefix(rr.name)
    BY <2>1, InitialZoneAssumption, CanonicalAssumption DEF ResourceRecord, OwnershipRR
  <2>3. n \in Name
    BY <2>1, <2>2, ManagedNameFacts
  <2>4. n.dot = FALSE
    BY <2>1, <2>2 DEF ManagedName, Name
  <2> QED BY <2>3, <2>4
<1>4. PlainNames(ManageableNames)
  <2>1. ASSUME NEW n \in ManageableNames PROVE n \in Name /\ n.dot = FALSE
    <3>1. CASE \E ep \in WriterLabels : n = Fqdn(ep.DNSName)
      <4>1. PICK ep \in WriterLabels : n = Fqdn(ep.DNSName)
        BY <3>1
      <4> QED BY <4>1, <1>2
    <3>2. CASE \E id \in OwnerID : n \in OwnedNames(id, InitialZone)
      BY <3>2, <1>3
    <3> QED BY <3>1, <3>2 DEF ManageableNames
  <2>2. \A n \in ManageableNames : ~HasOwnerPrefix(n)
    BY DEF Orderly
  <2> QED BY <2>1, <2>2 DEF PlainNames
<1>5. \A ep \in WriterLabels : ep.DNSName \in ManageableNames
  BY <1>2 DEF ManageableNames
<1> QED BY <1>1, <1>2, <1>4, <1>5 DEF Orderly

\* NoOrphans says that every record but the operator's is attended.
LEMMA OrphansAttended == NoOrphans <=> Attended(OwnerID, zone, manual)
BY DEF NoOrphans, Attended

\* The invariant holds at the start.
LEMMA OrphanInit == ASSUME Orderly, Init PROVE OrphanInv
<1>1. zone = InitialZone /\ late = {} /\ \A d \in Daemon : pc[d] = "idle"
  BY DEF Init
<1>2. WantsAreLabels
  BY DEF Init, WantsAreLabels
<1>3. OneWriter
  BY <1>1, DryRunAssumption DEF OneWriter
<1>4. NoOrphans
  BY DEF Init, NoOrphans
<1>5. ZoneIsTidy
  <2>1. \A z \in zone : z.name \in ManageableNames => ReadsBack(z) /\ z.type \in SupportedType
    BY <1>1, InitialZoneAssumption, ReadsBackType DEF Orderly, ReadsBack
  <2>2. \A z \in zone : HasOwnerPrefix(z.name) => z.type # RecordTypeCNAME
    BY <1>1 DEF Orderly
  <2>3. \A id \in OwnerID : \A z \in zone : OwnershipRR(id, z) => ManagedName(z.name) \in ManageableNames
    BY <1>1 DEF ManageableNames, OwnedNames
  <2>4. \A a, b \in zone : a.name \in ManageableNames /\ a.name = b.name => a = b
    BY <1>1 DEF Orderly
  <2>5. Tidy(OwnerID, ManageableNames, zone, manual)
    BY <2>1, <2>2, <2>3, <2>4 DEF Tidy
  <2>6. Agrees(zone, WriterLabels)
    <3> SUFFICES ASSUME NEW z \in zone, NEW ep \in WriterLabels, z.name = Fqdn(ep.DNSName)
                 PROVE  z.type = ep.RecordType
      BY DEF Agrees
    <3>1. ep.DNSName \in ManageableNames /\ Fqdn(ep.DNSName) = ep.DNSName
      BY ManageableFacts
    <3>2. z \in InitialZone /\ z.name = ep.DNSName /\ z.name \in ManageableNames
      BY <1>1, <3>1
    <3>3. \A rr \in InitialZone : rr.name \in ManageableNames =>
            \A e \in WriterLabels : e.DNSName = rr.name => e.RecordType = rr.type
      BY DEF Orderly
    <3> QED BY <3>2, <3>3
  <2> QED BY <2>5, <2>6 DEF ZoneIsTidy
<1>6. MessagesAreSound
  BY <1>1 DEF MessagesAreSound
<1> QED BY <1>2, <1>3, <1>4, <1>5, <1>6 DEF OrphanInv

\* A step that leaves the zone alone and sends nothing keeps it.
LEMMA OrphanQuiet ==
  ASSUME OrphanInv, ClaimsInv, UNCHANGED <<zone, manual>>, late' = late, WantsAreLabels',
         \A d \in Daemon : pc'[d] = "sent" => pc[d] = "sent" /\ msg'[d] = msg[d]
  PROVE  OrphanInv'
<1>1. OneWriter'
  BY DryRunAssumption DEF OrphanInv, OneWriter
<1>2. MessagesAreSound'
  BY DEF OrphanInv, MessagesAreSound
<1>3. ZoneIsTidy' /\ NoOrphans'
  BY DEF OrphanInv, ZoneIsTidy, NoOrphans
<1> QED BY <1>1, <1>2, <1>3 DEF OrphanInv

\* The steps of a cycle keep it: what is sent is sound, and applied it leaves no orphan.
LEMMA OrphanCycle ==
  ASSUME Orderly, OrphanInv, ClaimsInv, ClaimsInv', NEW d \in Daemon, Cycle(d)
  PROVE  OrphanInv'
<1>1. CASE FetchDesired(d)
  <2>1. WantsAreLabels'
    BY <1>1 DEF FetchDesired, OrphanInv, WantsAreLabels, ClaimsInv, TypeOK
  <2>2. \A e \in Daemon : pc'[e] = "sent" => pc[e] = "sent" /\ msg'[e] = msg[e]
    BY <1>1 DEF FetchDesired, ClaimsInv, TypeOK
  <2> QED BY <1>1, <2>1, <2>2, OrphanQuiet DEF FetchDesired
<1>2. CASE NothingToApply(d) \/ UpdateSucceeds(d) \/ UpdateRefused(d)
  <2>1. PICK r : Return(d, r)
    BY <1>2 DEF NothingToApply, UpdateSucceeds, UpdateRefused
  <2>2. UNCHANGED <<zone, manual, want, late>>
    BY <1>2 DEF NothingToApply, UpdateSucceeds, UpdateRefused
  <2>3. WantsAreLabels'
    BY <2>1, <2>2 DEF Return, OrphanInv, WantsAreLabels, ClaimsInv, TypeOK
  <2>4. \A e \in Daemon : pc'[e] = "sent" => pc[e] = "sent" /\ msg'[e] = msg[e]
    BY <2>1 DEF Return, ClaimsInv, TypeOK
  <2> QED BY <2>2, <2>3, <2>4, OrphanQuiet
<1>3. CASE SendUpdate(d)
  <2>1. PICK changes \in Plans(d) : msg' = [msg EXCEPT ![d] = UpdateMessage(changes)]
    BY <1>3 DEF SendUpdate
  <2>2. /\ changes \in Calculate(ownerID[d], desired[d], Records(zone))
        /\ d \in Daemon \ DryRun /\ ownerID[d] \in OwnerID
        /\ desired[d] \subseteq WriterLabels
    BY <1>3, <2>1, OwnerAssumption DEF Plans, SendUpdate, OrphanInv, WantsAreLabels, WriterLabels
  <2>3. /\ zone \in SUBSET ResourceRecord /\ CompleteNames(zone)
        /\ Tidy(OwnerID, ManageableNames, zone, manual) /\ Agrees(zone, WriterLabels)
    BY DEF ClaimsInv, TypeOK, NamesAreComplete, OrphanInv, ZoneIsTidy
  <2>4. Sound(ownerID[d], ManageableNames, WriterLabels, zone, UpdateMessage(changes))
    BY <2>2, <2>3, ManageableFacts, PlanSound
  <2>5. /\ UNCHANGED <<zone, manual, want, desired, late>>
        /\ \A e \in Daemon : e # d => pc'[e] = pc[e] /\ msg'[e] = msg[e]
        /\ msg'[d] = UpdateMessage(changes)
    BY <1>3, <2>1 DEF SendUpdate, ClaimsInv, TypeOK
  <2>6. MessagesAreSound'
    BY <2>4, <2>5 DEF MessagesAreSound, OrphanInv
  <2>7. OneWriter' /\ WantsAreLabels'
    BY <2>2, <2>5, DryRunAssumption DEF OneWriter, WantsAreLabels, OrphanInv
  <2>8. ZoneIsTidy' /\ NoOrphans'
    BY <2>5 DEF OrphanInv, ZoneIsTidy, NoOrphans
  <2> QED BY <2>6, <2>7, <2>8 DEF OrphanInv
<1>4. CASE ServerApplies(d)
  <2>1. /\ pc[d] = "sent" /\ zone' \in Process(zone, msg[d])
        /\ UNCHANGED <<manual, want, desired, msg, late>>
        /\ pc' = [pc EXCEPT ![d] = "applied"]
    BY <1>4 DEF ServerApplies
  <2>2. /\ Sound(ownerID[d], ManageableNames, WriterLabels, zone, msg[d])
        /\ Tidy(OwnerID, ManageableNames, zone, manual) /\ Agrees(zone, WriterLabels)
        /\ Attended(OwnerID, zone, manual)
        /\ ownerID[d] \in OwnerID
    BY <2>1, OrphansAttended, OwnerAssumption DEF OrphanInv, ZoneIsTidy, MessagesAreSound
  <2>3. /\ \A ep \in WriterLabels : Fqdn(ep.DNSName) \in ManageableNames
        /\ \A a, b \in WriterLabels : Fqdn(a.DNSName) = Fqdn(b.DNSName) => a.RecordType = b.RecordType
    BY ManageableFacts
  <2>4. /\ Tidy(OwnerID, ManageableNames, zone', manual) /\ Agrees(zone', WriterLabels)
        /\ Attended(OwnerID, zone', manual)
    BY <2>1, <2>2, <2>3, ManageableFacts, ApplySound
  <2>5. ZoneIsTidy' /\ NoOrphans'
    BY <2>1, <2>4 DEF ZoneIsTidy, NoOrphans, Attended
  <2>6. d \notin DryRun /\ \A e \in Daemon : pc'[e] # "sent"
    <3>1. d \notin DryRun
      BY <2>1 DEF OrphanInv, OneWriter
    <3>2. \A e \in Daemon : e = d \/ e \in DryRun
      BY <3>1 DEF Orderly
    <3> QED BY <2>1, <3>1, <3>2 DEF OrphanInv, OneWriter, ClaimsInv, TypeOK
  <2>7. MessagesAreSound' /\ OneWriter' /\ WantsAreLabels'
    BY <2>1, <2>6, DryRunAssumption DEF MessagesAreSound, OneWriter, WantsAreLabels, OrphanInv
  <2> QED BY <2>5, <2>7 DEF OrphanInv
<1> QED BY <1>1, <1>2, <1>3, <1>4 DEF Cycle

\* Failures and crashes keep it: nothing is left behind.
LEMMA OrphanFailure ==
  ASSUME Orderly, OrphanInv, ClaimsInv, NEW d \in Daemon, Failure(d)
  PROVE  OrphanInv'
<1>1. ~LeaveBehind(d)
  <2>1. Cardinality(late) = 0 /\ MaxLate = 0
    BY FS_EmptySet DEF OrphanInv, OneWriter, Orderly
  <2> QED BY <2>1 DEF LeaveBehind
<1>2. /\ UNCHANGED <<zone, manual, want, late>>
      /\ pc' = [pc EXCEPT ![d] = "idle"] /\ desired' = [desired EXCEPT ![d] = {}]
      /\ msg' = [msg EXCEPT ![d] = NoMessage]
  BY <1>1 DEF Failure, FetchFails, ExchangeFails, ExchangeTimesOut, Crash, Return
<1>3. WantsAreLabels'
  BY <1>2 DEF OrphanInv, WantsAreLabels, ClaimsInv, TypeOK
<1>4. \A e \in Daemon : pc'[e] = "sent" => pc[e] = "sent" /\ msg'[e] = msg[e]
  BY <1>2 DEF ClaimsInv, TypeOK
<1> QED BY <1>2, <1>3, <1>4, OrphanQuiet

\* So do containers, and operators who keep to what Orderly allows.
LEMMA OrphanEnvironment ==
  ASSUME Orderly, OrphanInv, ClaimsInv, Environment
  PROVE  OrphanInv'
<1>1. ASSUME NEW u \in late PROVE FALSE
  BY <1>1 DEF OrphanInv, OneWriter
<1>2. ASSUME NEW d \in Daemon, NEW ep, (ep \in Labels[d] /\ ContainerStart(d, ep)) \/ ContainerStop(d, ep)
      PROVE  OrphanInv'
  <2>1. UNCHANGED <<zone, manual, late, pc, msg, desired>>
    BY <1>2 DEF ContainerStart, ContainerStop
  <2>2. WantsAreLabels'
    BY <1>2 DEF ContainerStart, ContainerStop, OrphanInv, WantsAreLabels, ClaimsInv, TypeOK
  <2> QED BY <2>1, <2>2, OrphanQuiet
<1>3. ASSUME UNCHANGED <<dvars, late>>,
             \A z \in zone' : z.name \in ManageableNames /\ z.type \in SupportedType => z \in zone,
             \A id \in OwnerID : OwnedNames(id, zone) \subseteq OwnedNames(id, zone')
      PROVE  WantsAreLabels' /\ OneWriter' /\ MessagesAreSound'
  <2>1. UNCHANGED <<want, desired, pc, msg, late>>
    BY <1>3 DEF dvars
  <2>2. WantsAreLabels' /\ OneWriter'
    BY <2>1 DEF OrphanInv, WantsAreLabels, OneWriter
  <2>3. ASSUME NEW d \in Daemon, pc[d] = "sent"
        PROVE  Sound(ownerID[d], ManageableNames, WriterLabels, zone', msg[d])
    <3>1. Sound(ownerID[d], ManageableNames, WriterLabels, zone, msg[d]) /\ ownerID[d] \in OwnerID
      BY <2>3, OwnerAssumption DEF OrphanInv, MessagesAreSound
    <3> QED BY <1>3, <3>1, ManageableFacts, SoundStable
  <2> QED BY <2>1, <2>2, <2>3 DEF MessagesAreSound
<1>4. ASSUME NEW rr \in ManualRR, OperatorAdd(rr) PROVE OrphanInv'
  <2>1. /\ zone' = zone \cup {rr} /\ manual' = manual \cup {rr} /\ UNCHANGED <<dvars, late>>
    BY <1>4 DEF OperatorAdd
  <2>2. /\ \A id \in OwnerID : ~OwnershipRR(id, rr)
        /\ rr.name \in ManageableNames => rr.type \notin SupportedType
        /\ HasOwnerPrefix(rr.name) => rr.type # RecordTypeCNAME
    BY ManualAssumption, UnmarkedIsNoMark DEF Orderly
  <2>3. \A id \in OwnerID : OwnedNames(id, zone) \subseteq OwnedNames(id, zone')
    BY <2>1 DEF OwnedNames
  <2>4. WantsAreLabels' /\ OneWriter' /\ MessagesAreSound'
    BY <1>3, <2>1, <2>2, <2>3
  <2>5. Tidy(OwnerID, ManageableNames, zone', manual')
    BY <2>1, <2>2 DEF OrphanInv, ZoneIsTidy, Tidy
  <2>6. Agrees(zone', WriterLabels)
    BY <2>1, <2>2, ManageableFacts DEF OrphanInv, ZoneIsTidy, Agrees
  <2>7. NoOrphans'
    BY <2>1, <2>3 DEF OrphanInv, NoOrphans
  <2> QED BY <2>4, <2>5, <2>6, <2>7 DEF OrphanInv, ZoneIsTidy
<1>5. ASSUME NEW rr \in zone \cap RemovableRR, OperatorRemove(rr) PROVE OrphanInv'
  <2>1. /\ zone' = zone \ {rr} /\ manual \ {rr} \subseteq manual' /\ UNCHANGED <<dvars, late>>
    BY <1>5 DEF OperatorRemove
  <2>2. \A id \in OwnerID : ~OwnershipRR(id, rr)
    BY DEF Orderly
  <2>3. \A id \in OwnerID : OwnedNames(id, zone) \subseteq OwnedNames(id, zone')
    BY <2>1, <2>2 DEF OwnedNames
  <2>4. WantsAreLabels' /\ OneWriter' /\ MessagesAreSound'
    BY <1>3, <2>1, <2>3
  <2>5. Tidy(OwnerID, ManageableNames, zone', manual')
    BY <2>1 DEF OrphanInv, ZoneIsTidy, Tidy
  <2>6. Agrees(zone', WriterLabels)
    BY <2>1 DEF OrphanInv, ZoneIsTidy, Agrees
  <2>7. NoOrphans'
    BY <2>1, <2>3 DEF OrphanInv, NoOrphans
  <2> QED BY <2>4, <2>5, <2>6, <2>7 DEF OrphanInv, ZoneIsTidy
<1> QED BY <1>1, <1>2, <1>4, <1>5 DEF Environment

\* So it always holds.
LEMMA OrphanInvariant == ASSUME Orderly PROVE Spec => []OrphanInv
<1>1. Init => OrphanInv
  BY OrphanInit
<1>2. ClaimsInv /\ ClaimsInv' /\ OrphanInv /\ [Next]_vars => OrphanInv'
  <2> SUFFICES ASSUME ClaimsInv, ClaimsInv', OrphanInv, [Next]_vars PROVE OrphanInv'
    OBVIOUS
  <2>1. CASE UNCHANGED vars
    BY <2>1 DEF vars, OrphanInv, WantsAreLabels, OneWriter, ZoneIsTidy, MessagesAreSound, NoOrphans
  <2> QED BY <2>1, OrphanCycle, OrphanFailure, OrphanEnvironment DEF Next
<1> QED BY <1>1, <1>2, ClaimsInvariant, PTL DEF Spec

\* A record that a daemon wrote never loses its ownership record, whatever fails
\* and whenever the daemon crashes, if the conditions of Orderly hold.
THEOREM ReconcileNoOrphans == ASSUME Orderly PROVE Spec => []NoOrphans
<1>1. OrphanInv => NoOrphans
  BY DEF OrphanInv
<1> QED BY <1>1, OrphanInvariant, PTL

-----------------------------------------------------------------------------
(* What success means. *)

\* No record at a name that may be managed has a TTL that is read as another.
ZoneIsTimed == Timed(ManageableNames, zone)

\* While nothing else moves, a cycle of daemon d knows what containers ask for, then
\* what the zone lacks, and leaves the zone in sync.
OnCourse(d) ==
  calm[d] =>
    /\ pc[d] = "listed" => desired[d] = want[d]
    /\ pc[d] = "sent" =>
         \E changes \in Calculate(ownerID[d], want[d], Records(zone)) : msg[d] = UpdateMessage(changes)
    /\ pc[d] = "applied" => InSync(d)
    /\ pc[d] = "idle" /\ result[d] = "ok" => InSync(d)

SyncInv == ZoneIsTimed /\ \A d \in Daemon \ DryRun : OnCourse(d)

\* InSync is what the lemmas about one UPDATE are about.
LEMMA InSyncIsSynced ==
  ASSUME NEW d PROVE InSync(d) <=> Synced(OwnerID, ownerID[d], want[d], zone, manual)
BY DEF InSync, Synced, Blocked, Obstructed

\* What Exact says, for those lemmas.
LEMMA ExactLabels == ASSUME Exact PROVE ReadAsWritten(WriterLabels)
BY DEF Exact, ReadAsWritten

\* A plan for the zone as it is, carried out, brings it in sync.
LEMMA CarriedOut ==
  ASSUME Orderly, Exact, ClaimsInv, OrphanInv, ZoneIsTimed, NEW d \in Daemon \ DryRun,
         NEW changes \in Calculate(ownerID[d], want[d], Records(zone)),
         NEW after \in Process(zone, UpdateMessage(changes))
  PROVE  Synced(OwnerID, ownerID[d], want[d], after, manual)
<1>1. ownerID[d] \in OwnerID /\ want[d] \subseteq WriterLabels
  BY OwnerAssumption DEF OrphanInv, WantsAreLabels, WriterLabels
<1>2. /\ zone \in SUBSET ResourceRecord /\ CompleteNames(zone)
      /\ Tidy(OwnerID, ManageableNames, zone, manual) /\ Agrees(zone, WriterLabels)
      /\ Attended(OwnerID, zone, manual) /\ Timed(ManageableNames, zone)
  BY OrphansAttended DEF ClaimsInv, TypeOK, NamesAreComplete, OrphanInv, ZoneIsTidy, ZoneIsTimed
<1> QED BY <1>1, <1>2, ManageableFacts, ExactLabels, PlanSyncs

\* A daemon stays on course while the others' steps leave the zone alone.
LEMMA OthersOnCourse ==
  ASSUME NEW e \in Daemon \ DryRun, OnCourse(e), calm'[e] => calm[e], UNCHANGED <<zone, manual>>,
         want'[e] = want[e], pc'[e] = pc[e], desired'[e] = desired[e], msg'[e] = msg[e],
         result'[e] = result[e]
  PROVE  OnCourse(e)'
<1>1. InSync(e) => InSync(e)'
  BY DEF InSync, Blocked
<1> QED BY <1>1 DEF OnCourse

\* The steps of a cycle keep the invariant.
LEMMA SyncCycle ==
  ASSUME Orderly, Exact, ClaimsInv, OrphanInv, SyncInv, NEW d \in Daemon, Cycle(d)
  PROVE  SyncInv'
<1> USE DEF ClaimsInv, TypeOK
<1>1. ZoneIsTimed /\ \A e \in Daemon \ DryRun : OnCourse(e)
  BY DEF SyncInv
<1>2. CASE FetchDesired(d)
  <2>1. ZoneIsTimed'
    BY <1>1, <1>2 DEF FetchDesired, ZoneIsTimed
  <2>2. ASSUME NEW e \in Daemon \ DryRun, e # d PROVE OnCourse(e)'
    BY <1>1, <1>2, <2>2, OthersOnCourse DEF FetchDesired
  <2>3. OnCourse(d)'
    BY <1>2 DEF FetchDesired, OnCourse
  <2> QED BY <2>1, <2>2, <2>3 DEF SyncInv
<1>3. CASE NothingToApply(d) \/ UpdateSucceeds(d) \/ UpdateRefused(d)
  <2>1. PICK r \in {"ok", "error"} : Return(d, r) /\ (r = "ok" => NothingToApply(d) \/ UpdateSucceeds(d))
    BY <1>3 DEF NothingToApply, UpdateSucceeds, UpdateRefused
  <2>2. UNCHANGED <<zone, manual, want, calm>>
    BY <1>3 DEF NothingToApply, UpdateSucceeds, UpdateRefused
  <2>3. ZoneIsTimed'
    BY <1>1, <2>2 DEF ZoneIsTimed
  <2>4. ASSUME NEW e \in Daemon \ DryRun, e # d PROVE OnCourse(e)'
    BY <1>1, <2>1, <2>2, <2>4, OthersOnCourse DEF Return
  <2>5. ASSUME d \notin DryRun, calm[d], r = "ok" PROVE InSync(d)
    <3>1. CASE UpdateSucceeds(d)
      BY <1>1, <2>5, <3>1 DEF UpdateSucceeds, OnCourse
    <3>2. CASE NothingToApply(d)
      <4>1. PICK changes \in Plans(d) : IsEmpty(changes)
        BY <2>5, <3>2 DEF NothingToApply
      <4>2. desired[d] = want[d]
        BY <1>1, <2>5, <3>2 DEF NothingToApply, OnCourse
      <4>3. changes \in Calculate(ownerID[d], want[d], Records(zone))
        BY <4>1, <4>2 DEF Plans
      <4>4. zone \in Process(zone, UpdateMessage(changes))
        BY <4>1, EmptyUpdate
      <4> QED BY <1>1, <2>5, <4>3, <4>4, CarriedOut, InSyncIsSynced
    <3> QED BY <2>1, <2>5, <3>1, <3>2
  <2>6. ASSUME d \notin DryRun PROVE OnCourse(d)'
    <3>1. pc'[d] = "idle" /\ result'[d] = r
      BY <2>1 DEF Return
    <3>2. InSync(d) => InSync(d)'
      BY <2>2 DEF InSync, Blocked
    <3> QED BY <2>2, <2>5, <2>6, <3>1, <3>2 DEF OnCourse
  <2> QED BY <2>3, <2>4, <2>6 DEF SyncInv
<1>4. CASE SendUpdate(d)
  <2>1. ZoneIsTimed'
    BY <1>1, <1>4 DEF SendUpdate, ZoneIsTimed
  <2>2. ASSUME NEW e \in Daemon \ DryRun, e # d PROVE OnCourse(e)'
    <3>1. /\ UNCHANGED <<zone, manual, want, desired, result, calm>>
          /\ pc'[e] = pc[e] /\ msg'[e] = msg[e]
      BY <1>4, <2>2 DEF SendUpdate
    <3> QED BY <1>1, <3>1, OthersOnCourse
  <2>3. OnCourse(d)'
    <3>1. PICK changes \in Plans(d) : msg' = [msg EXCEPT ![d] = UpdateMessage(changes)]
      BY <1>4 DEF SendUpdate
    <3>2. /\ pc[d] = "listed" /\ d \in Daemon \ DryRun /\ pc'[d] = "sent"
          /\ msg'[d] = UpdateMessage(changes) /\ UNCHANGED <<zone, want, calm>>
      BY <1>4, <3>1 DEF SendUpdate
    <3>3. calm[d] => changes \in Calculate(ownerID[d], want[d], Records(zone))
      BY <1>1, <3>1, <3>2 DEF Plans, OnCourse
    <3> QED BY <3>2, <3>3 DEF OnCourse
  <2> QED BY <2>1, <2>2, <2>3 DEF SyncInv
<1>5. CASE ServerApplies(d)
  <2>1. /\ pc[d] = "sent" /\ zone' \in Process(zone, msg[d]) /\ pc'[d] = "applied"
        /\ UNCHANGED <<manual, want>> /\ calm' = [e \in Daemon |-> calm[e] /\ e = d]
    BY <1>5 DEF ServerApplies
  <2>2. d \in Daemon \ DryRun
    BY <2>1 DEF OrphanInv, OneWriter
  <2>3. ZoneIsTimed'
    <3>1. Sound(ownerID[d], ManageableNames, WriterLabels, zone, msg[d])
      BY <2>1 DEF OrphanInv, MessagesAreSound
    <3>2. Timed(ManageableNames, zone')
      BY <1>1, <2>1, <3>1, ManageableFacts, ExactLabels, ApplyTimed DEF ZoneIsTimed
    <3> QED BY <3>2 DEF ZoneIsTimed
  <2>4. ASSUME NEW e \in Daemon \ DryRun, e # d PROVE OnCourse(e)'
    BY <2>1, <2>4 DEF OnCourse
  <2>5. OnCourse(d)'
    <3>1. ASSUME calm[d] PROVE InSync(d)'
      <4>1. PICK changes \in Calculate(ownerID[d], want[d], Records(zone)) : msg[d] = UpdateMessage(changes)
        BY <1>1, <2>1, <2>2, <3>1 DEF OnCourse
      <4>2. Synced(OwnerID, ownerID[d], want[d], zone', manual)
        BY <1>1, <2>1, <2>2, <4>1, CarriedOut
      <4> QED BY <2>1, <4>2 DEF InSync, Blocked, Synced, Obstructed
    <3> QED BY <2>1, <3>1 DEF OnCourse
  <2> QED BY <2>3, <2>4, <2>5 DEF SyncInv
<1> QED BY <1>2, <1>3, <1>4, <1>5 DEF Cycle

\* A cycle that fails reports no success.
LEMMA SyncFailure ==
  ASSUME Orderly, ClaimsInv, OrphanInv, SyncInv, NEW d \in Daemon, Failure(d)
  PROVE  SyncInv'
<1>1. /\ UNCHANGED <<zone, manual, want, calm>>
      /\ pc' = [pc EXCEPT ![d] = "idle"] /\ desired' = [desired EXCEPT ![d] = {}]
      /\ msg' = [msg EXCEPT ![d] = NoMessage]
  BY DEF Failure, FetchFails, ExchangeFails, ExchangeTimesOut, Crash, Return
<1>2. PICK r \in {"none", "error"} : result' = [result EXCEPT ![d] = r]
  BY DEF Failure, FetchFails, ExchangeFails, ExchangeTimesOut, Crash, Return
<1>3. ZoneIsTimed'
  BY <1>1 DEF SyncInv, ZoneIsTimed
<1>4. ASSUME NEW e \in Daemon \ DryRun, e # d PROVE OnCourse(e)'
  <2>1. /\ pc'[e] = pc[e] /\ desired'[e] = desired[e] /\ msg'[e] = msg[e] /\ result'[e] = result[e]
    BY <1>1, <1>2, <1>4 DEF ClaimsInv, TypeOK
  <2> QED BY <1>1, <2>1, OthersOnCourse DEF SyncInv
<1>5. OnCourse(d)'
  <2>1. pc'[d] = "idle" /\ result'[d] # "ok"
    BY <1>1, <1>2 DEF ClaimsInv, TypeOK
  <2> QED BY <2>1 DEF OnCourse
<1> QED BY <1>3, <1>4, <1>5 DEF SyncInv

\* What containers and operators do is noticed.
LEMMA SyncEnvironment ==
  ASSUME Orderly, ClaimsInv, OrphanInv, SyncInv, Environment
  PROVE  SyncInv'
<1>1. ASSUME NEW u \in late PROVE FALSE
  BY <1>1 DEF OrphanInv, OneWriter
<1>2. ASSUME NEW d \in Daemon, NEW ep, ContainerStart(d, ep) \/ ContainerStop(d, ep) PROVE SyncInv'
  <2>1. /\ UNCHANGED <<zone, manual, pc, desired, msg, result>> /\ calm' = [calm EXCEPT ![d] = FALSE]
        /\ \A e \in Daemon : e # d => want'[e] = want[e]
    BY <1>2 DEF ContainerStart, ContainerStop, ClaimsInv, TypeOK
  <2>2. ZoneIsTimed'
    BY <2>1 DEF SyncInv, ZoneIsTimed
  <2>3. ASSUME NEW e \in Daemon \ DryRun, e # d PROVE OnCourse(e)'
    <3>1. calm'[e] = calm[e]
      BY <2>1, <2>3 DEF ClaimsInv, TypeOK
    <3> QED BY <2>1, <2>3, <3>1, OthersOnCourse DEF SyncInv
  <2>4. OnCourse(d)'
    BY <2>1 DEF OnCourse, ClaimsInv, TypeOK
  <2> QED BY <2>2, <2>3, <2>4 DEF SyncInv
<1>3. ASSUME calm' = Disturbed PROVE \A e \in Daemon \ DryRun : OnCourse(e)'
  BY <1>3 DEF Disturbed, OnCourse
<1>4. ASSUME NEW rr \in ManualRR, OperatorAdd(rr) PROVE SyncInv'
  <2>1. zone' = zone \cup {rr} /\ calm' = Disturbed
    BY <1>4 DEF OperatorAdd
  <2>2. ZoneIsTimed'
    BY <2>1 DEF SyncInv, ZoneIsTimed, Timed, Orderly
  <2> QED BY <1>3, <2>1, <2>2 DEF SyncInv
<1>5. ASSUME NEW rr \in zone \cap RemovableRR, OperatorRemove(rr) PROVE SyncInv'
  <2>1. zone' = zone \ {rr} /\ calm' = Disturbed
    BY <1>5 DEF OperatorRemove
  <2>2. ZoneIsTimed'
    BY <2>1 DEF SyncInv, ZoneIsTimed, Timed
  <2> QED BY <1>3, <2>1, <2>2 DEF SyncInv
<1> QED BY <1>1, <1>2, <1>4, <1>5 DEF Environment

\* A cycle that returns nil, while containers and zone were left alone, leaves the zone
\* in sync with what the containers ask for: whatever failed before, however the server
\* orders the UPDATE, and whatever others keep in the zone.
THEOREM ReconcileSuccessMeansInSync ==
  ASSUME Orderly, Exact PROVE Spec => []SuccessMeansInSync
<1>1. Init => SyncInv
  <2> SUFFICES ASSUME Init PROVE SyncInv
    OBVIOUS
  <2>1. ZoneIsTimed
    BY DEF Init, ZoneIsTimed, Timed, Exact
  <2>2. \A d \in Daemon \ DryRun : OnCourse(d)
    BY DEF Init, OnCourse
  <2> QED BY <2>1, <2>2 DEF SyncInv
<1>2. ClaimsInv /\ OrphanInv /\ SyncInv /\ [Next]_vars => SyncInv'
  <2> SUFFICES ASSUME ClaimsInv, OrphanInv, SyncInv, [Next]_vars PROVE SyncInv'
    OBVIOUS
  <2>1. CASE UNCHANGED vars
    <3>1. UNCHANGED <<zone, manual, want, pc, desired, msg, result, calm>>
      BY <2>1 DEF vars, dvars
    <3>2. \A d \in Daemon \ DryRun : OnCourse(d)'
      BY <3>1, OthersOnCourse DEF SyncInv
    <3> QED BY <3>1, <3>2 DEF SyncInv, ZoneIsTimed
  <2> QED BY <2>1, SyncCycle, SyncFailure, SyncEnvironment DEF Next
<1>3. SyncInv => SuccessMeansInSync
  BY DEF SyncInv, OnCourse, SuccessMeansInSync
<1> QED BY <1>1, <1>2, <1>3, ClaimsInvariant, OrphanInvariant, PTL DEF Spec

\* Nothing unseen is ever where a label asks for a CNAME.
ZoneIsOpen == Open(zone, WriterLabels)

\* An UPDATE is only sent when it changes the zone that was read: a daemon whose
\* records are in place falls silent.
THEOREM ReconcileNoNeedlessUpdate ==
  ASSUME Orderly, Exact, Unobstructed PROVE Spec => NoNeedlessUpdate
<1>1. Init => ZoneIsOpen
  BY DEF Init, ZoneIsOpen, Open, Unobstructed
<1>2. ClaimsInv /\ OrphanInv /\ ZoneIsOpen /\ [Next]_vars => ZoneIsOpen'
  <2> SUFFICES ASSUME ClaimsInv, OrphanInv, ZoneIsOpen, [Next]_vars PROVE ZoneIsOpen'
    OBVIOUS
  <2>1. ASSUME zone' \subseteq zone PROVE ZoneIsOpen'
    BY <2>1 DEF ZoneIsOpen, Open
  <2>2. ASSUME NEW d \in Daemon, ServerApplies(d) PROVE ZoneIsOpen'
    <3>1. pc[d] = "sent" /\ zone' \in Process(zone, msg[d])
      BY <2>2 DEF ServerApplies
    <3>2. Sound(ownerID[d], ManageableNames, WriterLabels, zone, msg[d])
      BY <3>1 DEF OrphanInv, MessagesAreSound
    <3> QED BY <3>1, <3>2, ManageableFacts, ApplyOpen DEF ZoneIsOpen
  <2>3. ASSUME NEW rr \in ManualRR, OperatorAdd(rr) PROVE ZoneIsOpen'
    <3>1. zone' = zone \cup {rr}
      BY <2>3 DEF OperatorAdd
    <3> QED BY <3>1 DEF ZoneIsOpen, Open, Unobstructed
  <2>4. ASSUME NEW rr, OperatorRemove(rr) PROVE ZoneIsOpen'
    BY <2>1, <2>4 DEF OperatorRemove
  <2>5. ASSUME NEW u \in late PROVE FALSE
    BY <2>5 DEF OrphanInv, OneWriter
  <2>6. CASE UNCHANGED vars
    BY <2>1, <2>6 DEF vars
  <2>7. ASSUME NEW d \in Daemon, Failure(d) PROVE ZoneIsOpen'
    BY <2>1, <2>7 DEF Failure, FetchFails, ExchangeFails, ExchangeTimesOut, Crash
  <2>8. ASSUME NEW d \in Daemon, Cycle(d) PROVE ZoneIsOpen'
    BY <2>1, <2>2, <2>8 DEF Cycle, FetchDesired, NothingToApply, SendUpdate, UpdateSucceeds, UpdateRefused
  <2>9. ASSUME NEW d, NEW ep, ContainerStart(d, ep) \/ ContainerStop(d, ep) PROVE ZoneIsOpen'
    BY <2>1, <2>9 DEF ContainerStart, ContainerStop
  <2> QED BY <2>3, <2>4, <2>5, <2>6, <2>7, <2>8, <2>9 DEF Next, Environment
<1>3. ClaimsInv /\ OrphanInv /\ ZoneIsOpen /\ [Next]_vars =>
        [\A d \in Daemon : SendUpdate(d) => Process(zone, msg'[d]) # {zone}]_vars
  <2> SUFFICES ASSUME ClaimsInv, OrphanInv, ZoneIsOpen, NEW d \in Daemon, SendUpdate(d)
               PROVE  zone \notin Process(zone, msg'[d])
    OBVIOUS
  <2>1. PICK changes \in Plans(d) :
          ~IsEmpty(changes) /\ msg' = [msg EXCEPT ![d] = UpdateMessage(changes)]
    BY DEF SendUpdate
  <2>2. /\ changes \in Calculate(ownerID[d], desired[d], Records(zone))
        /\ d \in Daemon \ DryRun /\ ownerID[d] \in OwnerID /\ msg'[d] = UpdateMessage(changes)
        /\ desired[d] \subseteq WriterLabels
    BY <2>1, OwnerAssumption
       DEF Plans, SendUpdate, OrphanInv, WantsAreLabels, WriterLabels, ClaimsInv, TypeOK
  <2>3. /\ zone \in SUBSET ResourceRecord /\ CompleteNames(zone)
        /\ Tidy(OwnerID, ManageableNames, zone, manual) /\ Agrees(zone, WriterLabels)
    BY DEF ClaimsInv, TypeOK, NamesAreComplete, OrphanInv, ZoneIsTidy
  <2>4. Sound(ownerID[d], ManageableNames, WriterLabels, zone, UpdateMessage(changes))
    BY <2>2, <2>3, ManageableFacts, PlanSound
  <2>5. Needed(ManageableNames, zone, UpdateMessage(changes))
    BY <2>1, <2>2, <2>3, ManageableFacts, ExactLabels, PlanNeeded
  <2> QED BY <2>2, <2>4, <2>5, ManageableFacts, NeededChanges DEF ZoneIsOpen
<1> QED BY <1>1, <1>2, <1>3, ClaimsInvariant, OrphanInvariant, PTL DEF Spec, NoNeedlessUpdate
-----------------------------------------------------------------------------
(* What an UPDATE takes away. *)

\* What an UPDATE under way takes away is still its owner's.
RemovalsAreOwned ==
  \A d \in Daemon : pc[d] = "sent" => RemovesOwn(ownerID[d], ManageableNames, zone, msg[d])

\* While the owner's marks stay and nothing is sent, it remains so.
LEMMA RemovalsQuiet ==
  ASSUME RemovalsAreOwned,
         \A id \in OwnerID : OwnedNames(id, zone) \subseteq OwnedNames(id, zone'),
         \A d \in Daemon : pc'[d] = "sent" => pc[d] = "sent" /\ msg'[d] = msg[d]
  PROVE  RemovalsAreOwned'
<1> SUFFICES ASSUME NEW d \in Daemon, pc'[d] = "sent"
             PROVE  RemovesOwn(ownerID[d], ManageableNames, zone', msg'[d])
  BY DEF RemovalsAreOwned
<1>1. RemovesOwn(ownerID[d], ManageableNames, zone, msg[d]) /\ msg'[d] = msg[d]
  BY DEF RemovalsAreOwned
<1>2. OwnedNames(ownerID[d], zone) \subseteq OwnedNames(ownerID[d], zone')
  BY OwnerAssumption
<1> QED BY <1>1, <1>2 DEF RemovesOwn

\* The steps of a cycle keep it.
LEMMA RemovalsCycle ==
  ASSUME Orderly, ClaimsInv, OrphanInv, RemovalsAreOwned, NEW d \in Daemon, Cycle(d)
  PROVE  RemovalsAreOwned'
<1> USE DEF ClaimsInv, TypeOK
<1>1. CASE FetchDesired(d) \/ NothingToApply(d) \/ UpdateSucceeds(d) \/ UpdateRefused(d)
  <2>1. zone' = zone /\ \A e \in Daemon : pc'[e] = "sent" => pc[e] = "sent" /\ msg'[e] = msg[e]
    BY <1>1 DEF FetchDesired, NothingToApply, UpdateSucceeds, UpdateRefused, Return
  <2> QED BY <2>1, RemovalsQuiet
<1>2. CASE SendUpdate(d)
  <2>1. PICK changes \in Plans(d) : msg' = [msg EXCEPT ![d] = UpdateMessage(changes)]
    BY <1>2 DEF SendUpdate
  <2>2. /\ changes \in Calculate(ownerID[d], desired[d], Records(zone))
        /\ d \in Daemon \ DryRun /\ ownerID[d] \in OwnerID
        /\ desired[d] \subseteq WriterLabels
    BY <1>2, <2>1, OwnerAssumption DEF Plans, SendUpdate, OrphanInv, WantsAreLabels, WriterLabels
  <2>3. /\ zone \in SUBSET ResourceRecord /\ CompleteNames(zone)
        /\ Tidy(OwnerID, ManageableNames, zone, manual) /\ Agrees(zone, WriterLabels)
    BY DEF NamesAreComplete, OrphanInv, ZoneIsTidy
  <2>4. RemovesOwn(ownerID[d], ManageableNames, zone, UpdateMessage(changes))
    BY <2>2, <2>3, ManageableFacts, PlanRemovesOwn
  <2>5. /\ zone' = zone /\ msg'[d] = UpdateMessage(changes)
        /\ \A e \in Daemon : e # d => pc'[e] = pc[e] /\ msg'[e] = msg[e]
    BY <1>2, <2>1 DEF SendUpdate
  <2> QED BY <2>4, <2>5 DEF RemovalsAreOwned
<1>3. CASE ServerApplies(d)
  <2>1. pc[d] = "sent" /\ pc' = [pc EXCEPT ![d] = "applied"]
    BY <1>3 DEF ServerApplies
  <2>2. d \notin DryRun
    BY <2>1 DEF OrphanInv, OneWriter
  <2>3. \A e \in Daemon : e = d \/ e \in DryRun
    BY <2>2 DEF Orderly
  <2>4. \A e \in Daemon : pc'[e] # "sent"
    BY <2>1, <2>3 DEF OrphanInv, OneWriter
  <2> QED BY <2>4 DEF RemovalsAreOwned
<1> QED BY <1>1, <1>2, <1>3 DEF Cycle

\* So do failures, containers, and operators who leave ownership records alone.
LEMMA RemovalsNext ==
  ASSUME Orderly, ClaimsInv, OrphanInv, RemovalsAreOwned, [Next]_vars
  PROVE  RemovalsAreOwned'
<1>1. ASSUME NEW d \in Daemon, Failure(d) PROVE RemovalsAreOwned'
  <2>1. zone' = zone /\ \A e \in Daemon : pc'[e] = "sent" => pc[e] = "sent" /\ msg'[e] = msg[e]
    BY <1>1 DEF Failure, FetchFails, ExchangeFails, ExchangeTimesOut, Crash, Return, ClaimsInv, TypeOK
  <2> QED BY <2>1, RemovalsQuiet
<1>2. ASSUME NEW u \in late PROVE FALSE
  BY <1>2 DEF OrphanInv, OneWriter
<1>3. ASSUME NEW d, NEW ep, ContainerStart(d, ep) \/ ContainerStop(d, ep) PROVE RemovalsAreOwned'
  BY <1>3, RemovalsQuiet DEF ContainerStart, ContainerStop
<1>4. ASSUME NEW rr \in ManualRR, OperatorAdd(rr) PROVE RemovalsAreOwned'
  <2>1. \A id \in OwnerID : OwnedNames(id, zone) \subseteq OwnedNames(id, zone')
    BY <1>4 DEF OperatorAdd, OwnedNames
  <2>2. UNCHANGED <<pc, msg>>
    BY <1>4 DEF OperatorAdd, dvars
  <2> QED BY <2>1, <2>2, RemovalsQuiet
<1>5. ASSUME NEW rr \in RemovableRR, OperatorRemove(rr) PROVE RemovalsAreOwned'
  <2>1. \A id \in OwnerID : ~OwnershipRR(id, rr)
    BY DEF Orderly
  <2>2. \A id \in OwnerID : OwnedNames(id, zone) \subseteq OwnedNames(id, zone')
    BY <1>5, <2>1 DEF OperatorRemove, OwnedNames
  <2>3. UNCHANGED <<pc, msg>>
    BY <1>5 DEF OperatorRemove, dvars
  <2> QED BY <2>2, <2>3, RemovalsQuiet
<1>6. CASE UNCHANGED vars
  BY <1>6, RemovalsQuiet DEF vars, dvars
<1> QED BY <1>1, <1>2, <1>3, <1>4, <1>5, <1>6, RemovalsCycle DEF Next, Environment

\* README.md: "Only records with a matching ownership TXT record are ever modified or
\* deleted."  With one daemon that writes, no late UPDATE, and operators who leave
\* ownership records alone, an UPDATE finds every record that it takes away or
\* replaces still its owner's, whatever operators and containers did since the
\* transfer that it was computed from.
THEOREM ReconcileOnlyOwnedChanged == ASSUME Orderly PROVE Spec => OnlyOwnedChanged
<1> DEFINE Step == /\ \A d \in Daemon :
                        pc[d] = "sent" /\ pc'[d] = "applied" => TakesOnlyOwned(ownerID[d])
                   /\ \A u \in late \ late' : TakesOnlyOwned(u.owner)
<1>1. Init => RemovalsAreOwned
  BY DEF Init, RemovalsAreOwned
<1>2. ClaimsInv /\ OrphanInv /\ RemovalsAreOwned /\ [Next]_vars => RemovalsAreOwned'
  BY RemovalsNext
<1>3. ClaimsInv /\ OrphanInv /\ RemovalsAreOwned /\ [Next]_vars => [Step]_vars
  <2> SUFFICES ASSUME ClaimsInv, OrphanInv, RemovalsAreOwned, Next PROVE Step
    OBVIOUS
  <2>1. late = {}
    BY DEF OrphanInv, OneWriter
  <2> SUFFICES ASSUME NEW d \in Daemon, pc[d] = "sent", pc'[d] = "applied" PROVE TakesOnlyOwned(ownerID[d])
    BY <2>1
  <2>2. ServerApplies(d)
    <3> USE DEF ClaimsInv, TypeOK
    <3>1. ~Environment
      BY <2>1 DEF Environment, ContainerStart, ContainerStop, OperatorAdd, OperatorRemove, dvars
    <3>2. PICK e \in Daemon : Cycle(e) \/ Failure(e)
      BY <3>1 DEF Next
    <3>3. ~Failure(e)
      BY DEF Failure, FetchFails, ExchangeFails, ExchangeTimesOut, Crash, Return
    <3>4. ServerApplies(e)
      BY <3>2, <3>3 DEF Cycle, FetchDesired, NothingToApply, SendUpdate, UpdateSucceeds,
                        UpdateRefused, Return
    <3>5. e = d
      BY <3>4 DEF ServerApplies
    <3> QED BY <3>4, <3>5
  <2>3. /\ zone' \in Process(zone, msg[d])
        /\ Sound(ownerID[d], ManageableNames, WriterLabels, zone, msg[d])
        /\ RemovesOwn(ownerID[d], ManageableNames, zone, msg[d])
    BY <2>2 DEF ServerApplies, OrphanInv, MessagesAreSound, RemovalsAreOwned
  <2> QED BY <2>3, ManageableFacts, LossesAreOwn DEF TakesOnlyOwned
<1>4. [Step]_vars => [/\ \A d \in Daemon :
                           pc[d] = "sent" /\ pc'[d] = "applied" => TakesOnlyOwned(ownerID[d])
                      /\ \A u \in late \ late' : TakesOnlyOwned(u.owner)]_vars
  OBVIOUS
<1> HIDE DEF Step
<1> QED BY <1>1, <1>2, <1>3, <1>4, ClaimsInvariant, OrphanInvariant, PTL DEF Spec, OnlyOwnedChanged
=============================================================================
