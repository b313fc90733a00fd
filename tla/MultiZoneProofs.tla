-------------------------- MODULE MultiZoneProofs --------------------------
(***************************************************************************)
(* Proofs about MultiZone.tla: for every list of zones, every routing of   *)
(* names to them and every fault of the model, the daemon keeps the        *)
(* promise of ManagedZone in every zone, although it plans on a merged     *)
(* list of transfers that are out of date when the UPDATEs are sent, and   *)
(* sends them one by one; what it writes is where resolvers look for it.   *)
(* Where each managed name is in the zone that serves it, the split of the *)
(* one plan gives each zone a plan of its own: then a record and its       *)
(* companion stay together, and success means that all zones are in sync.  *)
(***************************************************************************)
EXTENDS MultiZone, RFC2136Proofs, Induction, SequenceTheorems

-----------------------------------------------------------------------------
(* The inductive invariant. *)

\* Names in the zones are complete, and every ownership record is for a name
\* its owner has a claim to.
ZonesAreClaimed ==
  \A i \in Entry :
    /\ CompleteNames(zones[i])
    /\ \A id \in OwnerID : OwnedNames(id, zones[i]) \subseteq Claims[id]

\* So is what the transfers of this cycle have returned, however old.
CurrentIsClaimed == ReadBack(current) /\ buildOwnedSet(ownerID, current) \subseteq claimed

\* The daemon asks, and plans, only for names it has a claim to.
WantsAreClaims == \A ep \in want \cup desired : Fqdn(ep.DNSName) \in claimed

\* Every UPDATE that waits for its turn is safe.
PendingIsSafe == \A i \in Entry : SafeMessage(ownerID, claimed, pending[i])

MultiInv ==
  /\ TypeOK
  /\ ZonesAreClaimed
  /\ CurrentIsClaimed
  /\ WantsAreClaims
  /\ PendingIsSafe

\* Nothing to send is safe.
LEMMA NoMessageSafe ==
  ASSUME NEW id, NEW names PROVE NoMessage \in Message /\ SafeMessage(id, names, NoMessage)
  BY DEF NoMessage, Message, SafeMessage

\* The ownership records of two lists are those of either.
LEMMA OwnedUnion ==
  ASSUME NEW id, NEW a, NEW b
  PROVE  buildOwnedSet(id, a \cup b) = buildOwnedSet(id, a) \cup buildOwnedSet(id, b)
  BY DEF buildOwnedSet

\* Ownership records mark names.
LEMMA OwnedAreNames ==
  ASSUME NEW id, NEW zone \in SUBSET ResourceRecord
  PROVE  OwnedNames(id, zone) \subseteq Name
  BY ManagedNameFacts DEF OwnedNames, OwnershipRR, ResourceRecord

\* The names of labels, completed, are names.
LEMMA LabelNames ==
  ASSUME NEW ep \in LabelEndpoint PROVE Fqdn(ep.DNSName) \in Name
<1>1. ep.DNSName \in Name
  BY DEF LabelEndpoint
<1> QED
  BY <1>1, FqdnFacts

-----------------------------------------------------------------------------
\* The invariant holds at the start.
LEMMA MultiInit == Init => MultiInv
<1> SUFFICES ASSUME Init PROVE MultiInv
  OBVIOUS
<1>1. zones \in [Entry -> SUBSET ResourceRecord] /\ zones = InitialZones
  BY InitialZonesAssumption DEF Init
<1>2. want \in SUBSET LabelEndpoint
  BY LabelsAssumption DEF Init
<1>3. claimed \in SUBSET Name
  BY <1>1, <1>2, OwnedAreNames, LabelNames DEF Init
<1>4. ZonesAreClaimed
  BY <1>1, CanonicalAssumption DEF Init, ZonesAreClaimed, Claims, CompleteNames
<1>5. CurrentIsClaimed
  BY DEF Init, CurrentIsClaimed, ReadBack, buildOwnedSet
<1>6. WantsAreClaims
  BY DEF Init, WantsAreClaims
<1>7. PendingIsSafe
  BY NoMessageSafe DEF Init, PendingIsSafe
<1>8. TypeOK
  <2>1. /\ refusing \in SUBSET Entry /\ waiting \in SUBSET Entry /\ todo \in SUBSET Entry
        /\ pc \in {"idle", "transfer", "apply"} /\ result \in {"none", "ok", "error"}
        /\ desired \in SUBSET LabelEndpoint /\ current \in SUBSET EndpointRecord
    BY DEF Init
  <2>2. failed \in BOOLEAN /\ calm \in BOOLEAN
    BY Zenon DEF Init
  <2>3. pending \in [Entry -> Message] /\ edits \in Nat /\ faults \in Nat
    BY NoMessageSafe DEF Init
  <2> QED
    BY <1>1, <1>2, <1>3, <2>1, <2>2, <2>3 DEF TypeOK
<1> QED
  BY <1>4, <1>5, <1>6, <1>7, <1>8 DEF MultiInv

\* The end of a cycle keeps it, whatever happens to one of the zones.
LEMMA MultiReturn ==
  ASSUME MultiInv, NEW r \in {"none", "ok", "error"}, Return(r),
         UNCHANGED <<refusing, evars, calm, edits>>, faults' \in Nat,
         zones' \in [Entry -> SUBSET ResourceRecord], ZonesAreClaimed'
  PROVE  MultiInv'
<1>1. TypeOK'
  <2>1. pending' \in [Entry -> Message]
    BY NoMessageSafe DEF Return
  <2>2. failed' \in BOOLEAN
    BY Zenon DEF Return
  <2> QED
    BY <2>1, <2>2 DEF MultiInv, TypeOK, Return, evars
<1>2. CurrentIsClaimed'
  BY DEF Return, CurrentIsClaimed, ReadBack, buildOwnedSet
<1>3. WantsAreClaims'
  BY DEF MultiInv, Return, WantsAreClaims, evars
<1>4. PendingIsSafe'
  BY NoMessageSafe DEF Return, PendingIsSafe
<1> QED
  BY <1>1, <1>2, <1>3, <1>4 DEF MultiInv

\* One zone's UPDATE keeps what the invariant says of the zones, and is a step
\* that ManagedZone allows the daemon.
LEMMA MultiApply ==
  ASSUME MultiInv, NEW i \in Entry, NEW z \in Process(zones[i], pending[i]),
         zones' = [zones EXCEPT ![i] = z], claimed' = claimed
  PROVE  /\ zones' \in [Entry -> SUBSET ResourceRecord]
         /\ ZonesAreClaimed'
         /\ \A rr \in (zones[i] \ z) \cup (z \ zones[i]) :
              /\ rr.name \in Touchable(claimed)
              /\ \A other \in OwnerID \ {ownerID} : ~OwnershipRR(other, rr)
<1>1. /\ zones[i] \in SUBSET ResourceRecord /\ CompleteNames(zones[i])
      /\ pending[i] \in Message /\ SafeMessage(ownerID, claimed, pending[i])
  BY DEF MultiInv, TypeOK, ZonesAreClaimed, PendingIsSafe
<1>2. /\ z \in SUBSET ResourceRecord
      /\ CompleteNames(z)
      /\ \A o \in OwnerID : \A rr \in z :
           OwnershipRR(o, rr) =>
             rr \in zones[i] \/ (o = ownerID /\ ManagedName(rr.name) \in claimed)
      /\ \A rr \in (zones[i] \ z) \cup (z \ zones[i]) :
           /\ rr.name \in Touchable(claimed)
           /\ \A other \in OwnerID \ {ownerID} : ~OwnershipRR(other, rr)
  <2> DEFINE before == zones[i]
             m == pending[i]
  <2>1. /\ before \in SUBSET ResourceRecord /\ CompleteNames(before)
        /\ m \in Message /\ SafeMessage(ownerID, claimed, m)
        /\ z \in Process(before, m)
    BY <1>1, Zenon
  <2> HIDE DEF before, m
  <2>2. /\ z \in SUBSET ResourceRecord
        /\ CompleteNames(z)
        /\ \A o \in OwnerID : \A rr \in z :
             OwnershipRR(o, rr) =>
               rr \in before \/ (o = ownerID /\ ManagedName(rr.name) \in claimed)
        /\ \A rr \in (before \ z) \cup (z \ before) :
             /\ rr.name \in Touchable(claimed)
             /\ \A other \in OwnerID \ {ownerID} : ~OwnershipRR(other, rr)
    BY <2>1, OwnerAssumption, ApplySafe
  <2> QED
    BY <2>2, Zenon DEF before
<1>3. zones' \in [Entry -> SUBSET ResourceRecord]
  BY <1>2 DEF MultiInv, TypeOK
<1>4. \A j \in Entry : zones'[j] = IF j = i THEN z ELSE zones[j]
  BY DEF MultiInv, TypeOK
<1>5. ASSUME NEW id \in OwnerID PROVE OwnedNames(id, z) \subseteq Claims[id]
  <2>1. OwnedNames(id, zones[i]) \subseteq Claims[id]
    BY DEF MultiInv, ZonesAreClaimed
  <2>2. id = ownerID => Claims[id] = claimed
    BY DEF Claims
  <2> QED
    BY <1>2, <2>1, <2>2 DEF OwnedNames
<1>6. Claims' = Claims
  BY DEF Claims
<1>7. ZonesAreClaimed'
  BY <1>2, <1>4, <1>5, <1>6 DEF MultiInv, ZonesAreClaimed
<1> QED
  BY <1>2, <1>3, <1>7

\* Every step of a cycle keeps the invariant.
LEMMA MultiCycle == ASSUME MultiInv, Cycle PROVE MultiInv'
<1>1. CASE FetchDesired
  <2>1. TypeOK'
    BY <1>1 DEF FetchDesired, MultiInv, TypeOK, evars
  <2>2. ZonesAreClaimed' /\ CurrentIsClaimed' /\ PendingIsSafe'
    BY <1>1 DEF FetchDesired, MultiInv, ZonesAreClaimed, Claims, CurrentIsClaimed,
                PendingIsSafe, evars
  <2>3. WantsAreClaims'
    BY <1>1 DEF FetchDesired, MultiInv, WantsAreClaims, evars
  <2> QED
    BY <2>1, <2>2, <2>3 DEF MultiInv
<1>2. ASSUME NEW i \in Entry, Transfer(i) PROVE MultiInv'
  <2> DEFINE new == Records(zones[i])
  <2>1. ReadBack(new) /\ buildOwnedSet(ownerID, new) \subseteq claimed
    <3>1. zones[i] \in SUBSET ResourceRecord /\ CompleteNames(zones[i])
      BY DEF MultiInv, TypeOK, ZonesAreClaimed
    <3>2. ReadBack(new) /\ buildOwnedSet(ownerID, new) = OwnedNames(ownerID, zones[i])
      BY <3>1, OwnerAssumption, RecordsFacts
    <3> QED
      BY <3>2, OwnerAssumption DEF MultiInv, ZonesAreClaimed, Claims
  <2>2. current' = current \cup new /\ claimed' = claimed
    BY <1>2 DEF Transfer, evars
  <2> HIDE DEF new
  <2>3. CurrentIsClaimed'
    BY <2>1, <2>2, OwnedUnion DEF MultiInv, CurrentIsClaimed, ReadBack
  <2>4. TypeOK'
    <3>1. current' \in SUBSET EndpointRecord
      BY <2>3 DEF CurrentIsClaimed, ReadBack
    <3> QED
      BY <1>2, <3>1 DEF Transfer, MultiInv, TypeOK, evars
  <2>5. ZonesAreClaimed' /\ WantsAreClaims' /\ PendingIsSafe'
    BY <1>2 DEF Transfer, MultiInv, ZonesAreClaimed, Claims, WantsAreClaims, PendingIsSafe, evars
  <2> QED
    BY <2>3, <2>4, <2>5 DEF MultiInv
<1>3. ASSUME RecordsFails \/ NothingToApply \/ ApplyReturns \/ \E i \in Entry : ApplyRefused(i)
      PROVE  MultiInv'
  <2>1. PICK r \in {"none", "ok", "error"} : Return(r)
    BY <1>3 DEF RecordsFails, NothingToApply, ApplyReturns, ApplyRefused
  <2>2. UNCHANGED <<zones, refusing, evars, calm, edits, faults>>
    BY <1>3 DEF RecordsFails, NothingToApply, ApplyReturns, ApplyRefused
  <2>3. ZonesAreClaimed' /\ faults' \in Nat /\ zones' \in [Entry -> SUBSET ResourceRecord]
    BY <2>2 DEF MultiInv, TypeOK, ZonesAreClaimed, Claims, evars
  <2> QED
    BY <2>1, <2>2, <2>3, MultiReturn
<1>4. CASE Split
  <2>1. PICK changes \in Plans :
          /\ todo' = {i \in Entry : ~IsEmpty(ChangesFor(i, changes))}
          /\ pending' = [i \in Entry |-> UpdateMessage(ChangesFor(i, changes))]
    BY <1>4 DEF Split
  <2>2. ASSUME NEW i \in Entry
        PROVE  /\ UpdateMessage(ChangesFor(i, changes)) \in Message
               /\ SafeMessage(ownerID, claimed, UpdateMessage(ChangesFor(i, changes)))
    <3> DEFINE part == ChangesFor(i, changes)
    <3>1. /\ part.Create \subseteq changes.Create
          /\ part.Update \subseteq changes.Update
          /\ part.Delete \subseteq changes.Delete
      BY DEF ChangesFor
    <3> HIDE DEF part
    <3>2. /\ ReadBack(current) /\ buildOwnedSet(ownerID, current) \subseteq claimed
          /\ desired \subseteq LabelEndpoint
          /\ \A ep \in desired : Fqdn(ep.DNSName) \in claimed
          /\ changes \in Calculate(ownerID, desired, current)
      BY DEF MultiInv, TypeOK, CurrentIsClaimed, WantsAreClaims, Plans
    <3>3. UpdateMessage(part) \in Message /\ SafeMessage(ownerID, claimed, UpdateMessage(part))
      BY <3>1, <3>2, OwnerAssumption, PlanSafe
    <3> QED
      BY <3>3 DEF part
  <2>3. PendingIsSafe' /\ pending' \in [Entry -> Message] /\ todo' \in SUBSET Entry
    BY <1>4, <2>1, <2>2 DEF Split, PendingIsSafe, evars
  <2>4. TypeOK'
    BY <1>4, <2>3 DEF Split, MultiInv, TypeOK, evars
  <2>5. ZonesAreClaimed' /\ CurrentIsClaimed' /\ WantsAreClaims'
    BY <1>4 DEF Split, MultiInv, ZonesAreClaimed, Claims, CurrentIsClaimed, WantsAreClaims, evars
  <2> QED
    BY <2>3, <2>4, <2>5 DEF MultiInv
<1>5. ASSUME NEW i \in Entry, Apply(i) PROVE MultiInv'
  <2>1. PICK z \in Process(zones[i], pending[i]) : zones' = [zones EXCEPT ![i] = z]
    BY <1>5 DEF Apply
  <2>2. claimed' = claimed
    BY <1>5 DEF Apply, evars
  <2>3. zones' \in [Entry -> SUBSET ResourceRecord] /\ ZonesAreClaimed'
    BY <2>1, <2>2, MultiApply
  <2>4. TypeOK'
    BY <1>5, <2>3 DEF Apply, MultiInv, TypeOK, evars
  <2>5. CurrentIsClaimed' /\ WantsAreClaims' /\ PendingIsSafe'
    BY <1>5 DEF Apply, MultiInv, CurrentIsClaimed, WantsAreClaims, PendingIsSafe, evars
  <2> QED
    BY <2>3, <2>4, <2>5 DEF MultiInv
<1> QED
  BY <1>1, <1>2, <1>3, <1>4, <1>5 DEF Cycle

\* So does every failure.
LEMMA MultiFailure == ASSUME MultiInv, Failure PROVE MultiInv'
<1>1. ASSUME NEW i \in Entry, TransferFails(i) PROVE MultiInv'
  <2>1. faults' \in Nat
    BY <1>1 DEF TransferFails, Fault, MultiInv, TypeOK
  <2>2. TypeOK'
    BY <1>1, <2>1 DEF TransferFails, MultiInv, TypeOK, evars
  <2>3. ZonesAreClaimed' /\ CurrentIsClaimed' /\ WantsAreClaims' /\ PendingIsSafe'
    BY <1>1 DEF TransferFails, MultiInv, ZonesAreClaimed, Claims, CurrentIsClaimed,
                WantsAreClaims, PendingIsSafe, evars
  <2> QED
    BY <2>2, <2>3 DEF MultiInv
<1>2. ASSUME FetchFails \/ Crash \/ \E i \in Entry : ApplyFails(i) PROVE MultiInv'
  <2>1. /\ \E r \in {"none", "error"} : Return(r)
        /\ Fault
        /\ UNCHANGED <<refusing, evars, calm, edits>>
    BY <1>2 DEF FetchFails, Crash, ApplyFails
  <2>2. \/ zones' = zones
        \/ \E i \in Entry : \E z \in Process(zones[i], pending[i]) :
             zones' = [zones EXCEPT ![i] = z]
    BY <1>2 DEF FetchFails, Crash, ApplyFails
  <2>3. faults' \in Nat /\ claimed' = claimed
    BY <2>1 DEF Fault, MultiInv, TypeOK, evars
  <2>4. zones' \in [Entry -> SUBSET ResourceRecord] /\ ZonesAreClaimed'
    <3>1. CASE zones' = zones
      BY <2>3, <3>1 DEF MultiInv, TypeOK, ZonesAreClaimed, Claims
    <3>2. ASSUME NEW i \in Entry, NEW z \in Process(zones[i], pending[i]),
                 zones' = [zones EXCEPT ![i] = z]
          PROVE  zones' \in [Entry -> SUBSET ResourceRecord] /\ ZonesAreClaimed'
      BY <2>3, <3>2, MultiApply
    <3> QED
      BY <2>2, <3>1, <3>2
  <2> QED
    BY <2>1, <2>3, <2>4, MultiReturn
<1> QED
  BY <1>1, <1>2 DEF Failure

\* So do the containers: claims only grow.
LEMMA MultiEnvironment == ASSUME MultiInv, Environment PROVE MultiInv'
<1>1. ASSUME Edit PROVE edits' \in Nat
  BY <1>1 DEF Edit, MultiInv, TypeOK
<1>2. ASSUME NEW ep \in Labels, ContainerStart(ep) PROVE MultiInv'
  <2>1. ep \in LabelEndpoint /\ Fqdn(ep.DNSName) \in Name
    BY LabelsAssumption, LabelNames
  <2>2. claimed' = claimed \cup {Fqdn(ep.DNSName)} /\ want' = want \cup {ep}
    BY <1>2 DEF ContainerStart
  <2>3. calm' \in BOOLEAN /\ edits' \in Nat
    BY <1>1, <1>2 DEF ContainerStart
  <2>4. TypeOK'
    BY <1>2, <2>1, <2>2, <2>3 DEF ContainerStart, MultiInv, TypeOK, cvars
  <2>5. ZonesAreClaimed'
    <3>1. \A id \in OwnerID : Claims[id] \subseteq Claims'[id]
      BY <2>2 DEF Claims
    <3> QED
      BY <1>2, <3>1 DEF ContainerStart, MultiInv, ZonesAreClaimed
  <2>6. CurrentIsClaimed' /\ WantsAreClaims'
    BY <1>2, <2>2 DEF ContainerStart, MultiInv, CurrentIsClaimed, WantsAreClaims, cvars
  <2>7. PendingIsSafe'
    BY <1>2, <2>2, SafeMonotone DEF ContainerStart, MultiInv, PendingIsSafe, cvars
  <2> QED
    BY <2>4, <2>5, <2>6, <2>7 DEF MultiInv
<1>3. ASSUME NEW ep \in want, ContainerStop(ep) PROVE MultiInv'
  <2>1. calm' \in BOOLEAN /\ edits' \in Nat
    BY <1>1, <1>3 DEF ContainerStop
  <2>2. TypeOK'
    BY <1>3, <2>1 DEF ContainerStop, MultiInv, TypeOK, cvars
  <2>3. ZonesAreClaimed' /\ CurrentIsClaimed' /\ WantsAreClaims' /\ PendingIsSafe'
    BY <1>3 DEF ContainerStop, MultiInv, ZonesAreClaimed, Claims, CurrentIsClaimed,
                WantsAreClaims, PendingIsSafe, cvars
  <2> QED
    BY <2>2, <2>3 DEF MultiInv
<1> QED
  BY <1>2, <1>3 DEF Environment

\* The invariant is inductive.
LEMMA MultiNext == MultiInv /\ [Next]_vars => MultiInv'
<1> SUFFICES ASSUME MultiInv, [Next]_vars PROVE MultiInv'
  OBVIOUS
<1>1. CASE UNCHANGED vars
  BY <1>1 DEF vars, evars, cvars, MultiInv, TypeOK, ZonesAreClaimed, Claims, CurrentIsClaimed,
              WantsAreClaims, PendingIsSafe
<1> QED
  BY <1>1, MultiCycle, MultiFailure, MultiEnvironment DEF Next

\* ... and holds in every reachable state.
LEMMA MultiInvariant == Spec => []MultiInv
  BY MultiInit, MultiNext, PTL DEF Spec

\* Type correctness of the multi-zone daemon.
THEOREM MultiZoneTypeOK == Spec => []TypeOK
<1>1. MultiInv => TypeOK
  BY DEF MultiInv
<1> QED
  BY <1>1, MultiInvariant, PTL

-----------------------------------------------------------------------------
(* Refinement, zone by zone. *)

\* The instances of ManagedZone have their own copy of every definition; these
\* are the ones its specification uses.
LEMMA SameDefinitions ==
  ASSUME NEW i
  PROVE  /\ \A id, rr : MZ(i)!OwnershipRR(id, rr) <=> OwnershipRR(id, rr)
         /\ \A id, z : MZ(i)!OwnedNames(id, z) = OwnedNames(id, z)
         /\ \A names : MZ(i)!Touchable(names) = Touchable(names)
         /\ MZ(i)!ResourceRecord = ResourceRecord
         /\ MZ(i)!Name = Name
<1>1. MZ(i)!ResourceRecord = ResourceRecord /\ MZ(i)!Name = Name
  BY Zenon DEF MZ!ResourceRecord, ResourceRecord, MZ!Name, Name, MZ!TypeName, TypeName,
    MZ!SupportedType, SupportedType, MZ!RecordTypeA, RecordTypeA, MZ!RecordTypeAAAA,
    RecordTypeAAAA, MZ!RecordTypeCNAME, RecordTypeCNAME, MZ!RecordTypeTXT, RecordTypeTXT,
    MZ!Target, Target, MZ!LabelTarget, LabelTarget, MZ!OwnerTarget, OwnerTarget
<1>2. ASSUME NEW id, NEW rr PROVE MZ(i)!OwnershipRR(id, rr) <=> OwnershipRR(id, rr)
  BY Zenon DEF MZ!OwnershipRR, OwnershipRR, MZ!RecordTypeTXT, RecordTypeTXT,
    MZ!HasOwnerPrefix, HasOwnerPrefix, MZ!ownershipValue, ownershipValue
<1>3. ASSUME NEW id, NEW z PROVE MZ(i)!OwnedNames(id, z) = OwnedNames(id, z)
  BY <1>2 DEF MZ!OwnedNames, OwnedNames, MZ!ManagedName, ManagedName
<1>4. ASSUME NEW names PROVE MZ(i)!Touchable(names) = Touchable(names)
  BY Zenon DEF MZ!Touchable, Touchable, MZ!ownershipName, ownershipName
<1> QED
  BY <1>1, <1>2, <1>3, <1>4, Zenon

\* Claims are sets of names.
LEMMA ClaimsType == ASSUME claimed \in SUBSET Name PROVE Claims \in [OwnerID -> SUBSET Name]
  BY InitialZonesAssumption, OwnedAreNames DEF Claims

\* Every initial state of the daemon is one of ManagedZone in each zone.
LEMMA MultiRefineInit == Init => \A i \in Entry : MZ(i)!Init
<1> SUFFICES ASSUME Init, NEW i \in Entry PROVE MZ(i)!Init
  OBVIOUS
<1>1. MultiInv
  BY MultiInit
<1>2. zones[i] \in SUBSET ResourceRecord /\ Claims \in [OwnerID -> SUBSET Name]
  BY <1>1, ClaimsType DEF MultiInv, TypeOK
<1>3. \A id \in OwnerID : OwnedNames(id, zones[i]) \subseteq Claims[id]
  BY <1>1 DEF MultiInv, ZonesAreClaimed
<1> QED
  BY <1>2, <1>3, SameDefinitions DEF MZ!Init

\* Every step of the daemon and its containers is one of ManagedZone in each
\* zone, or leaves the zone alone.
LEMMA MultiRefineNext ==
  ASSUME MultiInv, [Next]_vars, NEW i \in Entry
  PROVE  [MZ(i)!Next]_(MZ(i)!zvars)
<1>0. MultiInv' /\ Claims \in [OwnerID -> SUBSET Name] /\ Claims' \in [OwnerID -> SUBSET Name]
  <2>1. MultiInv'
    BY MultiNext
  <2>2. claimed \in SUBSET Name /\ claimed' \in SUBSET Name
    BY <2>1 DEF MultiInv, TypeOK
  <2>3. Claims' \in [OwnerID -> SUBSET Name]
    BY <2>2, InitialZonesAssumption, OwnedAreNames DEF Claims
  <2> QED
    BY <2>1, <2>2, <2>3, ClaimsType
<1>1. ASSUME zones'[i] = zones[i], claimed' = claimed PROVE [MZ(i)!Next]_(MZ(i)!zvars)
  BY <1>1 DEF MZ!zvars, Claims
<1>2. ASSUME NEW j \in Entry, NEW z \in Process(zones[j], pending[j]),
             zones' = [zones EXCEPT ![j] = z], claimed' = claimed
      PROVE  [MZ(i)!Next]_(MZ(i)!zvars)
  <2>1. CASE i # j
    BY <1>1, <1>2, <2>1 DEF MultiInv, TypeOK
  <2>2. CASE i = j
    <3>1. zones'[i] = z
      BY <1>2, <2>2 DEF MultiInv, TypeOK
    <3>2. /\ zones' \in [Entry -> SUBSET ResourceRecord]
          /\ \A rr \in (zones[i] \ zones'[i]) \cup (zones'[i] \ zones[i]) :
               /\ rr.name \in Touchable(Claims[ownerID])
               /\ \A other \in OwnerID \ {ownerID} : ~OwnershipRR(other, rr)
      BY <1>2, <2>2, <3>1, MultiApply, OwnerAssumption DEF Claims
    <3>3. Claims' = Claims
      BY <1>2 DEF Claims
    <3>4. MZ(i)!Manage(ownerID)
      BY <3>2, <3>3, SameDefinitions DEF MZ!Manage
    <3> QED
      BY <3>4, OwnerAssumption DEF MZ!Next
  <2> QED
    BY <2>1, <2>2
<1>3. ASSUME NEW j \in Entry, Apply(j) \/ ApplyFails(j) PROVE [MZ(i)!Next]_(MZ(i)!zvars)
  <2>1. claimed' = claimed
    BY <1>3 DEF Apply, ApplyFails, evars
  <2>2. \/ zones' = zones
        \/ \E z \in Process(zones[j], pending[j]) : zones' = [zones EXCEPT ![j] = z]
    BY <1>3 DEF Apply, ApplyFails
  <2> QED
    BY <1>1, <1>2, <2>1, <2>2
<1>4. ASSUME NEW ep \in Labels, ContainerStart(ep) PROVE [MZ(i)!Next]_(MZ(i)!zvars)
  <2>1. zones' = zones
    BY <1>4 DEF ContainerStart
  <2>2. /\ Claims[ownerID] \subseteq Claims'[ownerID]
        /\ \A other \in OwnerID \ {ownerID} : Claims'[other] = Claims[other]
    BY <1>4, OwnerAssumption DEF ContainerStart, Claims
  <2>3. MZ(i)!Claim(ownerID)
    BY <1>0, <2>1, <2>2, SameDefinitions DEF MZ!Claim
  <2> QED
    BY <2>3, OwnerAssumption DEF MZ!Next
<1>5. ASSUME NEW ep \in want, ContainerStop(ep) PROVE [MZ(i)!Next]_(MZ(i)!zvars)
  BY <1>1, <1>5 DEF ContainerStop
<1>6. ASSUME \/ FetchDesired \/ RecordsFails \/ NothingToApply \/ Split \/ ApplyReturns
             \/ FetchFails \/ Crash
             \/ \E j \in Entry : Transfer(j) \/ TransferFails(j) \/ ApplyRefused(j)
      PROVE  [MZ(i)!Next]_(MZ(i)!zvars)
  <2>1. zones' = zones /\ claimed' = claimed
    BY <1>6 DEF FetchDesired, RecordsFails, NothingToApply, Split, ApplyReturns, FetchFails,
                Crash, Transfer, TransferFails, ApplyRefused, evars
  <2> QED
    BY <1>1, <2>1
<1>7. CASE UNCHANGED vars
  BY <1>1, <1>7 DEF vars, evars
<1> QED
  BY <1>3, <1>4, <1>5, <1>6, <1>7 DEF Next, Cycle, Failure, Environment

\* The daemon implements ManagedZone in every zone it manages, whatever part of
\* a cycle fails and however out of date the transfers it planned on.
THEOREM MultiZoneImplementsManagedZone == Spec => ImplementsManagedZone
<1> DEFINE Steps == \A i \in Entry : [MZ(i)!Next]_(MZ(i)!zvars)
<1>1. MultiInv /\ [Next]_vars => [Steps]_vars
  BY MultiRefineNext
<1> HIDE DEF Steps
<1>2. Spec => (\A i \in Entry : MZ(i)!Init) /\ [][Steps]_vars
  BY <1>1, MultiRefineInit, MultiInvariant, PTL DEF Spec
<1> QED
  BY <1>2 DEF ImplementsManagedZone, Steps
-----------------------------------------------------------------------------
(* Routing. *)

\* One turn of the loop of zoneFor, and what it has found after k zones: none that
\* the name lies in, or one of the longest.
Better(n, k, b) ==
  IF Below(n, Zones[k]) /\ (b = 0 \/ Len(Zones[k]) > Len(Zones[b])) THEN k ELSE b

LongestOf(n, k, b) ==
  /\ b \in 0 .. k
  /\ b = 0 => \A j \in 1 .. k : ~Below(n, Zones[j])
  /\ b # 0 => /\ Below(n, Zones[b])
              /\ \A j \in 1 .. k : Below(n, Zones[j]) => Len(Zones[j]) <= Len(Zones[b])

\* A zone's number of labels is a number.
LEMMA ZoneLengths ==
  /\ Len(Zones) \in Nat /\ Entry = 1 .. Len(Zones)
  /\ \A k \in 1 .. Len(Zones) : Len(Zones[k]) \in Nat
<1>1. Zones \in Seq(Seq(STRING))
  BY ZonesAssumption
<1>2. Len(Zones) \in Nat /\ DOMAIN Zones = 1 .. Len(Zones)
  BY <1>1
<1>3. \A k \in 1 .. Len(Zones) : Zones[k] \in Seq(STRING)
  BY <1>1, <1>2
<1> QED BY <1>2, <1>3 DEF Entry

\* The loop keeps what it has found right.
LEMMA BetterFacts ==
  ASSUME NEW n, NEW k \in Nat, k + 1 \in 1 .. Len(Zones), NEW b, LongestOf(n, k, b)
  PROVE  LongestOf(n, k + 1, Better(n, k + 1, b))
<1>1. /\ Len(Zones[k + 1]) \in Nat
      /\ \A j \in 1 .. k : j \in 1 .. Len(Zones) /\ Len(Zones[j]) \in Nat
  BY ZoneLengths
<1>2. b \in 0 .. k /\ \A j \in 1 .. k + 1 : j = k + 1 \/ j \in 1 .. k
  BY DEF LongestOf
<1>3. CASE ~Below(n, Zones[k + 1])
  <2>1. Better(n, k + 1, b) = b
    BY <1>3 DEF Better
  <2>2. b \in 0 .. k + 1
    BY <1>2
  <2> QED BY <1>2, <1>3, <2>1, <2>2 DEF LongestOf
<1>4. CASE Below(n, Zones[k + 1]) /\ b = 0
  <2>1. Better(n, k + 1, b) = k + 1
    BY <1>4 DEF Better
  <2>2. k + 1 \in 0 .. k + 1 /\ k + 1 # 0 /\ Len(Zones[k + 1]) <= Len(Zones[k + 1])
    BY <1>1
  <2>3. \A j \in 1 .. k : ~Below(n, Zones[j])
    BY <1>4 DEF LongestOf
  <2> QED BY <1>2, <1>4, <2>1, <2>2, <2>3 DEF LongestOf
<1>5. CASE Below(n, Zones[k + 1]) /\ b # 0
  <2> DEFINE l == Len(Zones[b])
             m == Len(Zones[k + 1])
  <2>1. b \in 1 .. k /\ l \in Nat /\ m \in Nat
    BY <1>1, <1>2, <1>5
  <2>2. Below(n, Zones[b]) /\ \A j \in 1 .. k : Below(n, Zones[j]) => Len(Zones[j]) <= l
    BY <1>5 DEF LongestOf
  <2>3. CASE m > l
    <3>1. Better(n, k + 1, b) = k + 1
      BY <1>5, <2>3 DEF Better
    <3>2. k + 1 \in 0 .. k + 1 /\ k + 1 # 0 /\ m <= m
      BY <2>1
    <3>3. ASSUME NEW j \in 1 .. k, Below(n, Zones[j]) PROVE Len(Zones[j]) <= m
      <4>1. Len(Zones[j]) \in Nat /\ Len(Zones[j]) <= l
        BY <1>1, <2>2, <3>3
      <4> QED BY <2>1, <2>3, <4>1
    <3> QED BY <1>2, <1>5, <3>1, <3>2, <3>3 DEF LongestOf
  <2>4. CASE ~(m > l)
    <3>1. Better(n, k + 1, b) = b
      BY <1>5, <2>4 DEF Better
    <3>2. b \in 0 .. k + 1 /\ m <= l
      BY <1>2, <2>1, <2>4
    <3> QED BY <1>2, <1>5, <2>2, <3>1, <3>2 DEF LongestOf
  <2> QED BY <2>3, <2>4
<1> QED BY <1>3, <1>4, <1>5

\* The loop can be run for any number of zones.
LEMMA LoopExists ==
  ASSUME NEW n
  PROVE  \A m \in Nat : \E f : /\ DOMAIN f = 0 .. m
                               /\ f = [k \in 0 .. m |-> IF k = 0 THEN 0 ELSE Better(n, k, f[k - 1])]
<1> DEFINE Loop(m, f) == f = [k \in 0 .. m |-> IF k = 0 THEN 0 ELSE Better(n, k, f[k - 1])]
           T == {m \in Nat : \E f : Loop(m, f)}
<1>1. 0 \in T
  <2>1. Loop(0, [k \in 0 .. 0 |-> 0])
    OBVIOUS
  <2> QED BY <2>1
<1>2. ASSUME NEW m \in Nat, m \in T PROVE m + 1 \in T
  <2>1. PICK f : Loop(m, f)
    BY <1>2
  <2> DEFINE g == [k \in 0 .. m + 1 |-> IF k = m + 1 THEN Better(n, m + 1, f[m]) ELSE f[k]]
  <2>2. DOMAIN f = 0 .. m /\ \A k \in 0 .. m : f[k] = IF k = 0 THEN 0 ELSE Better(n, k, f[k - 1])
    BY <2>1
  <2>3. \A k \in 0 .. m + 1 : k = m + 1 \/ (k \in 0 .. m /\ k # m + 1)
    OBVIOUS
  <2>4. \A k \in 0 .. m : k \in 0 .. m + 1 /\ g[k] = f[k]
    OBVIOUS
  <2>5. m + 1 \in 0 .. m + 1 /\ m + 1 # 0 /\ (m + 1) - 1 = m /\ m \in 0 .. m
    OBVIOUS
  <2>6. g[m + 1] = Better(n, m + 1, g[(m + 1) - 1])
    BY <2>4, <2>5
  <2>7. \A k \in 0 .. m : k # 0 => k - 1 \in 0 .. m
    OBVIOUS
  <2>8. DOMAIN g = 0 .. m + 1 /\ g = [k \in DOMAIN g |-> g[k]]
    OBVIOUS
  <2> HIDE DEF g
  <2>9. ASSUME NEW k \in 0 .. m + 1 PROVE g[k] = IF k = 0 THEN 0 ELSE Better(n, k, g[k - 1])
    <3>1. CASE k = m + 1
      BY <2>5, <2>6, <3>1
    <3>2. CASE k \in 0 .. m
      BY <2>2, <2>4, <2>7, <3>2
    <3> QED BY <2>3, <3>1, <3>2
  <2>10. Loop(m + 1, g)
    BY <2>8, <2>9
  <2> QED BY <2>10
<1>3. \A m \in Nat : m \in T
  <2> HIDE DEF T
  <2> QED BY <1>1, <1>2, SetInduction
<1> QED BY <1>3

\* zoneFor finds the longest zone that a name lies in, for any list of zones.
LEMMA ZoneForIsLongest ==
  ASSUME NEW n
  PROVE  LongestOf(n, Len(Zones), zoneFor(n))
<1> DEFINE N == Len(Zones)
           Loop(f) == f = [k \in 0 .. N |-> IF k = 0 THEN 0 ELSE Better(n, k, f[k - 1])]
           best == CHOOSE f : Loop(f)
<1>1. N \in Nat
  BY ZoneLengths
<1>2. zoneFor(n) = best[N]
  BY DEF zoneFor, Better
<1>3. Loop(best)
  <2>1. \E f : Loop(f)
    BY <1>1, LoopExists
  <2> QED BY <2>1
<1> HIDE DEF best
<1>4. \A k \in 0 .. N : best[k] = IF k = 0 THEN 0 ELSE Better(n, k, best[k - 1])
  BY <1>3
<1> DEFINE T == {k \in Nat : k <= N => LongestOf(n, k, best[k])}
<1>5. 0 \in T
  <2>1. best[0] = 0
    BY <1>1, <1>4
  <2>2. LongestOf(n, 0, 0)
    BY DEF LongestOf
  <2> QED BY <2>1, <2>2
<1>6. ASSUME NEW k \in Nat, k \in T PROVE k + 1 \in T
  <2> SUFFICES ASSUME k + 1 <= N PROVE LongestOf(n, k + 1, best[k + 1])
    OBVIOUS
  <2>1. /\ k <= N /\ k + 1 \in 1 .. N /\ k + 1 \in 0 .. N
        /\ k + 1 # 0 /\ (k + 1) - 1 = k
    BY <1>1
  <2>2. LongestOf(n, k, best[k])
    BY <1>6, <2>1
  <2>3. best[k + 1] = Better(n, k + 1, best[k])
    BY <1>4, <2>1
  <2> QED BY <2>1, <2>2, <2>3, BetterFacts
<1>7. N \in T
  <2> HIDE DEF T
  <2> QED BY <1>1, <1>5, <1>6, SetInduction
<1>8. N <= N
  BY <1>1
<1> QED BY <1>2, <1>7, <1>8

\* What zoneFor sends to an entry is served by that entry; the dot of a name and
\* its spelling play no part.
LEMMA RoutedIsServed ==
  ASSUME NEW n \in Name, NEW i \in Entry, Routed(n, i)
  PROVE  ServedBy(n, i) /\ ServedBy(Fqdn(n), i)
<1> DEFINE b == zoneFor(n)
<1>1. b # 0 /\ Zones[b] = Zones[i] /\ LongestOf(n, Len(Zones), b)
  BY ZoneForIsLongest DEF Routed
<1> HIDE DEF b
<1>2. ServedBy(n, i)
  BY <1>1, ZoneLengths DEF LongestOf, ServedBy
<1>3. FullName(Fqdn(n)) = FullName(n)
  <2>1. Fqdn(n).host = n.host /\ Fqdn(n).owner = n.owner
    BY DEF Fqdn, Name
  <2> QED BY <2>1 DEF FullName
<1>4. \A zone : Below(Fqdn(n), zone) <=> Below(n, zone)
  BY <1>3 DEF Below
<1> QED BY <1>2, <1>4 DEF ServedBy

\* The full name of a companion is that of its record with the ownership label put
\* in front of it, which is at the end here.
LEMMA FullNameFacts ==
  ASSUME NEW n \in Name
  PROVE  /\ FullName(n) \in Seq(STRING)
         /\ FullName(ownershipName(n)) \in Seq(STRING)
         /\ Len(FullName(ownershipName(n))) = Len(FullName(n)) + 1
         /\ \A k \in 1 .. Len(FullName(n)) : FullName(ownershipName(n))[k] = FullName(n)[k]
         /\ FullName(ownershipName(n))[Len(FullName(n)) + 1] = OwnerLabel
<1> DEFINE s == LabelsOf[n.host]
           o == n.owner
           p == [k \in 1 .. o |-> OwnerLabel]
           q == [k \in 1 .. o + 1 |-> OwnerLabel]
<1>1. n.host \in Host /\ o \in Nat /\ s \in Seq(STRING) /\ OwnerLabel \in STRING
  BY LabelsOfAssumption, ZonesAssumption DEF Name
<1>2. ownershipName(n).host = n.host /\ ownershipName(n).owner = o + 1
  BY DEF ownershipName, Name
<1>3. FullName(n) = s \o p /\ FullName(ownershipName(n)) = s \o q
  BY <1>2 DEF FullName
<1> HIDE DEF s, o
<1>4. p \in Seq(STRING) /\ Len(p) = o /\ q \in Seq(STRING) /\ Len(q) = o + 1
  BY <1>1
<1>5. (\A k \in 1 .. o : p[k] = OwnerLabel) /\ (\A k \in 1 .. o + 1 : q[k] = OwnerLabel)
  OBVIOUS
<1> HIDE DEF p, q
<1>6. s \o p \in Seq(STRING) /\ s \o q \in Seq(STRING)
  BY <1>1, <1>4
<1>7. Len(s \o p) = Len(s) + o /\ Len(s \o q) = Len(s) + o + 1 /\ Len(s) \in Nat
  BY <1>1, <1>4
<1>8. \A k \in 1 .. Len(s) + o : (s \o p)[k] = IF k <= Len(s) THEN s[k] ELSE OwnerLabel
  BY <1>1, <1>4, <1>5, <1>7
<1>9. \A k \in 1 .. Len(s) + o + 1 : (s \o q)[k] = IF k <= Len(s) THEN s[k] ELSE OwnerLabel
  BY <1>1, <1>4, <1>5, <1>7
<1>10. \A k \in 1 .. Len(s) + o : (s \o q)[k] = (s \o p)[k]
  BY <1>1, <1>7, <1>8, <1>9
<1>11. (s \o q)[Len(s) + o + 1] = OwnerLabel
  BY <1>1, <1>7, <1>9
<1> QED BY <1>3, <1>6, <1>7, <1>10, <1>11

\* A name lies in a zone when its first labels are the zone's.
LEMMA BelowMeans ==
  ASSUME NEW n, FullName(n) \in Seq(STRING), NEW i \in Entry
  PROVE  Below(n, Zones[i]) <=> /\ Zones[i] # <<>>
                                /\ Len(Zones[i]) <= Len(FullName(n))
                                /\ \A k \in 1 .. Len(Zones[i]) : FullName(n)[k] = Zones[i][k]
<1> DEFINE f == FullName(n)
           z == Zones[i]
<1>1. f \in Seq(STRING) /\ z \in Seq(STRING) /\ Len(z) \in Nat /\ Len(f) \in Nat
  BY ZonesAssumption DEF Entry
<1>2. Below(n, z) <=> z # <<>> /\ Len(z) <= Len(f) /\ SubSeq(f, 1, Len(z)) = z
  BY DEF Below
<1> HIDE DEF f, z
<1>3. ASSUME Len(z) <= Len(f)
      PROVE  SubSeq(f, 1, Len(z)) = z <=> \A k \in 1 .. Len(z) : f[k] = z[k]
  <2> DEFINE t == SubSeq(f, 1, Len(z))
  <2>1. /\ t \in Seq(STRING) /\ Len(t) = Len(z)
        /\ \A k \in 1 .. Len(z) : t[k] = f[k]
    BY <1>1, <1>3
  <2> HIDE DEF t
  <2>2. t = z <=> \A k \in 1 .. Len(z) : t[k] = z[k]
    BY <1>1, <2>1, SeqEqual
  <2> QED BY <2>1, <2>2 DEF t
<1> QED BY <1>2, <1>3 DEF f, z

\* zoneFor finds the entries that serve a name.
LEMMA ServedIsRouted ==
  ASSUME NEW n \in Name, NEW i \in Entry
  PROVE  Routed(n, i) <=> ServedBy(n, i)
<1> SUFFICES ASSUME ServedBy(n, i) PROVE Routed(n, i)
  BY RoutedIsServed
<1> DEFINE b == zoneFor(n)
<1>1. LongestOf(n, Len(Zones), b)
  BY ZoneForIsLongest
<1> HIDE DEF b
<1>2. b # 0 /\ b \in Entry /\ Below(n, Zones[b])
  BY <1>1, ZoneLengths DEF LongestOf, ServedBy
<1>3. Len(Zones[b]) = Len(Zones[i])
  BY <1>1, <1>2, ZoneLengths DEF LongestOf, ServedBy
<1>4. Zones[b] = Zones[i]
  BY <1>2, <1>3 DEF Below, ServedBy
<1> QED BY <1>2, <1>4 DEF Routed, b

\* Where the zones differ, one of them at most serves a name.
LEMMA OneServes ==
  ASSUME Orderly, NEW n, NEW i \in Entry, NEW j \in Entry, ServedBy(n, i), ServedBy(n, j)
  PROVE  i = j
<1>1. Len(Zones[i]) = Len(Zones[j])
  BY ZoneLengths DEF ServedBy
<1>2. Zones[i] = Zones[j]
  BY <1>1 DEF ServedBy, Below
<1> QED BY <1>2 DEF Orderly

\* A companion lies in the zones that its record lies in, and so is served by the
\* same one.
LEMMA CompanionServed ==
  ASSUME Orderly, NEW n \in Name, NEW i \in Entry
  PROVE  ServedBy(ownershipName(n), i) <=> ServedBy(n, i)
<1>1. ASSUME NEW j \in Entry PROVE Below(ownershipName(n), Zones[j]) <=> Below(n, Zones[j])
  <2> DEFINE f == FullName(n)
             g == FullName(ownershipName(n))
             z == Zones[j]
  <2>1. /\ Len(g) = Len(f) + 1 /\ (\A k \in 1 .. Len(f) : g[k] = f[k]) /\ g[Len(f) + 1] = OwnerLabel
        /\ f \in Seq(STRING) /\ g \in Seq(STRING)
    BY FullNameFacts
  <2>2. Below(n, z) <=> z # <<>> /\ Len(z) <= Len(f) /\ \A k \in 1 .. Len(z) : f[k] = z[k]
    BY <2>1, BelowMeans
  <2>3. Below(ownershipName(n), z) <=>
          z # <<>> /\ Len(z) <= Len(g) /\ \A k \in 1 .. Len(z) : g[k] = z[k]
    BY <2>1, BelowMeans
  <2>4. z # <<>> => z[Len(z)] # OwnerLabel
    BY DEF Orderly
  <2>5. Len(z) \in Nat /\ Len(f) \in Nat
    BY <2>1, ZoneLengths
  <2> HIDE DEF f, g, z
  <2>6. ASSUME Len(z) <= Len(g), \A k \in 1 .. Len(z) : g[k] = z[k], z # <<>>
        PROVE  Len(z) <= Len(f)
    <3>1. Len(z) # Len(f) + 1
      BY <2>1, <2>4, <2>5, <2>6
    <3> QED BY <2>1, <2>5, <2>6, <3>1
  <2>7. ASSUME Len(z) <= Len(f)
        PROVE  /\ Len(z) <= Len(g)
               /\ (\A k \in 1 .. Len(z) : g[k] = z[k]) <=> \A k \in 1 .. Len(z) : f[k] = z[k]
    BY <2>1, <2>5, <2>7
  <2>8. Below(ownershipName(n), z) <=> Below(n, z)
    BY <2>2, <2>3, <2>6, <2>7
  <2> QED BY <2>8 DEF z
<1> QED BY <1>1 DEF ServedBy

-----------------------------------------------------------------------------
(* AtHome. *)

\* What the UPDATEs of this cycle add is at home in the zone they are sent to.
PendingAtHome ==
  \A i \in Entry : \A rr \in pending[i].replace \cup pending[i].create : ServedBy(rr.name, i)

\* The endpoints that Calculate returns have names that can be routed, and an
\* update keeps the name.
LEMMA PlanNames ==
  ASSUME MultiInv, NEW changes \in Plans
  PROVE  /\ \A ep \in changes.Create : ep \in EndpointRecord
         /\ \A p \in changes.Update : /\ p.new \in EndpointRecord
                                      /\ p.new.DNSName = p.old.DNSName
<1> DEFINE plain == filterOwnershipTXTs(current)
           owned == buildOwnedSet(ownerID, current)
<1>1. PICK d \in indexEndpoints(desired), c \in indexEndpoints(plain) :
        /\ changes.Create = CreateChanges(ownerID, d, c)
        /\ changes.Update = UpdateChanges(d, c, owned)
  BY DEF Plans, Calculate
<1>2. d \subseteq LabelEndpoint
  BY DEF indexEndpoints, MultiInv, TypeOK
<1>3. \A ep \in LabelEndpoint : ep \in EndpointRecord /\ ep.DNSName \in Name
  BY DEF LabelEndpoint, EndpointRecord, Target
<1>4. ASSUME NEW n \in Name PROVE ownershipTXTFor(ownerID, n) \in EndpointRecord
  <2>1. ownershipValue(ownerID) \in Target
    BY OwnerAssumption DEF ownershipValue, Target, OwnerTarget
  <2>2. ownershipTXTFor(ownerID, n) =
          [ DNSName |-> ownershipName(n), Targets |-> <<ownershipValue(ownerID)>>,
            RecordType |-> RecordTypeTXT, TTL |-> DefaultTTL ]
    BY DefaultTTLAssumption DEF ownershipTXTFor, New, ownershipTTL
  <2>3. <<ownershipValue(ownerID)>> \in Seq(Target) /\ RecordTypeTXT \in TypeName
    BY <2>1 DEF TypeName, SupportedType
  <2> QED BY <2>2, <2>3, OwnershipNameFacts, DefaultTTLAssumption DEF EndpointRecord
<1>5. \A ep \in changes.Create : ep \in EndpointRecord
  BY <1>1, <1>2, <1>3, <1>4 DEF CreateChanges
<1>6. \A p \in changes.Update : p.new \in d /\ p.new.DNSName = p.old.DNSName
  BY <1>1 DEF UpdateChanges, epKey
<1> QED BY <1>2, <1>3, <1>5, <1>6

\* The split sends every record, and every companion, to the zone that serves it.
LEMMA SplitAtHome ==
  ASSUME MultiInv, NEW changes \in Plans, NEW i \in Entry,
         NEW rr \in UpdateMessage(ChangesFor(i, changes)).replace
                    \cup UpdateMessage(ChangesFor(i, changes)).create
  PROVE  ServedBy(rr.name, i)
<1>1. CASE rr \in UpdateMessage(ChangesFor(i, changes)).create
  <2>1. PICK ep \in changes.Create : Routed(ep.DNSName, i) /\ rr \in endpointToRRs(ep)
    BY <1>1 DEF UpdateMessage, ChangesFor, RRsOf
  <2>2. ep \in EndpointRecord /\ ep.DNSName \in Name
    BY PlanNames DEF EndpointRecord
  <2>3. rr.name = Fqdn(ep.DNSName)
    BY <2>1, <2>2, EndpointToRRs
  <2> QED BY <2>1, <2>2, <2>3, RoutedIsServed
<1>2. CASE rr \in UpdateMessage(ChangesFor(i, changes)).replace
  <2>1. PICK p \in changes.Update : Routed(p.old.DNSName, i) /\ rr \in endpointToRRs(p.new)
    BY <1>2 DEF UpdateMessage, ChangesFor, RRsOf
  <2>2. /\ p.new \in EndpointRecord /\ p.new.DNSName \in Name
        /\ p.new.DNSName = p.old.DNSName
    BY PlanNames DEF EndpointRecord
  <2>3. rr.name = Fqdn(p.new.DNSName)
    BY <2>1, <2>2, EndpointToRRs
  <2> QED BY <2>1, <2>2, <2>3, RoutedIsServed
<1> QED BY <1>1, <1>2

HomeInv == AtHome /\ PendingAtHome

\* Nothing is on its way.
LEMMA NothingPending ==
  ASSUME pending' = [i \in Entry |-> NoMessage] PROVE PendingAtHome'
  BY DEF PendingAtHome, NoMessage

\* One zone's UPDATE adds only what is at home there.
LEMMA ApplyAtHome ==
  ASSUME MultiInv, HomeInv, NEW i \in Entry, NEW z \in Process(zones[i], pending[i]),
         zones' = [zones EXCEPT ![i] = z]
  PROVE  AtHome'
<1>1. z \subseteq zones[i] \cup pending[i].replace \cup pending[i].create
  BY ProcessFacts
<1>2. \A j \in Entry : zones'[j] = IF j = i THEN z ELSE zones[j]
  BY DEF MultiInv, TypeOK
<1>3. \A rr \in z \ InitialZones[i] : ServedBy(rr.name, i)
  BY <1>1 DEF HomeInv, AtHome, PendingAtHome
<1> QED BY <1>2, <1>3 DEF HomeInv, AtHome

\* The invariant is inductive.
LEMMA HomeNext == MultiInv /\ HomeInv /\ [Next]_vars => HomeInv'
<1> SUFFICES ASSUME MultiInv, HomeInv, [Next]_vars PROVE HomeInv'
  OBVIOUS
<1>1. ASSUME UNCHANGED zones PROVE AtHome'
  BY <1>1 DEF HomeInv, AtHome
<1>2. ASSUME UNCHANGED pending PROVE PendingAtHome'
  BY <1>2 DEF HomeInv, PendingAtHome
<1>3. ASSUME NEW r, Return(r) PROVE PendingAtHome'
  BY <1>3, NothingPending DEF Return
<1>4. CASE UNCHANGED vars
  BY <1>1, <1>2, <1>4 DEF vars, cvars, HomeInv
<1>5. CASE Cycle
  <2>1. CASE FetchDesired
    BY <1>1, <1>2, <2>1 DEF FetchDesired, HomeInv
  <2>2. CASE \E i \in Entry : Transfer(i)
    BY <1>1, <1>2, <2>2 DEF Transfer, HomeInv
  <2>3. CASE RecordsFails \/ NothingToApply \/ ApplyReturns
    BY <1>1, <1>3, <2>3 DEF RecordsFails, NothingToApply, ApplyReturns, HomeInv
  <2>4. CASE Split
    <3>1. PICK changes \in Plans :
            pending' = [i \in Entry |-> UpdateMessage(ChangesFor(i, changes))]
      BY <2>4 DEF Split
    <3>2. PendingAtHome'
      BY <3>1, SplitAtHome DEF PendingAtHome
    <3> QED BY <1>1, <2>4, <3>2 DEF Split, HomeInv
  <2>5. CASE \E i \in Entry : Apply(i)
    <3>1. PICK i \in Entry : Apply(i)
      BY <2>5
    <3>2. AtHome'
      BY <3>1, ApplyAtHome DEF Apply
    <3> QED BY <1>2, <3>1, <3>2 DEF Apply, HomeInv
  <2>6. CASE \E i \in Entry : ApplyRefused(i)
    BY <1>1, <1>3, <2>6 DEF ApplyRefused, HomeInv
  <2> QED BY <1>5, <2>1, <2>2, <2>3, <2>4, <2>5, <2>6 DEF Cycle
<1>6. CASE Failure
  <2>1. CASE FetchFails \/ Crash
    BY <1>1, <1>3, <2>1 DEF FetchFails, Crash, HomeInv
  <2>2. CASE \E i \in Entry : TransferFails(i)
    BY <1>1, <1>2, <2>2 DEF TransferFails, HomeInv
  <2>3. CASE \E i \in Entry : ApplyFails(i)
    <3>1. PICK i \in Entry : ApplyFails(i)
      BY <2>3
    <3>2. AtHome'
      BY <1>1, <3>1, ApplyAtHome DEF ApplyFails
    <3> QED BY <1>3, <3>1, <3>2 DEF ApplyFails, HomeInv
  <2> QED BY <1>6, <2>1, <2>2, <2>3 DEF Failure
<1>7. CASE Environment
  BY <1>1, <1>2, <1>7 DEF Environment, ContainerStart, ContainerStop, cvars, HomeInv
<1> QED BY <1>4, <1>5, <1>6, <1>7 DEF Next

\* For any number of zones, however they nest, and whatever fails: what the
\* daemon wrote is where resolvers look for it.
THEOREM MultiZoneAtHome == Spec => []AtHome
<1>1. Init => HomeInv
  BY DEF Init, HomeInv, AtHome, PendingAtHome, NoMessage
<1>2. HomeInv => AtHome
  BY DEF HomeInv
<1> QED BY <1>1, <1>2, HomeNext, MultiInvariant, PTL DEF Spec

-----------------------------------------------------------------------------
(* Each zone's part of the plan. *)

\* The names that may be managed in the zone of entry i, the labels that ask for one of
\* them, and what such labels ask of the entry.
NamesOf(i) == {n \in ManageableNames : ServedBy(n, i)}
LabelsFor(i) == {ep \in Labels : ServedBy(ep.DNSName, i)}
Asked(eps, i) == {ep \in eps : ServedBy(ep.DNSName, i)}

\* The names that may be managed are plain, and the labels ask for some of them.
LEMMA ManageableFacts ==
  ASSUME Orderly
  PROVE  /\ PlainNames(ManageableNames)
         /\ \A ep \in Labels : /\ ep \in LabelEndpoint /\ ep.DNSName \in ManageableNames
                               /\ Fqdn(ep.DNSName) = ep.DNSName
         /\ \A i \in Entry :
              /\ PlainNames(NamesOf(i))
              /\ LabelsFor(i) \subseteq LabelEndpoint
              /\ \A ep \in LabelsFor(i) : ep.DNSName \in NamesOf(i) /\ Fqdn(ep.DNSName) = ep.DNSName
              /\ \A a, b \in LabelsFor(i) : a.DNSName = b.DNSName => a.RecordType = b.RecordType
<1>1. ASSUME NEW ep \in Labels
      PROVE  /\ ep \in LabelEndpoint /\ ep.DNSName \in Name
             /\ Fqdn(ep.DNSName) = ep.DNSName /\ ep.DNSName.dot = FALSE
  <2>1. ep \in LabelEndpoint /\ ep.DNSName \in Name /\ ep.DNSName.dot = FALSE
    BY LabelsAssumption DEF LabelEndpoint, Orderly
  <2> QED BY <2>1, FqdnFacts
<1>2. \A ep \in Labels : ep.DNSName \in ManageableNames
  BY <1>1 DEF ManageableNames
<1>3. ASSUME NEW i \in Entry, NEW n \in OwnedNames(ownerID, InitialZones[i])
      PROVE  n \in Name /\ n.dot = FALSE
  <2>1. PICK rr \in InitialZones[i] : OwnershipRR(ownerID, rr) /\ n = ManagedName(rr.name)
    BY DEF OwnedNames
  <2>2. rr.name \in Name /\ rr.name.dot = FALSE /\ HasOwnerPrefix(rr.name)
    BY <2>1, InitialZonesAssumption, CanonicalAssumption DEF ResourceRecord, OwnershipRR
  <2>3. n \in Name
    BY <2>1, <2>2, ManagedNameFacts
  <2>4. n.dot = FALSE
    BY <2>1, <2>2 DEF ManagedName, Name
  <2> QED BY <2>3, <2>4
<1>4. PlainNames(ManageableNames)
  <2>1. ASSUME NEW n \in ManageableNames PROVE n \in Name /\ n.dot = FALSE
    <3>1. CASE \E ep \in Labels : n = Fqdn(ep.DNSName)
      BY <1>1, <3>1
    <3>2. CASE \E i \in Entry : n \in OwnedNames(ownerID, InitialZones[i])
      BY <1>3, <3>2
    <3> QED BY <3>1, <3>2 DEF ManageableNames
  <2>2. \A n \in ManageableNames : ~HasOwnerPrefix(n)
    BY DEF Orderly
  <2> QED BY <2>1, <2>2 DEF PlainNames
<1>5. ASSUME NEW i \in Entry
      PROVE  /\ PlainNames(NamesOf(i))
             /\ \A ep \in LabelsFor(i) : ep \in Labels /\ ep.DNSName \in NamesOf(i)
  BY <1>2, <1>4 DEF NamesOf, LabelsFor, PlainNames
<1>6. \A a, b \in Labels : a.DNSName = b.DNSName => a.RecordType = b.RecordType
  BY DEF Orderly
<1> QED BY <1>1, <1>2, <1>4, <1>5, <1>6

\* What the provider sees at a name that may be managed is in the zone that serves it:
\* it was so at first, and what the daemon wrote is at home.
LEMMA Housed ==
  ASSUME Orderly, AtHome, NEW i \in Entry, NEW z \in zones[i],
         z.name \in ManageableNames, z.type \in SupportedType
  PROVE  ServedBy(z.name, i)
BY DEF Orderly, AtHome

\* What Records returns for a zone.
LEMMA RecordsMeans ==
  ASSUME NEW Z \in SUBSET ResourceRecord
  PROVE  /\ \A ep \in Records(Z) : \E z \in Z : /\ ep = rrToEndpoint(z) /\ ep.DNSName = z.name
                                                /\ z.type \in SupportedType
         /\ \A z \in Z : z.type \in SupportedType =>
              rrToEndpoint(z) \in Records(Z) /\ rrToEndpoint(z).DNSName = z.name
BY RrToEndpoint DEF Records

\* Of these names, entry i is sent those in K, and their companions.
Splits(i, K, names) ==
  \A n \in names : (Routed(n, i) <=> n \in K) /\ (Routed(ownershipName(n), i) <=> n \in K)

\* ChangesFor takes from a plan what concerns some of the names.
LEMMA ChangesForNames ==
  ASSUME NEW i, NEW K, NEW id, NEW d, NEW c, NEW owned, NEW changes,
         changes.Create = CreateChanges(id, d, c),
         changes.Update = UpdateChanges(d, c, owned),
         changes.Delete = DeleteChanges(id, d, c, owned),
         NEW names, Splits(i, K, names), \A w \in d : w.DNSName \in names, owned \subseteq names
  PROVE  ChangesFor(i, changes) = PlanAt(K, id, d, c, owned)
<1>1. \A n : ownershipTXTFor(id, n).DNSName = ownershipName(n)
  BY DEF ownershipTXTFor, New
<1>2. {ep \in changes.Create : Routed(ep.DNSName, i)} = CreateChanges(id, AtNames(K, d), c)
  <2> DEFINE fresh == {w \in d : epKey(w) \notin Keys(c)}
             part == {w \in AtNames(K, d) : epKey(w) \notin Keys(c)}
  <2>1. /\ changes.Create = fresh \cup {ownershipTXTFor(id, w.DNSName) : w \in fresh}
        /\ CreateChanges(id, AtNames(K, d), c)
             = part \cup {ownershipTXTFor(id, w.DNSName) : w \in part}
    BY DEF CreateChanges
  <2>2. \A w \in fresh : /\ w \in part <=> Routed(w.DNSName, i)
                         /\ w \in part <=> Routed(ownershipTXTFor(id, w.DNSName).DNSName, i)
    BY <1>1 DEF AtNames, Splits
  <2>3. part \subseteq fresh
    BY DEF AtNames
  <2> HIDE DEF fresh, part
  <2> QED BY <2>1, <2>2, <2>3
<1>3. {p \in changes.Update : Routed(p.old.DNSName, i)}
        = {p \in UpdateChanges(d, c, owned) : p.old.DNSName \in K}
  <2>1. \A p \in UpdateChanges(d, c, owned) : p.new \in d /\ p.old.DNSName = p.new.DNSName
    BY DEF UpdateChanges, epKey
  <2> QED BY <2>1 DEF Splits
<1>4. {ep \in changes.Delete : Routed(ep.DNSName, i)} = DeleteChanges(id, d, AtNames(K, c), owned)
  <2> DEFINE stale == {h \in c : epKey(h) \notin Keys(d) /\ h.DNSName \in owned}
             part == {h \in AtNames(K, c) : epKey(h) \notin Keys(d) /\ h.DNSName \in owned}
  <2>1. /\ changes.Delete = stale \cup {ownershipTXTFor(id, h.DNSName) : h \in stale}
        /\ DeleteChanges(id, d, AtNames(K, c), owned)
             = part \cup {ownershipTXTFor(id, h.DNSName) : h \in part}
    BY DEF DeleteChanges
  <2>2. \A h \in stale : /\ h \in part <=> Routed(h.DNSName, i)
                         /\ h \in part <=> Routed(ownershipTXTFor(id, h.DNSName).DNSName, i)
    BY <1>1 DEF AtNames, Splits
  <2>3. part \subseteq stale
    BY DEF AtNames
  <2> HIDE DEF stale, part
  <2> QED BY <2>1, <2>2, <2>3
<1> QED BY <1>2, <1>3, <1>4 DEF ChangesFor, PlanAt

\* The marks that are in the union of lists are those of the lists.
LEMMA OwnedInUnion ==
  ASSUME NEW id, NEW S
  PROVE  buildOwnedSet(id, UNION S) = UNION {buildOwnedSet(id, s) : s \in S}
BY DEF buildOwnedSet

\* The daemon plans once, for all zones, and splits the plan by zone: what entry i gets
\* is a plan that it could have made for that zone alone, from the zone's own records
\* and the labels whose names the zone serves.
LEMMA SplitPlans ==
  ASSUME Orderly, MultiInv, AtHome, desired \subseteq Labels,
         current = UNION {Records(zones[j]) : j \in Entry},
         \A j \in Entry : OwnedNames(ownerID, zones[j]) \subseteq NamesOf(j),
         NEW changes \in Plans, NEW i \in Entry
  PROVE  ChangesFor(i, changes) \in Calculate(ownerID, Asked(desired, i), Records(zones[i]))
<1> DEFINE K == NamesOf(i)
           E == Records(zones[i])
           owned == buildOwnedSet(ownerID, current)
<1>1. \A j \in Entry : zones[j] \in SUBSET ResourceRecord /\ CompleteNames(zones[j])
  BY DEF MultiInv, TypeOK, ZonesAreClaimed
<1>2. /\ owned = UNION {OwnedNames(ownerID, zones[j]) : j \in Entry}
      /\ buildOwnedSet(ownerID, E) = OwnedNames(ownerID, zones[i])
  <2>1. \A j \in Entry : buildOwnedSet(ownerID, Records(zones[j])) = OwnedNames(ownerID, zones[j])
    BY <1>1, RecordsFacts, OwnerAssumption
  <2>2. owned = UNION {buildOwnedSet(ownerID, Records(zones[j])) : j \in Entry}
    <3> DEFINE S == {Records(zones[j]) : j \in Entry}
    <3>1. owned = UNION {buildOwnedSet(ownerID, s) : s \in S}
      BY OwnedInUnion
    <3> QED BY <3>1
  <2> QED BY <2>1, <2>2
<1>3. PICK d \in indexEndpoints(desired), c \in indexEndpoints(filterOwnershipTXTs(current)) :
        /\ changes.Create = CreateChanges(ownerID, d, c)
        /\ changes.Update = UpdateChanges(d, c, owned)
        /\ changes.Delete = DeleteChanges(ownerID, d, c, owned)
  BY DEF Plans, Calculate
<1>4. d \subseteq Labels
  BY <1>3 DEF indexEndpoints
<1>5. ASSUME NEW n \in ManageableNames
      PROVE  /\ Routed(n, i) <=> n \in K
             /\ Routed(ownershipName(n), i) <=> n \in K
  <2>1. n \in Name /\ ownershipName(n) \in Name
    BY ManageableFacts, OwnershipNameFacts DEF PlainNames
  <2> QED BY <2>1, ServedIsRouted, CompanionServed DEF NamesOf
<1>6. /\ \A w \in d : w.DNSName \in ManageableNames
      /\ owned \subseteq ManageableNames
  BY <1>2, <1>4, ManageableFacts DEF NamesOf
<1>7. AtNames(K, filterOwnershipTXTs(current)) = AtNames(K, filterOwnershipTXTs(E))
  <2>1. ASSUME NEW ep \in current, ep.DNSName \in K PROVE ep \in E
    <3>1. PICK j \in Entry : ep \in Records(zones[j])
      OBVIOUS
    <3>2. PICK z \in zones[j] :
            ep = rrToEndpoint(z) /\ ep.DNSName = z.name /\ z.type \in SupportedType
      BY <1>1, <3>1, RecordsMeans
    <3>3. ServedBy(z.name, j) /\ ServedBy(z.name, i)
      BY <2>1, <3>2, Housed DEF NamesOf
    <3>4. i = j
      BY <3>3, OneServes
    <3> QED BY <3>1, <3>4
  <2>2. E \subseteq current
    OBVIOUS
  <2> HIDE DEF K, E
  <2> QED BY <2>1, <2>2 DEF AtNames, filterOwnershipTXTs
<1>8. buildOwnedSet(ownerID, E) = owned \cap K
  <2>1. ASSUME NEW j \in Entry, NEW n \in OwnedNames(ownerID, zones[j]), n \in K PROVE i = j
    BY <2>1, OneServes DEF NamesOf
  <2> QED BY <1>2, <2>1
<1>9. AtNames(K, desired) = Asked(desired, i)
  BY ManageableFacts DEF AtNames, Asked, NamesOf
<1> HIDE DEF K, E, owned
<1>10. ChangesFor(i, changes) = PlanAt(K, ownerID, d, c, owned)
  <2>1. Splits(i, K, ManageableNames)
    BY <1>5 DEF Splits
  <2>2. /\ changes.Create = CreateChanges(ownerID, d, c)
        /\ changes.Update = UpdateChanges(d, c, owned)
        /\ changes.Delete = DeleteChanges(ownerID, d, c, owned)
    BY <1>3
  <2> QED BY <1>6, <2>1, <2>2, ChangesForNames
<1>11. ChangesFor(i, changes) \in Calculate(ownerID, AtNames(K, desired), E)
  BY <1>3, <1>7, <1>8, <1>10, PlanRestricts
<1> QED BY <1>9, <1>11 DEF E

-----------------------------------------------------------------------------
(* Records and their ownership records. *)

\* Containers ask for what their labels say, and so does a cycle.
WantsAreLabels == want \cup desired \subseteq Labels

\* No zone changes while zones are transferred, so the merged list is what the zones
\* that were transferred hold now.
CurrentIsFresh ==
  /\ pc = "idle" => current = {} /\ ~failed
  /\ pc # "transfer" => waiting = {}
  /\ pc = "transfer" /\ ~failed => current = UNION {Records(zones[j]) : j \in Entry \ waiting}

\* A zone of entry i in which ownership is unambiguous and every record but those of X
\* has its companion.
Kempt(i, Z, X) ==
  Tidy({ownerID}, NamesOf(i), Z, X) /\ Agrees(Z, LabelsFor(i)) /\ Attended({ownerID}, Z, X)

ZonesAreKempt == \A i \in Entry : Kempt(i, zones[i], InitialZones[i])

\* An UPDATE that waits for its turn is sound for its zone as it is now: those before it
\* go to other zones.
MessagesAreSound ==
  pc = "apply" =>
    \A i \in todo : Sound(ownerID, NamesOf(i), LabelsFor(i), zones[i], pending[i])

CompanionInv == WantsAreLabels /\ CurrentIsFresh /\ ZonesAreKempt /\ MessagesAreSound

\* The invariant holds at the start.
LEMMA CompanionInit == ASSUME Orderly, Init PROVE CompanionInv
<1>1. zones = InitialZones /\ pc = "idle" /\ current = {} /\ failed = FALSE /\ waiting = {}
  BY DEF Init
<1>2. WantsAreLabels
  BY DEF Init, WantsAreLabels
<1>3. CurrentIsFresh /\ MessagesAreSound
  BY <1>1 DEF CurrentIsFresh, MessagesAreSound
<1>4. ASSUME NEW i \in Entry PROVE Kempt(i, InitialZones[i], InitialZones[i])
  <2> DEFINE Z == InitialZones[i]
  <2>1. Z \in SUBSET ResourceRecord
    BY InitialZonesAssumption
  <2>2. \A z \in Z : z.name \in NamesOf(i) => z.name \in ManageableNames
    BY DEF NamesOf
  <2>3. \A z \in Z : HasOwnerPrefix(z.name) => z.type # RecordTypeCNAME
    BY DEF Orderly
  <2>4. ASSUME NEW z \in Z, OwnershipRR(ownerID, z) PROVE ManagedName(z.name) \in NamesOf(i)
    <3> DEFINE n == ManagedName(z.name)
    <3>1. n \in ManageableNames
      BY <2>4 DEF ManageableNames, OwnedNames
    <3>2. z.name \in Name /\ HasOwnerPrefix(z.name)
      BY <2>1, <2>4 DEF OwnershipRR, ResourceRecord
    <3>3. n \in Name /\ ownershipName(n) = z.name
      BY <3>2, ManagedNameFacts
    <3>4. ServedBy(z.name, i)
      BY <2>4 DEF Orderly
    <3>5. ServedBy(n, i)
      BY <3>3, <3>4, CompanionServed
    <3> QED BY <3>1, <3>5 DEF NamesOf
  <2>5. \A a, b \in Z : /\ a.name \in NamesOf(i) /\ a.name = b.name
                        /\ a.type \in SupportedType /\ b.type \in SupportedType
                        => a = b
    <3>1. \A a, b \in Z : /\ a.name \in ManageableNames /\ a.type \in SupportedType
                          /\ b.name = a.name /\ b.type \in SupportedType
                          => b = a
      BY DEF Orderly
    <3> QED BY <2>2, <3>1
  <2>6. \A z \in Z : z.name \in NamesOf(i) /\ z.type \in SupportedType => ReadsBack(z)
    BY <2>2 DEF Orderly, ReadsBack
  <2>7. Tidy({ownerID}, NamesOf(i), Z, Z)
    BY <2>3, <2>4, <2>5, <2>6 DEF Tidy
  <2>8. Agrees(Z, LabelsFor(i))
    <3> SUFFICES ASSUME NEW z \in Z, NEW ep \in LabelsFor(i), z.name = Fqdn(ep.DNSName),
                        z.type \in SupportedType
                 PROVE  z.type = ep.RecordType
      BY DEF Agrees
    <3>1. ep \in Labels /\ z.name = ep.DNSName /\ z.name \in ManageableNames
      BY ManageableFacts DEF LabelsFor
    <3> QED BY <3>1 DEF Orderly
  <2>9. Attended({ownerID}, Z, Z)
    BY DEF Attended
  <2> QED BY <2>7, <2>8, <2>9 DEF Kempt
<1>5. ZonesAreKempt
  BY <1>1, <1>4 DEF ZonesAreKempt
<1> QED BY <1>2, <1>3, <1>5 DEF CompanionInv

\* One zone's UPDATE keeps that zone so.
LEMMA ApplyKempt ==
  ASSUME Orderly, NEW i \in Entry, NEW Z, NEW X, Kempt(i, Z, X), NEW m,
         Sound(ownerID, NamesOf(i), LabelsFor(i), Z, m), NEW after \in Process(Z, m)
  PROVE  Kempt(i, after, X)
<1>1. {ownerID} \in SUBSET OwnerID /\ ownerID \in {ownerID}
  BY OwnerAssumption
<1>2. /\ PlainNames(NamesOf(i)) /\ LabelsFor(i) \subseteq LabelEndpoint
      /\ \A ep \in LabelsFor(i) : Fqdn(ep.DNSName) \in NamesOf(i)
      /\ \A a, b \in LabelsFor(i) : Fqdn(a.DNSName) = Fqdn(b.DNSName) => a.RecordType = b.RecordType
  BY ManageableFacts
<1>3. /\ Tidy({ownerID}, NamesOf(i), after, X) /\ Agrees(after, LabelsFor(i))
      /\ Attended({ownerID}, after, X)
  BY <1>1, <1>2, ApplySound DEF Kempt
<1> QED BY <1>3 DEF Kempt

\* The zones after one zone's UPDATE.
LEMMA ZonesAfter ==
  ASSUME MultiInv, NEW i \in Entry, NEW z, zones' = [zones EXCEPT ![i] = z]
  PROVE  \A j \in Entry : zones'[j] = IF j = i THEN z ELSE zones[j]
BY DEF MultiInv, TypeOK

\* So one zone's UPDATE keeps all zones so.
LEMMA UpdateKempt ==
  ASSUME Orderly, MultiInv, CompanionInv, NEW i \in Entry, Turn(i),
         NEW z \in Process(zones[i], pending[i]), zones' = [zones EXCEPT ![i] = z]
  PROVE  ZonesAreKempt'
<1>1. /\ Kempt(i, zones[i], InitialZones[i])
      /\ Sound(ownerID, NamesOf(i), LabelsFor(i), zones[i], pending[i])
  BY DEF CompanionInv, ZonesAreKempt, MessagesAreSound, Turn
<1>2. Kempt(i, z, InitialZones[i])
  BY <1>1, ApplyKempt
<1>3. \A j \in Entry : Kempt(j, zones'[j], InitialZones[j])
  BY <1>2, ZonesAfter DEF CompanionInv, ZonesAreKempt
<1> QED BY <1>3 DEF ZonesAreKempt

\* The end of a cycle keeps the invariant.
LEMMA CompanionReturn ==
  ASSUME CompanionInv, NEW r, Return(r), want' = want, ZonesAreKempt'
  PROVE  CompanionInv'
<1>1. WantsAreLabels' /\ MessagesAreSound'
  BY DEF Return, CompanionInv, WantsAreLabels, MessagesAreSound
<1>2. CurrentIsFresh'
  BY DEF Return, CurrentIsFresh
<1> QED BY <1>1, <1>2 DEF CompanionInv

\* The split sends each zone a sound UPDATE.
LEMMA SplitSound ==
  ASSUME Orderly, MultiInv, AtHome, CompanionInv, pc = "transfer", waiting = {}, ~failed,
         NEW changes \in Plans, NEW i \in Entry
  PROVE  /\ ChangesFor(i, changes) \in Calculate(ownerID, Asked(desired, i), Records(zones[i]))
         /\ Sound(ownerID, NamesOf(i), LabelsFor(i), zones[i], UpdateMessage(ChangesFor(i, changes)))
<1> DEFINE part == ChangesFor(i, changes)
<1>1. desired \subseteq Labels /\ current = UNION {Records(zones[j]) : j \in Entry}
  BY DEF CompanionInv, WantsAreLabels, CurrentIsFresh
<1>2. \A j \in Entry : OwnedNames(ownerID, zones[j]) \subseteq NamesOf(j)
  BY DEF CompanionInv, ZonesAreKempt, Kempt, Tidy, OwnedNames
<1>3. part \in Calculate(ownerID, Asked(desired, i), Records(zones[i]))
  BY <1>1, <1>2, SplitPlans
<1> HIDE DEF part
<1>4. {ownerID} \in SUBSET OwnerID /\ ownerID \in {ownerID}
  BY OwnerAssumption
<1>5. /\ zones[i] \in SUBSET ResourceRecord /\ CompleteNames(zones[i])
      /\ Tidy({ownerID}, NamesOf(i), zones[i], InitialZones[i]) /\ Agrees(zones[i], LabelsFor(i))
  BY DEF MultiInv, TypeOK, ZonesAreClaimed, CompanionInv, ZonesAreKempt, Kempt
<1>6. Asked(desired, i) \subseteq LabelsFor(i)
  BY <1>1 DEF Asked, LabelsFor
<1>7. Sound(ownerID, NamesOf(i), LabelsFor(i), zones[i], UpdateMessage(part))
  BY <1>3, <1>4, <1>5, <1>6, ManageableFacts, PlanSound
<1> QED BY <1>3, <1>7 DEF part

\* The steps of a cycle keep the invariant.
LEMMA CompanionCycle ==
  ASSUME Orderly, MultiInv, AtHome, CompanionInv, Cycle
  PROVE  CompanionInv'
<1>1. CASE FetchDesired
  <2>1. WantsAreLabels' /\ ZonesAreKempt' /\ MessagesAreSound'
    BY <1>1 DEF FetchDesired, evars, CompanionInv, WantsAreLabels, ZonesAreKempt, MessagesAreSound
  <2>2. CurrentIsFresh'
    <3>1. pc' = "transfer" /\ waiting' = Entry /\ current' = {}
      BY <1>1 DEF FetchDesired, CompanionInv, CurrentIsFresh
    <3>2. {} = UNION {Records(zones'[j]) : j \in Entry \ Entry}
      OBVIOUS
    <3> QED BY <3>1, <3>2 DEF CurrentIsFresh
  <2> QED BY <2>1, <2>2 DEF CompanionInv
<1>2. ASSUME NEW i \in Entry, Transfer(i) PROVE CompanionInv'
  <2>1. /\ i \in waiting /\ waiting' = waiting \ {i} /\ current' = current \cup Records(zones[i])
        /\ UNCHANGED <<zones, want, pc, desired, failed, todo, pending>>
    BY <1>2 DEF Transfer, evars
  <2>2. WantsAreLabels' /\ ZonesAreKempt' /\ MessagesAreSound'
    BY <2>1 DEF CompanionInv, WantsAreLabels, ZonesAreKempt, MessagesAreSound
  <2>3. pc = "transfer" /\ pc' = "transfer"
    BY <2>1 DEF CompanionInv, CurrentIsFresh
  <2>4. ASSUME ~failed PROVE current' = UNION {Records(zones[j]) : j \in Entry \ waiting'}
    <3>1. current = UNION {Records(zones[j]) : j \in Entry \ waiting}
      BY <2>3, <2>4 DEF CompanionInv, CurrentIsFresh
    <3>2. Entry \ waiting' = (Entry \ waiting) \cup {i}
      BY <2>1
    <3> QED BY <2>1, <3>1, <3>2
  <2>5. CurrentIsFresh'
    BY <2>1, <2>3, <2>4 DEF CurrentIsFresh
  <2> QED BY <2>2, <2>5 DEF CompanionInv
<1>3. ASSUME RecordsFails \/ NothingToApply \/ ApplyReturns \/ \E i \in Entry : ApplyRefused(i)
      PROVE  CompanionInv'
  <2>1. PICK r : Return(r)
    BY <1>3 DEF RecordsFails, NothingToApply, ApplyReturns, ApplyRefused
  <2>2. UNCHANGED <<zones, want>>
    BY <1>3 DEF RecordsFails, NothingToApply, ApplyReturns, ApplyRefused, evars
  <2>3. ZonesAreKempt'
    BY <2>2 DEF CompanionInv, ZonesAreKempt
  <2> QED BY <2>1, <2>2, <2>3, CompanionReturn
<1>4. CASE Split
  <2>1. PICK changes \in Plans :
          /\ todo' = {i \in Entry : ~IsEmpty(ChangesFor(i, changes))}
          /\ pending' = [i \in Entry |-> UpdateMessage(ChangesFor(i, changes))]
    BY <1>4 DEF Split
  <2>2. /\ pc = "transfer" /\ waiting = {} /\ ~failed /\ pc' = "apply"
        /\ UNCHANGED <<zones, want, desired, waiting, failed, current>>
    BY <1>4 DEF Split, evars
  <2>3. \A i \in todo' : Sound(ownerID, NamesOf(i), LabelsFor(i), zones[i], pending'[i])
    BY <2>1, <2>2, SplitSound
  <2>4. MessagesAreSound'
    BY <2>2, <2>3 DEF MessagesAreSound
  <2>5. WantsAreLabels' /\ ZonesAreKempt' /\ CurrentIsFresh'
    BY <2>2 DEF CompanionInv, WantsAreLabels, ZonesAreKempt, CurrentIsFresh
  <2> QED BY <2>4, <2>5 DEF CompanionInv
<1>5. ASSUME NEW i \in Entry, Apply(i) PROVE CompanionInv'
  <2>1. PICK z \in Process(zones[i], pending[i]) : zones' = [zones EXCEPT ![i] = z]
    BY <1>5 DEF Apply
  <2>2. /\ Turn(i) /\ pc = "apply" /\ todo' = todo \ {i}
        /\ UNCHANGED <<want, pc, desired, waiting, pending>>
    BY <1>5 DEF Apply, Turn, evars
  <2>3. ZonesAreKempt'
    BY <2>1, <2>2, UpdateKempt
  <2>4. MessagesAreSound'
    <3>1. \A j \in todo' : j \in todo /\ j \in Entry /\ zones'[j] = zones[j]
      BY <2>1, <2>2, ZonesAfter DEF MultiInv, TypeOK
    <3> QED BY <2>2, <3>1 DEF CompanionInv, MessagesAreSound
  <2>5. WantsAreLabels' /\ CurrentIsFresh'
    BY <2>2 DEF CompanionInv, WantsAreLabels, CurrentIsFresh
  <2> QED BY <2>3, <2>4, <2>5 DEF CompanionInv
<1> QED BY <1>1, <1>2, <1>3, <1>4, <1>5 DEF Cycle

\* So does every failure, before or after an UPDATE took effect.
LEMMA CompanionFailure ==
  ASSUME Orderly, MultiInv, CompanionInv, Failure
  PROVE  CompanionInv'
<1>1. ASSUME NEW i \in Entry, TransferFails(i) PROVE CompanionInv'
  <2>1. /\ i \in waiting /\ waiting' = waiting \ {i} /\ failed'
        /\ UNCHANGED <<zones, want, pc, desired, todo, pending>>
    BY <1>1 DEF TransferFails, evars
  <2>2. WantsAreLabels' /\ ZonesAreKempt' /\ MessagesAreSound'
    BY <2>1 DEF CompanionInv, WantsAreLabels, ZonesAreKempt, MessagesAreSound
  <2>3. pc' = "transfer"
    BY <2>1 DEF CompanionInv, CurrentIsFresh
  <2>4. CurrentIsFresh'
    BY <2>1, <2>3 DEF CurrentIsFresh
  <2> QED BY <2>2, <2>4 DEF CompanionInv
<1>2. ASSUME FetchFails \/ Crash \/ \E i \in Entry : ApplyFails(i) PROVE CompanionInv'
  <2>1. (\E r : Return(r)) /\ want' = want
    BY <1>2 DEF FetchFails, Crash, ApplyFails, evars
  <2>2. \/ zones' = zones
        \/ \E i \in Entry : /\ Turn(i)
                            /\ \E z \in Process(zones[i], pending[i]) : zones' = [zones EXCEPT ![i] = z]
    BY <1>2 DEF FetchFails, Crash, ApplyFails
  <2>3. ZonesAreKempt'
    <3>1. CASE zones' = zones
      BY <3>1 DEF CompanionInv, ZonesAreKempt
    <3> QED BY <2>2, <3>1, UpdateKempt
  <2> QED BY <2>1, <2>3, CompanionReturn
<1> QED BY <1>1, <1>2 DEF Failure

\* The invariant always holds.
LEMMA CompanionInvariant == ASSUME Orderly PROVE Spec => []CompanionInv
<1>1. Init => CompanionInv
  BY CompanionInit
<1>2. MultiInv /\ AtHome /\ CompanionInv /\ [Next]_vars => CompanionInv'
  <2> SUFFICES ASSUME MultiInv, AtHome, CompanionInv, [Next]_vars PROVE CompanionInv'
    OBVIOUS
  <2>1. ASSUME UNCHANGED <<cvars, zones>>, want' \subseteq Labels PROVE CompanionInv'
    BY <2>1 DEF cvars, CompanionInv, WantsAreLabels, CurrentIsFresh, ZonesAreKempt, MessagesAreSound
  <2>2. CASE UNCHANGED vars
    BY <2>1, <2>2 DEF vars, evars, CompanionInv, WantsAreLabels
  <2>3. CASE Environment
    BY <2>1, <2>3 DEF Environment, ContainerStart, ContainerStop, CompanionInv, WantsAreLabels
  <2> QED BY <2>2, <2>3, CompanionCycle, CompanionFailure DEF Next
<1> QED BY <1>1, <1>2, MultiInvariant, MultiZoneAtHome, PTL DEF Spec

\* A record that the daemon wrote is never without its ownership record in the same
\* zone: for any number of zones that meet Orderly, whichever UPDATE fails or is lost,
\* and wherever in the loop over the zones the process dies.
THEOREM MultiZoneCompanionBeside == ASSUME Orderly PROVE Spec => []CompanionBeside
<1>1. CompanionInv => CompanionBeside
  BY DEF CompanionInv, ZonesAreKempt, Kempt, Attended, CompanionBeside
<1> QED BY <1>1, CompanionInvariant, PTL

-----------------------------------------------------------------------------
(* What success means. *)

\* What the zone of entry i held at first and the labels have no use for: records at
\* other names, or of types that the provider does not see.
Spare(i) ==
  {rr \in InitialZones[i] :
     ~(rr.type \in SupportedType /\ \E ep \in Labels : rr.name = Fqdn(ep.DNSName))}

\* No record at a name that may be managed has a TTL that is read as another, and every
\* record that the labels have a use for has its companion.
ZonesAreReady ==
  \A i \in Entry : Timed(NamesOf(i), zones[i]) /\ Kempt(i, zones[i], Spare(i))

\* Entry i's zone serves what the containers ask of it, or has a part of a plan coming
\* that lets it.
Served(i) == Synced({ownerID}, ownerID, Asked(want, i), zones[i], Spare(i))
Planned(i) ==
  \E part \in Calculate(ownerID, Asked(want, i), Records(zones[i])) :
    pending[i] = UpdateMessage(part)

\* While no container changes, a cycle knows what containers ask for, then what each of
\* the zones still to be called lacks, and leaves all of them in sync.
OnCourse ==
  calm =>
    /\ pc = "transfer" => desired = want
    /\ pc = "apply" => \A i \in Entry : IF i \in todo THEN Planned(i) ELSE Served(i)
    /\ pc = "idle" /\ result = "ok" => \A i \in Entry : Served(i)

SyncInv == ZonesAreReady /\ OnCourse

\* Where nothing is in the way of a label, such a zone is in sync.
LEMMA ServedInSync ==
  ASSUME Orderly, Exact, Unobstructed, CompanionInv, NEW i \in Entry, Served(i)
  PROVE  InSync(i)
<1>1. ASSUME NEW ep \in Asked(want, i) PROVE ~Obstructed({ownerID}, ownerID, ep, zones[i], Spare(i))
  <2> SUFFICES ASSUME NEW z \in Spare(i), z.name = Fqdn(ep.DNSName),
                      z.type = ep.RecordType \/ Conflicts([name |-> z.name, type |-> ep.RecordType], z)
               PROVE  FALSE
    BY DEF Obstructed
  <2>1. ep \in Labels
    BY DEF CompanionInv, WantsAreLabels, Asked
  <2>2. ep.RecordType \in SupportedType
    <3>1. endpointToRRs(ep) # {}
      BY <2>1 DEF Exact
    <3> QED BY <3>1 DEF endpointToRRs, Convertible
  <2>3. z \in InitialZones[i] /\ z.type \notin SupportedType
    BY <2>1 DEF Spare
  <2>4. Conflicts([name |-> z.name, type |-> ep.RecordType], z)
    BY <2>2, <2>3
  <2>5. ep.RecordType = RecordTypeCNAME
    BY <2>3, <2>4 DEF Conflicts, SupportedType
  <2> QED BY <2>1, <2>3, <2>5 DEF Unobstructed
<1>2. \A ep \in Asked(want, i) :
        \E e \in Asked(want, i) : epKey(e) = epKey(ep) /\ endpointToRRs(e) \subseteq zones[i]
  BY <1>1 DEF Served, Synced
<1>3. \A rr \in zones[i] :
        rr.type \in SupportedType /\ rr.name \in OwnedNames(ownerID, zones[i]) =>
          \E ep \in Asked(want, i) : Fqdn(ep.DNSName) = rr.name /\ ep.RecordType = rr.type
  BY DEF Served, Synced
<1>4. \A ep : ep \in Asked(want, i) <=> ep \in want /\ ServedBy(ep.DNSName, i)
  BY DEF Asked
<1> QED BY <1>2, <1>3, <1>4 DEF InSync

\* The invariant holds at the start.
LEMMA SyncInit == ASSUME Orderly, Exact, Unobstructed, Init PROVE SyncInv
<1>1. zones = InitialZones /\ calm = FALSE
  BY DEF Init
<1>2. OnCourse
  BY <1>1 DEF OnCourse
<1>3. ASSUME NEW i \in Entry
      PROVE  Timed(NamesOf(i), InitialZones[i]) /\ Kempt(i, InitialZones[i], Spare(i))
  <2> DEFINE Z == InitialZones[i]
  <2>1. Timed(NamesOf(i), Z)
    BY DEF Timed, Exact, NamesOf
  <2>2. Tidy({ownerID}, NamesOf(i), Z, Z) /\ Agrees(Z, LabelsFor(i))
    BY <1>1, CompanionInit DEF CompanionInv, ZonesAreKempt, Kempt
  <2>3. \A z \in Z : z.type \notin SupportedType => z \in Spare(i)
    BY DEF Spare
  <2>4. Tidy({ownerID}, NamesOf(i), Z, Spare(i))
    BY <2>2, <2>3 DEF Tidy
  <2>5. Attended({ownerID}, Z, Spare(i))
    <3>1. \A rr \in Z \ Spare(i) : rr.name \in OwnedNames(ownerID, Z)
      BY DEF Spare, Unobstructed
    <3> QED BY <3>1 DEF Attended
  <2> QED BY <2>1, <2>2, <2>4, <2>5 DEF Kempt
<1> QED BY <1>1, <1>2, <1>3 DEF SyncInv, ZonesAreReady

\* A part of a plan that is carried out brings its zone in sync.
LEMMA PartCarriedOut ==
  ASSUME Orderly, Exact, MultiInv, CompanionInv, ZonesAreReady, NEW i \in Entry,
         NEW part \in Calculate(ownerID, Asked(want, i), Records(zones[i])),
         NEW after \in Process(zones[i], UpdateMessage(part))
  PROVE  Synced({ownerID}, ownerID, Asked(want, i), after, Spare(i))
<1>1. {ownerID} \in SUBSET OwnerID /\ ownerID \in {ownerID}
  BY OwnerAssumption
<1>2. /\ zones[i] \in SUBSET ResourceRecord /\ CompleteNames(zones[i])
      /\ Tidy({ownerID}, NamesOf(i), zones[i], Spare(i)) /\ Agrees(zones[i], LabelsFor(i))
      /\ Attended({ownerID}, zones[i], Spare(i)) /\ Timed(NamesOf(i), zones[i])
  BY DEF MultiInv, TypeOK, ZonesAreClaimed, ZonesAreReady, Kempt
<1>3. Asked(want, i) \subseteq LabelsFor(i) /\ ReadAsWritten(LabelsFor(i))
  BY DEF CompanionInv, WantsAreLabels, Asked, LabelsFor, Exact, ReadAsWritten
<1> QED BY <1>1, <1>2, <1>3, ManageableFacts, PlanSyncs

\* A part with nothing in it finds its zone in sync.
LEMMA EmptyPart ==
  ASSUME Orderly, Exact, MultiInv, CompanionInv, ZonesAreReady, NEW i \in Entry,
         NEW part \in Calculate(ownerID, Asked(want, i), Records(zones[i])), IsEmpty(part)
  PROVE  Served(i)
<1>1. zones[i] \in Process(zones[i], UpdateMessage(part))
  BY EmptyUpdate
<1> QED BY <1>1, PartCarriedOut DEF Served

\* A zone stays ready when its UPDATE is carried out.
LEMMA UpdateReady ==
  ASSUME Orderly, Exact, MultiInv, CompanionInv, ZonesAreReady, NEW i \in Entry, Turn(i),
         NEW z \in Process(zones[i], pending[i]), zones' = [zones EXCEPT ![i] = z]
  PROVE  ZonesAreReady'
<1>1. /\ Sound(ownerID, NamesOf(i), LabelsFor(i), zones[i], pending[i])
      /\ Timed(NamesOf(i), zones[i]) /\ Kempt(i, zones[i], Spare(i))
  BY DEF CompanionInv, MessagesAreSound, Turn, ZonesAreReady
<1>2. Kempt(i, z, Spare(i))
  BY <1>1, ApplyKempt
<1>3. ReadAsWritten(LabelsFor(i))
  BY DEF Exact, ReadAsWritten, LabelsFor
<1>4. Timed(NamesOf(i), z)
  BY <1>1, <1>3, ManageableFacts, ApplyTimed
<1>5. \A j \in Entry : Timed(NamesOf(j), zones'[j]) /\ Kempt(j, zones'[j], Spare(j))
  BY <1>2, <1>4, ZonesAfter DEF ZonesAreReady
<1> QED BY <1>5 DEF ZonesAreReady

\* A step that leaves the zones alone and ends a cycle keeps the invariant, when it
\* reports success only for zones that serve what is asked of them.
LEMMA SyncReturn ==
  ASSUME SyncInv, NEW r, Return(r), UNCHANGED <<want, calm>>, ZonesAreReady',
         calm /\ r = "ok" => zones' = zones /\ \A i \in Entry : Served(i)
  PROVE  SyncInv'
<1>1. pc' = "idle" /\ result' = r
  BY DEF Return
<1>2. zones' = zones => \A i \in Entry : Served(i) => Served(i)'
  BY DEF Served
<1>3. OnCourse'
  BY <1>1, <1>2 DEF OnCourse
<1> QED BY <1>3 DEF SyncInv

\* The steps of a cycle keep the invariant.
LEMMA SyncCycle ==
  ASSUME Orderly, Exact, MultiInv, AtHome, CompanionInv, SyncInv, Cycle
  PROVE  SyncInv'
<1>1. ZonesAreReady /\ OnCourse
  BY DEF SyncInv
<1>2. ASSUME UNCHANGED zones PROVE ZonesAreReady'
  BY <1>1, <1>2 DEF ZonesAreReady
<1>3. CASE FetchDesired
  <2>1. pc' = "transfer" /\ desired' = want /\ want' = want /\ zones' = zones
    BY <1>3 DEF FetchDesired, evars
  <2> QED BY <1>2, <2>1 DEF OnCourse, SyncInv
<1>4. ASSUME NEW i \in Entry, Transfer(i) PROVE SyncInv'
  <2>1. UNCHANGED <<zones, want, pc, desired, calm>> /\ pc = "transfer"
    BY <1>4 DEF Transfer, evars, CompanionInv, CurrentIsFresh
  <2> QED BY <1>1, <1>2, <2>1 DEF OnCourse, SyncInv
<1>5. ASSUME RecordsFails \/ \E i \in Entry : ApplyRefused(i) PROVE SyncInv'
  <2>1. Return("error") /\ UNCHANGED <<zones, want, calm>>
    BY <1>5 DEF RecordsFails, ApplyRefused, evars
  <2> QED BY <1>2, <2>1, SyncReturn
<1>6. ASSUME NEW changes \in Plans, NEW i \in Entry, calm, pc = "transfer", waiting = {}, ~failed
      PROVE  ChangesFor(i, changes) \in Calculate(ownerID, Asked(want, i), Records(zones[i]))
  <2>1. desired = want
    BY <1>1, <1>6 DEF OnCourse
  <2> QED BY <1>6, <2>1, SplitSound
<1>7. CASE NothingToApply
  <2>1. /\ pc = "transfer" /\ waiting = {} /\ ~failed
        /\ Return("ok") /\ UNCHANGED <<zones, want, calm>>
    BY <1>7 DEF NothingToApply, evars
  <2>2. PICK changes \in Plans : IsEmpty(changes)
    BY <1>7 DEF NothingToApply
  <2>3. \A i \in Entry : IsEmpty(ChangesFor(i, changes))
    BY <2>2 DEF IsEmpty, ChangesFor
  <2>4. calm => \A i \in Entry : Served(i)
    BY <1>1, <1>6, <2>1, <2>3, EmptyPart
  <2> QED BY <1>2, <2>1, <2>4, SyncReturn
<1>8. CASE Split
  <2>1. PICK changes \in Plans :
          /\ todo' = {i \in Entry : ~IsEmpty(ChangesFor(i, changes))}
          /\ pending' = [i \in Entry |-> UpdateMessage(ChangesFor(i, changes))]
    BY <1>8 DEF Split
  <2>2. /\ pc = "transfer" /\ waiting = {} /\ ~failed /\ pc' = "apply"
        /\ UNCHANGED <<zones, want, calm>>
    BY <1>8 DEF Split, evars
  <2>3. ASSUME calm, NEW i \in Entry PROVE IF i \in todo' THEN Planned(i)' ELSE Served(i)'
    <3>1. ChangesFor(i, changes) \in Calculate(ownerID, Asked(want, i), Records(zones[i]))
      BY <1>6, <2>2, <2>3
    <3>2. CASE i \in todo'
      <4>1. pending'[i] = UpdateMessage(ChangesFor(i, changes))
        BY <2>1
      <4> QED BY <2>2, <3>1, <3>2, <4>1 DEF Planned
    <3>3. CASE i \notin todo'
      <4>1. IsEmpty(ChangesFor(i, changes))
        BY <2>1, <3>3
      <4>2. Served(i)
        BY <1>1, <3>1, <4>1, EmptyPart
      <4> QED BY <2>2, <3>3, <4>2 DEF Served
    <3> QED BY <3>2, <3>3
  <2> QED BY <1>2, <2>2, <2>3 DEF OnCourse, SyncInv
<1>9. ASSUME NEW i \in Entry, Apply(i) PROVE SyncInv'
  <2>1. PICK z \in Process(zones[i], pending[i]) : zones' = [zones EXCEPT ![i] = z]
    BY <1>9 DEF Apply
  <2>2. /\ Turn(i) /\ pc = "apply" /\ i \in todo /\ todo' = todo \ {i}
        /\ UNCHANGED <<want, pc, pending, calm>>
    BY <1>9 DEF Apply, Turn, evars
  <2>3. ZonesAreReady'
    BY <1>1, <2>1, <2>2, UpdateReady
  <2>4. zones'[i] = z /\ \A j \in Entry : j # i => zones'[j] = zones[j]
    <3>1. \A j \in Entry : zones'[j] = IF j = i THEN z ELSE zones[j]
      BY <2>1, ZonesAfter
    <3> QED BY <3>1
  <2>5. ASSUME calm, NEW j \in Entry PROVE IF j \in todo' THEN Planned(j)' ELSE Served(j)'
    <3>1. IF j \in todo THEN Planned(j) ELSE Served(j)
      BY <1>1, <2>2, <2>5 DEF OnCourse
    <3>2. CASE j = i
      <4>1. PICK part \in Calculate(ownerID, Asked(want, i), Records(zones[i])) :
              pending[i] = UpdateMessage(part)
        BY <2>2, <3>1, <3>2 DEF Planned
      <4>2. Synced({ownerID}, ownerID, Asked(want, i), z, Spare(i))
        BY <1>1, <4>1, PartCarriedOut
      <4> QED BY <2>2, <2>4, <3>2, <4>2 DEF Served
    <3>3. CASE j # i
      BY <2>2, <2>4, <3>1, <3>3 DEF Served, Planned
    <3> QED BY <3>2, <3>3
  <2> QED BY <2>2, <2>3, <2>5 DEF OnCourse, SyncInv
<1>10. CASE ApplyReturns
  <2>1. /\ pc = "apply" /\ todo = {} /\ Return("ok") /\ UNCHANGED <<zones, want, calm>>
    BY <1>10 DEF ApplyReturns, evars
  <2>2. calm => \A i \in Entry : Served(i)
    BY <1>1, <2>1 DEF OnCourse
  <2> QED BY <1>2, <2>1, <2>2, SyncReturn
<1> QED BY <1>3, <1>4, <1>5, <1>7, <1>8, <1>9, <1>10 DEF Cycle

\* A cycle that fails reports no success, though some of its UPDATEs were carried out.
LEMMA SyncFailure ==
  ASSUME Orderly, Exact, MultiInv, CompanionInv, SyncInv, Failure
  PROVE  SyncInv'
<1>1. ZonesAreReady /\ OnCourse
  BY DEF SyncInv
<1>2. ASSUME NEW i \in Entry, TransferFails(i) PROVE SyncInv'
  <2>1. UNCHANGED <<zones, want, pc, desired, calm>> /\ pc = "transfer"
    BY <1>2 DEF TransferFails, evars, CompanionInv, CurrentIsFresh
  <2> QED BY <1>1, <2>1 DEF OnCourse, ZonesAreReady, SyncInv
<1>3. ASSUME FetchFails \/ Crash \/ \E i \in Entry : ApplyFails(i) PROVE SyncInv'
  <2>1. (\E r \in {"none", "error"} : Return(r)) /\ UNCHANGED <<want, calm>>
    BY <1>3 DEF FetchFails, Crash, ApplyFails, evars
  <2>2. \/ zones' = zones
        \/ \E i \in Entry : /\ Turn(i)
                            /\ \E z \in Process(zones[i], pending[i]) : zones' = [zones EXCEPT ![i] = z]
    BY <1>3 DEF FetchFails, Crash, ApplyFails
  <2>3. ZonesAreReady'
    <3>1. CASE zones' = zones
      BY <1>1, <3>1 DEF ZonesAreReady
    <3> QED BY <1>1, <2>2, <3>1, UpdateReady
  <2> QED BY <2>1, <2>3, SyncReturn
<1> QED BY <1>2, <1>3 DEF Failure

\* A cycle that returns nil while no container changed leaves every zone in sync with
\* what the containers ask of it: the plan was split without losing a change, no UPDATE
\* of an earlier, partly failed cycle is missing, and an error in any zone is an error.
THEOREM MultiZoneSuccessMeansInSync ==
  ASSUME Orderly, Exact, Unobstructed PROVE Spec => []SuccessMeansInSync
<1>1. Init => SyncInv
  BY SyncInit
<1>2. MultiInv /\ AtHome /\ CompanionInv /\ SyncInv /\ [Next]_vars => SyncInv'
  <2> SUFFICES ASSUME MultiInv, AtHome, CompanionInv, SyncInv, [Next]_vars PROVE SyncInv'
    OBVIOUS
  <2>1. CASE UNCHANGED vars
    BY <2>1 DEF vars, evars, cvars, SyncInv, ZonesAreReady, OnCourse, Planned, Served
  <2>2. CASE Environment
    <3>1. zones' = zones /\ calm' = FALSE
      BY <2>2 DEF Environment, ContainerStart, ContainerStop
    <3> QED BY <3>1 DEF SyncInv, ZonesAreReady, OnCourse
  <2> QED BY <2>1, <2>2, SyncCycle, SyncFailure DEF Next
<1>3. CompanionInv /\ SyncInv => SuccessMeansInSync
  BY ServedInSync DEF SyncInv, OnCourse, SuccessMeansInSync
<1> QED BY <1>1, <1>2, <1>3, MultiInvariant, MultiZoneAtHome, CompanionInvariant, PTL DEF Spec
=============================================================================
