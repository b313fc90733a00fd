---------------------------- MODULE ManagedZone ----------------------------
(***************************************************************************)
(* What the daemons promise about the zone they share with each other and  *)
(* with human operators, without saying how: an owner changes records only *)
(* at the names it has a claim to and at their ownership names, and never  *)
(* another owner's ownership mark.                                         *)
(*                                                                         *)
(* A name is claimed by an owner from the moment a container of its asks   *)
(* for it, or from the start when the zone already carries the owner's     *)
(* ownership TXT record for it.                                            *)
(***************************************************************************)
EXTENDS RFC2136

VARIABLES
  zone,      \* the records the server holds
  manual,    \* the records an operator put there and has not taken away
  claimed    \* owner -> the names it has a claim to

zvars == <<zone, manual, claimed>>

-----------------------------------------------------------------------------
Init ==
  /\ zone \in SUBSET ResourceRecord
  /\ manual \in SUBSET zone
  /\ claimed \in [OwnerID -> SUBSET Name]
  /\ \A id \in OwnerID : OwnedNames(id, zone) \subseteq claimed[id]

\* A container asks for more names.
Claim(id) ==
  /\ claimed' \in [OwnerID -> SUBSET Name]
  /\ claimed[id] \subseteq claimed'[id]
  /\ \A other \in OwnerID \ {id} : claimed'[other] = claimed[other]
  /\ UNCHANGED <<zone, manual>>

\* The owner's daemon changes the zone.
Manage(id) ==
  /\ zone' \in SUBSET ResourceRecord
  /\ \A rr \in (zone \ zone') \cup (zone' \ zone) :
       /\ rr.name \in Touchable(claimed[id])
       /\ \A other \in OwnerID \ {id} : ~OwnershipRR(other, rr)
  /\ UNCHANGED <<manual, claimed>>

\* An operator edits the zone, and may answer for anything that is there
\* afterwards, but for nothing that a daemon has already removed.
Operate ==
  /\ zone' \in SUBSET ResourceRecord
  /\ manual' \subseteq zone' \cup (manual \ zone)
  /\ \A id \in OwnerID : \A rr \in zone' \ zone : ~OwnershipRR(id, rr)
  /\ UNCHANGED claimed

Next == Operate \/ \E id \in OwnerID : Claim(id) \/ Manage(id)

Spec == Init /\ [][Next]_zvars
=============================================================================
