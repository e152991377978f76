-------------------------- MODULE ExclusiveOwnership --------------------------
(***************************************************************************)
(* What the exporter promises about a shared device, whatever sessions     *)
(* come and go: at most one machine holds it, it passes from one machine   *)
(* to another only through nobody, and each taking has an attach id that   *)
(* no earlier taking had.                                                  *)
(***************************************************************************)
EXTENDS Naturals

CONSTANTS Peers, NoPeer

VARIABLES
    holder,     \* the machine that holds the device, or NoPeer
    attachId,   \* the attach id of this holding, 0 when nobody holds it
    lastId      \* the largest attach id ever used up

ovars == <<holder, attachId, lastId>>

Init ==
    /\ holder = NoPeer
    /\ attachId = 0
    /\ lastId = 0

Take(p) ==
    /\ holder = NoPeer
    /\ holder' = p
    /\ lastId' = lastId + 1
    /\ attachId' = lastId'

\* The holder comes back after a loss: still its device, under a new id.
Renew ==
    /\ holder # NoPeer
    /\ holder' = holder
    /\ lastId' = lastId + 1
    /\ attachId' = lastId'

Yield ==
    /\ holder # NoPeer
    /\ holder' = NoPeer
    /\ attachId' = 0
    /\ lastId' = lastId

\* A taking that failed half way: the id is gone, nobody holds the device.
Burn ==
    /\ holder = NoPeer
    /\ holder' = NoPeer
    /\ attachId' = 0
    /\ lastId' = lastId + 1

Next == (\E p \in Peers : Take(p)) \/ Renew \/ Yield \/ Burn

Spec == Init /\ [][Next]_ovars

===============================================================================
