------------------------------- MODULE LeaseOps -------------------------------
(***************************************************************************)
(* The methods of session::LeaseAuthority (session/LeaseAuthority.cpp) as  *)
(* operators on the authority's state.  The class is called from handlers  *)
(* that make several of these calls in one step, so each method is an      *)
(* operator from a state to a state; LeaseAuthority.tla turns them into    *)
(* actions, SharingHub.tla composes them into the exporter's handlers.     *)
(*                                                                         *)
(* Abstractions: lastHeardNs is the owner's silence in ticks, saturated at *)
(* T_lease_exporter (only silenceExpired reads it); sinceNs is display     *)
(* only; incarnation is incremented and reset exactly where leaseEpoch is, *)
(* and leaseEpoch stands for both; a token drawn from the CSPRNG is the    *)
(* number of the draw, 0 being the zeroed token.                           *)
(***************************************************************************)
EXTENDS Naturals

CONSTANTS
    Peers,          \* identity keys of the importing machines
    Uids,           \* devices of the device source
    NoPeer, NoUid,  \* the zeroed key and uid of an empty Snapshot
    LeaseExporter,  \* watchdog::kLeaseExporter, in ticks
    MaxAttachId     \* bound: attach ids one behaviour uses

ASSUME LeaseOpsAssumption ==
    /\ NoPeer \notin Peers
    /\ NoUid \notin Uids
    /\ LeaseExporter \in Nat \ {0}
    /\ MaxAttachId \in Nat

LeaseStates == {"Free", "Leased", "Quarantined"}

\* Snapshot, _token and _nextAttachId; minted counts the CSPRNG draws.
Lease ==
    [ state        : LeaseStates,
      owner        : Peers \cup {NoPeer},
      uid          : Uids \cup {NoUid},
      attachId     : Nat,
      leaseEpoch   : Nat,
      silence      : 0..LeaseExporter,
      token        : Nat,
      minted       : Nat,
      nextAttachId : Nat \ {0} ]

InitLease ==
    [ state        |-> "Free",
      owner        |-> NoPeer,
      uid          |-> NoUid,
      attachId     |-> 0,
      leaseEpoch   |-> 0,
      silence      |-> 0,
      token        |-> 0,
      minted       |-> 0,
      nextAttachId |-> 1 ]

IsOwner(l, p) == l.owner = p

\* Mutant: a quarantined lease is treated as available.
MayClaimQuarantined(l, p, u) ==
    IF l.state = "Leased" THEN "Busy" ELSE "Ok"

\* Busy and ExclusivityDenied do not depend on who asks: a second ATTACH from
\* the owner itself is refused like anybody else's.
MayClaim(l, p, u) ==
    CASE l.state = "Free"        -> "Ok"
      [] l.state = "Leased"      -> "Busy"
      [] l.state = "Quarantined" -> "ExclusivityDenied"

MintToken(l) ==
    [l EXCEPT !.minted = @ + 1, !.token = l.minted + 1]

Grant(l, p, u) ==
    MintToken([l EXCEPT !.state        = "Leased",
                        !.owner        = p,
                        !.uid          = u,
                        !.attachId     = l.nextAttachId,
                        !.nextAttachId = @ + 1,
                        !.leaseEpoch   = @ + 1,
                        !.silence      = 0])

Heard(l, p) ==
    IF IsOwner(l, p)
    THEN [l EXCEPT !.silence = 0,
                   !.state   = IF @ = "Quarantined" THEN "Leased" ELSE @]
    ELSE l

Quarantine(l) ==
    IF l.state = "Leased" THEN [l EXCEPT !.state = "Quarantined"] ELSE l

\* Mutant: the reset forgets the owner.
ResetKeepsOwner(l) ==
    [InitLease EXCEPT !.minted = l.minted, !.nextAttachId = l.nextAttachId,
                      !.owner = l.owner]

\* Mutant: the attach id counter is part of what is reset.
ResetRestartsIds(l) == [InitLease EXCEPT !.minted = l.minted]

\* `_s = Snapshot{}`: everything but the two counters goes back to its default,
\* leaseEpoch included.
Reset(l) ==
    [InitLease EXCEPT !.minted = l.minted, !.nextAttachId = l.nextAttachId]

Release(l, p) == IF IsOwner(l, p) THEN Reset(l) ELSE l

ForceReclaim(l) == Reset(l)

TryRecoverStatus(l, p, t) ==
    CASE l.state = "Free"                     -> "NotFound"
      [] l.state # "Free" /\ ~IsOwner(l, p)   -> "NotPermitted"
      [] l.state # "Free" /\ IsOwner(l, p)    ->
            IF t = l.token THEN "Ok" ELSE "NotPermitted"

\* Mutant: the token that recovered the lease stays valid.
RecoveredWithoutMint(l) ==
    [l EXCEPT !.state        = "Leased",
              !.attachId     = l.nextAttachId,
              !.nextAttachId = @ + 1,
              !.leaseEpoch   = @ + 1,
              !.silence      = 0]

\* The effect of a tryRecover that answered Ok.
Recovered(l) ==
    MintToken([l EXCEPT !.state        = "Leased",
                        !.attachId     = l.nextAttachId,
                        !.nextAttachId = @ + 1,
                        !.leaseEpoch   = @ + 1,
                        !.silence      = 0])

SilenceExpired(l) == l.state = "Leased" /\ l.silence >= LeaseExporter

\* One tick of the clock the authority reads.  The silence of a quarantined or
\* free lease is never read, so it stands still.
Aged(l) ==
    IF l.state = "Leased" /\ l.silence < LeaseExporter
    THEN [l EXCEPT !.silence = @ + 1]
    ELSE l

===============================================================================
