---------------------------- MODULE LeaseAuthority ----------------------------
(***************************************************************************)
(* The lease authority on its own, driven by any sequence of calls its     *)
(* interface allows, with every token it ever handed out free to be        *)
(* presented again by any machine.  tryRecover is exercised here: no       *)
(* message reaches it yet (LeaseAuthority.h), so SharingHub has no step    *)
(* for it.                                                                 *)
(***************************************************************************)
EXTENDS LeaseOps

VARIABLES
    auth,     \* the authority
    handed    \* every token given out, for whom, attach id and epoch

avars == <<auth, handed>>

Handed == [peer : Peers, token : Nat, attachId : Nat, leaseEpoch : Nat]

HandOut(p) ==
    handed' = handed \cup
        {[peer       |-> p,
          token      |-> auth'.token,
          attachId   |-> auth'.attachId,
          leaseEpoch |-> auth'.leaseEpoch]}

AuthorityInit ==
    /\ auth = InitLease
    /\ handed = {}

\* mayClaim and, on Ok, grant: the only order in which grant is called.
Claim(p, u) ==
    /\ auth.nextAttachId <= MaxAttachId
    /\ MayClaim(auth, p, u) = "Ok"
    /\ auth' = Grant(auth, p, u)
    /\ HandOut(p)

TryRecover(p, t) ==
    /\ auth.nextAttachId <= MaxAttachId
    /\ TryRecoverStatus(auth, p, t) = "Ok"
    /\ auth' = Recovered(auth)
    /\ HandOut(p)

HeardFrom(p) == auth' = Heard(auth, p) /\ UNCHANGED handed

QuarantineIt == auth' = Quarantine(auth) /\ UNCHANGED handed

ReleaseBy(p) == auth' = Release(auth, p) /\ UNCHANGED handed

ForceReclaimIt == auth' = ForceReclaim(auth) /\ UNCHANGED handed

AuthorityTick == auth' = Aged(auth) /\ UNCHANGED handed

AuthorityNext ==
    \/ \E p \in Peers, u \in Uids : Claim(p, u)
    \/ \E p \in Peers, h \in handed : TryRecover(p, h.token)
    \/ \E p \in Peers : HeardFrom(p)
    \/ QuarantineIt
    \/ \E p \in Peers : ReleaseBy(p)
    \/ ForceReclaimIt
    \/ AuthorityTick

AuthoritySpec == AuthorityInit /\ [][AuthorityNext]_avars

-------------------------------------------------------------------------------
(* Properties *)

\* Every field keeps its type, and an owner is recorded exactly while the
\* lease is not free (Snapshot::hasOwner).
TypeOK ==
    /\ auth \in Lease
    /\ handed \in SUBSET Handed
    /\ auth.state = "Free" <=> auth.owner = NoPeer

\* The recovery token is bound to its peer and its attach id: of all tokens
\* ever given out, the one that opens the lease now was given to the lease's
\* owner for the attach id the lease has now, so no other peer can present one
\* and none works twice (LeaseAuthority.h, the comment on tryRecover).
TokenBinding ==
    \A h \in handed :
        auth.state # "Free" /\ h.token = auth.token
            => h.peer = auth.owner /\ h.attachId = auth.attachId

\* No two grants or recoveries ever used the same attach id, however many
\* releases and reclaims lie between them (grant, tryRecover: _nextAttachId).
AttachIdsDistinct ==
    \A g, h \in handed : g.attachId = h.attachId => g = h

\* The authority implements exclusive ownership: the device passes between
\* machines only through nobody, each time under a fresh attach id.
AuthorityOwnership ==
    INSTANCE ExclusiveOwnership WITH
        holder   <- auth.owner,
        attachId <- auth.attachId,
        lastId   <- auth.nextAttachId - 1

AuthorityImplementsOwnership == AuthorityOwnership!Spec

===============================================================================
