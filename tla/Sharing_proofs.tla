----------------------------- MODULE Sharing_proofs -----------------------------
(***************************************************************************)
(* Proofs about the two sides of sharing a device, for any peers, devices, *)
(* lease time and bounds: the lease authority on its own, then the sharing *)
(* half of the hub that drives it.                                         *)
(*                                                                         *)
(* The authority's recovery token argument rests on one fact the code      *)
(* never states: a token and an attach id are always newer than everything *)
(* handed out before (Counted).  The hub's safety properties are not       *)
(* inductive one by one: that a session with a port belongs to the lease's *)
(* owner needs that only attached sessions have a port, and that the       *)
(* capture survives close() needs that a session with a port names the     *)
(* leased device.  HubInv is their conjunction with what the lease and the *)
(* session record each keep on their own.                                  *)
(***************************************************************************)
EXTENDS LeaseAuthority, SharingHub, Ops_proofs

-------------------------------------------------------------------------------
(* The lease authority on its own *)

\* Nothing handed out is ahead of the two counters.
Counted ==
    /\ auth.token <= auth.minted
    /\ \A h \in handed : h.attachId < auth.nextAttachId /\ h.token <= auth.minted

AuthorityInv ==
    /\ LeaseOK(auth)
    /\ handed \subseteq Handed
    /\ Counted
    /\ TokenBinding
    /\ AttachIdsDistinct

\* The invariant holds of a new authority.
LEMMA AuthorityInitInv == AuthorityInit => AuthorityInv
<1>. SUFFICES ASSUME AuthorityInit PROVE AuthorityInv
  OBVIOUS
<1>1. auth = InitLease /\ handed = {}
  BY DEF AuthorityInit
<1>2. auth.token <= auth.minted
  BY <1>1 DEF InitLease
<1>. QED
  BY <1>1, <1>2, InitLeaseOK DEF AuthorityInv, Counted, TokenBinding, AttachIdsDistinct

\* A step that hands nothing out and leaves a held lease's owner, attach id and
\* token alone keeps the invariant.
LEMMA QuietStep ==
  ASSUME AuthorityInv, LeaseOK(auth'), handed' = handed,
         auth'.minted = auth.minted,
         auth'.nextAttachId = auth.nextAttachId,
         auth'.token <= auth'.minted,
         auth'.state # "Free" =>
            /\ auth.state # "Free"
            /\ auth'.token = auth.token
            /\ auth'.owner = auth.owner
            /\ auth'.attachId = auth.attachId
  PROVE  AuthorityInv'
<1>1. Counted'
  BY DEF AuthorityInv, Counted
<1>2. TokenBinding' /\ AttachIdsDistinct'
  BY DEF AuthorityInv, TokenBinding, AttachIdsDistinct
<1>. QED
  BY <1>1, <1>2 DEF AuthorityInv

\* A step that gives out a fresh token for a fresh attach id keeps it.
LEMMA MintingStep ==
  ASSUME AuthorityInv, NEW p \in Peers, LeaseOK(auth'), HandOut(p),
         auth'.state = "Leased", auth'.owner = p,
         auth'.attachId = auth.nextAttachId,
         auth'.nextAttachId = auth.nextAttachId + 1,
         auth'.token = auth.minted + 1,
         auth'.minted = auth.minted + 1
  PROVE  AuthorityInv'
<1>. DEFINE n == [peer       |-> p,
                  token      |-> auth'.token,
                  attachId   |-> auth'.attachId,
                  leaseEpoch |-> auth'.leaseEpoch]
<1>1. handed' = handed \cup {n}
  BY DEF HandOut
<1>2. /\ auth.minted \in Nat /\ auth.nextAttachId \in Nat
      /\ \A h \in handed : h.token \in Nat /\ h.attachId \in Nat
  BY FieldTypes DEF AuthorityInv, LeaseOK, Handed
<1>3. /\ auth'.token \in Nat /\ auth'.attachId \in Nat /\ auth'.leaseEpoch \in Nat
  BY FieldTypes DEF LeaseOK
<1>4. n \in Handed
  BY <1>3 DEF Handed
<1>5. \A h \in handed : h.token # auth'.token /\ h.attachId # auth'.attachId
  BY <1>2 DEF AuthorityInv, Counted
<1>6. Counted'
  BY <1>1, <1>2 DEF AuthorityInv, Counted
<1>7. TokenBinding'
  BY <1>1, <1>5 DEF TokenBinding
<1>8. AttachIdsDistinct'
  BY <1>1, <1>5 DEF AuthorityInv, AttachIdsDistinct
<1>. QED
  BY <1>1, <1>4, <1>6, <1>7, <1>8 DEF AuthorityInv

\* Every call keeps the invariant.
LEMMA AuthorityNextInv == AuthorityInv /\ [AuthorityNext]_avars => AuthorityInv'
<1>. SUFFICES ASSUME AuthorityInv, [AuthorityNext]_avars PROVE AuthorityInv'
  OBVIOUS
<1>0. LeaseOK(auth) /\ auth.token <= auth.minted /\ 0 <= auth.minted
  BY FieldTypes DEF AuthorityInv, Counted, LeaseOK
<1>1. ASSUME NEW p \in Peers, NEW u \in Uids, Claim(p, u) PROVE AuthorityInv'
  BY <1>0, <1>1, GrantOK, MintingStep DEF Claim
<1>2. ASSUME NEW p \in Peers, NEW h \in handed, TryRecover(p, h.token)
      PROVE  AuthorityInv'
  <2>1. auth.state # "Free" /\ auth.owner = p
    BY <1>2, <1>0 DEF TryRecover, TryRecoverStatus, IsOwner, LeaseOK, Lease, LeaseStates
  <2>. QED
    BY <1>0, <1>2, <2>1, RecoveredOK, MintingStep DEF TryRecover
<1>3. ASSUME NEW p \in Peers, HeardFrom(p) PROVE AuthorityInv'
  BY <1>0, <1>3, HeardOK, QuietStep DEF HeardFrom
<1>4. CASE QuarantineIt
  BY <1>0, <1>4, QuarantineOK, QuietStep DEF QuarantineIt
<1>5. ASSUME NEW p \in Peers, ReleaseBy(p) PROVE AuthorityInv'
  <2>1. CASE auth' = Reset(auth)
    BY <1>0, <1>5, <2>1, ResetOK, QuietStep DEF ReleaseBy
  <2>2. CASE auth' = auth
    BY <1>0, <1>5, <2>2, QuietStep DEF ReleaseBy
  <2>. QED
    BY <1>5, <2>1, <2>2 DEF ReleaseBy, Release
<1>6. CASE ForceReclaimIt
  BY <1>0, <1>6, ResetOK, QuietStep DEF ForceReclaimIt, ForceReclaim
<1>7. CASE AuthorityTick
  BY <1>0, <1>7, AgedOK, QuietStep DEF AuthorityTick
<1>8. CASE UNCHANGED avars
  BY <1>0, <1>8, QuietStep DEF avars
<1>. QED
  BY <1>1, <1>2, <1>3, <1>4, <1>5, <1>6, <1>7, <1>8 DEF AuthorityNext

\* The inductive invariant holds in every behaviour.
LEMMA AuthorityInvariance == AuthoritySpec => []AuthorityInv
  BY AuthorityInitInv, AuthorityNextInv, PTL DEF AuthoritySpec

\* Every field keeps its type, and the lease has an owner exactly while it is
\* not free, after any sequence of calls of LeaseAuthority's methods.
THEOREM TypeCorrect == AuthoritySpec => []TypeOK
<1>1. AuthorityInv => TypeOK
  BY DEF AuthorityInv, TypeOK, LeaseOK
<1>. QED
  BY <1>1, AuthorityInvariance, PTL

\* A token opens the lease only for the peer it was given to and only for the
\* attach id it was given with: tryRecover cannot be replayed, nor used by
\* another machine that learned the token.
THEOREM TokenBound == AuthoritySpec => []TokenBinding
<1>1. AuthorityInv => TokenBinding
  BY DEF AuthorityInv
<1>. QED
  BY <1>1, AuthorityInvariance, PTL

\* No attach id is given twice, through every release and reclaim, so a record
\* stamped with an old one can never be taken for a current one.
THEOREM AttachIdsNeverReused == AuthoritySpec => []AttachIdsDistinct
<1>1. AuthorityInv => AttachIdsDistinct
  BY DEF AuthorityInv
<1>. QED
  BY <1>1, AuthorityInvariance, PTL


-------------------------------------------------------------------------------
(* Refinement *)

\* A new authority is the abstract device that nobody holds.
LEMMA AuthorityRefinesInit == AuthorityInit => AuthorityOwnership!Init
<1>1. 1 - 1 = 0
  OBVIOUS
<1>. QED
  BY <1>1 DEF AuthorityInit, InitLease, AuthorityOwnership!Init

\* Every call takes an abstract step or none.
LEMMA AuthorityRefinesNext == AuthorityInv /\ [AuthorityNext]_avars => [AuthorityOwnership!Next]_(AuthorityOwnership!ovars)
<1>. SUFFICES ASSUME AuthorityInv, [AuthorityNext]_avars
              PROVE  AuthorityOwnership!Next \/ UNCHANGED AuthorityOwnership!ovars
  OBVIOUS
<1>. USE DEF AuthorityOwnership!Next, AuthorityOwnership!ovars
<1>0. LeaseOK(auth) /\ auth.nextAttachId \in Nat /\ auth.nextAttachId >= 1
  BY FieldTypes DEF AuthorityInv, LeaseOK
<1>1. ASSUME NEW p \in Peers, NEW u \in Uids, Claim(p, u) PROVE AuthorityOwnership!Take(p)
  <2>1. auth.state = "Free"
    BY <1>0, <1>1 DEF Claim, MayClaim, LeaseOK, Lease, LeaseStates
  <2>. QED
    BY <1>0, <1>1, <2>1, GrantOK DEF Claim, AuthorityOwnership!Take, LeaseOK
<1>2. ASSUME NEW p \in Peers, NEW h \in handed, TryRecover(p, h.token)
      PROVE  AuthorityOwnership!Renew
  <2>1. auth.state # "Free" /\ auth.owner = p
    BY <1>2, <1>0 DEF TryRecover, TryRecoverStatus, IsOwner, LeaseOK, Lease, LeaseStates
  <2>. QED
    BY <1>0, <1>2, <2>1, RecoveredOK DEF TryRecover, AuthorityOwnership!Renew, LeaseOK
<1>3. ASSUME NEW p \in Peers, HeardFrom(p) PROVE UNCHANGED AuthorityOwnership!ovars
  BY <1>0, <1>3, HeardOK DEF HeardFrom
<1>4. CASE QuarantineIt
  BY <1>0, <1>4, QuarantineOK DEF QuarantineIt
<1>5. ASSUME auth' = Reset(auth) PROVE AuthorityOwnership!Yield \/ UNCHANGED AuthorityOwnership!ovars
  <2>1. CASE auth.state = "Free"
    BY <1>0, <1>5, <2>1, ResetOK DEF LeaseOK
  <2>2. CASE auth.state # "Free"
    BY <1>0, <1>5, <2>2, ResetOK DEF LeaseOK, AuthorityOwnership!Yield
  <2>. QED
    BY <2>1, <2>2
<1>6. ASSUME NEW p \in Peers, ReleaseBy(p)
      PROVE  AuthorityOwnership!Yield \/ UNCHANGED AuthorityOwnership!ovars
  BY <1>5, <1>6 DEF ReleaseBy, Release
<1>7. CASE ForceReclaimIt
  BY <1>5, <1>7 DEF ForceReclaimIt, ForceReclaim
<1>8. CASE AuthorityTick
  BY <1>0, <1>8, AgedOK DEF AuthorityTick
<1>9. CASE UNCHANGED avars
  BY <1>9 DEF avars
<1>. QED
  BY <1>1, <1>2, <1>3, <1>4, <1>6, <1>7, <1>8, <1>9 DEF AuthorityNext

\* The authority implements exclusive ownership: under any sequence of calls the
\* device passes between machines only through nobody, each time under an attach
\* id larger than every one before.
THEOREM Refinement == AuthoritySpec => AuthorityImplementsOwnership
<1>1. AuthorityOwnership!Init /\ [][AuthorityOwnership!Next]_(AuthorityOwnership!ovars) => AuthorityImplementsOwnership
  BY DEF AuthorityImplementsOwnership, AuthorityOwnership!Spec
<1>. QED
  BY <1>1, AuthorityRefinesInit, AuthorityRefinesNext, AuthorityInvariance, PTL DEF AuthoritySpec

-------------------------------------------------------------------------------
(* The sharing half of the hub *)

\* What the fields of a session say about each other.
SessionOK(s) ==
    /\ s \in Session
    /\ s.state # "None" <=> s.peer # NoPeer
    /\ s.port <=> s.state \in {"Leased", "Orphaned"}
    /\ s.owed => s.state = "Leased"

ShareOK ==
    /\ share \in [state : ShareStates, nonce : Nat]
    /\ share.state \in {"AwaitingApproval", "Serving"} <=> sess.state # "None"

PairingOK ==
    /\ conns \in Nat
    /\ pinned \subseteq Peers
    /\ asked \subseteq Ticket
    /\ accepted \subseteq asked
    /\ PinnedWasApproved

HubInv ==
    /\ LeaseOK(la)
    /\ SessionOK(sess)
    /\ ShareOK
    /\ PairingOK
    /\ claimed \subseteq Uids
    /\ OnlyOwnerDrives
    /\ HeldIsCaptured
    /\ sess.state = "Leased" => la.state = "Leased"

\* m holds the device for the same machine as l, or both for nobody.
SameHold(l, m) ==
    /\ LeaseOK(m)
    /\ m.state = "Free" <=> l.state = "Free"
    /\ m.owner = l.owner
    /\ m.uid = l.uid
    /\ m.attachId = l.attachId
    /\ m.nextAttachId = l.nextAttachId

-------------------------------------------------------------------------------
(* Facts about one state *)

\* The invariant contains everything the runs check as an invariant.
LEMMA HubInvImplies ==
    HubInv => /\ HubTypeOK /\ OnlyOwnerDrives /\ HeldIsCaptured
              /\ AdmittingIsLeased /\ PinnedWasApproved
<1>. SUFFICES ASSUME HubInv
     PROVE  /\ HubTypeOK /\ OnlyOwnerDrives /\ HeldIsCaptured
            /\ AdmittingIsLeased /\ PinnedWasApproved
  OBVIOUS
<1>1. HubTypeOK
  BY DEF HubInv, HubTypeOK, LeaseOK, SessionOK, ShareOK, PairingOK
<1>2. AdmittingIsLeased
  BY DEF HubInv, AdmittingIsLeased, SessionOK
<1>. QED
  BY <1>1, <1>2 DEF HubInv, PairingOK

\* The empty session is sound.
LEMMA NoSessionOK ==
    /\ SessionOK(NoSession) /\ NoSession.state = "None" /\ ~NoSession.port
    /\ NoSession.peer = NoPeer /\ ~NoSession.owed
  BY DEF SessionOK, Session, SessionStates, NoSession

\* The types of a session's fields, spelled out.
LEMMA SessionTypes ==
  ASSUME NEW s \in Session
  PROVE  /\ s.state \in SessionStates /\ s.peer \in Peers \cup {NoPeer}
         /\ s.sas \in Sas \cup {0} /\ s.trust \in BOOLEAN /\ s.port \in BOOLEAN
         /\ s.uid \in Uids \cup {NoUid} /\ s.attachId \in Nat
         /\ s.owed \in BOOLEAN
  BY DEF Session

\* A live session is some peer's.
LEMMA LivePeer ==
  ASSUME SessionOK(sess), Live
  PROVE  sess.peer \in Peers
  BY DEF SessionOK, Session, Live

\* Hearing from the session's peer leaves the hold alone.
LEMMA HeardSame ==
  ASSUME LeaseOK(la)
  PROVE  /\ SameHold(la, HeardFromPeer)
         /\ la.state = "Leased" => HeardFromPeer.state = "Leased"
  BY HeardOK DEF SameHold, HeardFromPeer

\* So does a quarantine.
LEMMA QuarantineSame ==
  ASSUME LeaseOK(la)
  PROVE  SameHold(la, Quarantine(la))
  BY QuarantineOK DEF SameHold

\* So does the passing of time.
LEMMA AgedSame ==
  ASSUME LeaseOK(la)
  PROVE  SameHold(la, Aged(la)) /\ (la.state = "Leased" => Aged(la).state = "Leased")
  BY AgedOK DEF SameHold

\* And so does nothing at all.
LEMMA UnchangedSame ==
  ASSUME LeaseOK(la)
  PROVE  SameHold(la, la)
  BY DEF SameHold


-------------------------------------------------------------------------------
(* Steps *)

\* A step that touches nothing but the lease, keeping the hold and a live lease
\* live.
LEMMA LeaseOnlyStep ==
  ASSUME HubInv, SameHold(la, la'), la.state = "Leased" => la'.state = "Leased",
         UNCHANGED <<claimed, pinned, share, sess, conns, asked, accepted>>
  PROVE  HubInv'
  BY DEF HubInv, SameHold, ShareOK, PairingOK, PinnedWasApproved, OnlyOwnerDrives,
         HeldIsCaptured

\* A step that ends the session by close(), whatever it does to the lease, as
\* long as a lease it leaves held was held for the same device.
LEMMA DropStep ==
  ASSUME HubInv, LeaseOK(la'), PairingOK',
         la'.state # "Free" => la.state # "Free" /\ la'.uid = la.uid,
         claimed' = AfterClose(la', sess, claimed),
         sess' = NoSession,
         share' \in [state : {"Off", "Listening"}, nonce : {0}]
  PROVE  HubInv'
<1>1. SessionOK(sess') /\ sess'.state = "None" /\ ~sess'.port
  BY NoSessionOK
<1>2. share' \in [state : ShareStates, nonce : Nat]
      /\ share'.state \notin {"AwaitingApproval", "Serving"}
  BY DEF ShareStates
<1>3. ShareOK'
  BY <1>1, <1>2 DEF ShareOK
<1>4. claimed' \subseteq Uids
  BY DEF HubInv, AfterClose
<1>5. HeldIsCaptured'
  BY DEF HubInv, HeldIsCaptured, AfterClose
<1>6. OnlyOwnerDrives'
  BY <1>1 DEF OnlyOwnerDrives
<1>. QED
  BY <1>1, <1>3, <1>4, <1>5, <1>6 DEF HubInv

\* shareDropPeer leaves the hub listening, or off, with no question pending.
LEMMA DropPeerShare ==
  ASSUME NEW l, DropPeer(l)
  PROVE  /\ share' \in [state : {"Off", "Listening"}, nonce : {0}]
         /\ claimed' = AfterClose(l, sess, claimed)
         /\ sess' = NoSession
  BY DEF DropPeer

\* Nothing about pairing changes.
LEMMA PairingUnchanged ==
  ASSUME HubInv, UNCHANGED <<pinned, conns, asked, accepted>>
  PROVE  PairingOK'
  BY DEF HubInv, PairingOK, PinnedWasApproved

\* An attach that succeeds: the session drives what it was just leased.
LEMMA AttachStep ==
  ASSUME HubInv, NEW u \in Uids, RecvAttach(u)
  PROVE  HubInv'
<1>. DEFINE l == HeardFromPeer
<1>1. LeaseOK(l) /\ sess.peer \in Peers
  BY HeardSame, LivePeer DEF HubInv, SameHold, RecvAttach, MayAttach
<1>2. /\ LeaseOK(la') /\ la'.state = "Leased" /\ la'.owner = sess.peer
      /\ la'.uid = u /\ la'.attachId \in Nat
  BY <1>1, GrantOK, FieldTypes DEF RecvAttach, LeaseOK
<1>3. sess' = [sess EXCEPT !.state = "Leased", !.port = TRUE, !.uid = u,
                           !.attachId = la'.attachId]
  BY DEF RecvAttach
<1>4. "Leased" \in SessionStates
  BY DEF SessionStates
<1>5. sess \in Session
  BY DEF HubInv, SessionOK
<1>6. sess' \in Session
  BY <1>2, <1>3, <1>4, <1>5, SessionTypes DEF Session
<1>7. /\ sess'.state = "Leased" /\ sess'.port /\ sess'.uid = u
      /\ sess'.attachId = la'.attachId /\ sess'.peer = sess.peer
  BY <1>3, <1>5 DEF Session
<1>8. SessionOK(sess')
  BY <1>1, <1>6, <1>7, LeaseOpsAssumption DEF SessionOK
<1>9. ShareOK'
  BY <1>7 DEF HubInv, ShareOK, RecvAttach, MayAttach, Live
<1>10. OnlyOwnerDrives'
  BY <1>2, <1>7 DEF OnlyOwnerDrives
<1>11. HeldIsCaptured' /\ claimed' \subseteq Uids
  BY <1>2 DEF HubInv, HeldIsCaptured, RecvAttach
<1>12. PairingOK'
  BY PairingUnchanged DEF RecvAttach
<1>. QED
  BY <1>2, <1>7, <1>8, <1>9, <1>10, <1>11, <1>12 DEF HubInv

\* Of the attaches that fail after the grant, those that undo it leave the lease
\* free, and they start from a free lease.
LEMMA FailedAttachLease ==
  ASSUME HubInv, NEW u \in Uids, MayAttach(u)
  PROVE  LET g == Grant(HeardFromPeer, sess.peer, u)
             r == Release(g, sess.peer)
         IN  /\ la.state = "Free"
             /\ LeaseOK(g) /\ g.state = "Leased" /\ g.uid = u
             /\ g.owner = sess.peer /\ sess.peer \in Peers
             /\ g.attachId = la.nextAttachId
             /\ g.nextAttachId = la.nextAttachId + 1
             /\ LeaseOK(r) /\ r.state = "Free" /\ r.owner = NoPeer
             /\ r.attachId = 0 /\ r.nextAttachId = la.nextAttachId + 1
             /\ ~sess.port
<1>. DEFINE l == HeardFromPeer
            g == Grant(l, sess.peer, u)
            r == Release(g, sess.peer)
<1>1. /\ LeaseOK(l) /\ sess.peer \in Peers /\ l.nextAttachId = la.nextAttachId
      /\ l.state = "Free" <=> la.state = "Free"
  BY HeardSame, LivePeer DEF HubInv, SameHold, MayAttach
<1>2. l.state = "Free"
  BY <1>1 DEF MayAttach, MayClaim, LeaseOK, Lease, LeaseStates
<1>3. /\ LeaseOK(g) /\ g.state = "Leased" /\ g.uid = u /\ g.owner = sess.peer
      /\ g.attachId = la.nextAttachId /\ g.nextAttachId = la.nextAttachId + 1
  BY <1>1, GrantOK
<1>4. r = Reset(g)
  BY <1>3 DEF Release, IsOwner
<1>5. /\ LeaseOK(r) /\ r.state = "Free" /\ r.owner = NoPeer
      /\ r.attachId = 0 /\ r.nextAttachId = la.nextAttachId + 1
  BY <1>3, <1>4, ResetOK
<1>6. ~sess.port
  BY DEF HubInv, SessionOK, MayAttach
<1>. QED
  BY <1>1, <1>2, <1>3, <1>5, <1>6


\* A failed attach keeps the invariant, however it failed.
LEMMA FailedAttachStep ==
  ASSUME HubInv, NEW u \in Uids,
         \/ RecvAttachBadManifest(u)
         \/ RecvAttachManifestUnsent(u)
         \/ RecvAttachOkUnsent(u)
  PROVE  HubInv'
<1>0. PairingOK'
  BY PairingUnchanged
     DEF RecvAttachBadManifest, RecvAttachManifestUnsent, RecvAttachOkUnsent
<1>1. MayAttach(u)
  BY DEF RecvAttachBadManifest, RecvAttachManifestUnsent, RecvAttachOkUnsent
<1>2. CASE RecvAttachBadManifest(u)
  <2>1. LeaseOK(la') /\ la'.state = "Free" /\ ~sess.port
    BY <1>1, <1>2, FailedAttachLease DEF RecvAttachBadManifest
  <2>2. sess' = [sess EXCEPT !.uid = u] /\ sess \in Session
    BY <1>2 DEF RecvAttachBadManifest, HubInv, SessionOK
  <2>3. sess' \in Session
    BY <2>2, SessionTypes DEF Session
  <2>4. /\ sess'.state = sess.state /\ sess'.port = sess.port
        /\ sess'.peer = sess.peer /\ sess'.owed = sess.owed
    BY <2>2 DEF Session
  <2>5. SessionOK(sess')
    BY <2>3, <2>4 DEF HubInv, SessionOK
  <2>6. sess.state = "Idle"
    BY <1>1 DEF MayAttach
  <2>7. ShareOK' /\ claimed' \subseteq Uids
    BY <1>2, <2>4 DEF HubInv, ShareOK, RecvAttachBadManifest
  <2>8. OnlyOwnerDrives' /\ HeldIsCaptured'
    BY <2>1, <2>4 DEF OnlyOwnerDrives, HeldIsCaptured
  <2>. QED
    BY <1>0, <2>1, <2>4, <2>5, <2>6, <2>7, <2>8 DEF HubInv
<1>3. share' = [state |-> "Listening", nonce |-> 0] /\ sess' = NoSession
         => ShareOK'
  BY NoSessionOK DEF ShareOK, ShareStates
<1>4. CASE RecvAttachManifestUnsent(u)
  <2>1. LeaseOK(la') /\ la'.state = "Free"
    BY <1>1, <1>4, FailedAttachLease DEF RecvAttachManifestUnsent
  <2>2. /\ sess' = NoSession /\ claimed' = claimed \ {u}
        /\ share' = [state |-> "Listening", nonce |-> 0]
    BY <1>4 DEF RecvAttachManifestUnsent
  <2>3. OnlyOwnerDrives' /\ HeldIsCaptured' /\ claimed' \subseteq Uids
    BY <2>1, <2>2, NoSessionOK DEF HubInv, OnlyOwnerDrives, HeldIsCaptured
  <2>. QED
    BY <1>0, <1>3, <2>1, <2>2, <2>3, NoSessionOK DEF HubInv
<1>5. CASE RecvAttachOkUnsent(u)
  <2>1. LeaseOK(la') /\ la'.uid = u
    BY <1>1, <1>5, FailedAttachLease DEF RecvAttachOkUnsent
  <2>2. /\ sess' = NoSession /\ claimed' = claimed \cup {u}
        /\ share' = [state |-> "Listening", nonce |-> 0]
    BY <1>5 DEF RecvAttachOkUnsent
  <2>3. OnlyOwnerDrives' /\ HeldIsCaptured' /\ claimed' \subseteq Uids
    BY <2>1, <2>2, NoSessionOK DEF HubInv, OnlyOwnerDrives, HeldIsCaptured
  <2>. QED
    BY <1>0, <1>3, <2>1, <2>2, <2>3, NoSessionOK DEF HubInv
<1>. QED
  BY <1>2, <1>4, <1>5

\* An attach refused for its idling endpoints leaves everything but the capture,
\* which nobody holds.
LEMMA CannotIdleStep ==
  ASSUME HubInv, NEW u \in Uids, RecvAttachCannotIdle(u)
  PROVE  HubInv'
<1>1. la.state = "Free" /\ ~sess.port /\ sess.state = "Idle"
  BY FailedAttachLease DEF RecvAttachCannotIdle, MayAttach
<1>2. SameHold(la, la')
  BY HeardSame DEF HubInv, RecvAttachCannotIdle
<1>3. PairingOK'
  BY PairingUnchanged DEF RecvAttachCannotIdle
<1>. QED
  BY <1>1, <1>2, <1>3 DEF HubInv, SameHold, ShareOK, OnlyOwnerDrives,
                          HeldIsCaptured, RecvAttachCannotIdle

\* An attached session belongs to the lease's owner, so its DETACH frees the
\* lease.
LEMMA DetachLease ==
  ASSUME HubInv, RecvDetach
  PROVE  /\ la.state # "Free" /\ la.owner = sess.peer /\ sess.port
         /\ LeaseOK(la') /\ la'.state = "Free" /\ la'.owner = NoPeer
         /\ la'.attachId = 0 /\ la'.nextAttachId = la.nextAttachId
<1>1. sess.port /\ la.state # "Free" /\ la.owner = sess.peer
  BY DEF HubInv, SessionOK, RecvDetach, OnlyOwnerDrives
<1>2. SameHold(la, HeardFromPeer)
  BY HeardSame DEF HubInv
<1>3. la' = Reset(HeardFromPeer)
  BY <1>1, <1>2 DEF RecvDetach, Release, IsOwner, SameHold
<1>. QED
  BY <1>1, <1>2, <1>3, ResetOK DEF SameHold

\* DETACH keeps the invariant.
LEMMA DetachStep ==
  ASSUME HubInv, RecvDetach
  PROVE  HubInv'
<1>1. LeaseOK(la') /\ la'.state = "Free"
  BY DetachLease
<1>2. /\ sess \in Session
      /\ sess' = [sess EXCEPT !.state = "Idle", !.port = FALSE, !.attachId = 0,
                              !.owed = FALSE]
  BY DEF HubInv, SessionOK, RecvDetach
<1>3. "Idle" \in SessionStates
  BY DEF SessionStates
<1>4. sess' \in Session
  BY <1>2, <1>3, SessionTypes DEF Session
<1>5. /\ sess'.state = "Idle" /\ sess'.port = FALSE /\ sess'.owed = FALSE
      /\ sess'.peer = sess.peer
  BY <1>2 DEF Session
<1>6. sess.peer \in Peers
  BY LivePeer DEF HubInv, RecvDetach
<1>7. SessionOK(sess')
  BY <1>4, <1>5, <1>6, LeaseOpsAssumption DEF SessionOK
<1>8. ShareOK' /\ claimed' \subseteq Uids
  BY <1>5 DEF HubInv, ShareOK, RecvDetach, Live
<1>9. OnlyOwnerDrives' /\ HeldIsCaptured'
  BY <1>1, <1>5 DEF OnlyOwnerDrives, HeldIsCaptured
<1>10. PairingOK'
  BY PairingUnchanged DEF RecvDetach
<1>. QED
  BY <1>1, <1>5, <1>7, <1>8, <1>9, <1>10 DEF HubInv

\* A step that changes what the session owes, or orphans it, keeping the hold.
LEMMA SessionStep ==
  ASSUME HubInv, SameHold(la, la'), NEW st \in SessionStates \ {"None"}, NEW b \in BOOLEAN,
         sess.state # "None",
         sess.port <=> st \in {"Leased", "Orphaned"},
         b => st = "Leased",
         st = "Leased" => la'.state = "Leased",
         sess' = [sess EXCEPT !.state = st, !.owed = b],
         UNCHANGED <<claimed, pinned, share, conns, asked, accepted>>
  PROVE  HubInv'
<1>1. sess \in Session
  BY DEF HubInv, SessionOK
<1>2. sess' \in Session
  BY <1>1, SessionTypes DEF Session
<1>3. /\ sess'.state = st /\ sess'.owed = b /\ sess'.port = sess.port
      /\ sess'.peer = sess.peer /\ sess'.uid = sess.uid
      /\ sess'.attachId = sess.attachId
  BY <1>1 DEF Session
<1>4. SessionOK(sess')
  BY <1>2, <1>3 DEF HubInv, SessionOK
<1>5. ShareOK'
  BY <1>3 DEF HubInv, ShareOK
<1>6. OnlyOwnerDrives' /\ HeldIsCaptured'
  BY <1>3 DEF HubInv, OnlyOwnerDrives, HeldIsCaptured, SameHold
<1>7. PairingOK'
  BY PairingUnchanged
<1>. QED
  BY <1>3, <1>4, <1>5, <1>6, <1>7 DEF HubInv, SameHold

\* GOODBYE closes the session and leaves a held device captured.
LEMMA GoodbyeStep ==
  ASSUME HubInv, RecvGoodbye
  PROVE  HubInv'
<1>1. SameHold(la, la')
  BY HeardSame DEF HubInv, RecvGoodbye
<1>. DEFINE c == [sess EXCEPT !.state = "Closed"]
<1>2. sess \in Session /\ "Closed" \in SessionStates
  BY DEF HubInv, SessionOK, SessionStates
<1>3. c \in Session /\ c.state = "Closed" /\ c.peer = sess.peer
  BY <1>2, SessionTypes DEF Session
<1>4. sess' = [c EXCEPT !.port = FALSE, !.attachId = 0, !.owed = FALSE,
                        !.state = "Closed"]
  BY <1>3 DEF RecvGoodbye, ClosedSession
<1>5. sess' \in Session
  BY <1>2, <1>3, <1>4, SessionTypes DEF Session
<1>6. /\ sess'.state = "Closed" /\ sess'.port = FALSE /\ sess'.owed = FALSE
      /\ sess'.peer = sess.peer
  BY <1>3, <1>4 DEF Session
<1>7. sess.peer \in Peers
  BY LivePeer DEF HubInv, RecvGoodbye
<1>8. SessionOK(sess')
  BY <1>5, <1>6, <1>7, LeaseOpsAssumption DEF SessionOK
<1>9. ShareOK'
  BY <1>6 DEF HubInv, ShareOK, RecvGoodbye, Live
<1>10. OnlyOwnerDrives'
  BY <1>6 DEF OnlyOwnerDrives
<1>11. HeldIsCaptured' /\ claimed' \subseteq Uids
  BY <1>1 DEF HubInv, HeldIsCaptured, RecvGoodbye, AfterClose, SameHold
<1>12. PairingOK'
  BY PairingUnchanged DEF RecvGoodbye
<1>. QED
  BY <1>1, <1>6, <1>8, <1>9, <1>10, <1>11, <1>12 DEF HubInv, SameHold


\* A handshake that ends well makes a session without a port.
LEMMA EstablishedStep ==
  ASSUME HubInv, NEW p \in Peers, NEW n \in Sas, Established(p, n)
  PROVE  HubInv'
<1>1. PICK b \in BOOLEAN :
         sess' = [NoSession EXCEPT !.state = "Idle", !.peer = p, !.sas = n,
                                   !.trust = b]
  <2>1. (p \in pinned) \in BOOLEAN
    OBVIOUS
  <2>. QED
    BY <2>1 DEF Established
<1>2. NoSession \in Session /\ "Idle" \in SessionStates
  BY NoSessionOK DEF SessionOK, SessionStates
<1>3. sess' \in Session
  BY <1>1, <1>2, SessionTypes DEF Session
<1>4. /\ sess'.state = "Idle" /\ sess'.peer = p
      /\ sess'.port = NoSession.port /\ sess'.owed = NoSession.owed
  BY <1>1, <1>2 DEF Session
<1>5. SessionOK(sess')
  BY <1>3, <1>4, NoSessionOK, LeaseOpsAssumption DEF SessionOK
<1>6. conns \in Nat
  BY DEF HubInv, PairingOK
<1>7. ShareOK'
  BY <1>4, <1>6 DEF Established, ShareOK, ShareStates
<1>8. asked' \subseteq Ticket /\ accepted' \subseteq asked'
  BY <1>6 DEF HubInv, PairingOK, Established, Ticket
<1>9. PairingOK'
  BY <1>6, <1>8 DEF HubInv, PairingOK, PinnedWasApproved, Established
<1>10. OnlyOwnerDrives' /\ HeldIsCaptured'
  BY <1>4, NoSessionOK DEF HubInv, OnlyOwnerDrives, HeldIsCaptured, Established
<1>. QED
  BY <1>4, <1>5, <1>7, <1>9, <1>10 DEF HubInv, Established

\* An answer to a pairing question keeps the invariant: what it pins, if it pins
\* anything, is the peer the question named.
LEMMA ApproveStep ==
  ASSUME HubInv, NEW t \in asked, NEW a \in BOOLEAN, ShareApprove(t, a)
  PROVE  HubInv'
<1>1. accepted' \subseteq asked' /\ asked' = asked /\ conns' = conns /\ la' = la
  BY DEF HubInv, PairingOK, ShareApprove
<1>2. accepted \subseteq accepted' /\ (a => t \in accepted')
  BY DEF ShareApprove
<1>3. CASE share.state = "AwaitingApproval" /\ CheckApproval(t)
  <2>1. /\ pinned' = IF a THEN pinned \cup {sess.peer} ELSE pinned
        /\ DropPeer(la)
    BY <1>3 DEF ShareApprove
  <2>2. t.peer = sess.peer /\ t.peer \in Peers
    BY <1>3 DEF CheckApproval, HubInv, PairingOK, Ticket
  <2>3. PinnedWasApproved' /\ pinned' \subseteq Peers
    BY <1>2, <2>1, <2>2 DEF HubInv, PairingOK, PinnedWasApproved
  <2>4. PairingOK'
    BY <1>1, <2>3 DEF HubInv, PairingOK
  <2>. QED
    BY <1>1, <2>1, <2>4, DropPeerShare, DropStep DEF HubInv
<1>4. CASE ~(share.state = "AwaitingApproval" /\ CheckApproval(t))
  <2>1. UNCHANGED <<pinned, claimed, sess, share>>
    BY <1>4 DEF ShareApprove
  <2>. QED
    BY <1>1, <1>2, <2>1 DEF HubInv, ShareOK, PairingOK, PinnedWasApproved,
                            OnlyOwnerDrives, HeldIsCaptured
<1>. QED
  BY <1>3, <1>4

\* The hub starts with the invariant.
LEMMA InitHubInv == Init => HubInv
<1>. SUFFICES ASSUME Init PROVE HubInv
  OBVIOUS
<1>1. LeaseOK(la) /\ la.state = "Free"
  BY InitLeaseOK DEF Init
<1>2. SessionOK(sess) /\ sess.state = "None" /\ ~sess.port
  BY NoSessionOK DEF Init
<1>3. ShareOK
  BY <1>2 DEF Init, ShareOK, ShareStates
<1>4. PairingOK
  BY SharingHubAssumption DEF Init, PairingOK, PinnedWasApproved
<1>. QED
  BY <1>1, <1>2, <1>3, <1>4 DEF Init, HubInv, OnlyOwnerDrives, HeldIsCaptured

\* Every record the peer can send keeps the invariant.
LEMMA PeerSpeaksInv == HubInv /\ PeerSpeaks => HubInv'
<1>. SUFFICES ASSUME HubInv, PeerSpeaks PROVE HubInv'
  OBVIOUS
<1>1. LeaseOK(la) /\ SameHold(la, HeardFromPeer)
      /\ (la.state = "Leased" => HeardFromPeer.state = "Leased")
  BY HeardSame DEF HubInv
<1>2. CASE RecvOther
  BY <1>1, <1>2, LeaseOnlyStep DEF RecvOther
<1>3. ASSUME NEW u \in Uids, RecvAttach(u) PROVE HubInv'
  BY <1>3, AttachStep
<1>4. ASSUME NEW u \in Uids, \/ RecvAttachBadManifest(u)
                             \/ RecvAttachManifestUnsent(u)
                             \/ RecvAttachOkUnsent(u)
      PROVE  HubInv'
  BY <1>4, FailedAttachStep
<1>5. CASE RecvDetach
  BY <1>5, DetachStep
<1>9. ASSUME NEW u \in Uids, RecvAttachCannotIdle(u) PROVE HubInv'
  BY <1>9, CannotIdleStep
<1>6. CASE RecvSubmit
  <2>1. /\ sess.state = "Leased" /\ sess.port /\ la.state = "Leased"
        /\ "Leased" \in SessionStates \ {"None"} /\ sess \in Session
    BY <1>6 DEF RecvSubmit, HubInv, SessionOK, SessionStates
  <2>2. sess' = [sess EXCEPT !.state = "Leased", !.owed = TRUE]
    BY <1>6, <2>1 DEF RecvSubmit, Session
  <2>. QED
    BY <1>1, <1>6, <2>1, <2>2, SessionStep DEF RecvSubmit
<1>7. CASE RecvGoodbye
  BY <1>7, GoodbyeStep
<1>8. CASE RecvFatal
  <2>1. LeaseOK(la') /\ (la'.state # "Free" => la.state # "Free" /\ la'.uid = la.uid)
    BY <1>1, <1>8 DEF RecvFatal, SameHold
  <2>2. PairingOK'
    BY <1>8, PairingUnchanged DEF RecvFatal
  <2>. QED
    BY <1>8, <2>1, <2>2, DropPeerShare, DropStep DEF RecvFatal
<1>. QED
  BY <1>2, <1>3, <1>4, <1>5, <1>6, <1>7, <1>8, <1>9 DEF PeerSpeaks


\* Every step of the hub keeps the invariant.
LEMMA NextHubInv == HubInv /\ [Next]_vars => HubInv'
<1>. SUFFICES ASSUME HubInv, [Next]_vars PROVE HubInv'
  OBVIOUS
<1>1. /\ LeaseOK(la) /\ SessionOK(sess)
      /\ SameHold(la, la) /\ SameHold(la, Quarantine(la)) /\ SameHold(la, Aged(la))
      /\ SameHold(la, HeardFromPeer)
      /\ la.state = "Leased" => HeardFromPeer.state = "Leased"
      /\ la.state = "Leased" => Aged(la).state = "Leased"
  BY UnchangedSame, QuarantineSame, AgedSame, HeardSame DEF HubInv
<1>2. CASE ShareStart
  <2>1. share' = [state |-> "Listening", nonce |-> share.nonce]
    BY <1>2 DEF ShareStart, HubInv, ShareOK
  <2>2. ShareOK'
    BY <1>2, <2>1 DEF ShareStart, HubInv, ShareOK, ShareStates
  <2>. QED
    BY <1>2, <2>2 DEF ShareStart, HubInv, PairingOK, PinnedWasApproved,
                      OnlyOwnerDrives, HeldIsCaptured
<1>3. CASE ShareStop
  <2>1. PairingOK'
    BY <1>3, PairingUnchanged DEF ShareStop
  <2>. QED
    BY <1>1, <1>3, <2>1, DropStep DEF ShareStop
<1>4. ASSUME NEW t \in asked, NEW a \in BOOLEAN, ShareApprove(t, a) PROVE HubInv'
  BY <1>4, ApproveStep
<1>5. CASE Reclaim
  <2>1. LeaseOK(la') /\ la'.state = "Free"
    BY <1>1, <1>5, ResetOK DEF Reclaim, ForceReclaim
  <2>2. PairingOK'
    BY <1>5, PairingUnchanged DEF Reclaim
  <2>. QED
    BY <1>5, <2>1, <2>2, DropPeerShare, DropStep DEF Reclaim
<1>6. CASE Accept
  <2>1. share' = [state |-> "Handshaking", nonce |-> share.nonce] /\ conns' \in Nat
    BY <1>6 DEF Accept, HubInv, ShareOK, PairingOK
  <2>2. ShareOK'
    BY <1>6, <2>1 DEF Accept, HubInv, ShareOK, ShareStates
  <2>. QED
    BY <1>6, <2>1, <2>2 DEF Accept, HubInv, PairingOK, PinnedWasApproved,
                            OnlyOwnerDrives, HeldIsCaptured
<1>7. CASE HandshakeFails
  <2>1. PairingOK'
    BY <1>7, PairingUnchanged DEF HandshakeFails
  <2>. QED
    BY <1>1, <1>7, <2>1, DropPeerShare, DropStep DEF HandshakeFails
<1>8. ASSUME NEW p \in Peers, NEW n \in Sas, Established(p, n) PROVE HubInv'
  BY <1>8, EstablishedStep
<1>9. CASE PeerSpeaks
  BY <1>9, PeerSpeaksInv
<1>10. CASE TransportGone
  <2>1. LeaseOK(la') /\ (la'.state # "Free" => la.state # "Free" /\ la'.uid = la.uid)
    BY <1>1, <1>10 DEF TransportGone, SameHold
  <2>2. PairingOK'
    BY <1>10, PairingUnchanged DEF TransportGone
  <2>. QED
    BY <1>10, <2>1, <2>2, DropPeerShare, DropStep DEF TransportGone
<1>11. CASE FlushFails
  <2>1. PairingOK'
    BY <1>11, PairingUnchanged DEF FlushFails
  <2>. QED
    BY <1>1, <1>11, <2>1, DropPeerShare, DropStep DEF FlushFails
<1>12. CASE PumpOwed
  BY <1>1, <1>12, LeaseOnlyStep DEF PumpOwed
<1>13. CASE PumpAnswers
  <2>1. /\ sess.state = "Leased" /\ sess.port /\ la.state = "Leased"
        /\ "Leased" \in SessionStates \ {"None"} /\ sess \in Session
    BY <1>13 DEF PumpAnswers, HubInv, SessionOK, SessionStates
  <2>2. sess' = [sess EXCEPT !.state = "Leased", !.owed = FALSE]
    BY <1>13, <2>1 DEF PumpAnswers, Session
  <2>. QED
    BY <1>1, <1>13, <2>1, <2>2, SessionStep DEF PumpAnswers
<1>14. CASE LeaseSweep
  <2>1. /\ sess.state = "Leased" /\ sess.port
        /\ "Orphaned" \in SessionStates \ {"None"}
    BY <1>14 DEF LeaseSweep, HubInv, SessionOK, SessionStates
  <2>. QED
    BY <1>1, <1>14, <2>1, SessionStep DEF LeaseSweep
<1>15. CASE Tick
  BY <1>1, <1>15, LeaseOnlyStep DEF Tick
<1>16. CASE UNCHANGED vars
  BY <1>1, <1>16, LeaseOnlyStep DEF vars
<1>. QED
  BY <1>2, <1>3, <1>4, <1>5, <1>6, <1>7, <1>8, <1>9, <1>10, <1>11, <1>12, <1>13,
     <1>14, <1>15, <1>16 DEF Next

\* The inductive invariant holds in every behaviour of the hub.
LEMMA HubInvariance == Spec => []HubInv
  BY InitHubInv, NextHubInv, PTL DEF Spec

-------------------------------------------------------------------------------
(* Theorems *)

\* Every variable keeps its type; a session exists exactly while the hub serves
\* somebody and an owner is recorded exactly while the lease is held, through
\* every handler of HubState and ExporterSession.
THEOREM HubTypeCorrect == Spec => []HubTypeOK
  BY HubInvariance, HubInvImplies, PTL

\* Never two authorities on one drive: the session that has the device's port is
\* always the lease owner's, for the attach id and the device of the lease, across
\* reclaims, detaches, failed attaches and lost transports.
THEOREM Exclusivity == Spec => []OnlyOwnerDrives
  BY HubInvariance, HubInvImplies, PTL

\* The capture outlives every session: while anybody owns the device, the device
\* source has it captured (ExporterSession::close, handleDetach).
THEOREM CaptureOutlivesSession == Spec => []HeldIsCaptured
  BY HubInvariance, HubInvImplies, PTL

\* The session and the lease leave Leased together, and nothing is owed to a
\* session that is not attached.
THEOREM AdmissionNeedsLease == Spec => []AdmittingIsLeased
  BY HubInvariance, HubInvImplies, PTL

\* No answer to an old pairing question ever pins the peer of a new session.
THEOREM OnlyApprovedPinned == Spec => []PinnedWasApproved
  BY HubInvariance, HubInvImplies, PTL


-------------------------------------------------------------------------------
(* What a step may do to the hold *)

\* Apart from attaching, detaching and reclaiming, no step moves the hold.
LEMMA LeaseEffect ==
  ASSUME HubInv, [Next]_vars
  PROVE  \/ SameHold(la, la')
         \/ RecvDetach
         \/ Reclaim
         \/ \E u \in Uids :
               /\ MayAttach(u)
               /\ la' \in { Grant(HeardFromPeer, sess.peer, u),
                            Release(Grant(HeardFromPeer, sess.peer, u), sess.peer) }
<1>1. /\ SameHold(la, la) /\ SameHold(la, Quarantine(la))
      /\ SameHold(la, Aged(la)) /\ SameHold(la, HeardFromPeer)
  BY UnchangedSame, QuarantineSame, AgedSame, HeardSame DEF HubInv
<1>2. CASE la' \in {la, Quarantine(la), Aged(la), HeardFromPeer}
  BY <1>1, <1>2
<1>3. CASE PeerSpeaks
  <2>1. CASE RecvOther \/ RecvSubmit \/ RecvGoodbye \/ RecvFatal
    BY <1>2, <2>1 DEF RecvOther, RecvSubmit, RecvGoodbye, RecvFatal
  <2>2. ASSUME NEW u \in Uids,
               \/ RecvAttach(u)
               \/ RecvAttachBadManifest(u)
               \/ RecvAttachManifestUnsent(u)
               \/ RecvAttachOkUnsent(u)
        PROVE  /\ MayAttach(u)
               /\ la' \in { Grant(HeardFromPeer, sess.peer, u),
                            Release(Grant(HeardFromPeer, sess.peer, u), sess.peer) }
    BY <2>2 DEF RecvAttach, RecvAttachBadManifest, RecvAttachManifestUnsent,
                RecvAttachOkUnsent
  <2>3. ASSUME NEW u \in Uids, RecvAttachCannotIdle(u) PROVE SameHold(la, la')
    BY <1>1, <2>3 DEF RecvAttachCannotIdle
  <2>. QED
    BY <1>3, <2>1, <2>2, <2>3 DEF PeerSpeaks
<1>4. CASE \/ ShareStart \/ ShareStop \/ Accept \/ HandshakeFails \/ FlushFails
           \/ UNCHANGED vars
  BY <1>2, <1>4 DEF ShareStart, ShareStop, Accept, HandshakeFails, FlushFails, vars
<1>5. CASE TransportGone \/ PumpOwed \/ PumpAnswers \/ LeaseSweep \/ Tick
  BY <1>2, <1>5 DEF TransportGone, PumpOwed, PumpAnswers, LeaseSweep, Tick
<1>6. ASSUME NEW t \in asked, NEW a \in BOOLEAN, ShareApprove(t, a)
      PROVE  SameHold(la, la')
  BY <1>1, <1>6 DEF ShareApprove
<1>7. ASSUME NEW p \in Peers, NEW n \in Sas, Established(p, n)
      PROVE  SameHold(la, la')
  BY <1>1, <1>7 DEF Established
<1>. QED
  BY <1>3, <1>4, <1>5, <1>6, <1>7 DEF Next

\* A lease never decays into availability: it becomes free only by its owner's
\* DETACH or by a person's reclaim.
THEOREM NeverDecays == Spec => FreedByDecision
<1>1. ASSUME HubInv, [Next]_vars
      PROVE  [la.state # "Free" /\ la'.state = "Free"
                => (RecvDetach /\ sess.peer = la.owner) \/ Reclaim]_vars
  <2>1. CASE SameHold(la, la')
    BY <2>1 DEF SameHold
  <2>2. CASE RecvDetach
    BY <1>1, <2>2, DetachLease
  <2>3. ASSUME NEW u \in Uids, MayAttach(u) PROVE la.state = "Free"
    BY <1>1, <2>3, FailedAttachLease
  <2>. QED
    BY <1>1, <2>1, <2>2, <2>3, LeaseEffect
<1>. QED
  BY <1>1, HubInvariance, PTL DEF Spec, FreedByDecision

\* The hub starts as the abstract device that nobody holds.
LEMMA RefinesInit == Init => Ownership!Init
<1>1. 1 - 1 = 0
  OBVIOUS
<1>. QED
  BY <1>1 DEF Init, InitLease, Ownership!Init

\* Every step of the hub takes an abstract step or none: an attach whose manifest
\* fails uses up an attach id and leaves nobody holding the device.
LEMMA RefinesNext == HubInv /\ [Next]_vars => [Ownership!Next]_(Ownership!ovars)
<1>. SUFFICES ASSUME HubInv, [Next]_vars
              PROVE  Ownership!Next \/ UNCHANGED Ownership!ovars
  OBVIOUS
<1>0. LeaseOK(la) /\ la.nextAttachId \in Nat /\ la.nextAttachId >= 1
  BY FieldTypes DEF HubInv, LeaseOK
<1>1. CASE SameHold(la, la')
  BY <1>1 DEF SameHold, Ownership!ovars
<1>2. CASE RecvDetach
  <2>1. Ownership!Yield
    BY <1>0, <1>2, DetachLease DEF Ownership!Yield, LeaseOK
  <2>. QED
    BY <2>1 DEF Ownership!Next
<1>3. CASE Reclaim
  <2>1. Ownership!Yield
    BY <1>0, <1>3, ResetOK DEF Reclaim, ForceReclaim, Ownership!Yield, LeaseOK
  <2>. QED
    BY <2>1 DEF Ownership!Next
<1>4. ASSUME NEW u \in Uids, MayAttach(u),
             la' = Grant(HeardFromPeer, sess.peer, u)
      PROVE  Ownership!Next
  <2>1. sess.peer \in Peers /\ Ownership!Take(sess.peer)
    BY <1>0, <1>4, FailedAttachLease DEF Ownership!Take, LeaseOK
  <2>. QED
    BY <2>1 DEF Ownership!Next
<1>5. ASSUME NEW u \in Uids, MayAttach(u),
             la' = Release(Grant(HeardFromPeer, sess.peer, u), sess.peer)
      PROVE  Ownership!Next
  <2>1. Ownership!Burn
    BY <1>0, <1>5, FailedAttachLease DEF Ownership!Burn, LeaseOK
  <2>. QED
    BY <2>1 DEF Ownership!Next
<1>. QED
  BY <1>1, <1>2, <1>3, <1>4, <1>5, LeaseEffect

\* The hub implements exclusive ownership: whatever sessions, failures and people
\* do, the device passes between machines only through nobody, each time under an
\* attach id larger than every one before.
THEOREM HubRefinesOwnership == Spec => ImplementsOwnership
<1>1. Ownership!Init /\ [][Ownership!Next]_(Ownership!ovars) => ImplementsOwnership
  BY DEF ImplementsOwnership, Ownership!Spec
<1>. QED
  BY <1>1, RefinesInit, RefinesNext, HubInvariance, PTL DEF Spec

===============================================================================
