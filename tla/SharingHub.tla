------------------------------ MODULE SharingHub ------------------------------
(***************************************************************************)
(* The exporting side of a machine: the sharing half of control/HubState,  *)
(* the session::ExporterSession of the one peer it serves at a time, the   *)
(* session::LeaseAuthority that outlives every session, and the device     *)
(* source.  One thread runs all of it, so a step here is one record taken  *)
(* from the peer by ExporterSession::pump(), or the tail of a pump(), or a *)
(* request from the window, each followed to its end.                      *)
(*                                                                         *)
(* A session's transfers are one bit, owed: some SUBMIT is queued or in    *)
(* flight.  ExporterTransfers.tla opens that bit up.                       *)
(*                                                                         *)
(* The peer's identity stands for its fingerprint.  A session's six digit  *)
(* number (SAS) is drawn from a set small enough that two sessions can     *)
(* have the same one; a nonce is the number of the connection it names.    *)
(***************************************************************************)
EXTENDS LeaseOps

CONSTANTS
    Sas,            \* short authentication strings
    TracksClaims,   \* the source refuses a device it has captured already
    PrePinned,      \* peers already in the peer store when the hub starts
    MaxConns        \* bound: inbound connections accepted

ASSUME SharingHubAssumption ==
    /\ TracksClaims \in BOOLEAN
    /\ PrePinned \subseteq Peers
    /\ MaxConns \in Nat

VARIABLES
    la,        \* HubState::_leases
    claimed,   \* uids the device source holds captured
    pinned,    \* PeerStore: the peers trusted to list and attach
    share,     \* HubState: _shareState and _shareNonce (0: no question)
    sess,      \* _shareSecure and _shareExporter: the one live peer
    conns,     \* inbound connections accepted so far
    asked,     \* every pairing question put on a screen
    accepted   \* the questions somebody answered yes to

vars == <<la, claimed, pinned, share, sess, conns, asked, accepted>>

ShareStates == {"Off", "Listening", "Handshaking", "AwaitingApproval", "Serving"}

\* Draining exists only inside handleDetach.
SessionStates == {"None", "Idle", "Leased", "Orphaned", "Closed"}

Session ==
    [ state    : SessionStates,
      peer     : Peers \cup {NoPeer},
      sas      : Sas \cup {0},
      trust    : BOOLEAN,              \* Trust::Paired when the handshake ended
      port     : BOOLEAN,              \* _port is not null
      uid      : Uids \cup {NoUid},
      attachId : Nat,
      owed     : BOOLEAN ]             \* a SUBMIT is queued or in flight

NoSession ==
    [ state |-> "None", peer |-> NoPeer, sas |-> 0, trust |-> FALSE,
      port |-> FALSE, uid |-> NoUid, attachId |-> 0, owed |-> FALSE ]

Ticket == [nonce : Nat, peer : Peers, sas : Sas]

Init ==
    /\ la = InitLease
    /\ claimed = {}
    /\ pinned = PrePinned
    /\ share = [state |-> "Off", nonce |-> 0]
    /\ sess = NoSession
    /\ conns = 0
    /\ asked = {}
    /\ accepted = {}

-------------------------------------------------------------------------------
(* Ending a session *)

\* Mutant: close() releases the capture whoever owns it.
AfterCloseAlways(l, s, c) == IF s.port THEN c \ {s.uid} ELSE c

\* What ExporterSession::close() leaves of the captures: the device goes back
\* only if this session had it and nobody owns it any more.
AfterClose(l, s, c) == IF s.port /\ l.state = "Free" THEN c \ {s.uid} ELSE c

\* The session's own fields after close().
ClosedSession(s) ==
    [s EXCEPT !.port = FALSE, !.attachId = 0, !.owed = FALSE,
              !.state = IF @ = "Closed" THEN @ ELSE "Idle"]

\* shareDropPeer, with the lease as the caller left it.
DropPeer(l) ==
    /\ claimed' = AfterClose(l, sess, claimed)
    /\ sess' = NoSession
    /\ share' = [state |-> IF share.state = "Off" THEN "Off" ELSE "Listening",
                 nonce |-> 0]

-------------------------------------------------------------------------------
(* The window's requests *)

ShareStart ==
    /\ share.state = "Off"
    /\ share' = [share EXCEPT !.state = "Listening"]
    /\ UNCHANGED <<la, claimed, pinned, sess, conns, asked, accepted>>

ShareStop ==
    /\ share.state # "Off"
    /\ claimed' = AfterClose(la, sess, claimed)
    /\ sess' = NoSession
    /\ share' = [state |-> "Off", nonce |-> 0]
    /\ UNCHANGED <<la, pinned, conns, asked, accepted>>

\* Mutant: only that some question is pending.
CheckApprovalPendingOnly(t) == share.nonce # 0

CheckApproval(t) ==
    /\ share.nonce # 0
    /\ t.nonce = share.nonce
    /\ t.peer = sess.peer
    /\ t.sas = sess.sas

\* Somebody answers a question a window shows, perhaps one whose session is
\* long gone.  A yes pins the peer; either way the session is dropped.
ShareApprove(t, accept) ==
    /\ accepted' = IF accept THEN accepted \cup {t} ELSE accepted
    /\ IF share.state = "AwaitingApproval" /\ CheckApproval(t)
       THEN /\ pinned' = IF accept THEN pinned \cup {sess.peer} ELSE pinned
            /\ DropPeer(la)
       ELSE UNCHANGED <<pinned, claimed, sess, share>>
    /\ UNCHANGED <<la, conns, asked>>

\* Mutant: the lease is taken back and the session is left alone.
ReclaimLeaseOnly ==
    /\ la.state # "Free"
    /\ la' = ForceReclaim(la)
    /\ UNCHANGED <<claimed, pinned, share, sess, conns, asked, accepted>>

Reclaim ==
    /\ la.state # "Free"
    /\ la' = ForceReclaim(la)
    /\ DropPeer(la')
    /\ UNCHANGED <<pinned, conns, asked, accepted>>

-------------------------------------------------------------------------------
(* Connections *)

\* A second connection while one is live is accepted and closed: no step.
Accept ==
    /\ conns < MaxConns
    /\ share.state = "Listening"
    /\ share' = [share EXCEPT !.state = "Handshaking"]
    /\ conns' = conns + 1
    /\ UNCHANGED <<la, claimed, pinned, sess, asked, accepted>>

\* The handshake failed, the peer left, or kInboundHandshakeNs ran out.
HandshakeFails ==
    /\ share.state = "Handshaking"
    /\ DropPeer(la)
    /\ UNCHANGED <<la, pinned, conns, asked, accepted>>

\* The trust a session has is what the peer store says now; a later pin does
\* not reach it.
Established(p, n) ==
    /\ share.state = "Handshaking"
    /\ sess' = [NoSession EXCEPT !.state = "Idle", !.peer = p, !.sas = n,
                                 !.trust = (p \in pinned)]
    /\ IF p \in pinned
       THEN /\ share' = [state |-> "Serving", nonce |-> 0]
            /\ UNCHANGED asked
       ELSE /\ share' = [state |-> "AwaitingApproval", nonce |-> conns]
            /\ asked' = asked \cup {[nonce |-> conns, peer |-> p, sas |-> n]}
    /\ UNCHANGED <<la, claimed, pinned, conns, accepted>>

-------------------------------------------------------------------------------
(* Records from the peer.  Each one first tells the authority that its sender *)
(* was heard, whatever the session's state (pump, line 173).                  *)

Live == sess.state # "None"

HeardFromPeer == Heard(la, sess.peer)

\* PING, LIST_DEVICES, and every request that is answered with a refusal: an
\* unpaired peer's, an ATTACH the authority or the source turns down, a DETACH
\* or SUBMIT with nothing attached, an unsupported type.
RecvOther ==
    /\ Live
    /\ la' = HeardFromPeer
    /\ UNCHANGED <<claimed, pinned, share, sess, conns, asked, accepted>>

\* Everything handleAttach asks before the lease is granted.  The simulated
\* source answers Busy for a device it has captured; exportd's CapturedDeviceSource
\* leaves that to the lease.
MayAttach(u) ==
    /\ Live
    /\ sess.trust
    /\ sess.state = "Idle"
    /\ MayClaim(HeardFromPeer, sess.peer, u) = "Ok"
    /\ TracksClaims => u \notin claimed
    /\ la.nextAttachId <= MaxAttachId

RecvAttach(u) ==
    /\ MayAttach(u)
    /\ la' = Grant(HeardFromPeer, sess.peer, u)
    /\ claimed' = claimed \cup {u}
    /\ sess' = [sess EXCEPT !.state = "Leased", !.port = TRUE, !.uid = u,
                            !.attachId = la'.attachId]
    /\ UNCHANGED <<pinned, share, conns, asked, accepted>>

\* The device has endpoints that idle and its port cannot: the capture just made
\* is undone before any lease is granted.
RecvAttachCannotIdle(u) ==
    /\ MayAttach(u)
    /\ la' = HeardFromPeer
    /\ claimed' = claimed \ {u}
    /\ UNCHANGED <<pinned, share, sess, conns, asked, accepted>>

\* The manifest cannot be encoded: lease and capture are undone.
RecvAttachBadManifest(u) ==
    /\ MayAttach(u)
    /\ la' = Release(Grant(HeardFromPeer, sess.peer, u), sess.peer)
    /\ claimed' = claimed \ {u}
    /\ sess' = [sess EXCEPT !.uid = u]
    /\ UNCHANGED <<pinned, share, conns, asked, accepted>>

\* The manifest cannot be sent: undone likewise, and the same pump() then finds
\* the record layer dead and the hub drops the session.
RecvAttachManifestUnsent(u) ==
    /\ MayAttach(u)
    /\ la' = Release(Grant(HeardFromPeer, sess.peer, u), sess.peer)
    /\ claimed' = claimed \ {u}
    /\ sess' = NoSession
    /\ share' = [state |-> "Listening", nonce |-> 0]
    /\ UNCHANGED <<pinned, conns, asked, accepted>>

\* ATTACH_OK itself cannot be sent: the lease stays granted, and the session,
\* still Idle, is dropped by the same pump() without a quarantine.
RecvAttachOkUnsent(u) ==
    /\ MayAttach(u)
    /\ la' = Grant(HeardFromPeer, sess.peer, u)
    /\ claimed' = claimed \cup {u}
    /\ sess' = NoSession
    /\ share' = [state |-> "Listening", nonce |-> 0]
    /\ UNCHANGED <<pinned, conns, asked, accepted>>

\* Mutant: DETACH does not answer what it drains.
RecvDetachUndrained ==
    /\ Live
    /\ sess.trust
    /\ sess.state \in {"Leased", "Orphaned"}
    /\ la' = Release(HeardFromPeer, sess.peer)
    /\ claimed' = claimed \ {sess.uid}
    /\ sess' = [sess EXCEPT !.state = "Idle", !.port = FALSE, !.attachId = 0]
    /\ UNCHANGED <<pinned, share, conns, asked, accepted>>

RecvDetach ==
    /\ Live
    /\ sess.trust
    /\ sess.state \in {"Leased", "Orphaned"}
    /\ la' = Release(HeardFromPeer, sess.peer)
    /\ claimed' = claimed \ {sess.uid}
    /\ sess' = [sess EXCEPT !.state = "Idle", !.port = FALSE, !.attachId = 0,
                            !.owed = FALSE]
    /\ UNCHANGED <<pinned, share, conns, asked, accepted>>

RecvSubmit ==
    /\ Live
    /\ sess.trust
    /\ sess.state = "Leased"
    /\ la' = HeardFromPeer
    /\ sess' = [sess EXCEPT !.owed = TRUE]
    /\ UNCHANGED <<claimed, pinned, share, conns, asked, accepted>>

RecvGoodbye ==
    /\ Live
    /\ la' = HeardFromPeer
    /\ claimed' = AfterClose(la', sess, claimed)
    /\ sess' = ClosedSession([sess EXCEPT !.state = "Closed"])
    /\ UNCHANGED <<pinned, share, conns, asked, accepted>>

\* A record that is fatal to the session: refused by the record layer before
\* anybody is heard, or found malformed after.
RecvFatal ==
    /\ Live
    /\ la' \in {la, HeardFromPeer}
    /\ DropPeer(la')
    /\ UNCHANGED <<pinned, conns, asked, accepted>>

-------------------------------------------------------------------------------
(* The rest of pump() *)

\* Reading finds the transport gone.
TransportGone ==
    /\ Live
    /\ la' = IF sess.state = "Leased" THEN Quarantine(la) ELSE la
    /\ DropPeer(la')
    /\ UNCHANGED <<pinned, conns, asked, accepted>>

\* The flush before reading finds it gone: pump() returns there and then.
FlushFails ==
    /\ Live
    /\ DropPeer(la)
    /\ UNCHANGED <<la, pinned, conns, asked, accepted>>

\* While an answer is owed the peer counts as heard.
PumpOwed ==
    /\ sess.owed
    /\ la' = HeardFromPeer
    /\ UNCHANGED <<claimed, pinned, share, sess, conns, asked, accepted>>

\* The last transfer is answered, by the device or by its deadline.
PumpAnswers ==
    /\ sess.owed
    /\ la' = HeardFromPeer
    /\ sess' = [sess EXCEPT !.owed = FALSE]
    /\ UNCHANGED <<claimed, pinned, share, conns, asked, accepted>>

\* Mutant: at expiry the lease is released instead of quarantined.
LeaseSweepReleases ==
    /\ ~sess.owed
    /\ sess.state = "Leased"
    /\ SilenceExpired(la)
    /\ la' = Release(la, sess.peer)
    /\ sess' = [sess EXCEPT !.state = "Orphaned"]
    /\ UNCHANGED <<claimed, pinned, share, conns, asked, accepted>>

\* Mutant: the lease is quarantined and the session goes on admitting.
LeaseSweepLeaseOnly ==
    /\ ~sess.owed
    /\ sess.state = "Leased"
    /\ SilenceExpired(la)
    /\ la' = Quarantine(la)
    /\ UNCHANGED <<claimed, pinned, share, sess, conns, asked, accepted>>

\* The lease timer, which does not run while an answer is owed.
LeaseSweep ==
    /\ ~sess.owed
    /\ sess.state = "Leased"
    /\ SilenceExpired(la)
    /\ la' = Quarantine(la)
    /\ sess' = [sess EXCEPT !.state = "Orphaned", !.owed = FALSE]
    /\ UNCHANGED <<claimed, pinned, share, conns, asked, accepted>>

Tick ==
    /\ la' = Aged(la)
    /\ UNCHANGED <<claimed, pinned, share, sess, conns, asked, accepted>>

-------------------------------------------------------------------------------

PeerSpeaks ==
    \/ RecvOther
    \/ \E u \in Uids :
          \/ RecvAttach(u)
          \/ RecvAttachCannotIdle(u)
          \/ RecvAttachBadManifest(u)
          \/ RecvAttachManifestUnsent(u)
          \/ RecvAttachOkUnsent(u)
    \/ RecvDetach
    \/ RecvSubmit
    \/ RecvGoodbye
    \/ RecvFatal

Next ==
    \/ ShareStart
    \/ ShareStop
    \/ \E t \in asked, accept \in BOOLEAN : ShareApprove(t, accept)
    \/ Reclaim
    \/ Accept
    \/ HandshakeFails
    \/ \E p \in Peers, n \in Sas : Established(p, n)
    \/ PeerSpeaks
    \/ TransportGone
    \/ FlushFails
    \/ PumpOwed
    \/ PumpAnswers
    \/ LeaseSweep
    \/ Tick

Spec == Init /\ [][Next]_vars

\* The hub's loop keeps pumping and the clock keeps running; every transfer but
\* an interrupt one has a deadline, so an owed answer is eventually given
\* (ExporterTransfers).  Nothing is assumed of the peer or of the person.
Fairness ==
    /\ WF_vars(Tick)
    /\ WF_vars(LeaseSweep)
    /\ WF_vars(PumpAnswers)

FairSpec == Spec /\ Fairness
-------------------------------------------------------------------------------
(* Properties *)

\* Every variable keeps its type; a session exists exactly while the hub is
\* serving somebody; an owner is recorded exactly while the lease is not free.
HubTypeOK ==
    /\ la \in Lease
    /\ claimed \subseteq Uids
    /\ pinned \subseteq Peers
    /\ share \in [state : ShareStates, nonce : Nat]
    /\ sess \in Session
    /\ conns \in Nat
    /\ asked \subseteq Ticket
    /\ accepted \subseteq asked
    /\ share.state \in {"AwaitingApproval", "Serving"} <=> sess.state # "None"
    /\ sess.state # "None" <=> sess.peer # NoPeer
    /\ la.state = "Free" <=> la.owner = NoPeer

\* No two authorities on one drive: a session that still has the device's port
\* is the session of the lease's owner, for this very attach id and device
\* (ExporterSession::_port against LeaseAuthority::_s, across reclaim, close,
\* detach and every failed attach).
OnlyOwnerDrives ==
    sess.port => /\ la.owner = sess.peer
                 /\ la.attachId = sess.attachId
                 /\ la.uid = sess.uid
                 /\ la.state # "Free"

\* The capture outlives the session: as long as anybody owns the device, silent
\* or gone, the device source still has it captured, so the local operating
\* system cannot mount a drive a remote machine may have dirty (close()).
HeldIsCaptured == la.state # "Free" => la.uid \in claimed

\* A session that admits transfers has a live lease: the two state machines
\* leave Leased together at silence and at the loss of the transport (pump()), and
\* nothing the lease timer waits for outlives the attach (failAllTransfers).
AdmittingIsLeased ==
    /\ sess.state = "Leased" => sess.port /\ la.state = "Leased"
    /\ sess.owed => sess.state = "Leased"

\* Every pinned peer is one some person said yes to, for a question that showed
\* that peer: an answer that arrives after its session was replaced never pins
\* the machine that took its place (shareApprove, checkApproval).
PinnedWasApproved ==
    \A p \in pinned \ PrePinned : \E t \in accepted : t.peer = p

\* A lease never decays into availability: it becomes free only when its owner
\* detaches or a person takes it back, or in the very step that granted it
\* (LeaseAuthority.h, "a lease NEVER decays into availability").
FreedByDecision ==
    [][la.state # "Free" /\ la'.state = "Free"
          => (RecvDetach /\ sess.peer = la.owner) \/ Reclaim]_vars

\* The hub implements exclusive ownership of the device.
Ownership ==
    INSTANCE ExclusiveOwnership WITH
        holder   <- la.owner,
        attachId <- la.attachId,
        lastId   <- la.nextAttachId - 1

ImplementsOwnership == Ownership!Spec

\* A peer that falls silent for good does not keep a session admitting: either
\* it speaks again and again, or its session leaves Leased (the lease timer of
\* pump(), which an owed answer only postpones).
SilenceEndsSession ==
    []<><<PeerSpeaks>>_vars \/ <>[](sess.state # "Leased")

===============================================================================
