----------------------------- MODULE SecureSession -----------------------------
(***************************************************************************)
(* session::SecureSession on both ends of one byte stream: the preambles,  *)
(* the Noise handshake (XX, or IK for a pinned peer), the transport cipher *)
(* and the HELLO exchange, down to RecordLayer's buffers.                  *)
(*                                                                         *)
(* The stream takes at most Window units and a record is two of them, its  *)
(* length prefix being in the first, so a write may stop half-way through  *)
(* a record.  A pump() is a flush followed by the steps of its loop; the   *)
(* other end, a loop of its own, may run between any two of them.          *)
(*                                                                         *)
(* Cryptography is symbolic.  A handshake hash is the sequence of what was *)
(* mixed into it, a sealed handshake message opens under the hash it was   *)
(* sealed under, and a transport record opens under the key generation and *)
(* nonce it was sealed with.  Nobody alters bytes in transit.              *)
(***************************************************************************)
EXTENDS Integers, Sequences

CONSTANTS
    Window,         \* units the stream holds in each direction
    Majors,         \* wire_major values in the field
    RecordOffers,   \* Config::negotiatedMaxRecordBytes values in the field
    Caps,           \* optional capabilities
    Floor,          \* kRecordBytesFloor
    HandshakeMax,   \* kHandshakeRecordMax
    Ceiling,        \* kRecordBytesCeiling
    RekeyInterval,  \* NoiseCipher's rekeyInterval
    MaxData,        \* bound: records sent per end once established
    MaxStore        \* bound: changes of the peer stores

ASSUME SecureAssumption ==
    /\ {Window, Floor, RekeyInterval} \subseteq Nat \ {0}
    /\ {HandshakeMax, Ceiling, MaxData, MaxStore} \subseteq Nat
    /\ Floor <= HandshakeMax /\ HandshakeMax <= Ceiling
    /\ RecordOffers \subseteq Nat

Ends == {"I", "R"}                      \* initiator and responder
Other(s) == IF s = "I" THEN "R" ELSE "I"

Offers == [rec : RecordOffers, caps : SUBSET Caps]

NoOffer == [rec |-> 0, caps |-> {}]

\* What a PeerStore holds of the other end: nothing, the Noise key it has now, or
\* one it has since replaced.
Pins == {"None", "Current", "Replaced"}

VARIABLES
    cfg,       \* each end's Config: wire major, offer, whether it knows whom it expects
    pins,      \* each end's PeerStore entry for the other
    changes,   \* changes of the peer stores so far
    sess,      \* each end's SecureSession and RecordLayer
    pipe,      \* the units each end has written and the other has not read
    closed     \* ends whose owner has dropped the session

secureVars == <<cfg, pins, changes, sess, pipe, closed>>

\* The second half of a record.
Rest == [type |-> "Rest"]

NewSession ==
    [state |-> "Idle", looping |-> FALSE, pattern |-> "XX", msgIndex |-> 0,
     hash |-> <<>>, peer |-> FALSE, trust |-> "Unknown",
     helloSent |-> FALSE, greet |-> "No", negotiated |-> NoOffer,
     cipher |-> FALSE, maxRecord |-> HandshakeMax, sealed |-> 0, opened |-> 0,
     data |-> 0, tx |-> <<>>, rx |-> <<>>, why |-> "None"]

SecureInit ==
    /\ cfg \in [Ends -> [major : Majors, offer : Offers, expects : BOOLEAN]]
    /\ ~cfg["R"].expects
    /\ pins \in [Ends -> Pins]
    /\ cfg["I"].expects => pins["I"] # "None"
    /\ \A s \in Ends : pins[s] = "Replaced" => cfg[s].expects   \* the key matters to IK only
    /\ changes = 0
    /\ sess = [s \in Ends |-> NewSession]
    /\ pipe = [s \in Ends |-> <<>>]
    /\ closed = {}

-------------------------------------------------------------------------------
(* RecordLayer and NoiseCipher *)

Smaller(a, b) == IF a < b THEN a ELSE b

\* What one flush of q takes: as much as the stream has room for.
Taken(s, q) == Smaller(Window - Len(pipe[s]), Len(q))

\* fail(); in an established session only RecordLayer's _fatal is set.
Failed(m, why) ==
    IF m.state = "Established" THEN [m EXCEPT !.why = why]
    ELSE [m EXCEPT !.state = "Failed", !.why = why, !.trust = "Unknown", !.looping = FALSE]

\* The session becomes m with q left to send, after a flush: the stream takes a
\* prefix of q, which may end inside a record, and the rest stays in _tx.
Sends(s, m, q) ==
    IF q # <<>> /\ Other(s) \in closed
    THEN /\ sess' = [sess EXCEPT ![s] = Failed(m, "Lost")]
         /\ UNCHANGED pipe
    ELSE LET n == Taken(s, q)
         IN  /\ sess' = [sess EXCEPT ![s] = [m EXCEPT !.tx = SubSeq(q, n + 1, Len(q))]]
             /\ pipe' = [pipe EXCEPT ![s] = @ \o SubSeq(q, 1, n)]

\* sendRecord: the record r is sealed under the cipher installed now.
Sealed(m, r) ==
    [m EXCEPT !.sealed = IF m.cipher THEN @ + 1 ELSE @,
              !.tx = @ \o <<[body |-> r, cipher |-> m.cipher, nonce |-> m.sealed,
                             generation |-> m.sealed \div RekeyInterval], Rest>>]

SendRecord(s, m, r) == LET q == Sealed(m, r) IN Sends(s, q, q.tx)

\* Mutant: the receiving cipher is rekeyed one record late.
OpensLate(m, r) ==
    /\ r.cipher = m.cipher
    /\ m.cipher => r.nonce = m.opened /\ r.generation = (m.opened - 1) \div RekeyInterval

\* NoiseCipher::open, or NullCipher's.
Opens(m, r) ==
    /\ r.cipher = m.cipher
    /\ m.cipher => r.nonce = m.opened /\ r.generation = m.opened \div RekeyInterval

\* receiveRecord reads the stream only when _rx does not hold a whole record.
Buffered(s) ==
    IF Len(sess[s].rx) > 1 THEN sess[s].rx ELSE sess[s].rx \o pipe[Other(s)]

\* r1_recordSize: the handshake's limit until the cipher is installed, then _maxRecord.
Limit(s) == IF sess[s].cipher THEN sess[s].maxRecord ELSE HandshakeMax

\* What receiveRecord comes back with, its buffer being b.
Outcome(s, b) ==
    IF b = <<>>
    THEN IF Other(s) \in closed THEN "Lost" ELSE "Nothing"
    ELSE IF b[1].body.len > Limit(s) THEN "TooBig"
    ELSE IF Len(b) = 1 THEN IF Other(s) \in closed /\ pipe[Other(s)] = <<>>
                            THEN "Lost" ELSE "Nothing"
    ELSE IF ~Opens(sess[s], b[1]) THEN "AuthFailed" ELSE "Record"

\* The session once receiveRecord has taken the record at the head of b.
Received(m, b) ==
    [m EXCEPT !.rx = SubSeq(b, 3, Len(b)),
              !.opened = IF m.cipher THEN @ + 1 ELSE @]

\* A receiveRecord in the middle of a pump: on a record the session becomes m, on
\* nothing the pump returns Busy, and anything else is fatal.
Receives(s, m) ==
    LET b == Buffered(s)
        o == Outcome(s, b)
    IN  /\ pipe' = [pipe EXCEPT ![Other(s)] = IF Len(sess[s].rx) > 1 THEN @ ELSE <<>>]
        /\ sess' = [sess EXCEPT ![s] =
                CASE o = "Record"  -> m
                  [] o = "Nothing" -> [@ EXCEPT !.rx = b, !.looping = FALSE]
                  [] OTHER         -> Failed([@ EXCEPT !.rx = b], o)]

-------------------------------------------------------------------------------
(* Preambles *)

\* begin(): the initiator of a pinned peer asks for IK; the preamble goes out whole.
Begin(s) ==
    LET ik == s = "I" /\ cfg[s].expects /\ pins[s] # "None"
    IN  /\ sess[s].state = "Idle" /\ s \notin closed
        /\ IF Other(s) \in closed
           THEN sess' = [sess EXCEPT ![s] = Failed(@, "Lost")] /\ UNCHANGED pipe
           ELSE /\ sess' = [sess EXCEPT ![s].state = "AwaitingPreamble",
                                        ![s].pattern = IF ik THEN "IK" ELSE "XX"]
                /\ pipe' = [pipe EXCEPT
                        ![s] = <<[type |-> "Preamble", major |-> cfg[s].major, ik |-> ik]>>]
        /\ UNCHANGED <<cfg, pins, changes, closed>>

\* HandshakeState::start: the prologue is both preambles, the initiator's first, and
\* IK also mixes in the responder's static key, as the initiator knows it.
StartHash(s, mine, theirs, pattern) ==
    LET prologue == IF s = "I" THEN <<mine, theirs>> ELSE <<theirs, mine>>
        key == IF s = "I" THEN pins[s] ELSE "Current"
    IN  IF pattern = "IK" THEN prologue \o <<key>> ELSE prologue

\* readPeerPreamble, then the handshake's start.  A stream that ends here is reported
\* to the owner, which drops the session; the state does not become Failed.
ReadPeerPreamble(s) ==
    LET m      == sess[s]
        theirs == Head(pipe[Other(s)])
        mine   == [type |-> "Preamble", major |-> cfg[s].major, ik |-> m.pattern = "IK"]
        p      == IF s = "I" THEN m.pattern ELSE IF theirs.ik THEN "IK" ELSE "XX"
    IN  /\ m.state = "AwaitingPreamble" /\ s \notin closed
        /\ IF pipe[Other(s)] = <<>>
           THEN /\ Other(s) \in closed
                /\ closed' = closed \cup {s}
                /\ UNCHANGED <<sess, pipe>>
           ELSE /\ pipe' = [pipe EXCEPT ![Other(s)] = Tail(@)]
                /\ sess' = [sess EXCEPT ![s] =
                        IF theirs.major # cfg[s].major THEN Failed(@, "Version")
                        ELSE IF p = "IK" /\ s = "I" /\ pins[s] = "None"
                        THEN Failed(@, "PinVanished")
                        ELSE [@ EXCEPT !.state = "Handshaking", !.looping = TRUE,
                                       !.pattern = p, !.hash = StartHash(s, mine, theirs, p)]]
                /\ UNCHANGED closed
        /\ UNCHANGED <<cfg, pins, changes>>

-------------------------------------------------------------------------------
(* driveHandshake and finish *)

MessageCount(pattern) == IF pattern = "IK" THEN 2 ELSE 3

CarriesIdentity(pattern, n) == IF pattern = "IK" THEN n \in {0, 1} ELSE n \in {1, 2}

OursToSend(s) == (sess[s].msgIndex % 2 = 0) <=> s = "I"

\* The first message of XX has no key to seal its payload with.
Authenticates(m, r) ==
    /\ r.type = "Handshake"
    /\ (m.pattern = "XX" /\ m.msgIndex = 0) \/ r.hash = m.hash

InLoop(s, state) == sess[s].state = state /\ sess[s].looping /\ s \notin closed

\* Mutant: a pump only reads; what an earlier one could not write stays in _tx.
NothingToFlush(s) == <<>>

\* What a pump finds in _tx and tries to push before anything else.
ToFlush(s) == sess[s].tx

\* A pump begins: flush, then carry on whatever is left.
PumpBegins(s) ==
    LET left == ToFlush(s)
    IN  /\ sess[s].state \in {"Handshaking", "Greeting"} /\ ~sess[s].looping
        /\ s \notin closed
        /\ IF left = <<>>
           THEN sess' = [sess EXCEPT ![s].looping = TRUE] /\ UNCHANGED pipe
           ELSE Sends(s, [sess[s] EXCEPT !.looping = TRUE], left)
        /\ UNCHANGED <<cfg, pins, changes, closed>>

\* writeMessage, sendRecord, flush, ++_msgIndex.
SendMessage(s) ==
    LET m == sess[s]
    IN  /\ InLoop(s, "Handshaking")
        /\ m.msgIndex < MessageCount(m.pattern) /\ OursToSend(s)
        /\ SendRecord(s, [m EXCEPT !.msgIndex = @ + 1, !.hash = Append(@, m.msgIndex)],
                      [type |-> "Handshake", len |-> Floor, hash |-> m.hash])
        /\ UNCHANGED <<cfg, pins, changes, closed>>

\* receiveRecord and readMessage; an identity payload is checked against the static
\* key the handshake negotiated.
ReadMessage(s) ==
    LET m == sess[s]
        b == Buffered(s)
        r == b[1].body
    IN  /\ InLoop(s, "Handshaking")
        /\ m.msgIndex < MessageCount(m.pattern) /\ ~OursToSend(s)
        /\ Receives(s, IF ~Authenticates(m, r) THEN Failed(Received(m, b), "AuthFailed")
                       ELSE [Received(m, b) EXCEPT
                                !.msgIndex = @ + 1,
                                !.hash = Append(@, m.msgIndex),
                                !.peer = @ \/ CarriesIdentity(m.pattern, m.msgIndex)])
        /\ UNCHANGED <<cfg, pins, changes, closed>>

\* The keys change only when the last handshake message has left.
HandshakeSent(m) == m.tx = <<>>

\* finish(): the cipher is installed, at the handshake's record limit, and the trust
\* gate reads the peer store as it is now.
Finish(s) ==
    LET m == sess[s]
    IN  /\ InLoop(s, "Handshaking")
        /\ m.msgIndex = MessageCount(m.pattern)
        /\ sess' = [sess EXCEPT ![s] =
                IF ~HandshakeSent(m) THEN [m EXCEPT !.looping = FALSE]
                ELSE IF ~m.peer THEN Failed(m, "NoIdentity")
                ELSE IF m.tx # <<>> THEN Failed(m, "CipherRefused")
                ELSE [m EXCEPT !.state = "Greeting", !.cipher = TRUE,
                               !.maxRecord = HandshakeMax,
                               !.trust = IF pins[s] = "None" THEN "Unpaired" ELSE "Paired"]]
        /\ UNCHANGED <<cfg, pins, changes, pipe, closed>>

-------------------------------------------------------------------------------
(* driveGreeting.  Transfer size and keepalive are settled as the record size is. *)

\* The responder's answer to an offer.
Agreed(mine, theirs) ==
    [rec |-> Smaller(mine.rec, theirs.rec), caps |-> mine.caps \cap theirs.caps]

\* Mutant: the initiator keeps what it asked for.
OwnOffer(s, theirs) == cfg[s].offer

\* What an end settles on when it reads the other's greeting: the responder decides,
\* the initiator adopts the decision.
Settled(s, theirs) == IF s = "I" THEN theirs ELSE Agreed(cfg[s].offer, theirs)

Legal(rec) == Floor <= rec /\ rec <= Ceiling

\* applyNegotiated
Applied(m) ==
    IF Legal(m.negotiated.rec)
    THEN [m EXCEPT !.state = "Established", !.maxRecord = m.negotiated.rec,
                   !.looping = FALSE]
    ELSE Failed(m, "Size")

\* The initiator's HELLO.
SayHello(s) ==
    /\ InLoop(s, "Greeting") /\ s = "I" /\ ~sess[s].helloSent
    /\ SendRecord(s, [sess[s] EXCEPT !.helloSent = TRUE],
                  [type |-> "Hello", len |-> Floor, session |-> sess[s].hash,
                   offer |-> cfg[s].offer])
    /\ UNCHANGED <<cfg, pins, changes, closed>>

\* The greeting read: HELLO at the responder, HELLO_OK at the initiator.
HearHello(s) ==
    LET m == sess[s]
        b == Buffered(s)
        r == b[1].body
        n == [Received(m, b) EXCEPT !.negotiated = Settled(s, r.offer)]
    IN  /\ InLoop(s, "Greeting") /\ m.greet = "No" /\ (s = "I" => m.helloSent)
        /\ Receives(s,
              IF r.type # (IF s = "I" THEN "HelloOk" ELSE "Hello")
              THEN Failed(Received(m, b), "NotHello")
              ELSE IF r.session # m.hash THEN Failed(Received(m, b), "OtherSession")
              ELSE IF ~Legal(r.offer.rec) THEN Failed(Received(m, b), "Size")
              ELSE IF s = "I" THEN Applied(n)
              ELSE [n EXCEPT !.greet = "Due"])
        /\ UNCHANGED <<cfg, pins, changes, closed>>

\* The responder's HELLO_OK, in the same pump.
AnswerHello(s) ==
    /\ InLoop(s, "Greeting") /\ sess[s].greet = "Due"
    /\ SendRecord(s, [sess[s] EXCEPT !.greet = "Sent"],
                  [type |-> "HelloOk", len |-> Floor, session |-> sess[s].hash,
                   offer |-> sess[s].negotiated])
    /\ UNCHANGED <<cfg, pins, changes, closed>>

\* The responder is established once its answer has left.
AnswerDrained(s) ==
    /\ InLoop(s, "Greeting") /\ sess[s].greet = "Sent"
    /\ sess' = [sess EXCEPT ![s] =
            IF @.tx = <<>> THEN Applied(@) ELSE [@ EXCEPT !.looping = FALSE]]
    /\ UNCHANGED <<cfg, pins, changes, pipe, closed>>

-------------------------------------------------------------------------------
(* The layers above, and the environment *)

Usable(s) == sess[s].state = "Established" /\ sess[s].why = "None" /\ s \notin closed

\* A record of the layer above, of the smallest or the largest size agreed.
SendData(s) ==
    /\ Usable(s) /\ sess[s].data < MaxData
    /\ \E n \in {Floor, sess[s].maxRecord} :
          SendRecord(s, [sess[s] EXCEPT !.data = @ + 1], [type |-> "Data", len |-> n])
    /\ UNCHANGED <<cfg, pins, changes, closed>>

FlushData(s) ==
    /\ Usable(s) /\ sess[s].tx # <<>>
    /\ Sends(s, sess[s], sess[s].tx)
    /\ UNCHANGED <<cfg, pins, changes, closed>>

ReceiveData(s) ==
    /\ Usable(s)
    /\ Receives(s, Received(sess[s], Buffered(s)))
    /\ UNCHANGED <<cfg, pins, changes, closed>>

\* PeerStore::pin, once the user has compared the digits, and unpin at any time.  The
\* session keeps the trust it was given at finish().
Pin(s) ==
    /\ Usable(s) /\ changes < MaxStore
    /\ pins' = [pins EXCEPT ![s] = "Current"]
    /\ changes' = changes + 1
    /\ UNCHANGED <<cfg, sess, pipe, closed>>

Unpin(s) ==
    /\ pins[s] # "None" /\ changes < MaxStore
    /\ pins' = [pins EXCEPT ![s] = "None"]
    /\ changes' = changes + 1
    /\ UNCHANGED <<cfg, sess, pipe, closed>>

\* The owner drops a session that reported an error.
DropSession(s) ==
    /\ sess[s].why # "None" /\ s \notin closed
    /\ closed' = closed \cup {s}
    /\ UNCHANGED <<cfg, pins, changes, sess, pipe>>

\* The end goes away: its owner's handshake deadline (ImporterClient::connect, the hub's
\* kInboundHandshakeNs) has passed, or its machine is gone with what it had sent.
GoesAway(s) ==
    /\ s \notin closed
    /\ closed' = closed \cup {s}
    /\ pipe' \in {pipe, [pipe EXCEPT ![s] = <<>>]}
    /\ UNCHANGED <<cfg, pins, changes, sess>>

Pump(s) ==
    \/ ReadPeerPreamble(s) \/ PumpBegins(s)
    \/ SendMessage(s) \/ ReadMessage(s) \/ Finish(s)
    \/ SayHello(s) \/ HearHello(s) \/ AnswerHello(s) \/ AnswerDrained(s)

SecureNext ==
    \E s \in Ends :
        \/ Begin(s) \/ Pump(s)
        \/ SendData(s) \/ FlushData(s) \/ ReceiveData(s)
        \/ Pin(s) \/ Unpin(s)
        \/ DropSession(s) \/ GoesAway(s)

\* Both ends' owners begin and then pump from a timer or a loop (ImporterClient::connect,
\* HubState::pump), and drop a session whose pump reported an error.
SecureFairness ==
    \A s \in Ends :
        WF_secureVars(Begin(s)) /\ WF_secureVars(Pump(s)) /\ WF_secureVars(DropSession(s))

SecureSpec == SecureInit /\ [][SecureNext]_secureVars /\ SecureFairness

-------------------------------------------------------------------------------
(* Properties *)

\* established() means agreed: an established end holds the minimum of the two record
\* sizes and the capabilities both have, the other end settled on the same, and both
\* have the same channel binding (so the same digits to compare).  The initiator is
\* established only after the responder's whole answer has left it
\* (SecureSession.h: no caller can observe a session whose limits are not yet agreed).
AgreedBeforeUse ==
    LET agreed == Agreed(cfg["R"].offer, cfg["I"].offer)
    IN  \A s \in Ends : sess[s].state = "Established" =>
            /\ sess[s].negotiated = agreed /\ sess[s].maxRecord = agreed.rec
            /\ sess[Other(s)].negotiated \in {agreed, NoOffer}
            /\ sess[Other(s)].hash = sess[s].hash
            /\ s = "I" => sess["R"].negotiated = agreed /\ sess["R"].greet = "Sent"

\* A slow link is not a failed one: whatever the window and however the two loops
\* interleave, a session fails only for a cause outside it, i.e. the other end is gone,
\* the wire majors differ, the pinned key is out of date or was unpinned, or an offer is
\* outside the legal record sizes.  In particular no record is refused for its size, out
\* of step with the cipher or out of turn (driveHandshake, finish, adoptCipher,
\* receiveRecord).
FailedForCause ==
    \A s \in Ends :
        \/ sess[s].why = "None"
        \/ sess[s].why = "Lost" /\ Other(s) \in closed
        \/ sess[s].why = "Version" /\ cfg["I"].major # cfg["R"].major
        \/ sess[s].why = "AuthFailed" /\ sess["I"].pattern = "IK" /\ sess["I"].hash[3] = "Replaced"
        \/ sess[s].why = "PinVanished" /\ changes > 0
        \/ sess[s].why = "Size" /\ \E e \in Ends : ~Legal(cfg[e].offer.rec)

Done(s) == sess[s].state \in {"Established", "Failed"} \/ s \in closed

\* Two ends that keep pumping never wait for each other for ever, however small the
\* window: each becomes established, fails, or is dropped by its owner (the stall that
\* driveHandshake and driveGreeting flush against).
HandshakeEnds == \A s \in Ends : <>Done(s)

===============================================================================
