--------------------------- MODULE VhciImport_proofs ---------------------------
(***************************************************************************)
(* The safety of the Linux importer, for every set of endpoints, every     *)
(* admission limit and every number of URBs: a URB has one terminal        *)
(* outcome (I1), the bridge and the data plane agree on what is on the     *)
(* network, and no URB is completed with the reply to another.             *)
(*                                                                         *)
(* ReturnedOnce needs the three places that can hold a URB to be disjoint  *)
(* and to hold it once; OwnReply needs that an id is never drawn twice, so *)
(* that a reply still under way names a request of the past or the one it  *)
(* answers; and ids stay within the bound because every id is spent on a   *)
(* URB that has left the queue.                                            *)
(***************************************************************************)
EXTENDS VhciImport, Ops_proofs

\* What the exporter sends.
Records ==
    [type : {"Complete", "Data"}, key : Keys, more : BOOLEAN, urb : Urbs]
        \cup [type : {"CtrlAck"}, key : {ChannelSession} \X Ids]
        \cup [type : {"Error"}]

VhciTypeOK ==
    /\ plane \in Plane
    /\ pending \in Seq(Urbs)
    /\ outstanding \in [Keys -> Urbs \cup {0}]
    /\ bySeqnum \in [Urbs -> Keys \cup {NoKey}]
    /\ waiters \in [Keys -> Urbs \cup {0}]
    /\ urbs \in 0..MaxUrbs
    /\ ep \in [Urbs -> Endpoints \cup {0}]
    /\ \A u \in 1..urbs : ep[u] \in Endpoints
    /\ late \subseteq Urbs
    /\ down \in Seq(Records)
    /\ owed \subseteq [key : Keys, urb : Urbs]
    /\ owedVerbs \subseteq Keys
    /\ rets \in [Urbs -> Nat]
    /\ resets \subseteq Urbs

\* Every id was drawn for a URB that is no longer queued.
IdsSpent ==
    /\ \A e \in Endpoints :
          plane.nextId[e] >= 1 /\ plane.nextId[e] + Len(pending) <= urbs + 1
    /\ plane.nextVerb \in 1..(urbs + 1)
    /\ \A k \in plane.verbs : k[2] < plane.nextVerb

\* A URB is in one place at a time, and there once.
HeldOnce ==
    /\ Held \subseteq 1..urbs
    /\ Increasing(pending)
    /\ Pending \cap (Outstanding \cup Waiting) = {}
    /\ Outstanding \cap Waiting = {}
    /\ \A k, l \in Keys : waiters[k] # 0 /\ waiters[k] = waiters[l] => k = l

\* The outcomes so far, for the URBs to come as well.
OutcomesCounted ==
    \A u \in Urbs :
        rets[u] + (IF u \in resets THEN 1 ELSE 0)
            = IF u \in Held \/ u > urbs THEN 0 ELSE 1

\* The id of this key was drawn before.
Drawn(k) == \E e \in Endpoints : k[1] = ChannelFor(e) /\ k[2] < plane.nextId[e]

\* A reply names a request of the past, or the one it answers.
RepliesOwn ==
    /\ \A k \in plane.table : Drawn(k)
    /\ \A o \in owed : Drawn(o.key) /\ outstanding[o.key] \in {0, o.urb}
    /\ \A r \in Elements(down) :
          r.type \in {"Complete", "Data"}
              => Drawn(r.key) /\ outstanding[r.key] \in {0, r.urb}

VhciInv ==
    /\ VhciTypeOK
    /\ IdsSpent
    /\ HeldOnce
    /\ TablesAgree
    /\ OutcomesCounted
    /\ RepliesOwn
    /\ OwnReply

-------------------------------------------------------------------------------
(* Keys *)

\* The channels of two endpoints differ, and no key is that of the session channel.
LEMMA KeysAre ==
    /\ \A e, f \in Endpoints : ChannelFor(e) = ChannelFor(f) => e = f
    /\ \A e \in Endpoints, i \in Ids : <<ChannelFor(e), i>> \in Keys
    /\ \A k \in Keys : k[2] \in Ids /\ \E e \in Endpoints : k[1] = ChannelFor(e)
    /\ NoKey \notin Keys
<1>1. \A e \in Endpoints : e \in 0..255 /\ Slot \in 1..15
  BY DataPlaneAssumption
<1>2. \A e, f \in Endpoints : ChannelFor(e) = ChannelFor(f) => e = f
  <2> TAKE e, f \in Endpoints
  <2>1. e \in Int /\ f \in Int /\ 256 * Slot \in Int
    BY <1>1
  <2> QED
    BY <2>1 DEF ChannelFor
<1>3. \A e \in Endpoints : ChannelFor(e) # 0
  BY <1>1 DEF ChannelFor
<1>4. \A k \in Keys : k[2] \in Ids /\ \E e \in Endpoints : k[1] = ChannelFor(e)
  BY DEF Keys
<1>5. NoKey \notin Keys
  BY <1>3, <1>4 DEF NoKey, ChannelSession
<1> QED
  BY <1>2, <1>4, <1>5 DEF Keys

-------------------------------------------------------------------------------
(* The data plane's methods, field by field *)

\* A record with the plane's fields, each of its type, is a plane.
LEMMA PlaneIs ==
    ASSUME NEW q, q = [ table |-> q.table, nextId |-> q.nextId, partial |-> q.partial,
                        verbs |-> q.verbs, nextVerb |-> q.nextVerb ],
           q.table \in SUBSET Keys, q.nextId \in [Endpoints -> Nat],
           q.partial \in SUBSET Keys, q.verbs \in SUBSET Keys, q.nextVerb \in Nat
    PROVE  q \in Plane
  BY DEF Plane

\* clearHalt whose record went out: the verb is parked; otherwise only its id is spent.
LEMMA HaltSentIs ==
    ASSUME NEW p \in Plane, NEW e \in Endpoints, NEW k \in Keys, k = VerbKey(p, e)
    PROVE  /\ HaltSent(p, e) \in Plane
           /\ HaltSent(p, e).table = p.table /\ HaltSent(p, e).nextId = p.nextId
           /\ HaltSent(p, e).partial = p.partial /\ HaltSent(p, e).verbs = p.verbs \cup {k}
           /\ HaltSent(p, e).nextVerb = p.nextVerb + 1
<1>1. /\ p.table \in SUBSET Keys /\ p.nextId \in [Endpoints -> Nat]
      /\ p.partial \in SUBSET Keys /\ p.verbs \in SUBSET Keys /\ p.nextVerb \in Nat
  BY DEF Plane
<1>2. PICK q : q = HaltSent(p, e)
  OBVIOUS
<1>3. /\ q.table = p.table /\ q.nextId = p.nextId /\ q.partial = p.partial
      /\ q.verbs = p.verbs \cup {k} /\ q.nextVerb = p.nextVerb + 1
      /\ q = [ table |-> q.table, nextId |-> q.nextId, partial |-> q.partial,
               verbs |-> q.verbs, nextVerb |-> q.nextVerb ]
  BY <1>2 DEF HaltSent, Plane
<1>4. q \in Plane
  BY <1>1, <1>3, PlaneIs
<1> QED
  BY <1>2, <1>3, <1>4

LEMMA HaltFailedIs ==
    ASSUME NEW p \in Plane
    PROVE  /\ HaltFailed(p) \in Plane
           /\ HaltFailed(p).table = p.table /\ HaltFailed(p).nextId = p.nextId
           /\ HaltFailed(p).partial = p.partial /\ HaltFailed(p).verbs = p.verbs
           /\ HaltFailed(p).nextVerb = p.nextVerb + 1
  BY DEF HaltFailed, Plane

\* submit whose records went out: the request is in the table; otherwise only its id
\* is spent.
LEMMA SubmittedIs ==
    ASSUME NEW p \in Plane, NEW e \in Endpoints, NEW k \in Keys, k = RequestKey(p, e)
    PROVE  /\ Submitted(p, e) \in Plane /\ Submitted(p, e).table = p.table \cup {k}
           /\ Submitted(p, e).nextId = [p.nextId EXCEPT ![e] = @ + 1]
           /\ Submitted(p, e).partial = p.partial /\ Submitted(p, e).verbs = p.verbs
           /\ Submitted(p, e).nextVerb = p.nextVerb
<1>1. /\ p.table \in SUBSET Keys /\ p.nextId \in [Endpoints -> Nat]
      /\ p.partial \in SUBSET Keys /\ p.verbs \in SUBSET Keys /\ p.nextVerb \in Nat
  BY DEF Plane
<1>2. PICK q : q = Submitted(p, e)
  OBVIOUS
<1>3. /\ q.table = p.table \cup {k} /\ q.nextId = [p.nextId EXCEPT ![e] = @ + 1]
      /\ q.partial = p.partial /\ q.verbs = p.verbs /\ q.nextVerb = p.nextVerb
      /\ q = [ table |-> q.table, nextId |-> q.nextId, partial |-> q.partial,
               verbs |-> q.verbs, nextVerb |-> q.nextVerb ]
  BY <1>2 DEF Submitted, Plane
<1>4. q.table \in SUBSET Keys /\ q.nextId \in [Endpoints -> Nat]
  BY <1>1, <1>3
<1>5. q \in Plane
  BY <1>1, <1>3, <1>4, PlaneIs
<1> QED
  BY <1>2, <1>3, <1>5

LEMMA SubmitFailedIs ==
    ASSUME NEW p \in Plane, NEW e \in Endpoints
    PROVE  /\ SubmitFailed(p, e) \in Plane /\ SubmitFailed(p, e).table = p.table
           /\ SubmitFailed(p, e).nextId = [p.nextId EXCEPT ![e] = @ + 1]
           /\ SubmitFailed(p, e).partial = p.partial /\ SubmitFailed(p, e).verbs = p.verbs
           /\ SubmitFailed(p, e).nextVerb = p.nextVerb
<1>1. /\ p.table \in SUBSET Keys /\ p.nextId \in [Endpoints -> Nat]
      /\ p.partial \in SUBSET Keys /\ p.verbs \in SUBSET Keys /\ p.nextVerb \in Nat
  BY DEF Plane
<1>2. PICK q : q = SubmitFailed(p, e)
  OBVIOUS
<1>3. /\ q.table = p.table /\ q.nextId = [p.nextId EXCEPT ![e] = @ + 1]
      /\ q.partial = p.partial /\ q.verbs = p.verbs /\ q.nextVerb = p.nextVerb
      /\ q = [ table |-> q.table, nextId |-> q.nextId, partial |-> q.partial,
               verbs |-> q.verbs, nextVerb |-> q.nextVerb ]
  BY <1>2 DEF SubmitFailed, Plane
<1>4. q.nextId \in [Endpoints -> Nat]
  BY <1>1, <1>3
<1>5. q \in Plane
  BY <1>1, <1>3, <1>4, PlaneIs
<1> QED
  BY <1>2, <1>3, <1>5

\* sweepDeadlines, cancel and completeAll only take keys out, and draw no id.
LEMMA ExpiredIs ==
    ASSUME NEW p \in Plane, NEW T, NEW V
    PROVE  /\ Expired(p, T, V) \in Plane
           /\ Expired(p, T, V).table = p.table \ T /\ Expired(p, T, V).partial = p.partial \ T
           /\ Expired(p, T, V).verbs = p.verbs \ V
           /\ Expired(p, T, V).nextId = p.nextId /\ Expired(p, T, V).nextVerb = p.nextVerb
  BY DEF Expired, Plane

LEMMA CancelledIs ==
    ASSUME NEW p \in Plane, NEW k \in Keys
    PROVE  Cancelled(p, k) = Expired(p, {k}, {})
<1>1. p.verbs \ {} = p.verbs
  OBVIOUS
<1> QED
  BY <1>1 DEF Cancelled, Expired, Plane

LEMMA DrainedIs ==
    ASSUME NEW p \in Plane
    PROVE  Drained(p) = Expired(p, p.table \cup p.partial, p.verbs)
  BY DEF Drained, Expired, Plane

-------------------------------------------------------------------------------
(* What the handlers have in common *)

\* onCompletion takes a set of requests out of both maps.
LEMMA ForgetIs ==
    ASSUME VhciTypeOK, TablesAgree, NEW K \in SUBSET Keys, Forget(K)
    PROVE  /\ outstanding' \in [Keys -> Urbs \cup {0}]
           /\ bySeqnum' \in [Urbs -> Keys \cup {NoKey}]
           /\ Outstanding' = Outstanding \ UrbsOf(K) /\ UrbsOf(K) \subseteq Outstanding
           /\ \A k \in Keys : outstanding'[k] \in {0, outstanding[k]}
           /\ {k \in Keys : outstanding'[k] # 0} = plane.table \ K
           /\ \A k \in Keys : outstanding'[k] # 0 => bySeqnum'[outstanding'[k]] = k
           /\ \A u \in Urbs : bySeqnum'[u] # NoKey => outstanding'[bySeqnum'[u]] = u
<1>1. /\ outstanding \in [Keys -> Urbs \cup {0}]
      /\ bySeqnum \in [Urbs -> Keys \cup {NoKey}]
      /\ plane.table = {k \in Keys : outstanding[k] # 0}
      /\ \A k \in Keys : outstanding[k] # 0 => bySeqnum[outstanding[k]] = k
      /\ \A u \in Urbs : bySeqnum[u] # NoKey => outstanding[bySeqnum[u]] = u
  BY DEF VhciTypeOK, TablesAgree
<1>2. /\ outstanding' = [k \in Keys |-> IF k \in K THEN 0 ELSE outstanding[k]]
      /\ bySeqnum' = [u \in Urbs |-> IF u \in UrbsOf(K) THEN NoKey ELSE bySeqnum[u]]
  BY DEF Forget
<1>3. NoKey \notin Keys /\ 0 \notin Urbs
  BY KeysAre DEF Urbs
<1>4. \A k \in Keys : outstanding[k] # 0 => (outstanding[k] \in UrbsOf(K) <=> k \in K)
  BY <1>1 DEF UrbsOf
<1>5. /\ outstanding' \in [Keys -> Urbs \cup {0}]
      /\ bySeqnum' \in [Urbs -> Keys \cup {NoKey}]
      /\ \A k \in Keys : outstanding'[k] \in {0, outstanding[k]}
      /\ {k \in Keys : outstanding'[k] # 0} = plane.table \ K
  BY <1>1, <1>2
<1>6. UrbsOf(K) \subseteq Outstanding
  BY DEF UrbsOf, Outstanding
<1>7. Outstanding' = Outstanding \ UrbsOf(K)
  BY <1>2, <1>4 DEF Outstanding, UrbsOf
<1>8. \A k \in Keys : outstanding'[k] # 0 => bySeqnum'[outstanding'[k]] = k
  BY <1>1, <1>2, <1>4
<1>9. ASSUME NEW u \in Urbs, bySeqnum'[u] # NoKey
      PROVE  outstanding'[bySeqnum'[u]] = u
  <2>1. u \notin UrbsOf(K) /\ bySeqnum'[u] = bySeqnum[u]
    BY <1>9, <1>2
  <2>2. bySeqnum[u] \in Keys /\ outstanding[bySeqnum[u]] = u /\ u # 0
    BY <2>1, <1>1, <1>3, <1>9
  <2>3. bySeqnum[u] \notin K
    BY <2>1, <2>2 DEF UrbsOf
  <2> QED
    BY <2>1, <2>2, <2>3, <1>2
<1> QED
  BY <1>5, <1>6, <1>7, <1>8, <1>9

\* onVerb takes a set of verbs out of their map.
LEMMA ForgetWaitersIs ==
    ASSUME VhciTypeOK, TablesAgree, HeldOnce, NEW V \in SUBSET Keys, ForgetWaiters(V)
    PROVE  /\ waiters' \in [Keys -> Urbs \cup {0}]
           /\ Waiting' = Waiting \ WaitersOf(V) /\ WaitersOf(V) \subseteq Waiting
           /\ {k \in Keys : waiters'[k] # 0} = plane.verbs \ V
           /\ \A k, l \in Keys : waiters'[k] # 0 /\ waiters'[k] = waiters'[l] => k = l
<1>1. /\ waiters \in [Keys -> Urbs \cup {0}]
      /\ plane.verbs = {k \in Keys : waiters[k] # 0}
      /\ \A k, l \in Keys : waiters[k] # 0 /\ waiters[k] = waiters[l] => k = l
  BY DEF VhciTypeOK, TablesAgree, HeldOnce
<1>2. waiters' = [k \in Keys |-> IF k \in V THEN 0 ELSE waiters[k]]
  BY DEF ForgetWaiters
<1>3. Waiting' = Waiting \ WaitersOf(V) /\ WaitersOf(V) \subseteq Waiting
  BY <1>1, <1>2 DEF Waiting, WaitersOf
<1> QED
  BY <1>1, <1>2, <1>3

\* Returning URBs that were held and no longer are keeps the count.
LEMMA ReturnCounts ==
    ASSUME VhciTypeOK, OutcomesCounted, HeldOnce, UNCHANGED <<urbs, resets>>,
           NEW S, rets' = Return(S), S \subseteq Held,
           \A u \in Urbs : u \in Held' <=> u \in Held /\ u \notin S
    PROVE  rets' \in [Urbs -> Nat] /\ OutcomesCounted'
<1>1. rets \in [Urbs -> Nat] /\ urbs \in Nat /\ Urbs \subseteq Nat
  BY DEF VhciTypeOK, Urbs
<1>2. rets' \in [Urbs -> Nat]
  BY <1>1 DEF Return
<1>3. ASSUME NEW u \in Urbs
      PROVE  rets'[u] + (IF u \in resets THEN 1 ELSE 0)
                 = IF u \in Held' \/ u > urbs THEN 0 ELSE 1
  <2>1. rets[u] + (IF u \in resets THEN 1 ELSE 0)
            = IF u \in Held \/ u > urbs THEN 0 ELSE 1
    BY DEF OutcomesCounted
  <2>2. CASE u \in S
    <3>1. u \in Held /\ u \notin Held' /\ ~(u > urbs)
      BY <2>2, <1>1 DEF HeldOnce
    <3>2. rets'[u] = rets[u] + 1
      BY <2>2 DEF Return
    <3> QED
      BY <3>1, <3>2, <2>1, <1>1
  <2>3. CASE u \notin S
    <3>1. rets'[u] = rets[u] /\ (u \in Held' <=> u \in Held)
      BY <2>3 DEF Return
    <3> QED
      BY <3>1, <2>1
  <2> QED
    BY <2>2, <2>3
<1> QED
  BY <1>2, <1>3 DEF OutcomesCounted

\* Nothing new on the wire and no id drawn: the replies under way stay their own.
LEMMA RepliesKeep ==
    ASSUME VhciTypeOK, RepliesOwn,
           plane'.nextId = plane.nextId, plane'.table \subseteq plane.table,
           \A k \in Keys : outstanding'[k] \in {0, outstanding[k]},
           owed' \subseteq owed, Elements(down') \subseteq Elements(down)
    PROVE  RepliesOwn'
<1>1. /\ owed \subseteq [key : Keys, urb : Urbs] /\ Elements(down) \subseteq Records
  BY ElementsOf DEF VhciTypeOK
<1>2. \A k : Drawn(k) => Drawn(k)'
  BY DEF Drawn
<1>3. \A k \in plane'.table : Drawn(k)'
  BY <1>2 DEF RepliesOwn
<1>4. \A o \in owed' : Drawn(o.key)' /\ outstanding'[o.key] \in {0, o.urb}
  <2> TAKE o \in owed'
  <2>1. o \in owed /\ o.key \in Keys
    BY <1>1
  <2> QED
    BY <2>1, <1>2 DEF RepliesOwn
<1>5. ASSUME NEW r \in Elements(down'), r.type \in {"Complete", "Data"}
      PROVE  Drawn(r.key)' /\ outstanding'[r.key] \in {0, r.urb}
  <2>1. r \in Elements(down) /\ r.key \in Keys
    BY <1>1, <1>5 DEF Records
  <2> QED
    BY <2>1, <1>2, <1>5 DEF RepliesOwn
<1> QED
  BY <1>3, <1>4, <1>5 DEF RepliesOwn

-------------------------------------------------------------------------------
(* The actions, one lemma each *)

LEMMA VhciInvInit == Init => VhciInv
<1> SUFFICES ASSUME Init PROVE VhciInv
  OBVIOUS
<1>0. /\ plane = InitPlane /\ pending = <<>> /\ outstanding = [k \in Keys |-> 0]
      /\ bySeqnum = [u \in Urbs |-> NoKey] /\ waiters = [k \in Keys |-> 0]
      /\ urbs = 0 /\ ep = [u \in Urbs |-> 0] /\ late = {} /\ down = <<>> /\ owed = {}
      /\ owedVerbs = {} /\ rets = [u \in Urbs |-> 0] /\ resets = {} /\ strangers = {}
  BY DEF Init
<1>1. Pending = {} /\ Elements(down) = {}
  <2>1. <<>> \in Seq(Urbs)
    OBVIOUS
  <2> QED
    BY <2>1, <1>0, ElementsOf DEF Pending
<1>2. Outstanding = {} /\ Waiting = {} /\ Held = {}
  BY <1>0, <1>1 DEF Outstanding, Waiting, Held
<1>3. VhciTypeOK
  <2>1. plane \in Plane
    BY <1>0 DEF Plane, InitPlane
  <2> QED
    BY <2>1, <1>0, DataPlaneAssumption DEF VhciTypeOK
<1>4. IdsSpent
  BY <1>0 DEF IdsSpent, InitPlane
<1>5. HeldOnce
  BY <1>0, <1>1, <1>2 DEF HeldOnce, Increasing
<1>6. TablesAgree
  BY <1>0, KeysAre DEF TablesAgree, InitPlane
<1>7. OutcomesCounted
  BY <1>0, <1>2 DEF OutcomesCounted, Urbs
<1>8. RepliesOwn /\ OwnReply
  BY <1>0, <1>1 DEF RepliesOwn, OwnReply, InitPlane
<1> QED
  BY <1>3, <1>4, <1>5, <1>6, <1>7, <1>8 DEF VhciInv

\* A URB the kernel hands over is the youngest and no table knows it.
LEMMA NewUrbIs ==
    ASSUME VhciInv, NEW e \in Endpoints, NewUrb(e)
    PROVE  /\ urbs \in Nat /\ urbs' = urbs + 1 /\ urbs' \in Urbs
           /\ urbs' \in 0..MaxUrbs /\ urbs' \notin Held
           /\ ep' \in [Urbs -> Endpoints \cup {0}]
           /\ \A u \in 1..urbs' : ep'[u] \in Endpoints
           /\ rets[urbs'] = 0 /\ urbs' \notin resets
           /\ \A u \in Urbs : u # urbs' => (u > urbs' <=> u > urbs)
           /\ 1..urbs \subseteq 1..urbs'
<1>1. /\ urbs < MaxUrbs /\ urbs' = urbs + 1 /\ ep' = [ep EXCEPT ![urbs'] = e]
      /\ urbs \in 0..MaxUrbs /\ ep \in [Urbs -> Endpoints \cup {0}] /\ MaxUrbs \in Nat
      /\ \A u \in 1..urbs : ep[u] \in Endpoints /\ rets \in [Urbs -> Nat]
  BY DataPlaneAssumption DEF VhciInv, VhciTypeOK, NewUrb
<1>2. urbs \in Nat /\ urbs' \in Urbs /\ urbs' \in 0..MaxUrbs /\ 1..urbs \subseteq 1..urbs'
  BY <1>1 DEF Urbs
<1>3. urbs' \notin Held
  BY <1>1, <1>2 DEF VhciInv, HeldOnce
<1>4. ep' \in [Urbs -> Endpoints \cup {0}] /\ \A u \in 1..urbs' : ep'[u] \in Endpoints
  BY <1>1, <1>2 DEF Urbs
<1>5. rets[urbs'] = 0 /\ urbs' \notin resets
  <2>1. rets[urbs'] + (IF urbs' \in resets THEN 1 ELSE 0) = 0
    BY <1>1, <1>2 DEF VhciInv, OutcomesCounted
  <2>2. rets[urbs'] \in Nat
    BY <1>2 DEF VhciInv, VhciTypeOK
  <2> QED
    BY <2>1, <2>2
<1>6. \A u \in Urbs : u # urbs' => (u > urbs' <=> u > urbs)
  BY <1>1, <1>2 DEF Urbs
<1> QED
  BY <1>1, <1>2, <1>3, <1>4, <1>5, <1>6

LEMMA OnSubmitInv ==
    ASSUME VhciInv, NEW e \in Endpoints, OnSubmit(e)
    PROVE  VhciInv'
<1>0. PICK n \in Urbs : n = urbs'
  BY NewUrbIs DEF OnSubmit
<1>1. VhciTypeOK /\ IdsSpent /\ HeldOnce /\ TablesAgree /\ OutcomesCounted /\ RepliesOwn
      /\ OwnReply
  BY DEF VhciInv
<1>2. /\ NewUrb(e) /\ pending' = Append(pending, n)
      /\ UNCHANGED <<plane, outstanding, bySeqnum, waiters, rets, resets, strangers, down,
                     owed, owedVerbs, late>>
  BY <1>0 DEF OnSubmit, net
<1>3. /\ urbs \in Nat /\ urbs' = n /\ n = urbs + 1 /\ n \in 0..MaxUrbs /\ n \notin Held
      /\ ep' \in [Urbs -> Endpoints \cup {0}] /\ \A u \in 1..n : ep'[u] \in Endpoints
      /\ rets[n] = 0 /\ n \notin resets
      /\ \A u \in Urbs : u # n => (u > n <=> u > urbs)
      /\ 1..urbs \subseteq 1..n
  BY <1>0, <1>2, NewUrbIs
<1>4. pending \in Seq(Urbs) /\ Increasing(pending) /\ \A u \in Pending : u < n
  BY <1>1, <1>3 DEF VhciTypeOK, HeldOnce, Held
<1>5. /\ pending' \in Seq(Urbs) /\ Pending' = Pending \cup {n} /\ Increasing(pending')
      /\ Len(pending') = Len(pending) + 1 /\ Len(pending) \in Nat
  BY <1>2, <1>4, AppendIs DEF Pending
<1>6. Outstanding' = Outstanding /\ Waiting' = Waiting /\ Held' = Held \cup {n}
  BY <1>2, <1>5 DEF Outstanding, Waiting, Held
<1>7. VhciTypeOK'
  BY <1>1, <1>2, <1>3, <1>5 DEF VhciTypeOK
<1>8. IdsSpent'
  BY <1>1, <1>2, <1>3, <1>5, SMTT(30) DEF IdsSpent, VhciTypeOK, Plane
<1>9. HeldOnce'
  BY <1>1, <1>2, <1>3, <1>5, <1>6 DEF HeldOnce, Held
<1>10. OutcomesCounted'
  <2> SUFFICES ASSUME NEW u \in Urbs
               PROVE  rets[u] + (IF u \in resets THEN 1 ELSE 0)
                          = IF u \in Held' \/ u > n THEN 0 ELSE 1
    BY <1>2, <1>3 DEF OutcomesCounted
  <2>1. CASE u = n
    BY <2>1, <1>3, <1>6
  <2>2. CASE u # n
    BY <2>2, <1>1, <1>3, <1>6 DEF OutcomesCounted
  <2> QED
    BY <2>1, <2>2
<1>11. TablesAgree' /\ RepliesOwn' /\ OwnReply'
  BY <1>1, <1>2 DEF TablesAgree, RepliesOwn, Drawn, OwnReply
<1> QED
  BY <1>7, <1>8, <1>9, <1>10, <1>11 DEF VhciInv

\* The variables the invariant is about, but for the clock and the network.
heldVars == <<plane, pending, outstanding, bySeqnum, waiters, urbs, ep, rets, resets,
              strangers>>

\* A step of the clock or of the network alone.
LEMMA QuietInv ==
    ASSUME VhciInv, UNCHANGED heldVars, late' \subseteq Urbs, down' \in Seq(Records),
           owed' \subseteq [key : Keys, urb : Urbs], owedVerbs' \subseteq Keys, RepliesOwn'
    PROVE  VhciInv'
<1>1. UNCHANGED <<plane, pending, outstanding, bySeqnum, waiters, urbs, ep, rets, resets,
                  strangers>>
  BY DEF heldVars
<1>2. Held' = Held /\ Pending' = Pending /\ Outstanding' = Outstanding /\ Waiting' = Waiting
  BY <1>1 DEF Held, Pending, Outstanding, Waiting
<1>3. VhciTypeOK' /\ IdsSpent' /\ TablesAgree' /\ OwnReply'
  BY <1>1 DEF VhciInv, VhciTypeOK, IdsSpent, TablesAgree, OwnReply
<1>4. HeldOnce' /\ OutcomesCounted'
  BY <1>1, <1>2 DEF VhciInv, HeldOnce, OutcomesCounted
<1> QED
  BY <1>3, <1>4 DEF VhciInv

\* Nothing that the invariant is about but perhaps the clock.
LEMMA StillInv ==
    ASSUME VhciInv, UNCHANGED heldVars, UNCHANGED <<down, owed, owedVerbs>>,
           late' \subseteq Urbs
    PROVE  VhciInv'
<1>1. UNCHANGED <<plane, outstanding>>
  BY DEF heldVars
<1>2. RepliesOwn'
  BY <1>1 DEF VhciInv, RepliesOwn, Drawn
<1> QED
  BY <1>2, QuietInv DEF VhciInv, VhciTypeOK

\* Answered on the spot: the URB never enters a table.
LEMMA OnSubmitLocalInv ==
    ASSUME VhciInv, NEW e \in Endpoints, OnSubmitLocal(e)
    PROVE  VhciInv'
<1>0. PICK n \in Urbs : n = urbs'
  BY NewUrbIs DEF OnSubmitLocal
<1>1. VhciTypeOK /\ IdsSpent /\ HeldOnce /\ TablesAgree /\ OutcomesCounted /\ RepliesOwn
      /\ OwnReply
  BY DEF VhciInv
<1>2. /\ NewUrb(e) /\ rets' = Return({n})
      /\ UNCHANGED <<plane, pending, outstanding, bySeqnum, waiters, resets, strangers,
                     down, owed, owedVerbs, late>>
  BY <1>0 DEF OnSubmitLocal, bridge, net
<1>3. /\ urbs \in Nat /\ urbs' = n /\ n = urbs + 1 /\ n \in 0..MaxUrbs /\ n \notin Held
      /\ ep' \in [Urbs -> Endpoints \cup {0}] /\ \A u \in 1..n : ep'[u] \in Endpoints
      /\ rets[n] = 0 /\ n \notin resets
      /\ \A u \in Urbs : u # n => (u > n <=> u > urbs)
      /\ 1..urbs \subseteq 1..n
  BY <1>0, <1>2, NewUrbIs
<1>4. Held' = Held /\ Pending' = Pending /\ Outstanding' = Outstanding /\ Waiting' = Waiting
  BY <1>2 DEF Held, Pending, Outstanding, Waiting
<1>5. rets' \in [Urbs -> Nat] /\ rets'[n] = 1 /\ \A u \in Urbs \ {n} : rets'[u] = rets[u]
  BY <1>1, <1>2, <1>3 DEF Return, VhciTypeOK
<1>6. VhciTypeOK'
  BY <1>1, <1>2, <1>3, <1>5 DEF VhciTypeOK
<1>7. IdsSpent'
  BY <1>1, <1>2, <1>3 DEF IdsSpent, VhciTypeOK, Plane
<1>8. HeldOnce'
  BY <1>1, <1>2, <1>3, <1>4 DEF HeldOnce
<1>9. OutcomesCounted'
  <2> SUFFICES ASSUME NEW u \in Urbs
               PROVE  rets'[u] + (IF u \in resets THEN 1 ELSE 0)
                          = IF u \in Held \/ u > n THEN 0 ELSE 1
    BY <1>2, <1>3, <1>4 DEF OutcomesCounted
  <2>1. CASE u = n
    BY <2>1, <1>3, <1>5
  <2>2. CASE u # n
    BY <2>2, <1>1, <1>3, <1>5 DEF OutcomesCounted
  <2> QED
    BY <2>1, <2>2
<1>10. TablesAgree' /\ RepliesOwn' /\ OwnReply'
  BY <1>1, <1>2 DEF TablesAgree, RepliesOwn, Drawn, OwnReply
<1> QED
  BY <1>6, <1>7, <1>8, <1>9, <1>10 DEF VhciInv

\* CLEAR_FEATURE(ENDPOINT_HALT): parked on a verb of its own, or answered.
LEMMA OnSubmitClearHaltInv ==
    ASSUME VhciInv, NEW e \in Endpoints, NEW ok \in BOOLEAN, OnSubmitClearHalt(e, ok)
    PROVE  VhciInv'
<1>0. PICK n \in Urbs : n = urbs'
  BY NewUrbIs DEF OnSubmitClearHalt
<1>1. VhciTypeOK /\ IdsSpent /\ HeldOnce /\ TablesAgree /\ OutcomesCounted /\ RepliesOwn
      /\ OwnReply
  BY DEF VhciInv
<1>2. /\ NewUrb(e)
      /\ UNCHANGED <<pending, outstanding, bySeqnum, resets, strangers, down, owed, late>>
  BY DEF OnSubmitClearHalt
<1>3. /\ urbs \in Nat /\ urbs' = n /\ n = urbs + 1 /\ n \in 0..MaxUrbs /\ n \notin Held
      /\ ep' \in [Urbs -> Endpoints \cup {0}] /\ \A u \in 1..n : ep'[u] \in Endpoints
      /\ rets[n] = 0 /\ n \notin resets
      /\ \A u \in Urbs : u # n => (u > n <=> u > urbs)
      /\ 1..urbs \subseteq 1..n
  BY <1>0, <1>2, NewUrbIs
<1>4. /\ plane \in Plane /\ waiters \in [Keys -> Urbs \cup {0}] /\ 0 \notin Urbs
      /\ plane.verbs = {k \in Keys : waiters[k] # 0}
      /\ rets \in [Urbs -> Nat] /\ Len(pending) \in Nat
      /\ plane.nextVerb \in 1..n /\ \A k \in plane.verbs : k[2] < plane.nextVerb
      /\ plane.nextVerb \in Nat /\ plane.nextId \in [Endpoints -> Nat]
  BY <1>1, <1>3, SMTT(30) DEF VhciTypeOK, TablesAgree, IdsSpent, Urbs, Plane
<1>5. Pending' = Pending /\ Outstanding' = Outstanding
  BY <1>2 DEF Pending, Outstanding
<1>6. CASE ok
  <2>1. PICK k : k = VerbKey(plane, e)
    OBVIOUS
  <2>2. /\ plane' = HaltSent(plane, e) /\ waiters' = [waiters EXCEPT ![k] = n]
        /\ owedVerbs' \subseteq owedVerbs \cup {k} /\ UNCHANGED rets
    BY <2>1, <1>0, <1>6 DEF OnSubmitClearHalt
  <2>3. k \in Keys /\ k[2] = plane.nextVerb
    <3>1. plane.nextVerb \in Ids
      BY <1>3, <1>4, DataPlaneAssumption DEF Ids, Urbs
    <3> QED
      BY <3>1, <2>1, KeysAre DEF VerbKey
  <2>4. k \notin plane.verbs /\ waiters[k] = 0
    BY <2>3, <1>4
  <2>5. /\ plane' \in Plane /\ plane'.table = plane.table /\ plane'.nextId = plane.nextId
        /\ plane'.partial = plane.partial /\ plane'.verbs = plane.verbs \cup {k}
        /\ plane'.nextVerb = plane.nextVerb + 1
    BY <2>1, <2>2, <2>3, <1>4, HaltSentIs
  <2>6. Waiting' = Waiting \cup {n} /\ Held' = Held \cup {n}
    <3>1. Waiting' = Waiting \cup {n}
      BY <2>2, <2>3, <2>4, <1>4 DEF Waiting
    <3> QED
      BY <3>1, <1>5 DEF Held
  <2>7. VhciTypeOK'
    BY <2>2, <2>3, <2>5, <1>1, <1>2, <1>3 DEF VhciTypeOK
  <2>8. IdsSpent'
    <3>1. \A f \in Endpoints :
             plane'.nextId[f] >= 1 /\ plane'.nextId[f] + Len(pending') <= n + 1
      BY <2>5, <1>1, <1>2, <1>3, <1>4 DEF IdsSpent
    <3>2. plane'.nextVerb \in 1..(n + 1)
      BY <2>5, <1>3, <1>4
    <3>3. \A l \in plane'.verbs : l[2] < plane'.nextVerb
      <4>1. \A l \in plane.verbs : l[2] \in Nat
        BY <1>4, KeysAre DEF Plane, Ids
      <4> QED
        BY <4>1, <2>3, <2>5, <1>4
    <3> QED
      BY <3>1, <3>2, <3>3, <1>3 DEF IdsSpent
  <2>9. HeldOnce'
    <3>1. n \notin Waiting
      BY <1>3 DEF Held
    <3>2. \A l, m \in Keys : waiters'[l] # 0 /\ waiters'[l] = waiters'[m] => l = m
      BY <3>1, <2>2, <2>3, <1>1, <1>4 DEF HeldOnce, Waiting
    <3> QED
      BY <3>2, <2>6, <1>1, <1>2, <1>3, <1>5 DEF HeldOnce, Held
  <2>10. TablesAgree'
    <3>1. plane'.verbs = {l \in Keys : waiters'[l] # 0}
      BY <2>2, <2>3, <2>5, <1>4
    <3> QED
      BY <3>1, <2>5, <1>1, <1>2 DEF TablesAgree
  <2>11. OutcomesCounted'
    <3> SUFFICES ASSUME NEW u \in Urbs
                 PROVE  rets[u] + (IF u \in resets THEN 1 ELSE 0)
                            = IF u \in Held' \/ u > n THEN 0 ELSE 1
      BY <2>2, <1>2, <1>3 DEF OutcomesCounted
    <3>1. CASE u = n
      BY <3>1, <2>6, <1>3
    <3>2. CASE u # n
      BY <3>2, <2>6, <1>1, <1>3 DEF OutcomesCounted
    <3> QED
      BY <3>1, <3>2
  <2>12. RepliesOwn' /\ OwnReply'
    BY <2>5, <1>1, <1>2 DEF RepliesOwn, Drawn, OwnReply
  <2> QED
    BY <2>7, <2>8, <2>9, <2>10, <2>11, <2>12 DEF VhciInv
<1>7. CASE ~ok
  <2>1. plane' = HaltFailed(plane) /\ rets' = Return({n}) /\ UNCHANGED <<waiters, owedVerbs>>
    BY <1>0, <1>7 DEF OnSubmitClearHalt
  <2>2. /\ plane' \in Plane /\ plane'.table = plane.table /\ plane'.nextId = plane.nextId
        /\ plane'.partial = plane.partial /\ plane'.verbs = plane.verbs
        /\ plane'.nextVerb = plane.nextVerb + 1
    BY <2>1, <1>4, HaltFailedIs
  <2>3. Waiting' = Waiting /\ Held' = Held
    BY <2>1, <1>5 DEF Waiting, Held
  <2>4. rets' \in [Urbs -> Nat] /\ rets'[n] = 1 /\ \A u \in Urbs \ {n} : rets'[u] = rets[u]
    BY <2>1, <1>3, <1>4 DEF Return
  <2>5. VhciTypeOK'
    BY <2>1, <2>2, <2>4, <1>1, <1>2, <1>3 DEF VhciTypeOK
  <2>6. IdsSpent'
    <3>1. \A f \in Endpoints :
             plane'.nextId[f] >= 1 /\ plane'.nextId[f] + Len(pending') <= n + 1
      BY <2>2, <1>1, <1>2, <1>3, <1>4 DEF IdsSpent
    <3>2. plane'.nextVerb \in 1..(n + 1)
      BY <2>2, <1>3, <1>4
    <3>3. \A l \in plane'.verbs : l[2] < plane'.nextVerb
      <4>1. \A l \in plane.verbs : l[2] \in Nat
        BY <1>4, KeysAre DEF Plane, Ids
      <4> QED
        BY <4>1, <2>2, <1>4
    <3> QED
      BY <3>1, <3>2, <3>3, <1>3 DEF IdsSpent
  <2>7. HeldOnce'
    BY <2>1, <2>3, <1>1, <1>2, <1>3, <1>5 DEF HeldOnce
  <2>8. TablesAgree' /\ RepliesOwn' /\ OwnReply'
    BY <2>1, <2>2, <1>1, <1>2 DEF TablesAgree, RepliesOwn, Drawn, OwnReply
  <2>9. OutcomesCounted'
    <3> SUFFICES ASSUME NEW u \in Urbs
                 PROVE  rets'[u] + (IF u \in resets THEN 1 ELSE 0)
                            = IF u \in Held \/ u > n THEN 0 ELSE 1
      BY <2>3, <1>2, <1>3 DEF OutcomesCounted
    <3>1. CASE u = n
      BY <3>1, <2>4, <1>3
    <3>2. CASE u # n
      BY <3>2, <2>4, <1>1, <1>3 DEF OutcomesCounted
    <3> QED
      BY <3>1, <3>2
  <2> QED
    BY <2>5, <2>6, <2>7, <2>8, <2>9 DEF VhciInv
<1> QED
  BY <1>6, <1>7

\* CMD_UNLINK of a URB on the network.
LEMMA OnUnlinkOutstandingInv ==
    ASSUME VhciInv, NEW u \in Urbs, OnUnlinkOutstanding(u)
    PROVE  VhciInv'
<1>1. VhciTypeOK /\ IdsSpent /\ HeldOnce /\ TablesAgree /\ OutcomesCounted /\ RepliesOwn
      /\ OwnReply
  BY DEF VhciInv
<1>2. PICK k : k = bySeqnum[u]
  OBVIOUS
<1>3. /\ k # NoKey /\ plane' = Cancelled(plane, k)
      /\ outstanding' = [outstanding EXCEPT ![k] = 0]
      /\ bySeqnum' = [bySeqnum EXCEPT ![u] = NoKey]
      /\ resets' = resets \cup {u}
      /\ UNCHANGED <<pending, waiters, urbs, ep, rets, strangers, down, owed, owedVerbs,
                     late>>
  BY <1>2 DEF OnUnlinkOutstanding, UnlinkedPlane
<1>4. /\ k \in Keys /\ outstanding[k] = u /\ plane \in Plane
      /\ outstanding \in [Keys -> Urbs \cup {0}] /\ 0 \notin Urbs
      /\ bySeqnum \in [Urbs -> Keys \cup {NoKey}] /\ NoKey \notin Keys
  BY <1>1, <1>2, <1>3, KeysAre DEF VhciTypeOK, TablesAgree, Urbs
<1>5. UrbsOf({k}) = {u}
  BY <1>4 DEF UrbsOf
<1>6. Forget({k})
  BY <1>3, <1>4, <1>5 DEF Forget
<1>7. /\ outstanding' \in [Keys -> Urbs \cup {0}]
      /\ bySeqnum' \in [Urbs -> Keys \cup {NoKey}]
      /\ Outstanding' = Outstanding \ {u} /\ u \in Outstanding
      /\ \A l \in Keys : outstanding'[l] \in {0, outstanding[l]}
      /\ {l \in Keys : outstanding'[l] # 0} = plane.table \ {k}
      /\ \A l \in Keys : outstanding'[l] # 0 => bySeqnum'[outstanding'[l]] = l
      /\ \A w \in Urbs : bySeqnum'[w] # NoKey => outstanding'[bySeqnum'[w]] = w
  <2>1. {k} \in SUBSET Keys
    BY <1>4
  <2> QED
    BY <2>1, <1>1, <1>5, <1>6, ForgetIs
<1>8. /\ plane' \in Plane /\ plane'.table = plane.table \ {k}
      /\ plane'.partial = plane.partial \ {k} /\ plane'.verbs = plane.verbs
      /\ plane'.nextId = plane.nextId /\ plane'.nextVerb = plane.nextVerb
  <2>1. {k} \in SUBSET Keys /\ {} \in SUBSET Keys /\ plane.verbs \ {} = plane.verbs
    BY <1>4
  <2>2. PICK T, V : T = {k} /\ V = {}
    OBVIOUS
  <2>3. plane' = Expired(plane, T, V)
    BY <2>2, <1>3, <1>4, CancelledIs
  <2>4. /\ plane' \in Plane /\ plane'.table = plane.table \ T
        /\ plane'.partial = plane.partial \ T /\ plane'.verbs = plane.verbs \ V
        /\ plane'.nextId = plane.nextId /\ plane'.nextVerb = plane.nextVerb
    BY <2>3, <1>4, ExpiredIs
  <2> QED
    BY <2>1, <2>2, <2>4
<1>9. Pending' = Pending /\ Waiting' = Waiting /\ Held' = Held \ {u} /\ u \in Held
  <2>1. Pending' = Pending /\ Waiting' = Waiting
    BY <1>3 DEF Pending, Waiting
  <2> QED
    BY <2>1, <1>1, <1>7 DEF Held, HeldOnce
<1>10. VhciTypeOK'
  BY <1>1, <1>3, <1>7, <1>8, ZenonT(60) DEF VhciTypeOK
<1>11. IdsSpent' /\ OwnReply'
  BY <1>1, <1>3, <1>8 DEF IdsSpent, OwnReply
<1>12. HeldOnce'
  BY <1>1, <1>3, <1>7, <1>9 DEF HeldOnce
<1>13. TablesAgree'
  BY <1>1, <1>3, <1>7, <1>8 DEF TablesAgree
<1>14. OutcomesCounted'
  <2> SUFFICES ASSUME NEW w \in Urbs
               PROVE  rets[w] + (IF w \in resets' THEN 1 ELSE 0)
                          = IF w \in Held' \/ w > urbs THEN 0 ELSE 1
    BY <1>3 DEF OutcomesCounted
  <2>1. /\ rets[w] \in Nat /\ urbs \in Nat /\ w \in Nat
        /\ rets[w] + (IF w \in resets THEN 1 ELSE 0)
              = IF w \in Held \/ w > urbs THEN 0 ELSE 1
    BY <1>1 DEF VhciTypeOK, OutcomesCounted, Urbs
  <2>2. CASE w = u
    <3>1. w \in Held /\ w \notin Held' /\ ~(w > urbs) /\ w \in resets'
      BY <2>1, <2>2, <1>1, <1>3, <1>9 DEF HeldOnce
    <3> QED
      BY <3>1, <2>1
  <2>3. CASE w # u
    BY <2>1, <2>3, <1>3, <1>9
  <2> QED
    BY <2>2, <2>3
<1>15. RepliesOwn'
  <2>1. /\ plane'.nextId = plane.nextId /\ plane'.table \subseteq plane.table
        /\ owed' \subseteq owed /\ Elements(down') \subseteq Elements(down)
    BY <1>3, <1>8
  <2> QED
    BY <2>1, <1>1, <1>7, RepliesKeep
<1> QED
  BY <1>10, <1>11, <1>12, <1>13, <1>14, <1>15 DEF VhciInv

\* CMD_UNLINK of a URB that is still queued.
LEMMA OnUnlinkPendingInv ==
    ASSUME VhciInv, NEW u \in Urbs, OnUnlinkPending(u)
    PROVE  VhciInv'
<1>1. VhciTypeOK /\ IdsSpent /\ HeldOnce /\ TablesAgree /\ OutcomesCounted /\ RepliesOwn
      /\ OwnReply
  BY DEF VhciInv
<1>2. /\ u \in Pending /\ pending' = Without(pending, {u}) /\ resets' = resets \cup {u}
      /\ UNCHANGED <<plane, outstanding, bySeqnum, waiters, urbs, ep, rets, strangers,
                     down, owed, owedVerbs, late>>
  BY DEF OnUnlinkPending, net
<1>3. /\ pending \in Seq(Urbs) /\ Increasing(pending) /\ Urbs \in SUBSET Nat
      /\ Len(pending) \in Nat
  BY <1>1 DEF VhciTypeOK, HeldOnce, Urbs
<1>4. /\ pending' \in Seq(Urbs) /\ Pending' = Pending \ {u} /\ Increasing(pending')
      /\ Len(pending') <= Len(pending) /\ Len(pending') \in Nat
  BY <1>2, <1>3, WithoutIs, WithoutIncreasing DEF Pending
<1>5. /\ Outstanding' = Outstanding /\ Waiting' = Waiting
      /\ Held' = Held \ {u} /\ u \in Held
  <2>1. Outstanding' = Outstanding /\ Waiting' = Waiting
    BY <1>2 DEF Outstanding, Waiting
  <2> QED
    BY <2>1, <1>1, <1>2, <1>4 DEF Held, HeldOnce
<1>6. VhciTypeOK'
  BY <1>1, <1>2, <1>4 DEF VhciTypeOK
<1>7. IdsSpent'
  BY <1>1, <1>2, <1>3, <1>4 DEF IdsSpent, VhciTypeOK, Plane
<1>8. HeldOnce'
  BY <1>1, <1>2, <1>4, <1>5 DEF HeldOnce
<1>9. OutcomesCounted'
  <2> SUFFICES ASSUME NEW w \in Urbs
               PROVE  rets[w] + (IF w \in resets' THEN 1 ELSE 0)
                          = IF w \in Held' \/ w > urbs THEN 0 ELSE 1
    BY <1>2 DEF OutcomesCounted
  <2>1. /\ rets[w] \in Nat /\ urbs \in Nat /\ w \in Nat
        /\ rets[w] + (IF w \in resets THEN 1 ELSE 0)
              = IF w \in Held \/ w > urbs THEN 0 ELSE 1
    BY <1>1 DEF VhciTypeOK, OutcomesCounted, Urbs
  <2>2. CASE w = u
    <3>1. w \in Held /\ w \notin Held' /\ ~(w > urbs) /\ w \in resets'
      BY <2>1, <2>2, <1>1, <1>2, <1>5 DEF HeldOnce
    <3> QED
      BY <3>1, <2>1
  <2>3. CASE w # u
    BY <2>1, <2>3, <1>2, <1>5
  <2> QED
    BY <2>2, <2>3
<1>10. TablesAgree' /\ RepliesOwn' /\ OwnReply'
  BY <1>1, <1>2 DEF TablesAgree, RepliesOwn, Drawn, OwnReply
<1> QED
  BY <1>6, <1>7, <1>8, <1>9, <1>10 DEF VhciInv

\* sweepPending: the late ones among the queued are returned.
LEMMA KernelDrainedInv ==
    ASSUME VhciInv, NEW closed \in BOOLEAN, KernelDrained(closed)
    PROVE  VhciInv'
<1>1. VhciTypeOK /\ IdsSpent /\ HeldOnce /\ TablesAgree /\ OutcomesCounted /\ RepliesOwn
      /\ OwnReply
  BY DEF VhciInv
<1>2. /\ pending' = Without(pending, late) /\ rets' = Return(Pending \cap late)
      /\ UNCHANGED <<plane, outstanding, bySeqnum, waiters, urbs, ep, resets, strangers,
                     down, owed, owedVerbs, late>>
  BY DEF KernelDrained, net
<1>3. /\ pending \in Seq(Urbs) /\ Increasing(pending) /\ Urbs \in SUBSET Nat
      /\ Len(pending) \in Nat
  BY <1>1 DEF VhciTypeOK, HeldOnce, Urbs
<1>4. /\ pending' \in Seq(Urbs) /\ Pending' = Pending \ late /\ Increasing(pending')
      /\ Len(pending') <= Len(pending) /\ Len(pending') \in Nat
  BY <1>2, <1>3, WithoutIs, WithoutIncreasing DEF Pending
<1>5. Outstanding' = Outstanding /\ Waiting' = Waiting
  BY <1>2 DEF Outstanding, Waiting
<1>6. rets' \in [Urbs -> Nat] /\ OutcomesCounted'
  <2>1. PICK S : S = Pending \cap late
    OBVIOUS
  <2>2. S \subseteq Held /\ \A u \in Urbs : u \in Held' <=> u \in Held /\ u \notin S
    BY <2>1, <1>1, <1>4, <1>5 DEF Held, HeldOnce
  <2>3. rets' = Return(S) /\ UNCHANGED <<urbs, resets>>
    BY <2>1, <1>2
  <2> QED
    BY <2>2, <2>3, <1>1, ReturnCounts
<1>7. VhciTypeOK'
  BY <1>1, <1>2, <1>4, <1>6 DEF VhciTypeOK
<1>8. IdsSpent'
  BY <1>1, <1>2, <1>3, <1>4 DEF IdsSpent, VhciTypeOK, Plane
<1>9. HeldOnce'
  BY <1>1, <1>2, <1>4, <1>5 DEF HeldOnce, Held
<1>10. TablesAgree' /\ RepliesOwn' /\ OwnReply'
  BY <1>1, <1>2 DEF TablesAgree, RepliesOwn, Drawn, OwnReply
<1> QED
  BY <1>6, <1>7, <1>8, <1>9, <1>10 DEF VhciInv

\* What the plane gives up, the bridge returns: sweepDeadlines and failAll, for any
\* set of requests and verbs.
LEMMA GiveUpInv ==
    ASSUME VhciInv, NEW T \in SUBSET Keys, NEW V \in SUBSET Keys, NEW X \in SUBSET Pending,
           plane' = Expired(plane, T, V),
           rets' = Return(UrbsOf(T) \cup WaitersOf(V) \cup X),
           Forget(T), ForgetWaiters(V),
           pending' \in Seq(Urbs), Increasing(pending'), Pending' = Pending \ X,
           Len(pending') <= Len(pending),
           UNCHANGED <<urbs, ep, resets, strangers, owed, owedVerbs, late>>,
           down' \in Seq(Records), Elements(down') \subseteq Elements(down)
    PROVE  VhciInv'
<1>1. VhciTypeOK /\ IdsSpent /\ HeldOnce /\ TablesAgree /\ OutcomesCounted /\ RepliesOwn
      /\ OwnReply
  BY DEF VhciInv
<1>2. /\ plane \in Plane /\ Len(pending) \in Nat /\ Len(pending') \in Nat /\ urbs \in Nat
      /\ plane.nextId \in [Endpoints -> Nat]
  BY <1>1 DEF VhciTypeOK, Plane
<1>3. /\ plane' \in Plane /\ plane'.table = plane.table \ T
      /\ plane'.partial = plane.partial \ T /\ plane'.verbs = plane.verbs \ V
      /\ plane'.nextId = plane.nextId /\ plane'.nextVerb = plane.nextVerb
  BY <1>2, ExpiredIs
<1>4. /\ outstanding' \in [Keys -> Urbs \cup {0}]
      /\ bySeqnum' \in [Urbs -> Keys \cup {NoKey}]
      /\ Outstanding' = Outstanding \ UrbsOf(T) /\ UrbsOf(T) \subseteq Outstanding
      /\ \A k \in Keys : outstanding'[k] \in {0, outstanding[k]}
      /\ {k \in Keys : outstanding'[k] # 0} = plane.table \ T
      /\ \A k \in Keys : outstanding'[k] # 0 => bySeqnum'[outstanding'[k]] = k
      /\ \A u \in Urbs : bySeqnum'[u] # NoKey => outstanding'[bySeqnum'[u]] = u
  BY <1>1, ForgetIs
<1>5. /\ waiters' \in [Keys -> Urbs \cup {0}]
      /\ Waiting' = Waiting \ WaitersOf(V) /\ WaitersOf(V) \subseteq Waiting
      /\ {k \in Keys : waiters'[k] # 0} = plane.verbs \ V
      /\ \A k, l \in Keys : waiters'[k] # 0 /\ waiters'[k] = waiters'[l] => k = l
  BY <1>1, ForgetWaitersIs
<1>6. rets' \in [Urbs -> Nat] /\ OutcomesCounted'
  <2>1. PICK S : S = UrbsOf(T) \cup WaitersOf(V) \cup X
    OBVIOUS
  <2>2. S \subseteq Held /\ \A u \in Urbs : u \in Held' <=> u \in Held /\ u \notin S
    BY <2>1, <1>1, <1>4, <1>5 DEF Held, HeldOnce
  <2>3. rets' = Return(S) /\ UNCHANGED <<urbs, resets>>
    BY <2>1
  <2> QED
    BY <2>2, <2>3, <1>1, ReturnCounts
<1>7. VhciTypeOK'
  BY <1>1, <1>3, <1>4, <1>5, <1>6 DEF VhciTypeOK
<1>8. IdsSpent'
  <2>1. \A e \in Endpoints :
           plane'.nextId[e] >= 1 /\ plane'.nextId[e] + Len(pending') <= urbs + 1
    BY <1>1, <1>2, <1>3 DEF IdsSpent
  <2> QED
    BY <2>1, <1>1, <1>3 DEF IdsSpent
<1>9. HeldOnce'
  BY <1>1, <1>4, <1>5 DEF HeldOnce, Held
<1>10. TablesAgree'
  BY <1>1, <1>3, <1>4, <1>5 DEF TablesAgree
<1>11. RepliesOwn'
  <2>1. /\ plane'.table \subseteq plane.table /\ owed' \subseteq owed
    BY <1>3
  <2> QED
    BY <2>1, <1>1, <1>3, <1>4, RepliesKeep
<1>12. OwnReply'
  BY <1>1 DEF OwnReply
<1> QED
  BY <1>6, <1>7, <1>8, <1>9, <1>10, <1>11, <1>12 DEF VhciInv

\* failAll: everything held is returned.
LEMMA FailAllInv ==
    ASSUME VhciInv, FailAll,
           UNCHANGED <<urbs, ep, resets, strangers, down, owed, owedVerbs, late>>
    PROVE  VhciInv'
<1>1. VhciTypeOK /\ TablesAgree
  BY DEF VhciInv
<1>2. /\ plane' = Drained(plane)
      /\ rets' = Return(Outstanding \cup Pending \cup WaitersOf(plane.verbs))
      /\ Forget(Keys) /\ ForgetWaiters(plane.verbs) /\ pending' = <<>>
  BY DEF FailAll
<1>3. /\ plane \in Plane /\ plane.verbs \in SUBSET Keys /\ plane.table \in SUBSET Keys
      /\ plane.partial \in SUBSET Keys
  BY <1>1 DEF VhciTypeOK, Plane
<1>4. PICK T \in SUBSET Keys, V \in SUBSET Keys, X \in SUBSET Pending :
         T = Keys /\ V = plane.verbs /\ X = Pending
  BY <1>3
<1>5. plane' = Expired(plane, T, V)
  <2>1. Drained(plane) = Expired(plane, plane.table \cup plane.partial, plane.verbs)
    BY <1>3, DrainedIs
  <2>2. Expired(plane, plane.table \cup plane.partial, plane.verbs)
            = Expired(plane, T, plane.verbs)
    BY <1>3, <1>4 DEF Expired
  <2> QED
    BY <2>1, <2>2, <1>2, <1>4
<1>6. rets' = Return(UrbsOf(T) \cup WaitersOf(V) \cup X)
  <2>1. UrbsOf(T) = Outstanding
    BY <1>4 DEF UrbsOf, Outstanding
  <2>2. Outstanding \cup Pending \cup WaitersOf(plane.verbs)
            = UrbsOf(T) \cup WaitersOf(V) \cup X
    BY <2>1, <1>4
  <2> QED
    BY <2>2, <1>2
<1>7. /\ pending' \in Seq(Urbs) /\ Increasing(pending') /\ Pending' = Pending \ X
      /\ Len(pending') <= Len(pending)
  <2>1. <<>> \in Seq(Urbs) /\ Len(<<>>) = 0
    OBVIOUS
  <2>2. Pending' = {}
    BY <2>1, <1>2, ElementsOf DEF Pending
  <2>3. Len(pending) \in Nat
    BY <1>1 DEF VhciTypeOK
  <2> QED
    BY <2>1, <2>2, <2>3, <1>2, <1>4 DEF Increasing
<1>8. down' \in Seq(Records) /\ Elements(down') \subseteq Elements(down)
  BY <1>1 DEF VhciTypeOK
<1> QED
  BY <1>2, <1>4, <1>5, <1>6, <1>7, <1>8, GiveUpInv

LEMMA KernelFatalInv == ASSUME VhciInv, KernelFatal PROVE VhciInv'
<1>1. FailAll /\ UNCHANGED <<urbs, ep, resets, strangers, down, owed, owedVerbs, late>>
  BY DEF KernelFatal, net
<1> QED
  BY <1>1, FailAllInv

\* The end of poll().
LEMMA PollEndInv == ASSUME VhciInv, PollEnd PROVE VhciInv'
<1>1. /\ UNCHANGED <<urbs, ep, resets, strangers, down, owed, owedVerbs, late>>
      /\ FailAll \/ UNCHANGED <<plane, rets, outstanding, bySeqnum, waiters, pending>>
  BY Zenon DEF PollEnd, net
<1>2. CASE FailAll
  BY <1>1, <1>2, FailAllInv
<1>3. CASE UNCHANGED <<plane, rets, outstanding, bySeqnum, waiters, pending>>
  <2>1. UNCHANGED heldVars /\ UNCHANGED <<down, owed, owedVerbs>>
    BY <1>1, <1>3 DEF heldVars
  <2>2. late' \subseteq Urbs
    BY <1>1 DEF VhciInv, VhciTypeOK
  <2> QED
    BY <2>1, <2>2, StillInv
<1> QED
  BY <1>1, <1>2, <1>3

\* The steps that touch no URB: an unlink that finds nothing, the end of a stage, the
\* clock, and the peer's end.
LEMMA BystandersInv ==
    ASSUME VhciInv,
           \/ \E u \in Urbs : OnUnlinkOther(u) \/ Expire(u)
           \/ AdmitDone
           \/ LinkDies
    PROVE  VhciInv'
<1>1. /\ UNCHANGED <<plane, pending, outstanding, bySeqnum, waiters, urbs, ep, rets,
                     resets, strangers, down, owed, owedVerbs>>
      /\ UNCHANGED late \/ \E u \in Urbs : late' = late \cup {u}
  BY Zenon DEF OnUnlinkOther, Expire, AdmitDone, LinkDies, bridge, kernel, net
<1>2. late' \subseteq Urbs
  BY <1>1 DEF VhciInv, VhciTypeOK
<1>3. UNCHANGED heldVars /\ UNCHANGED <<down, owed, owedVerbs>>
  BY <1>1 DEF heldVars
<1> QED
  BY <1>2, <1>3, StillInv

\* sweepDeadlines, whatever becomes of the record that ended pump().
LEMMA SweepPlaneInv ==
    ASSUME VhciInv, SweepPlane, UNCHANGED <<owed, owedVerbs>>,
           down' \in Seq(Records), Elements(down') \subseteq Elements(down)
    PROVE  VhciInv'
<1>1. VhciTypeOK /\ HeldOnce
  BY DEF VhciInv
<1>2. /\ plane' = Expired(plane, LateKeys, LateVerbs)
      /\ rets' = Return(UrbsOf(plane.table \ plane'.table)
                          \cup WaitersOf(plane.verbs \ plane'.verbs))
      /\ Forget(plane.table \ plane'.table)
      /\ ForgetWaiters(plane.verbs \ plane'.verbs)
      /\ UNCHANGED <<pending, urbs, ep, resets, strangers, late>>
  BY DEF SweepPlane
<1>3. plane \in Plane /\ plane.table \in SUBSET Keys /\ plane.verbs \in SUBSET Keys
  BY <1>1 DEF VhciTypeOK, Plane
<1>4. PICK T \in SUBSET Keys, V \in SUBSET Keys, X \in SUBSET Pending :
         T = LateKeys /\ V = LateVerbs /\ X = {}
  BY <1>3 DEF LateKeys, LateVerbs
<1>5. plane' = Expired(plane, T, V)
  BY <1>2, <1>4
<1>6. plane'.table = plane.table \ T /\ plane'.verbs = plane.verbs \ V
  BY <1>3, <1>5, ExpiredIs
<1>7. plane.table \ plane'.table = T /\ plane.verbs \ plane'.verbs = V
  <2>1. T \subseteq plane.table /\ V \subseteq plane.verbs
    BY <1>4 DEF LateKeys, LateVerbs
  <2> QED
    BY <2>1, <1>6
<1>8. UrbsOf(T) \cup WaitersOf(V) = UrbsOf(T) \cup WaitersOf(V) \cup X
  BY <1>4
<1>9. /\ rets' = Return(UrbsOf(T) \cup WaitersOf(V) \cup X)
      /\ Forget(T) /\ ForgetWaiters(V)
  BY <1>2, <1>7, <1>8
<1>10. /\ pending' \in Seq(Urbs) /\ Increasing(pending') /\ Pending' = Pending \ X
       /\ Len(pending') <= Len(pending)
  <2>1. pending \in Seq(Urbs) /\ Increasing(pending) /\ Len(pending) \in Nat
    BY <1>1 DEF VhciTypeOK, HeldOnce
  <2> QED
    BY <2>1, <1>2, <1>4 DEF Pending
<1> QED
  BY <1>2, <1>5, <1>9, <1>10, GiveUpInv

LEMMA NetEndsInv ==
    ASSUME VhciInv, NetDrained \/ NetLost \/ NetFatal
    PROVE  VhciInv'
<1>1. down \in Seq(Records)
  BY DEF VhciInv, VhciTypeOK
<1>2. CASE NetDrained \/ NetLost
  <2>1. SweepPlane /\ UNCHANGED <<down, owed, owedVerbs>>
    BY <1>2 DEF NetDrained, NetLost, net
  <2> QED
    BY <2>1, <1>1, SweepPlaneInv
<1>3. CASE NetFatal
  <2>1. SweepPlane /\ UNCHANGED <<owed, owedVerbs>> /\ down # <<>> /\ down' = Tail(down)
    BY <1>3 DEF NetFatal
  <2>2. down' \in Seq(Records) /\ Elements(down') \subseteq Elements(down)
    BY <2>1, <1>1, TailIs
  <2> QED
    BY <2>1, <2>2, SweepPlaneInv
<1> QED
  BY <1>2, <1>3

\* A reply names the request it answers.
LEMMA ExporterAnswersInv ==
    ASSUME VhciInv, NEW o \in owed, NEW n \in 1..MaxSegs, ExporterAnswers(o, n)
    PROVE  VhciInv'
<1>1. /\ owed \subseteq [key : Keys, urb : Urbs] /\ down \in Seq(Records)
      /\ owedVerbs \subseteq Keys /\ late \subseteq Urbs /\ RepliesOwn
  BY DEF VhciInv, VhciTypeOK
<1>2. PICK reply : reply = [i \in 1..n |->
                    [type |-> IF i = 1 THEN "Complete" ELSE "Data",
                     key |-> o.key, more |-> i < n, urb |-> o.urb]]
  OBVIOUS
<1>3. /\ owed' \subseteq owed /\ down' = down \o reply
      /\ UNCHANGED <<plane, pending, outstanding, bySeqnum, waiters, urbs, ep, rets, resets,
                     strangers, owedVerbs, late>>
  BY <1>2 DEF ExporterAnswers, bridge, kernel
<1>4. o.key \in Keys /\ o.urb \in Urbs
  BY <1>1
<1>5. n \in Nat
  BY VhciImportAssumption
<1>6. \A i \in 1..n : /\ reply[i] \in Records
                      /\ reply[i].key = o.key /\ reply[i].urb = o.urb
  <2> TAKE i \in 1..n
  <2>1. (i < n) \in BOOLEAN
    OBVIOUS
  <2>2. (IF i = 1 THEN "Complete" ELSE "Data") \in {"Complete", "Data"}
    OBVIOUS
  <2> QED
    BY <2>1, <2>2, <1>2, <1>4 DEF Records
<1>7. reply \in Seq(Records) /\ DOMAIN reply = 1..n
  BY <1>2, <1>5, <1>6, SMTT(30)
<1>8. down' \in Seq(Records) /\ Elements(down') = Elements(down) \cup Elements(reply)
  BY <1>1, <1>3, <1>7, ConcatIs
<1>9. \A r \in Elements(reply) : r.key = o.key /\ r.urb = o.urb
  BY <1>6, <1>7 DEF Elements
<1>10. \A k : Drawn(k) => Drawn(k)'
  BY <1>3 DEF Drawn
<1>11. RepliesOwn'
  BY <1>1, <1>3, <1>8, <1>9, <1>10 DEF RepliesOwn
<1>12. UNCHANGED heldVars
  BY <1>3 DEF heldVars
<1> QED
  BY <1>1, <1>3, <1>8, <1>11, <1>12, QuietInv

\* An ERROR or an acknowledgement answers no request.
LEMMA ExporterSaysInv ==
    ASSUME VhciInv,
           \/ \E o \in owed : ExporterRefuses(o)
           \/ \E k \in owedVerbs : ExporterAcks(k)
    PROVE  VhciInv'
<1>1. /\ owed \subseteq [key : Keys, urb : Urbs] /\ down \in Seq(Records)
      /\ owedVerbs \subseteq Keys /\ late \subseteq Urbs /\ RepliesOwn
  BY DEF VhciInv, VhciTypeOK
<1>2. /\ owed' \subseteq owed /\ owedVerbs' \subseteq owedVerbs
      /\ UNCHANGED <<plane, pending, outstanding, bySeqnum, waiters, urbs, ep, rets, resets,
                     strangers, late>>
  BY DEF ExporterRefuses, ExporterAcks, bridge, kernel
<1>3. PICK r : r \in Records /\ r.type \in {"Error", "CtrlAck"} /\ down' = Append(down, r)
  <2>1. CASE \E o \in owed : ExporterRefuses(o)
    <3>1. [type |-> "Error"] \in Records
      BY DEF Records
    <3>2. down' = Append(down, [type |-> "Error"])
      BY <2>1 DEF ExporterRefuses
    <3> QED
      BY <3>1, <3>2
  <2>2. CASE \E k \in owedVerbs : ExporterAcks(k)
    <3>1. PICK k \in owedVerbs : ExporterAcks(k)
      BY <2>2
    <3>2. k[2] \in Ids
      BY <1>1, KeysAre
    <3>3. [type |-> "CtrlAck", key |-> <<ChannelSession, k[2]>>] \in Records
      BY <3>2 DEF Records
    <3>4. down' = Append(down, [type |-> "CtrlAck", key |-> <<ChannelSession, k[2]>>])
      BY <3>1 DEF ExporterAcks
    <3> QED
      BY <3>3, <3>4
  <2> QED
    BY <2>1, <2>2
<1>4. down' \in Seq(Records) /\ Elements(down') = Elements(down) \cup {r}
  BY <1>1, <1>3, AppendIs
<1>5. \A k : Drawn(k) => Drawn(k)'
  BY <1>2 DEF Drawn
<1>6. RepliesOwn'
  BY <1>1, <1>2, <1>3, <1>4, <1>5 DEF RepliesOwn
<1>7. UNCHANGED heldVars
  BY <1>2 DEF heldVars
<1> QED
  BY <1>1, <1>2, <1>4, <1>6, <1>7, QuietInv

\* What pump() makes of a record, given that a reply is only put together for a
\* request in the table.
LEMMA VerdictIs ==
    ASSUME NEW p, p.partial \subseteq p.table, NEW r \in Records, NEW v,
           v = Verdict(p, r), v # "Fatal"
    PROVE  \/ /\ v = "Deliver" /\ r.type \in {"Complete", "Data"} /\ r.key \in p.table
           \/ /\ v = "Keep" /\ r.type \in {"Complete", "Data"} /\ r.key \in p.table
           \/ v = "Verb" /\ r.type = "CtrlAck" /\ r.key \in p.verbs
           \/ v = "Drop" /\ ~(r.type = "Data" /\ ~r.more)
<1>1. r.type \in {"Complete", "Data", "CtrlAck", "Error"}
  BY DEF Records
<1>2. CASE r.type = "Complete"
  BY <1>2 DEF Verdict
<1>3. CASE r.type = "Data"
  BY <1>3 DEF Verdict
<1>4. CASE r.type = "CtrlAck"
  BY <1>4 DEF Verdict
<1>5. CASE r.type = "Error"
  BY <1>5 DEF Verdict
<1> QED
  BY <1>1, <1>2, <1>3, <1>4, <1>5

\* A record that does not end the session.
LEMMA ReceiveInv == ASSUME VhciInv, Receive PROVE VhciInv'
<1>1. VhciTypeOK /\ IdsSpent /\ HeldOnce /\ TablesAgree /\ OutcomesCounted /\ RepliesOwn
      /\ OwnReply
  BY DEF VhciInv
<1>2. PICK r, v : r = Head(down) /\ v = Verdict(plane, r)
  OBVIOUS
<1>3. /\ down # <<>> /\ v # "Fatal" /\ down' = Tail(down) /\ plane' = Handled(plane, r, v)
      /\ UNCHANGED <<pending, urbs, ep, resets, owed, owedVerbs, late>>
  BY <1>2 DEF Receive
<1>4. /\ plane \in Plane /\ down \in Seq(Records) /\ plane.table \in SUBSET Keys
      /\ plane.verbs \in SUBSET Keys /\ plane.partial \subseteq plane.table
      /\ pending \in Seq(Urbs) /\ Increasing(pending) /\ Len(pending) \in Nat
      /\ outstanding \in [Keys -> Urbs \cup {0}] /\ waiters \in [Keys -> Urbs \cup {0}]
      /\ bySeqnum \in [Urbs -> Keys \cup {NoKey}]
  BY <1>1 DEF VhciTypeOK, Plane, HeldOnce, TablesAgree
<1>5. /\ r \in Records /\ r \in Elements(down) /\ down' \in Seq(Records)
      /\ Elements(down') \subseteq Elements(down)
  BY <1>2, <1>3, <1>4, TailIs
<1>6. /\ pending' \in Seq(Urbs) /\ Increasing(pending') /\ Pending' = Pending
      /\ Len(pending') <= Len(pending)
  BY <1>3, <1>4 DEF Pending
<1>7. PICK none \in SUBSET Keys, nobody \in SUBSET Pending : none = {} /\ nobody = {}
  OBVIOUS
<1>8. UrbsOf(none) = {} /\ WaitersOf(none) = {}
  BY <1>7 DEF UrbsOf, WaitersOf
<1>9. CASE v = "Deliver"
  <2>1. /\ rets' = Return(UrbsOf({r.key}))
        /\ strangers' = strangers \cup (UrbsOf({r.key}) \ {r.urb})
        /\ Forget({r.key}) /\ UNCHANGED waiters
    BY <1>2, <1>9 DEF Receive
  <2>2. r.key \in Keys /\ r.type \in {"Complete", "Data"}
    BY <1>2, <1>3, <1>4, <1>5, <1>9, VerdictIs
  <2>3. PICK T \in SUBSET Keys : T = {r.key}
    BY <2>2
  <2>4. plane' = Expired(plane, T, none)
    <3>1. Handled(plane, r, v) = Cancelled(plane, r.key)
      BY <1>9 DEF Handled, Cancelled
    <3> QED
      BY <3>1, <2>2, <2>3, <1>3, <1>4, <1>7, CancelledIs
  <2>5. UrbsOf({r.key}) \subseteq {r.urb}
    BY <2>2, <1>1, <1>5 DEF RepliesOwn, UrbsOf
  <2>6. UNCHANGED strangers
    BY <2>1, <2>5
  <2>7. rets' = Return(UrbsOf(T) \cup WaitersOf(none) \cup nobody)
    <3>1. UrbsOf({r.key}) = UrbsOf(T) \cup WaitersOf(none) \cup nobody
      BY <2>3, <1>7, <1>8
    <3> QED
      BY <3>1, <2>1
  <2>8. Forget(T) /\ ForgetWaiters(none)
    BY <2>1, <2>3, <1>4, <1>7 DEF ForgetWaiters
  <2>9. Pending' = Pending \ nobody
    BY <1>6, <1>7
  <2> QED
    BY <2>4, <2>6, <2>7, <2>8, <2>9, <1>3, <1>5, <1>6, GiveUpInv
<1>10. CASE v = "Verb"
  <2>1. /\ rets' = Return(WaitersOf({r.key})) /\ ForgetWaiters({r.key})
        /\ UNCHANGED <<outstanding, bySeqnum, strangers>>
    BY <1>2, <1>10 DEF Receive
  <2>2. r.key \in Keys
    BY <1>2, <1>3, <1>4, <1>5, <1>10, VerdictIs
  <2>3. PICK V \in SUBSET Keys : V = {r.key}
    BY <2>2
  <2>4. plane' = Expired(plane, none, V)
    <3>1. plane' = [plane EXCEPT !.verbs = @ \ V]
      BY <2>3, <1>3, <1>10 DEF Handled
    <3>2. plane.table \ none = plane.table /\ plane.partial \ none = plane.partial
      BY <1>7
    <3> QED
      BY <3>1, <3>2, <1>4 DEF Expired, Plane
  <2>5. rets' = Return(UrbsOf(none) \cup WaitersOf(V) \cup nobody)
    <3>1. WaitersOf({r.key}) = UrbsOf(none) \cup WaitersOf(V) \cup nobody
      BY <2>3, <1>7, <1>8
    <3> QED
      BY <3>1, <2>1
  <2>6. Forget(none) /\ ForgetWaiters(V)
    BY <2>1, <2>3, <1>4, <1>7, <1>8 DEF Forget
  <2>7. Pending' = Pending \ nobody
    BY <1>6, <1>7
  <2> QED
    BY <2>1, <2>4, <2>5, <2>6, <2>7, <1>3, <1>5, <1>6, GiveUpInv
<1>11. CASE v \in {"Keep", "Drop"}
  <2>1. UNCHANGED <<outstanding, bySeqnum, waiters, rets, strangers>>
    BY <1>2, <1>11 DEF Receive
  <2>2. /\ plane' \in Plane /\ plane'.table = plane.table /\ plane'.verbs = plane.verbs
        /\ plane'.nextId = plane.nextId /\ plane'.nextVerb = plane.nextVerb
        /\ plane'.partial \subseteq plane'.table
    <3>1. CASE v = "Drop"
      <4>1. ~(r.type = "Data" /\ ~r.more)
        BY <3>1, <1>2, <1>3, <1>4, <1>5, VerdictIs
      <4>2. plane' = plane
        BY <4>1, <3>1, <1>3 DEF Handled
      <4> QED
        BY <4>2, <1>4
    <3>2. CASE v = "Keep"
      <4>1. r.key \in plane.table
        BY <3>2, <1>2, <1>3, <1>4, <1>5, VerdictIs
      <4>2. plane' = [plane EXCEPT !.partial = @ \cup {r.key}]
        BY <3>2, <1>3 DEF Handled
      <4> QED
        BY <4>1, <4>2, <1>4 DEF Plane
    <3> QED
      BY <3>1, <3>2, <1>11
  <2>3. Held' = Held /\ Outstanding' = Outstanding /\ Waiting' = Waiting
    BY <2>1, <1>6 DEF Held, Outstanding, Waiting
  <2>4. VhciTypeOK'
    BY <2>1, <2>2, <1>1, <1>3, <1>5 DEF VhciTypeOK
  <2>5. IdsSpent' /\ OwnReply'
    BY <2>1, <2>2, <1>1, <1>3 DEF IdsSpent, OwnReply
  <2>6. HeldOnce' /\ OutcomesCounted'
    BY <2>1, <2>3, <1>1, <1>3, <1>6 DEF HeldOnce, OutcomesCounted
  <2>7. TablesAgree'
    BY <2>1, <2>2, <1>1 DEF TablesAgree
  <2>8. RepliesOwn'
    BY <2>1, <2>2, <1>1, <1>3, <1>5, RepliesKeep
  <2> QED
    BY <2>4, <2>5, <2>6, <2>7, <2>8 DEF VhciInv
<1> QED
  BY <1>2, <1>3, <1>4, <1>5, <1>9, <1>10, <1>11, VerdictIs

\* The URB that has waited longest leaves the queue; the id it would get is new.
LEMMA AdmitNextIs ==
    ASSUME VhciInv, pending # <<>>, pending' = Tail(pending),
           NEW u, u = Head(pending), NEW e, e = ep[u], NEW k, k = RequestKey(plane, e)
    PROVE  /\ u \in Urbs /\ u \in Pending /\ e \in Endpoints /\ k \in Keys /\ ~Drawn(k)
           /\ k[1] = ChannelFor(e) /\ k[2] = plane.nextId[e]
           /\ k \notin plane.table /\ outstanding[k] = 0
           /\ pending' \in Seq(Urbs) /\ Increasing(pending') /\ Pending' = Pending \ {u}
           /\ Len(pending) \in Nat \ {0} /\ Len(pending') = Len(pending) - 1
<1>1. /\ pending \in Seq(Urbs) /\ Increasing(pending) /\ Pending \subseteq 1..urbs
      /\ urbs \in 0..MaxUrbs /\ MaxUrbs \in Nat /\ \A w \in 1..urbs : ep[w] \in Endpoints
      /\ plane.nextId \in [Endpoints -> Nat] /\ TablesAgree /\ Urbs \subseteq Nat
      /\ \A w \in plane.table : Drawn(w)
  BY DataPlaneAssumption, SMTT(30)
     DEF VhciInv, VhciTypeOK, HeldOnce, Held, Plane, RepliesOwn, Urbs
<1>2. /\ u \in Urbs /\ u \in Pending /\ pending' \in Seq(Urbs) /\ Increasing(pending')
      /\ Pending = Pending' \cup {u} /\ \A y \in Pending' : u < y
  BY <1>1, TailIs DEF Pending
<1>3. Pending' = Pending \ {u}
  BY <1>1, <1>2
<1>4. Len(pending) \in Nat \ {0} /\ Len(pending') = Len(pending) - 1
  BY <1>1
<1>5. e \in Endpoints
  BY <1>1, <1>2
<1>6. plane.nextId[e] >= 1 /\ plane.nextId[e] + Len(pending) <= urbs + 1
  BY <1>5 DEF VhciInv, IdsSpent
<1>7. plane.nextId[e] \in Ids
  BY <1>1, <1>4, <1>5, <1>6 DEF Ids
<1>8. k \in Keys /\ k[1] = ChannelFor(e) /\ k[2] = plane.nextId[e]
  BY <1>5, <1>7, KeysAre DEF RequestKey
<1>9. ~Drawn(k)
  <2> SUFFICES ASSUME Drawn(k) PROVE FALSE
    OBVIOUS
  <2>1. PICK f \in Endpoints : k[1] = ChannelFor(f) /\ k[2] < plane.nextId[f]
    BY DEF Drawn
  <2>2. f = e
    BY <2>1, <1>5, <1>8, KeysAre, ZenonT(60)
  <2> QED
    BY <2>1, <2>2, <1>1, <1>5, <1>8
<1>10. k \notin plane.table /\ outstanding[k] = 0
  BY <1>1, <1>8, <1>9 DEF TablesAgree
<1> QED
  BY <1>2, <1>3, <1>4, <1>5, <1>8, <1>9, <1>10

\* Drawing an id: the ids stay within the URBs that have left the queue, and what was
\* drawn before stays drawn.
LEMMA DrawIs ==
    ASSUME VhciInv, UNCHANGED urbs, NEW e \in Endpoints,
           plane'.nextId = [plane.nextId EXCEPT ![e] = @ + 1],
           plane'.verbs = plane.verbs, plane'.nextVerb = plane.nextVerb,
           Len(pending) \in Nat \ {0}, Len(pending') = Len(pending) - 1
    PROVE  /\ IdsSpent' /\ \A k \in Keys : Drawn(k) => Drawn(k)'
           /\ \A k : k[1] = ChannelFor(e) /\ k[2] = plane.nextId[e] => Drawn(k)'
<1>1. plane.nextId \in [Endpoints -> Nat] /\ urbs \in Nat /\ IdsSpent
  BY DEF VhciInv, VhciTypeOK, Plane
<1>2. \A f \in Endpoints : plane'.nextId[f] \in {plane.nextId[f], plane.nextId[f] + 1}
  BY <1>1
<1>3. \A f \in Endpoints :
         plane'.nextId[f] >= 1 /\ plane'.nextId[f] + Len(pending') <= urbs' + 1
  BY <1>1, <1>2, SMTT(30) DEF IdsSpent
<1>4. IdsSpent'
  BY <1>1, <1>3 DEF IdsSpent
<1>5. ASSUME NEW k \in Keys, Drawn(k) PROVE Drawn(k)'
  <2>1. PICK f \in Endpoints : k[1] = ChannelFor(f) /\ k[2] < plane.nextId[f]
    BY <1>5 DEF Drawn
  <2>2. k[2] < plane'.nextId[f]
    <3>1. plane'.nextId[f] = plane.nextId[f] \/ plane'.nextId[f] = plane.nextId[f] + 1
      BY <1>2
    <3>2. CASE plane'.nextId[f] = plane.nextId[f]
      BY <3>2, <2>1
    <3>3. CASE plane'.nextId[f] = plane.nextId[f] + 1
      <4>1. plane.nextId[f] \in Nat /\ k[2] \in Nat
        BY <1>1, KeysAre DEF Ids
      <4> QED
        BY <4>1, <3>3, <2>1
    <3> QED
      BY <3>1, <3>2, <3>3
  <2> QED
    BY <2>1, <2>2 DEF Drawn
<1>6. ASSUME NEW k, k[1] = ChannelFor(e), k[2] = plane.nextId[e] PROVE Drawn(k)'
  BY <1>1, <1>6 DEF Drawn
<1> QED
  BY <1>4, <1>5, <1>6

\* One round of admitPending.
LEMMA AdmitNextInv ==
    ASSUME VhciInv, NEW ok \in BOOLEAN, AdmitNext(ok)
    PROVE  VhciInv'
<1>1. VhciTypeOK /\ IdsSpent /\ HeldOnce /\ TablesAgree /\ OutcomesCounted /\ RepliesOwn
      /\ OwnReply
  BY DEF VhciInv
<1>2. PICK u, e, k : u = Head(pending) /\ e = ep[u] /\ k = RequestKey(plane, e)
  OBVIOUS
<1>3. /\ pending # <<>> /\ pending' = Tail(pending)
      /\ UNCHANGED <<waiters, urbs, ep, resets, strangers, down, owedVerbs, late>>
  BY DEF AdmitNext
<1>4. /\ u \in Urbs /\ u \in Pending /\ e \in Endpoints /\ k \in Keys /\ ~Drawn(k)
      /\ k[1] = ChannelFor(e) /\ k[2] = plane.nextId[e]
      /\ k \notin plane.table /\ outstanding[k] = 0
      /\ pending' \in Seq(Urbs) /\ Increasing(pending') /\ Pending' = Pending \ {u}
      /\ Len(pending) \in Nat \ {0} /\ Len(pending') = Len(pending) - 1
  BY <1>2, <1>3, AdmitNextIs
<1>5. /\ plane \in Plane /\ outstanding \in [Keys -> Urbs \cup {0}]
      /\ bySeqnum \in [Urbs -> Keys \cup {NoKey}] /\ waiters \in [Keys -> Urbs \cup {0}]
      /\ owed \subseteq [key : Keys, urb : Urbs] /\ down \in Seq(Records)
      /\ plane.table \subseteq Keys
  BY <1>1 DEF VhciTypeOK, Plane
<1>6. Waiting' = Waiting
  BY <1>3 DEF Waiting
<1>7. CASE u \in late
  <2>1. rets' = Return({u}) /\ UNCHANGED <<plane, outstanding, bySeqnum, owed>>
    BY <1>2, <1>7 DEF AdmitNext
  <2>2. Outstanding' = Outstanding
    BY <2>1 DEF Outstanding
  <2>3. rets' \in [Urbs -> Nat] /\ OutcomesCounted'
    <3>1. PICK S : S = {u}
      OBVIOUS
    <3>2. S \subseteq Held /\ \A w \in Urbs : w \in Held' <=> w \in Held /\ w \notin S
      BY <3>1, <2>2, <1>1, <1>4, <1>6 DEF Held, HeldOnce
    <3>3. rets' = Return(S) /\ UNCHANGED <<urbs, resets>>
      BY <3>1, <2>1, <1>3
    <3> QED
      BY <3>2, <3>3, <1>1, ReturnCounts
  <2>4. VhciTypeOK'
    BY <2>1, <2>3, <1>1, <1>3, <1>4 DEF VhciTypeOK
  <2>5. IdsSpent'
    <3>1. plane.nextId \in [Endpoints -> Nat] /\ urbs \in Nat
      BY <1>1 DEF VhciTypeOK, Plane
    <3> QED
      BY <3>1, <2>1, <1>1, <1>3, <1>4 DEF IdsSpent
  <2>6. HeldOnce'
    BY <2>1, <2>2, <1>1, <1>3, <1>4, <1>6 DEF HeldOnce, Held
  <2>7. TablesAgree' /\ RepliesOwn' /\ OwnReply'
    BY <2>1, <1>1, <1>3 DEF TablesAgree, RepliesOwn, Drawn, OwnReply
  <2> QED
    BY <2>3, <2>4, <2>5, <2>6, <2>7 DEF VhciInv
<1>8. CASE u \notin late /\ ~ok
  <2>1. /\ plane' = SubmitFailed(plane, e) /\ rets' = Return({u})
        /\ UNCHANGED <<outstanding, bySeqnum, owed>>
    BY <1>2, <1>8 DEF AdmitNext
  <2>2. /\ plane' \in Plane /\ plane'.table = plane.table
        /\ plane'.nextId = [plane.nextId EXCEPT ![e] = @ + 1]
        /\ plane'.partial = plane.partial /\ plane'.verbs = plane.verbs
        /\ plane'.nextVerb = plane.nextVerb
    <3>1. PICK p, q : p = plane /\ q = SubmitFailed(p, e)
      OBVIOUS
    <3>2. p \in Plane /\ e \in Endpoints
      BY <3>1, <1>4, <1>5
    <3>3. /\ q \in Plane /\ q.table = p.table /\ q.nextId = [p.nextId EXCEPT ![e] = @ + 1]
          /\ q.partial = p.partial /\ q.verbs = p.verbs /\ q.nextVerb = p.nextVerb
      BY <3>1, <3>2, SubmitFailedIs
    <3>4. plane' = q
      BY <3>1, <2>1
    <3> QED
      BY <3>1, <3>3, <3>4
  <2>3. Outstanding' = Outstanding
    BY <2>1 DEF Outstanding
  <2>4. rets' \in [Urbs -> Nat] /\ OutcomesCounted'
    <3>1. PICK S : S = {u}
      OBVIOUS
    <3>2. S \subseteq Held /\ \A w \in Urbs : w \in Held' <=> w \in Held /\ w \notin S
      BY <3>1, <2>3, <1>1, <1>4, <1>6 DEF Held, HeldOnce
    <3>3. rets' = Return(S) /\ UNCHANGED <<urbs, resets>>
      BY <3>1, <2>1, <1>3
    <3> QED
      BY <3>2, <3>3, <1>1, ReturnCounts
  <2>5. VhciTypeOK'
    BY <2>1, <2>2, <2>4, <1>1, <1>3, <1>4 DEF VhciTypeOK
  <2>6. IdsSpent' /\ \A l \in Keys : Drawn(l) => Drawn(l)'
    BY <2>2, <1>3, <1>4, DrawIs
  <2>7. HeldOnce'
    BY <2>1, <2>3, <1>1, <1>3, <1>4, <1>6 DEF HeldOnce, Held
  <2>8. TablesAgree' /\ OwnReply'
    BY <2>1, <2>2, <1>1, <1>3 DEF TablesAgree, OwnReply
  <2>9. RepliesOwn'
    <3>1. \A l \in plane'.table : Drawn(l)'
      BY <2>2, <2>6, <1>1, <1>5 DEF RepliesOwn
    <3>2. \A o \in owed : Drawn(o.key)' /\ outstanding[o.key] \in {0, o.urb}
      BY <2>6, <1>1, <1>5 DEF RepliesOwn
    <3>3. ASSUME NEW r \in Elements(down), r.type \in {"Complete", "Data"}
          PROVE  Drawn(r.key)' /\ outstanding[r.key] \in {0, r.urb}
      <4>1. r \in Records
        BY <1>5, ElementsOf
      <4>2. r.key \in Keys
        BY <4>1, <3>3 DEF Records
      <4> QED
        BY <4>2, <3>3, <2>6, <1>1 DEF RepliesOwn
    <3> QED
      BY <3>1, <3>2, <3>3, <2>1, <1>3 DEF RepliesOwn
  <2> QED
    BY <2>4, <2>5, <2>6, <2>7, <2>8, <2>9 DEF VhciInv
<1>9. CASE u \notin late /\ ok
  <2>1. /\ plane' = Submitted(plane, e)
        /\ outstanding' = [outstanding EXCEPT ![k] = u]
        /\ bySeqnum' = [bySeqnum EXCEPT ![u] = k]
        /\ owed' \subseteq owed \cup {[key |-> k, urb |-> u]}
        /\ UNCHANGED rets
    BY <1>2, <1>9 DEF AdmitNext
  <2>2. /\ plane' \in Plane /\ plane'.table = plane.table \cup {k}
        /\ plane'.nextId = [plane.nextId EXCEPT ![e] = @ + 1]
        /\ plane'.partial = plane.partial /\ plane'.verbs = plane.verbs
        /\ plane'.nextVerb = plane.nextVerb
    <3>1. PICK p, q : p = plane /\ q = Submitted(p, e)
      OBVIOUS
    <3>2. p \in Plane /\ e \in Endpoints /\ k \in Keys /\ k = RequestKey(p, e)
      BY <3>1, <1>2, <1>4, <1>5
    <3>3. /\ q \in Plane /\ q.table = p.table \cup {k}
          /\ q.nextId = [p.nextId EXCEPT ![e] = @ + 1]
          /\ q.partial = p.partial /\ q.verbs = p.verbs /\ q.nextVerb = p.nextVerb
      BY <3>1, <3>2, SubmittedIs
    <3>4. plane' = q
      BY <3>1, <2>1
    <3> QED
      BY <3>1, <3>3, <3>4
  <2>3. 0 \notin Urbs /\ NoKey \notin Keys
    BY KeysAre DEF Urbs
  <2>4. Outstanding' = Outstanding \cup {u}
    BY <2>1, <2>3, <1>4, <1>5 DEF Outstanding
  <2>5. Held' = Held /\ u \notin Outstanding /\ u \notin Waiting
    BY <2>4, <1>1, <1>4, <1>6 DEF Held, HeldOnce
  <2>6. VhciTypeOK'
    <3>1. /\ outstanding' \in [Keys -> Urbs \cup {0}]
          /\ bySeqnum' \in [Urbs -> Keys \cup {NoKey}]
          /\ owed' \subseteq [key : Keys, urb : Urbs]
      BY <2>1, <1>4, <1>5
    <3> QED
      BY <3>1, <2>1, <2>2, <1>1, <1>3, <1>4 DEF VhciTypeOK
  <2>7. /\ IdsSpent' /\ \A l \in Keys : Drawn(l) => Drawn(l)'
        /\ Drawn(k)'
    BY <2>2, <1>3, <1>4, DrawIs
  <2>8. HeldOnce'
    BY <2>4, <2>5, <1>1, <1>3, <1>4, <1>6 DEF HeldOnce
  <2>9. TablesAgree'
    <3>1. plane'.table = {l \in Keys : outstanding'[l] # 0}
      BY <2>1, <2>2, <2>3, <1>1, <1>4, <1>5 DEF TablesAgree
    <3>2. \A l \in Keys \ {k} : outstanding'[l] = outstanding[l] /\ outstanding[l] # u
      BY <2>1, <2>3, <2>5, <1>4, <1>5 DEF Outstanding
    <3>3. bySeqnum[u] = NoKey
      <4>1. bySeqnum[u] \in Keys => outstanding[bySeqnum[u]] # u
        BY <2>3, <2>5, <1>4 DEF Outstanding
      <4> QED
        BY <4>1, <2>3, <1>1, <1>4, <1>5 DEF TablesAgree
    <3>4. ASSUME NEW l \in Keys, outstanding'[l] # 0
          PROVE  bySeqnum'[outstanding'[l]] = l
      BY <3>2, <3>4, <2>1, <1>1, <1>4, <1>5 DEF TablesAgree
    <3>5. ASSUME NEW w \in Urbs, bySeqnum'[w] # NoKey
          PROVE  outstanding'[bySeqnum'[w]] = w
      <4>1. CASE w = u
        BY <4>1, <2>1, <1>4, <1>5
      <4>2. CASE w # u
        <5>1. bySeqnum'[w] = bySeqnum[w] /\ bySeqnum[w] \in Keys
          BY <4>2, <3>5, <2>1, <1>5
        <5>2. outstanding[bySeqnum[w]] = w /\ w # 0
          BY <5>1, <3>5, <2>3, <1>1 DEF TablesAgree
        <5>3. bySeqnum[w] # k
          BY <5>2, <1>4
        <5> QED
          BY <5>1, <5>2, <5>3, <3>2
      <4> QED
        BY <4>1, <4>2
    <3> QED
      BY <3>1, <3>4, <3>5, <2>2, <1>1, <1>3 DEF TablesAgree
  <2>10. OutcomesCounted' /\ OwnReply'
    BY <2>1, <2>5, <1>1, <1>3 DEF OutcomesCounted, OwnReply
  <2>11. RepliesOwn'
    <3>1. \A l \in Keys : Drawn(l) => outstanding'[l] = outstanding[l]
      BY <2>1, <1>4, <1>5
    <3>2. outstanding'[k] = u
      BY <2>1, <1>4, <1>5
    <3>3. \A l \in plane'.table : Drawn(l)'
      BY <2>2, <2>7, <1>1, <1>5 DEF RepliesOwn
    <3>4. ASSUME NEW o \in owed'
          PROVE  Drawn(o.key)' /\ outstanding'[o.key] \in {0, o.urb}
      <4>1. CASE o \in owed
        BY <4>1, <3>1, <2>7, <1>1, <1>5 DEF RepliesOwn
      <4>2. CASE o = [key |-> k, urb |-> u]
        BY <4>2, <3>2, <2>7
      <4> QED
        BY <4>1, <4>2, <2>1
    <3>5. ASSUME NEW r \in Elements(down), r.type \in {"Complete", "Data"}
          PROVE  Drawn(r.key)' /\ outstanding'[r.key] \in {0, r.urb}
      <4>1. r \in Records
        BY <1>5, ElementsOf
      <4>2. r.key \in Keys
        BY <4>1, <3>5 DEF Records
      <4> QED
        BY <4>2, <3>1, <3>5, <2>7, <1>1 DEF RepliesOwn
    <3> QED
      BY <3>3, <3>4, <3>5, <1>3 DEF RepliesOwn
  <2> QED
    BY <2>6, <2>7, <2>8, <2>9, <2>10, <2>11 DEF VhciInv
<1> QED
  BY <1>7, <1>8, <1>9

-------------------------------------------------------------------------------
(* The specification *)

LEMMA VhciInvNext == VhciInv /\ [Next]_vars => VhciInv'
<1> SUFFICES ASSUME VhciInv, [Next]_vars PROVE VhciInv'
  OBVIOUS
<1>1. CASE UNCHANGED vars
  <2>1. UNCHANGED <<plane, pending, outstanding, bySeqnum, waiters, urbs, ep, rets, resets,
                    strangers, down, owed, owedVerbs, late>>
    BY <1>1 DEF vars, bridge, kernel, net
  <2>2. UNCHANGED heldVars /\ UNCHANGED <<down, owed, owedVerbs>>
    BY <2>1 DEF heldVars
  <2>3. late' \subseteq Urbs
    BY <2>1 DEF VhciInv, VhciTypeOK
  <2> QED
    BY <2>2, <2>3, StillInv
<1>2. CASE \E e \in Endpoints : OnSubmit(e)
  BY <1>2, OnSubmitInv
<1>3. CASE \E e \in Endpoints : OnSubmitLocal(e)
  BY <1>3, OnSubmitLocalInv
<1>4. CASE \E e \in Endpoints, ok \in BOOLEAN : OnSubmitClearHalt(e, ok)
  BY <1>4, OnSubmitClearHaltInv
<1>5. CASE \E u \in Urbs : OnUnlinkOutstanding(u)
  BY <1>5, OnUnlinkOutstandingInv
<1>6. CASE \E u \in Urbs : OnUnlinkPending(u)
  BY <1>6, OnUnlinkPendingInv
<1>7. CASE (\E u \in Urbs : OnUnlinkOther(u) \/ Expire(u)) \/ AdmitDone \/ LinkDies
  BY <1>7, BystandersInv
<1>8. CASE KernelFatal
  BY <1>8, KernelFatalInv
<1>9. CASE \E closed \in BOOLEAN : KernelDrained(closed)
  BY <1>9, KernelDrainedInv
<1>10. CASE \E ok \in BOOLEAN : AdmitNext(ok)
  BY <1>10, AdmitNextInv
<1>11. CASE Receive
  BY <1>11, ReceiveInv
<1>12. CASE NetDrained \/ NetLost \/ NetFatal
  BY <1>12, NetEndsInv
<1>13. CASE PollEnd
  BY <1>13, PollEndInv
<1>14. CASE \E o \in owed, n \in 1..MaxSegs : ExporterAnswers(o, n)
  BY <1>14, ExporterAnswersInv
<1>15. CASE (\E o \in owed : ExporterRefuses(o)) \/ (\E k \in owedVerbs : ExporterAcks(k))
  BY <1>15, ExporterSaysInv
<1> QED
  BY <1>1, <1>2, <1>3, <1>4, <1>5, <1>6, <1>7, <1>8, <1>9, <1>10, <1>11, <1>12, <1>13,
     <1>14, <1>15 DEF Next

\* VhciInv is inductive: it holds of every reachable state of the Linux importer,
\* whatever unlinks, deadlines, late replies and teardowns race in its poll().
THEOREM VhciInvHolds == Spec => []VhciInv
<1>1. Init => VhciInv
  BY VhciInvInit
<1>2. VhciInv /\ [Next]_vars => VhciInv'
  BY VhciInvNext
<1> QED
  BY <1>1, <1>2, PTL DEF Spec

-------------------------------------------------------------------------------
(* Unlinks answered 0 *)

\* What an unlink answered 0 completed is no transfer: it was parked, and stays so
\* until its RET_SUBMIT.
EarlyParked ==
    \A u \in early : u \in 1..urbs /\ u \notin Pending \cup Outstanding \cup resets

\* A URB moves from the queue to the network and from either to the unlinked ones;
\* only a new one enters the queue.
Moves ==
    /\ urbs' \in {urbs, urbs + 1}
    /\ \A u \in Pending' : u \in Pending \/ u = urbs + 1
    /\ Outstanding' \subseteq Outstanding \cup Pending
    /\ resets' \subseteq resets \cup Pending \cup Outstanding

\* Nothing that moves was told 0 before.
LEMMA MovesKeepEarly ==
    ASSUME VhciInv, EarlyParked, Moves, early' = early
    PROVE  EarlyParked'
<1>1. urbs \in 0..MaxUrbs /\ MaxUrbs \in Nat
  BY DataPlaneAssumption DEF VhciInv, VhciTypeOK
<1> QED
  BY <1>1 DEF EarlyParked, Moves

\* An unlink is answered 0 for what is neither queued nor on the network.
LEMMA OnUnlinkOtherEarly ==
    ASSUME VhciInv, EarlyParked, NEW u \in Urbs, OnUnlinkOther(u)
    PROVE  EarlyParked'
<1>1. /\ u \in 1..urbs /\ u \notin resets /\ u \notin Pending /\ bySeqnum[u] = NoKey
      /\ early' \subseteq early \cup {u}
      /\ UNCHANGED <<urbs, pending, outstanding, resets>>
  BY DEF OnUnlinkOther, bridge
<1>2. u \notin Outstanding
  <2>1. /\ \A k \in Keys : outstanding[k] # 0 => bySeqnum[outstanding[k]] = k
        /\ NoKey \notin Keys
    BY KeysAre DEF VhciInv, TablesAgree
  <2> QED
    BY <2>1, <1>1 DEF Outstanding
<1> QED
  BY <1>1, <1>2 DEF EarlyParked, Pending, Outstanding

\* Forgetting requests takes URBs off the network only.
LEMMA ForgetMoves ==
    ASSUME NEW K, Forget(K)
    PROVE  Outstanding' \subseteq Outstanding
  BY DEF Forget, Outstanding

\* Every other step of poll() and of the kernel moves URBs so.
LEMMA EveryStepMoves ==
    ASSUME VhciInv, VhciInv', Next, ~(\E u \in Urbs : OnUnlinkOther(u))
    PROVE  Moves /\ early' = early
<1>1. /\ pending \in Seq(Urbs) /\ urbs \in Nat /\ 0 \notin Urbs
      /\ outstanding \in [Keys -> Urbs \cup {0}]
  BY DataPlaneAssumption DEF VhciInv, VhciTypeOK, Urbs
<1>2. CASE \E e \in Endpoints : OnSubmit(e)
  <2>1. /\ pending' = Append(pending, urbs') /\ urbs' = urbs + 1
        /\ UNCHANGED <<outstanding, resets, early>> /\ urbs < MaxUrbs
    BY <1>2 DEF OnSubmit, NewUrb
  <2>2. urbs + 1 \in Urbs
    BY <2>1, <1>1, DataPlaneAssumption DEF Urbs
  <2>3. Pending' = Pending \cup {urbs + 1}
    BY <2>1, <2>2, <1>1, AppendIs DEF Pending
  <2> QED
    BY <2>1, <2>3 DEF Moves, Outstanding
<1>3. CASE \E e \in Endpoints : OnSubmitLocal(e)
  <2>1. urbs' = urbs + 1 /\ UNCHANGED <<pending, outstanding, resets, early>>
    BY <1>3 DEF OnSubmitLocal, NewUrb, bridge
  <2> QED
    BY <2>1 DEF Moves, Outstanding, Pending
<1>4. CASE \E e \in Endpoints, ok \in BOOLEAN : OnSubmitClearHalt(e, ok)
  <2>1. urbs' = urbs + 1 /\ UNCHANGED <<pending, outstanding, resets, early>>
    BY <1>4 DEF OnSubmitClearHalt, NewUrb
  <2> QED
    BY <2>1 DEF Moves, Outstanding, Pending
<1>5. CASE \E u \in Urbs : OnUnlinkOutstanding(u)
  <2>1. PICK u \in Urbs : OnUnlinkOutstanding(u)
    BY <1>5
  <2>2. /\ bySeqnum[u] # NoKey /\ resets' = resets \cup {u}
        /\ outstanding' = [outstanding EXCEPT ![bySeqnum[u]] = 0]
        /\ UNCHANGED <<pending, urbs, early>>
    BY <2>1 DEF OnUnlinkOutstanding
  <2>3. bySeqnum[u] \in Keys /\ outstanding[bySeqnum[u]] = u
    BY <2>2 DEF VhciInv, VhciTypeOK, TablesAgree
  <2>4. u \in Outstanding /\ Outstanding' \subseteq Outstanding
    BY <2>2, <2>3, <1>1 DEF Outstanding
  <2> QED
    BY <2>2, <2>4 DEF Moves, Pending
<1>6. CASE \E u \in Urbs : OnUnlinkPending(u)
  <2>1. PICK u \in Urbs : OnUnlinkPending(u)
    BY <1>6
  <2>2. /\ u \in Pending /\ resets' = resets \cup {u} /\ pending' = Without(pending, {u})
        /\ UNCHANGED <<outstanding, urbs, early>>
    BY <2>1 DEF OnUnlinkPending
  <2>3. Pending' \subseteq Pending
    BY <2>2, <1>1, WithoutIs DEF Pending
  <2> QED
    BY <2>2, <2>3 DEF Moves, Outstanding
<1>7. CASE (\E u \in Urbs : Expire(u)) \/ AdmitDone \/ LinkDies
           \/ (\E o \in owed, n \in 1..MaxSegs : ExporterAnswers(o, n))
           \/ (\E o \in owed : ExporterRefuses(o))
           \/ (\E k \in owedVerbs : ExporterAcks(k))
  <2>1. UNCHANGED <<pending, outstanding, resets, urbs, early>>
    BY <1>7 DEF Expire, AdmitDone, LinkDies, ExporterAnswers, ExporterRefuses,
                ExporterAcks, bridge, kernel
  <2> QED
    BY <2>1 DEF Moves, Outstanding, Pending
<1>8. CASE FailAll /\ UNCHANGED <<urbs, resets, early>>
  <2>1. Forget(Keys) /\ pending' = <<>>
    BY <1>8 DEF FailAll
  <2>2. Pending' = {} /\ Outstanding' \subseteq Outstanding
    BY <2>1, ForgetMoves DEF Pending, Elements
  <2> QED
    BY <2>2, <1>8 DEF Moves
<1>9. CASE KernelFatal
  <2>1. FailAll /\ UNCHANGED <<urbs, resets, early>>
    BY <1>9 DEF KernelFatal
  <2> QED
    BY <2>1, <1>8
<1>10. CASE PollEnd
  <2>1. \/ FailAll
        \/ UNCHANGED <<outstanding, pending>>
    BY <1>10 DEF PollEnd
  <2>2. UNCHANGED <<urbs, resets, early>>
    BY <1>10 DEF PollEnd
  <2>3. CASE UNCHANGED <<outstanding, pending>>
    BY <2>2, <2>3 DEF Moves, Outstanding, Pending
  <2> QED
    BY <2>1, <2>2, <2>3, <1>8
<1>11. CASE \E closed \in BOOLEAN : KernelDrained(closed)
  <2>1. pending' = Without(pending, late) /\ UNCHANGED <<outstanding, resets, urbs, early>>
    BY <1>11 DEF KernelDrained
  <2>2. Pending' \subseteq Pending
    BY <2>1, <1>1, WithoutIs DEF Pending
  <2> QED
    BY <2>1, <2>2 DEF Moves, Outstanding
<1>12. CASE \E ok \in BOOLEAN : AdmitNext(ok)
  <2>1. /\ pending # <<>> /\ pending' = Tail(pending)
        /\ UNCHANGED <<resets, urbs, early>>
        /\ \/ UNCHANGED outstanding
           \/ \E k : outstanding' = [outstanding EXCEPT ![k] = Head(pending)]
    BY <1>12 DEF AdmitNext
  <2>2. Head(pending) \in Pending /\ Pending' \subseteq Pending
    BY <2>1, <1>1, TailIs DEF Pending
  <2>3. Outstanding' \subseteq Outstanding \cup {Head(pending)}
    BY <2>1, <1>1 DEF Outstanding
  <2> QED
    BY <2>1, <2>2, <2>3 DEF Moves
<1>13. CASE Receive
  <2>1. /\ UNCHANGED <<pending, urbs, resets, early>>
        /\ UNCHANGED outstanding \/ \E K : Forget(K)
    BY <1>13 DEF Receive
  <2>2. Outstanding' \subseteq Outstanding
    BY <2>1, ForgetMoves DEF Outstanding
  <2> QED
    BY <2>1, <2>2 DEF Moves, Pending
<1>14. CASE NetDrained \/ NetLost \/ NetFatal
  <2>1. SweepPlane
    BY <1>14 DEF NetDrained, NetLost, NetFatal
  <2>2. /\ UNCHANGED <<pending, urbs, resets, early>>
        /\ \E K : Forget(K)
    BY <2>1 DEF SweepPlane
  <2>3. Outstanding' \subseteq Outstanding
    BY <2>2, ForgetMoves
  <2> QED
    BY <2>2, <2>3 DEF Moves, Pending
<1> QED
  BY <1>2, <1>3, <1>4, <1>5, <1>6, <1>7, <1>9, <1>10, <1>11, <1>12, <1>13, <1>14 DEF Next

\* Only a parked CLEAR_HALT is ever told 0 before its RET_SUBMIT.
THEOREM EarlyOnlyParked == Spec => []EarlyParked
<1>1. Init => EarlyParked
  BY DEF Init, EarlyParked
<1>2. VhciInv /\ VhciInv' /\ EarlyParked /\ [Next]_vars => EarlyParked'
  <2> SUFFICES ASSUME VhciInv, VhciInv', EarlyParked, [Next]_vars PROVE EarlyParked'
    OBVIOUS
  <2>1. CASE UNCHANGED vars
    BY <2>1 DEF EarlyParked, Pending, Outstanding, vars, bridge, kernel
  <2>2. CASE \E u \in Urbs : OnUnlinkOther(u)
    BY <2>2, OnUnlinkOtherEarly
  <2>3. CASE Next /\ ~(\E u \in Urbs : OnUnlinkOther(u))
    BY <2>3, EveryStepMoves, MovesKeepEarly
  <2> QED
    BY <2>1, <2>2, <2>3
<1> QED
  BY <1>1, <1>2, VhciInvHolds, PTL DEF Spec

\* I1 at the kernel: every URB has exactly one outcome (a RET_SUBMIT, an unlink
\* answered -ECONNRESET, or one answered 0 while the kernel held it) and none while
\* the bridge holds it, but for a parked CLEAR_HALT told 0, which has two.
THEOREM UrbsReturnedOnce == Spec => []ReturnedOnce
<1>1. VhciInv /\ EarlyParked => ReturnedOnce
  <2> SUFFICES ASSUME VhciInv, EarlyParked, NEW u \in 1..urbs
               PROVE  \/ u \notin early /\ Outcomes(u) = IF u \in Held THEN 0 ELSE 1
                      \/ /\ u \in early
                         /\ u \notin Pending \cup Outstanding
                         /\ Outcomes(u) = IF u \in Waiting THEN 1 ELSE 2
    BY DEF ReturnedOnce
  <2>1. urbs \in 0..MaxUrbs /\ MaxUrbs \in Nat
    BY DataPlaneAssumption DEF VhciInv, VhciTypeOK
  <2>2. u \in Urbs /\ ~(u > urbs)
    BY <2>1 DEF Urbs
  <2>3. /\ rets[u] \in Nat
        /\ rets[u] + (IF u \in resets THEN 1 ELSE 0) = IF u \in Held THEN 0 ELSE 1
    BY <2>2 DEF VhciInv, VhciTypeOK, OutcomesCounted
  <2>4. CASE u \notin early
    BY <2>3, <2>4 DEF Outcomes
  <2>5. CASE u \in early
    <3>1. u \notin Pending \cup Outstanding /\ u \notin resets
      BY <2>5 DEF EarlyParked
    <3>2. u \in Held <=> u \in Waiting
      BY <3>1 DEF Held
    <3> QED
      BY <2>3, <2>5, <3>1, <3>2 DEF Outcomes
  <2> QED
    BY <2>4, <2>5
<1> QED
  BY <1>1, VhciInvHolds, EarlyOnlyParked, PTL

\* The bridge's two maps, the verbs it waits on and the data plane's tables name the
\* same requests: no unlink or timeout leaves the admission slot taken.
THEOREM BridgeAndPlaneAgree == Spec => []TablesAgree
<1>1. VhciInv => TablesAgree
  BY DEF VhciInv
<1> QED
  BY <1>1, VhciInvHolds, PTL

\* No URB is completed with the reply to another, however late the reply (rule R8).
THEOREM RepliesReachTheirUrb == Spec => []OwnReply
<1>1. VhciInv => OwnReply
  BY DEF VhciInv
<1> QED
  BY <1>1, VhciInvHolds, PTL

===============================================================================
