--------------------------- MODULE UdecxImport_proofs ---------------------------
(***************************************************************************)
(* The Windows bridge offers one completion of a URB, over as many         *)
(* presentations as there may be; while the first lasts it loses only what *)
(* the channel did not take; and it agrees with its plane on what is on    *)
(* the wire.  This holds for any number of slots of the channel, of URBs   *)
(* and of remembered retirements.                                          *)
(*                                                                         *)
(* A URB that has been handed over is in one place: a FETCH slot not read  *)
(* yet, the queue, or the wire.  Its completion is offered, or it is       *)
(* acknowledged as cancelled, when it leaves that place; only a            *)
(* withdrawal drops what nobody has read.  The ring of retired ids is only *)
(* ever a set of URBs that have had an outcome, so skipping one of them on *)
(* the way out loses nothing, and forgetting one does no harm.             *)
(***************************************************************************)
EXTENDS UdecxImport, Ops_proofs, SequenceTheorems

-------------------------------------------------------------------------------
(* The inductive invariant *)

Fetched ==
    {NoRecord}
    \cup [op : {"Urb"}, urb : Urbs, kind : Kinds]
    \cup [op : {"Cancel"}, urb : Urbs]
    \cup [op : {"Configure"}, release : SUBSET Endpoints]

Records ==
    [type : {"Complete"}, key : Keys, more : BOOLEAN, urb : Urbs]
    \cup [type : {"Error"}]

ChannelTyped ==
    /\ fetch \in [Slots -> Fetched] /\ parked \in Seq(Slots)
    /\ urbs \in 0..MaxUrbs /\ ep \in [Urbs -> Endpoints \cup {0}]
    /\ ans \in [Urbs -> Nat] /\ acked \subseteq Urbs /\ refused \subseteq Urbs
    /\ failed \subseteq Urbs /\ presents \in Nat

BridgeTyped ==
    /\ plane \in Plane /\ queued \in Seq(Urbs) /\ retired \in Seq(Urbs)
    /\ outstanding \in [Keys -> Urbs \cup {0}]
    /\ down \in Seq(Records) /\ owed \subseteq [key : Keys, urb : Urbs]

\* The slots with a URB the bridge has not read, and the URBs in them.
UrbSlots == {s \in Slots : fetch[s].op = "Urb"}
Unread == {fetch[s].urb : s \in UrbSlots}

Queued == Elements(queued)

\* The driver fills only slots it holds, and holds none before the first present.
ChannelInv ==
    /\ Distinct(parked) /\ \A s \in Elements(parked) : fetch[s] = NoRecord
    /\ presents = 0 => stage = "Off" /\ urbs = 0 /\ parked = <<>>

\* Where a URB is, it is once.
OnePlace ==
    /\ \A s, t \in UrbSlots : fetch[s].urb = fetch[t].urb => s = t
    /\ Distinct(queued)
    /\ \A k, l \in Keys : outstanding[k] # 0 /\ outstanding[k] = outstanding[l] => k = l
    /\ Unread \cap Queued = {} /\ Unread \cap Outstanding = {} /\ Queued \cap Outstanding = {}

\* A URB that may be queued is about an endpoint of the device.
OnEndpoints ==
    /\ \A s \in UrbSlots : fetch[s].kind = "Queue" => ep[fetch[s].urb] \in Endpoints
    /\ \A u \in Queued : ep[u] \in Endpoints

\* Every id drawn was for a URB that has left the queue, so there are enough of them,
\* and a request on the wire has one that was drawn.
IdsSpent ==
    \A e \in Endpoints :
        /\ plane.nextId[e] >= 1
        /\ plane.nextId[e] + Len(queued) + Cardinality(UrbSlots) <= urbs + 1

Drawn(k) == \E e \in Endpoints : k[1] = ChannelFor(e) /\ k[2] < plane.nextId[e]

TableDrawn == \A k \in plane.table : Drawn(k)

\* The URBs that are on this side, and the ones that have had an outcome.
Open == Unread \cup Queued \cup Outstanding
Over == {u \in Urbs : ans[u] = 1} \cup acked \cup Dropped

Answers ==
    /\ \A u \in Urbs : ans[u] <= 1
    /\ Open \subseteq 1..urbs
    /\ \A u \in Urbs : u \in Open \/ u > urbs => ans[u] = 0 /\ u \notin Dropped
    /\ (\A u \in Dropped : ans[u] = 0) /\ refused \cap failed = {}
    /\ Elements(retired) \subseteq Over
    /\ stage # "Off" /\ presents = 1 => 1..urbs \subseteq Open \cup Over

UdecxInv ==
    /\ ChannelTyped /\ BridgeTyped
    /\ ChannelInv /\ OnePlace /\ OnEndpoints
    /\ IdsSpent /\ TableDrawn /\ AdmissionSlotsAgree
    /\ Answers

-------------------------------------------------------------------------------
(* Keys and the data plane's methods *)

\* The channels of two endpoints differ, and no key is that of the session channel.
LEMMA KeysAre ==
    /\ \A e, f \in Endpoints : ChannelFor(e) = ChannelFor(f) => e = f
    /\ \A e \in Endpoints, i \in Ids : <<ChannelFor(e), i>> \in Keys
    /\ \A k \in Keys : k[2] \in Ids /\ \E e \in Endpoints : k[1] = ChannelFor(e)
    /\ NoKey \notin Keys
<1>1. \A e \in Endpoints : e \in 0..255 /\ Slot \in 1..15
  BY DataPlaneAssumption
<1>2. \A e, f \in Endpoints : ChannelFor(e) = ChannelFor(f) => e = f
  <2> TAKE e, f \in Endpoints
  <2>1. e \in Int /\ f \in Int /\ 256 * Slot \in Int
    BY <1>1
  <2> QED
    BY <2>1 DEF ChannelFor
<1>3. \A e \in Endpoints : ChannelFor(e) # 0
  BY <1>1 DEF ChannelFor
<1>4. \A k \in Keys : k[2] \in Ids /\ \E e \in Endpoints : k[1] = ChannelFor(e)
  BY DEF Keys
<1>5. NoKey \notin Keys
  BY <1>3, <1>4 DEF NoKey, ChannelSession
<1> QED
  BY <1>2, <1>4, <1>5 DEF Keys

\* A record with the plane's fields, each of its type, is a plane.
LEMMA PlaneIs ==
    ASSUME NEW q, q = [ table |-> q.table, nextId |-> q.nextId, partial |-> q.partial,
                        verbs |-> q.verbs, nextVerb |-> q.nextVerb ],
           q.table \in SUBSET Keys, q.nextId \in [Endpoints -> Nat],
           q.partial \in SUBSET Keys, q.verbs \in SUBSET Keys, q.nextVerb \in Nat
    PROVE  q \in Plane
  BY DEF Plane

\* submit whose records went out: the request is in the table; otherwise only its id
\* is spent.
LEMMA SubmittedIs ==
    ASSUME NEW p \in Plane, NEW e \in Endpoints, NEW k \in Keys, k = RequestKey(p, e)
    PROVE  /\ Submitted(p, e) \in Plane /\ Submitted(p, e).table = p.table \cup {k}
           /\ Submitted(p, e).nextId = [p.nextId EXCEPT ![e] = @ + 1]
           /\ Submitted(p, e).partial = p.partial /\ Submitted(p, e).verbs = p.verbs
           /\ Submitted(p, e).nextVerb = p.nextVerb
<1>1. /\ p.table \in SUBSET Keys /\ p.nextId \in [Endpoints -> Nat]
      /\ p.partial \in SUBSET Keys /\ p.verbs \in SUBSET Keys /\ p.nextVerb \in Nat
  BY DEF Plane
<1>2. PICK q : q = Submitted(p, e)
  OBVIOUS
<1>3. /\ q.table = p.table \cup {k} /\ q.nextId = [p.nextId EXCEPT ![e] = @ + 1]
      /\ q.partial = p.partial /\ q.verbs = p.verbs /\ q.nextVerb = p.nextVerb
      /\ q = [ table |-> q.table, nextId |-> q.nextId, partial |-> q.partial,
               verbs |-> q.verbs, nextVerb |-> q.nextVerb ]
  BY <1>2 DEF Submitted, Plane
<1>4. q.table \in SUBSET Keys /\ q.nextId \in [Endpoints -> Nat]
  BY <1>1, <1>3
<1>5. q \in Plane
  BY <1>1, <1>3, <1>4, PlaneIs
<1> QED
  BY <1>2, <1>3, <1>5

LEMMA SubmitFailedIs ==
    ASSUME NEW p \in Plane, NEW e \in Endpoints
    PROVE  /\ SubmitFailed(p, e) \in Plane /\ SubmitFailed(p, e).table = p.table
           /\ SubmitFailed(p, e).nextId = [p.nextId EXCEPT ![e] = @ + 1]
           /\ SubmitFailed(p, e).partial = p.partial /\ SubmitFailed(p, e).verbs = p.verbs
           /\ SubmitFailed(p, e).nextVerb = p.nextVerb
<1>1. /\ p.table \in SUBSET Keys /\ p.nextId \in [Endpoints -> Nat]
      /\ p.partial \in SUBSET Keys /\ p.verbs \in SUBSET Keys /\ p.nextVerb \in Nat
  BY DEF Plane
<1>2. PICK q : q = SubmitFailed(p, e)
  OBVIOUS
<1>3. /\ q.table = p.table /\ q.nextId = [p.nextId EXCEPT ![e] = @ + 1]
      /\ q.partial = p.partial /\ q.verbs = p.verbs /\ q.nextVerb = p.nextVerb
      /\ q = [ table |-> q.table, nextId |-> q.nextId, partial |-> q.partial,
               verbs |-> q.verbs, nextVerb |-> q.nextVerb ]
  BY <1>2 DEF SubmitFailed, Plane
<1>4. q.nextId \in [Endpoints -> Nat]
  BY <1>1, <1>3
<1>5. q \in Plane
  BY <1>1, <1>3, <1>4, PlaneIs
<1> QED
  BY <1>2, <1>3, <1>5

\* sweepDeadlines and completeAll only take keys out, and draw no id.
LEMMA ExpiredIs ==
    ASSUME NEW p \in Plane, NEW T, NEW V
    PROVE  /\ Expired(p, T, V) \in Plane
           /\ Expired(p, T, V).table = p.table \ T
           /\ Expired(p, T, V).nextId = p.nextId
  BY DEF Expired, Plane

LEMMA DrainedIs ==
    ASSUME NEW p \in Plane
    PROVE  Drained(p) \in Plane /\ Drained(p).table = {} /\ Drained(p).nextId = p.nextId
  BY DEF Drained, Plane

\* cancel, of a set of requests.
LEMMA CancelledIs ==
    ASSUME plane \in Plane, NEW K
    PROVE  /\ CancelledByPlaneId(K) \in Plane
           /\ CancelledByPlaneId(K).table = plane.table \ K
           /\ CancelledByPlaneId(K).nextId = plane.nextId
  BY DEF CancelledByPlaneId, Plane

\* A COMPLETE takes at most its own request out.
LEMMA HandledIs ==
    ASSUME NEW p \in Plane, NEW r \in Records, r.type = "Complete"
    PROVE  /\ Handled(p, r, Verdict(p, r)) \in Plane
           /\ Handled(p, r, Verdict(p, r)).table \subseteq p.table
           /\ Handled(p, r, Verdict(p, r)).nextId = p.nextId
<1>1. r.key \in Keys
  BY DEF Records
<1>2. Verdict(p, r) \in {"Deliver", "Keep", "Drop"}
  BY DEF Verdict
<1>3. CASE Verdict(p, r) = "Deliver"
  <2>1. Handled(p, r, "Deliver") = [p EXCEPT !.table = @ \ {r.key}, !.partial = @ \ {r.key}]
    BY DEF Handled
  <2> QED
    BY <2>1, <1>3, ZenonT(60) DEF Plane
<1>4. CASE Verdict(p, r) = "Keep"
  <2>1. Handled(p, r, "Keep") = [p EXCEPT !.partial = @ \cup {r.key}]
    BY DEF Handled
  <2> QED
    BY <2>1, <1>1, <1>4 DEF Plane
<1>5. CASE Verdict(p, r) = "Drop"
  <2>1. Handled(p, r, "Drop") = p
    BY DEF Handled
  <2> QED
    BY <2>1, <1>5 DEF Plane
<1> QED
  BY <1>2, <1>3, <1>4, <1>5

-------------------------------------------------------------------------------
(* The ring of retired ids and the records for the driver *)

\* What is remembered are older retirements and the new ones, however many are dropped.
LEMMA RetiredIs ==
    ASSUME retired \in Seq(Urbs), NEW S \in SUBSET Urbs
    PROVE  Retired(S) \in Seq(Urbs) /\ Elements(Retired(S)) \subseteq Elements(retired) \cup S
<1>1. PICK T : T = S \ Elements(retired)
  OBVIOUS
<1>2. T \subseteq S /\ T \subseteq Urbs /\ IsFiniteSet(T)
  <2>1. T \subseteq S /\ T \subseteq Urbs
    BY <1>1
  <2>2. 1 \in Int /\ MaxUrbs \in Int
    BY DataPlaneAssumption
  <2>3. IsFiniteSet(Urbs)
    BY <2>2, FS_Interval DEF Urbs
  <2> QED
    BY <2>1, <2>3, FS_Subset
<1>3. PICK n \in Nat : n = Cardinality(T)
  BY <1>2, FS_CardinalityType
<1>4. PICK f : f \in Bijection(1..n, T)
  BY <1>2, <1>3, FS_CardinalityType DEF ExistsBijection
<1>5. f \in [1..n -> T] /\ IsInjective(f)
  BY <1>4 DEF Bijection, Injection, IsInjective
<1>6. SetToSeq(T) \in [1..n -> T]
  BY <1>3, <1>5 DEF SetToSeq
<1>7. SetToSeq(T) \in Seq(T) /\ SetToSeq(T) \in Seq(Urbs)
  BY <1>2, <1>3, <1>6
<1>8. PICK all : all = retired \o SetToSeq(T)
  OBVIOUS
<1>9. all \in Seq(Urbs) /\ Elements(all) \subseteq Elements(retired) \cup S
  <2>1. PICK t \in Seq(Urbs) : t = SetToSeq(T) /\ t \in Seq(T)
    BY <1>7
  <2>2. Elements(t) \subseteq T
    BY <2>1, ElementsOf
  <2>3. all \in Seq(Urbs) /\ Elements(all) = Elements(retired) \cup Elements(t)
    BY <2>1, <1>8, ConcatIs
  <2> QED
    BY <2>2, <2>3, <1>2
<1>10. MaxRetired \in Nat \ {0} /\ Len(all) \in Nat
  BY <1>9, UdecxImportAssumption
<1>11. CASE Len(all) - MaxRetired > 0
  <2>1. PICK m \in Nat : m = Len(all) - MaxRetired + 1 /\ 1 <= m /\ m <= Len(all)
    BY <1>10, <1>11
  <2>2. PICK r \in Seq(Urbs) : r = SubSeq(all, m, Len(all))
    <3>1. PICK z \in Seq(Urbs) : z = all
      BY <1>9
    <3>2. Len(z) \in Nat /\ \A i \in m..Len(z) : z[i] \in Urbs
      BY <2>1
    <3>3. SubSeq(z, m, Len(z)) \in Seq(Urbs)
      BY <3>2, SubSeqProperties
    <3> QED
      BY <3>1, <3>3
  <2>3. Retired(S) = r
    BY <2>1, <2>2, <1>1, <1>8, <1>11 DEF Retired
  <2>4. Elements(r) \subseteq Elements(all)
    <3> SUFFICES ASSUME NEW i \in 1..Len(r) PROVE r[i] \in Elements(all)
      BY DEF Elements
    <3>1. m + i - 1 \in 1..Len(all) /\ r[i] = all[m + i - 1]
      BY <2>1, <2>2, <1>9, <1>10, <1>11
    <3> QED
      BY <3>1, <1>9 DEF Elements
  <2> QED
    BY <2>2, <2>3, <2>4, <1>9
<1>12. CASE ~(Len(all) - MaxRetired > 0)
  BY <1>1, <1>8, <1>9, <1>12 DEF Retired
<1> QED
  BY <1>11, <1>12

\* completeToDriver: what the channel takes is answered, the rest of what it was offered is
\* dropped, for one of two reasons.
Offered(S, refuse, fail) ==
    /\ refuse \subseteq S /\ fail \subseteq S /\ refuse \cap fail = {}
    /\ refused' = refused \cup refuse /\ failed' = failed \cup fail
    /\ ans' = [u \in Urbs |-> IF u \in S \ (refuse \cup fail) THEN ans[u] + 1 ELSE ans[u]]

LEMMA CompleteIs ==
    ASSUME ChannelTyped, NEW S \in SUBSET Urbs, NEW n, Complete(S, n)
    PROVE  /\ \E refuse, fail \in SUBSET S : Offered(S, refuse, fail)
           /\ ans' \in [Urbs -> Nat] /\ refused' \subseteq Urbs /\ failed' \subseteq Urbs
<1>1. PICK refuse \in SUBSET S : \E fail \in SUBSET (S \ refuse) :
         /\ refused' = refused \cup refuse /\ failed' = failed \cup fail
         /\ ans' = [u \in Urbs |-> IF u \in S \ (refuse \cup fail) THEN ans[u] + 1 ELSE ans[u]]
  BY DEF Complete
<1>2. PICK fail \in SUBSET (S \ refuse) :
         /\ refused' = refused \cup refuse /\ failed' = failed \cup fail
         /\ ans' = [u \in Urbs |-> IF u \in S \ (refuse \cup fail) THEN ans[u] + 1 ELSE ans[u]]
  BY <1>1
<1>3. Offered(S, refuse, fail) /\ fail \in SUBSET S
  BY <1>2 DEF Offered
<1>4. ans \in [Urbs -> Nat] /\ refused \subseteq Urbs /\ failed \subseteq Urbs
  BY DEF ChannelTyped
<1> QED
  BY <1>2, <1>3, <1>4

\* A record in a slot, by its operation.
LEMMA FetchedIs ==
    ASSUME NEW r \in Fetched
    PROVE  /\ r = NoRecord <=> r.op = "None"
           /\ r.op \in {"None", "Urb", "Cancel", "Configure"}
           /\ r.op = "Urb" => r.urb \in Urbs /\ r.kind \in Kinds
           /\ r.op = "Cancel" => r.urb \in Urbs
  BY DEF Fetched, NoRecord

-------------------------------------------------------------------------------
(* What the handlers have in common *)

\* onCompletion takes a set of requests out of its map.
LEMMA ForgetIs ==
    ASSUME BridgeTyped, OnePlace, NEW K \in SUBSET Keys, Forget(K)
    PROVE  /\ outstanding' \in [Keys -> Urbs \cup {0}]
           /\ Outstanding' = Outstanding \ {outstanding[k] : k \in K}
           /\ {k \in Keys : outstanding'[k] # 0} = {k \in Keys : outstanding[k] # 0} \ K
           /\ \A k, l \in Keys : outstanding'[k] # 0 /\ outstanding'[k] = outstanding'[l] => k = l
<1>1. outstanding \in [Keys -> Urbs \cup {0}]
  BY DEF BridgeTyped
<1>2. outstanding' = [k \in Keys |-> IF k \in K THEN 0 ELSE outstanding[k]]
  BY DEF Forget
<1>3. /\ outstanding' \in [Keys -> Urbs \cup {0}]
      /\ {k \in Keys : outstanding'[k] # 0} = {k \in Keys : outstanding[k] # 0} \ K
  BY <1>1, <1>2
<1>4. \A k, l \in Keys : outstanding[k] # 0 /\ outstanding[k] = outstanding[l] => k = l
  BY DEF OnePlace
<1>5. \A k, l \in Keys : outstanding'[k] # 0 /\ outstanding'[k] = outstanding'[l] => k = l
  BY <1>2, <1>4
<1>6. Outstanding' = Outstanding \ {outstanding[k] : k \in K}
  <2>1. \A k \in Keys : outstanding'[k] # 0 => outstanding'[k] = outstanding[k] /\ k \notin K
    BY <1>2
  <2>2. \A u \in Outstanding' : u \in Outstanding \ {outstanding[k] : k \in K}
    BY <2>1, <1>4 DEF Outstanding
  <2>3. \A u \in Outstanding \ {outstanding[k] : k \in K} : u \in Outstanding'
    BY <1>2 DEF Outstanding
  <2> QED
    BY <2>2, <2>3
<1> QED
  BY <1>3, <1>5, <1>6

\* A step in which the URBs of S are answered, as they leave this side; another may leave
\* only if it has had its outcome, or is acknowledged now.
LEMMA AnswersKeep ==
    ASSUME ChannelTyped, Answers, NEW S \in SUBSET Urbs, NEW n, Complete(S, n),
           urbs' = urbs, acked \subseteq acked',
           Open' \subseteq Open, S \subseteq Open, S \cap Open' = {},
           Elements(retired') \subseteq Elements(retired) \cup S \cup acked',
           stage' # "Off" /\ presents' = 1
               => stage # "Off" /\ presents = 1 /\ Open \ Open' \subseteq S \cup Over \cup acked'
    PROVE  Answers' /\ ans' \in [Urbs -> Nat] /\ refused' \subseteq Urbs /\ failed' \subseteq Urbs
<1>0. ans' \in [Urbs -> Nat] /\ refused' \subseteq Urbs /\ failed' \subseteq Urbs
  BY CompleteIs
<1>1. PICK refuse, fail \in SUBSET S : Offered(S, refuse, fail)
  BY CompleteIs
<1>2. PICK drop : drop = refuse \cup fail
  OBVIOUS
<1>3. /\ drop \subseteq S /\ Dropped' = Dropped \cup drop
      /\ \A u \in Urbs : ans'[u] = IF u \in S \ drop THEN ans[u] + 1 ELSE ans[u]
  BY <1>1, <1>2 DEF Offered, Dropped
<1>4. /\ ans \in [Urbs -> Nat] /\ \A u \in Urbs : ans[u] <= 1
      /\ \A u \in Urbs : u \in Open \/ u > urbs => ans[u] = 0 /\ u \notin Dropped
      /\ \A u \in Dropped : ans[u] = 0
      /\ Open \subseteq 1..urbs /\ Elements(retired) \subseteq Over
  BY DEF ChannelTyped, Answers
<1>5. \A u \in Urbs : u \in S \ drop => ans'[u] = 1
  BY <1>3, <1>4
<1>6. \A u \in Urbs : u \notin S \ drop => ans'[u] = ans[u]
  BY <1>3
<1>7. Over \cup S \cup acked' \subseteq Over'
  <2>1. ASSUME NEW u \in Urbs, ans[u] = 1 PROVE ans'[u] = 1
    <3>1. u \notin S
      BY <2>1, <1>4
    <3> QED
      BY <3>1, <2>1, <1>6
  <2>2. S \subseteq Over'
    BY <1>3, <1>5 DEF Over
  <2> QED
    BY <2>1, <2>2, <1>3 DEF Over
<1>8. \A u \in Urbs : ans'[u] <= 1
  BY <1>4, <1>5, <1>6
<1>9. \A u \in Urbs : u \in Open' \/ u > urbs' => ans'[u] = 0 /\ u \notin Dropped'
  <2> SUFFICES ASSUME NEW u \in Urbs, u \in Open' \/ u > urbs'
               PROVE  ans'[u] = 0 /\ u \notin Dropped'
    OBVIOUS
  <2>1. u \in Open \/ u > urbs
    OBVIOUS
  <2>2. u \notin S
    <3>1. urbs \in Nat
      BY DEF ChannelTyped
    <3> QED
      BY <3>1, <1>4
  <2> QED
    BY <2>1, <2>2, <1>3, <1>4, <1>6
<1>10. \A u \in Dropped' : ans'[u] = 0
  <2> SUFFICES ASSUME NEW u \in Dropped' PROVE ans'[u] = 0
    OBVIOUS
  <2>1. u \in Urbs
    BY <1>0 DEF Dropped
  <2>2. CASE u \in drop
    <3>1. ans[u] = 0 /\ u \in S
      BY <2>1, <2>2, <1>3, <1>4
    <3> QED
      BY <3>1, <2>1, <2>2, <1>6
  <2>3. CASE u \in Dropped /\ u \notin drop
    <3>1. ans[u] = 0 /\ u \notin S
      BY <2>1, <2>3, <1>4
    <3> QED
      BY <3>1, <2>1, <1>6
  <2> QED
    BY <2>2, <2>3, <1>3
<1>11. refused' \cap failed' = {}
  <2>1. S \cap Dropped = {}
    BY <1>4
  <2>2. refused \cap failed = {}
    BY DEF Answers
  <2> QED
    BY <2>1, <2>2, <1>1 DEF Offered, Dropped
<1>12. Elements(retired') \subseteq Over' /\ Open' \subseteq 1..urbs'
  BY <1>4, <1>7
<1>13. ASSUME stage' # "Off", presents' = 1 PROVE 1..urbs' \subseteq Open' \cup Over'
  <2>1. 1..urbs \subseteq Open \cup Over
    BY <1>13 DEF Answers
  <2> QED
    BY <2>1, <1>7, <1>13
<1>14. Answers'
  BY <1>8, <1>9, <1>10, <1>11, <1>12, <1>13 DEF Answers
<1> QED
  BY <1>0, <1>14

\* One in which nothing is answered, and the URBs on this side stay there.
LEMMA AnswersSame ==
    ASSUME Answers, UNCHANGED <<urbs, ans, acked, refused, failed, retired, presents>>, Open' = Open,
           stage' # "Off" => stage # "Off"
    PROVE  Answers'
<1>1. Over' = Over /\ Dropped' = Dropped
  BY DEF Over, Dropped
<1> QED
  BY <1>1 DEF Answers

\* The slots are finitely many.
LEMMA SlotsFinite ==
    /\ IsFiniteSet(Slots) /\ \A T \in SUBSET Slots : IsFiniteSet(T) /\ Cardinality(T) \in Nat
<1>1. 1 \in Int /\ FetchDepth \in Int
  BY UdecxImportAssumption
<1>2. IsFiniteSet(Slots)
  BY <1>1, FS_Interval DEF Slots
<1> QED
  BY <1>2, FS_Subset, FS_CardinalityType

\* A step that reads slots, drops URBs from the queue and takes the requests K off the wire.
LEMMA BridgeShrinks ==
    ASSUME UdecxInv, urbs' = urbs, ep' = ep,
           UrbSlots' \subseteq UrbSlots, \A s \in UrbSlots' : fetch'[s] = fetch[s],
           queued' \in Seq(Urbs), Distinct(queued'), Queued' \subseteq Queued,
           Len(queued') <= Len(queued),
           NEW K \in SUBSET Keys, Forget(K), plane' \in Plane,
           plane'.table = plane.table \ K, plane'.nextId = plane.nextId
    PROVE  /\ OnePlace' /\ OnEndpoints' /\ IdsSpent' /\ TableDrawn' /\ AdmissionSlotsAgree'
           /\ outstanding' \in [Keys -> Urbs \cup {0}]
           /\ Outstanding' = Outstanding \ {outstanding[k] : k \in K}
<1>1. /\ outstanding' \in [Keys -> Urbs \cup {0}]
      /\ Outstanding' = Outstanding \ {outstanding[k] : k \in K}
      /\ {k \in Keys : outstanding'[k] # 0} = {k \in Keys : outstanding[k] # 0} \ K
      /\ \A k, l \in Keys : outstanding'[k] # 0 /\ outstanding'[k] = outstanding'[l] => k = l
  BY ForgetIs DEF UdecxInv
<1>2. Unread' \subseteq Unread
  BY DEF Unread
<1>3. OnePlace'
  <2>1. \A s, t \in UrbSlots' : fetch'[s].urb = fetch'[t].urb => s = t
    BY DEF UdecxInv, OnePlace
  <2>2. /\ Unread' \cap Queued' = {} /\ Unread' \cap Outstanding' = {}
        /\ Queued' \cap Outstanding' = {}
    BY <1>1, <1>2 DEF UdecxInv, OnePlace
  <2> QED
    BY <2>1, <2>2, <1>1 DEF OnePlace
<1>4. OnEndpoints'
  BY DEF UdecxInv, OnEndpoints
<1>5. IdsSpent'
  <2>1. Cardinality(UrbSlots') \in Nat /\ Cardinality(UrbSlots) \in Nat
        /\ Cardinality(UrbSlots') <= Cardinality(UrbSlots)
    <3>1. UrbSlots \in SUBSET Slots
      BY DEF UrbSlots
    <3>2. IsFiniteSet(UrbSlots) /\ Cardinality(UrbSlots) \in Nat
      BY <3>1, SlotsFinite
    <3> QED
      BY <3>2, FS_Subset, FS_CardinalityType
  <2>2. /\ Len(queued) \in Nat /\ Len(queued') \in Nat /\ urbs \in Nat
        /\ plane.nextId \in [Endpoints -> Nat]
    BY DEF UdecxInv, ChannelTyped, BridgeTyped, Plane
  <2> QED
    BY <2>1, <2>2 DEF UdecxInv, IdsSpent
<1>6. TableDrawn'
  BY DEF UdecxInv, TableDrawn, Drawn
<1>7. AdmissionSlotsAgree'
  BY <1>1 DEF UdecxInv, AdmissionSlotsAgree
<1> QED
  BY <1>1, <1>3, <1>4, <1>5, <1>6, <1>7

\* tryReceive: the slot read is the driver's again, and its URB, if any, is unread no more.
LEMMA CollectIs ==
    ASSUME UdecxInv, NEW s \in Slots, Collect(s)
    PROVE  /\ fetch[s] \in Fetched /\ fetch[s] # NoRecord /\ stage = "Driver"
           /\ UNCHANGED <<stage, presents, urbs, ep, down, owed>>
           /\ fetch' \in [Slots -> Fetched] /\ parked' \in Seq(Slots) /\ ChannelInv'
           /\ UrbSlots' = UrbSlots \ {s} /\ \A t \in UrbSlots' : fetch'[t] = fetch[t]
           /\ fetch[s].op = "Urb" =>
                 s \in UrbSlots /\ fetch[s].urb \in Unread /\ Unread' = Unread \ {fetch[s].urb}
           /\ fetch[s].op # "Urb" => UrbSlots' = UrbSlots /\ Unread' = Unread
<1>1. /\ fetch \in [Slots -> Fetched] /\ parked \in Seq(Slots)
      /\ Distinct(parked) /\ \A t \in Elements(parked) : fetch[t] = NoRecord
      /\ presents = 0 => stage = "Off"
      /\ \A t, u \in UrbSlots : fetch[t].urb = fetch[u].urb => t = u
  BY DEF UdecxInv, ChannelTyped, ChannelInv, OnePlace
<1>2. /\ stage = "Driver" /\ s \in Ready
      /\ fetch' = [fetch EXCEPT ![s] = NoRecord] /\ parked' = Append(parked, s)
      /\ UNCHANGED <<stage, presents, urbs, ep, down, owed>>
  BY DEF Collect, IsFirst, poll, driver, net
<1>3. fetch[s] \in Fetched /\ fetch[s] # NoRecord /\ NoRecord \in Fetched /\ NoRecord.op # "Urb"
  BY <1>1, <1>2 DEF Ready, Fetched, NoRecord
<1>4. /\ fetch' \in [Slots -> Fetched] /\ fetch'[s] = NoRecord
      /\ \A t \in Slots : t # s => fetch'[t] = fetch[t]
  BY <1>1, <1>2, <1>3
<1>5. UrbSlots' = UrbSlots \ {s} /\ \A t \in UrbSlots' : fetch'[t] = fetch[t]
  BY <1>3, <1>4 DEF UrbSlots
<1>6. /\ parked' \in Seq(Slots) /\ Elements(parked') = Elements(parked) \cup {s}
      /\ Distinct(parked')
  <2>1. s \notin Elements(parked)
    BY <1>1, <1>3
  <2> QED
    BY <2>1, <1>1, <1>2, AppendIs, DistinctKept
<1>7. ChannelInv'
  <2>1. \A t \in Elements(parked') : fetch'[t] = NoRecord
    <3> TAKE t \in Elements(parked')
    <3>1. t \in Slots
      BY <1>6, ElementsOf
    <3> QED
      BY <3>1, <1>1, <1>4, <1>6
  <2> QED
    BY <2>1, <1>1, <1>2, <1>6 DEF ChannelInv
<1>8. ASSUME fetch[s].op = "Urb"
      PROVE  s \in UrbSlots /\ fetch[s].urb \in Unread /\ Unread' = Unread \ {fetch[s].urb}
  <2>1. s \in UrbSlots /\ fetch[s].urb \in Unread
    BY <1>8 DEF UrbSlots, Unread
  <2>2. \A t \in UrbSlots \ {s} : fetch[t].urb # fetch[s].urb
    BY <2>1, <1>1
  <2>3. Unread' = {fetch[t].urb : t \in UrbSlots \ {s}}
    BY <1>5 DEF Unread
  <2>4. {fetch[t].urb : t \in UrbSlots \ {s}} = Unread \ {fetch[s].urb}
    BY <2>1, <2>2 DEF Unread
  <2> QED
    BY <2>1, <2>3, <2>4
<1>9. ASSUME fetch[s].op # "Urb" PROVE UrbSlots' = UrbSlots /\ Unread' = Unread
  <2>1. UrbSlots' = UrbSlots
    BY <1>5, <1>9 DEF UrbSlots
  <2> QED
    BY <2>1, <1>5 DEF Unread
<1> QED
  BY <1>2, <1>3, <1>4, <1>5, <1>6, <1>7, <1>8, <1>9

\* The driver fills a slot that was free.
LEMMA GivesIs ==
    ASSUME UdecxInv, NEW r \in Fetched, DriverGives(r)
    PROVE  /\ presents # 0
           /\ UNCHANGED <<stage, presents, refused, failed, plane, queued, outstanding, retired, ans,
                          acked, down, owed>>
           /\ fetch' \in [Slots -> Fetched] /\ parked' \in Seq(Slots) /\ ChannelInv'
           /\ \E h \in Slots : /\ h \notin UrbSlots /\ fetch'[h] = r
                               /\ \A t \in Slots : t # h => fetch'[t] = fetch[t]
<1>1. /\ fetch \in [Slots -> Fetched] /\ parked \in Seq(Slots)
      /\ Distinct(parked) /\ \A t \in Elements(parked) : fetch[t] = NoRecord
      /\ presents = 0 => parked = <<>>
  BY DEF UdecxInv, ChannelTyped, ChannelInv
<1>2. /\ parked # <<>> /\ parked' = Tail(parked) /\ fetch' = [fetch EXCEPT ![Head(parked)] = r]
      /\ UNCHANGED <<stage, presents, refused, failed, plane, queued, outstanding, retired, ans,
                     acked, down, owed>>
  BY DEF DriverGives, poll, bridge, answer, net
<1>3. PICK h : h = Head(parked)
  OBVIOUS
<1>4. /\ h \in Slots /\ h \in Elements(parked) /\ parked' \in Seq(Slots)
      /\ Elements(parked) = Elements(parked') \cup {h}
      /\ Distinct(parked') /\ h \notin Elements(parked')
  BY <1>1, <1>2, <1>3, TailIs, DistinctKept
<1>5. fetch[h] = NoRecord /\ h \notin UrbSlots
  BY <1>1, <1>4 DEF UrbSlots, NoRecord
<1>6. /\ fetch' \in [Slots -> Fetched] /\ fetch'[h] = r
      /\ \A t \in Slots : t # h => fetch'[t] = fetch[t]
  BY <1>1, <1>2, <1>3, <1>4
<1>7. ChannelInv'
  <2>1. \A t \in Elements(parked') : fetch'[t] = NoRecord
    <3> TAKE t \in Elements(parked')
    <3>1. t \in Slots /\ t # h /\ t \in Elements(parked)
      BY <1>4, ElementsOf
    <3> QED
      BY <3>1, <1>1, <1>6
  <2> QED
    BY <2>1, <1>1, <1>2, <1>4 DEF ChannelInv
<1> QED
  BY <1>1, <1>2, <1>4, <1>5, <1>6, <1>7

-------------------------------------------------------------------------------
(* The actions, one lemma each *)

LEMMA UdecxInvInit == Init => UdecxInv
<1> SUFFICES ASSUME Init PROVE UdecxInv
  OBVIOUS
<1>0. /\ stage = "Off" /\ presents = 0 /\ urbs = 0 /\ parked = <<>> /\ queued = <<>>
      /\ retired = <<>> /\ down = <<>> /\ owed = {} /\ refused = {} /\ failed = {} /\ acked = {}
      /\ fetch = [s \in Slots |-> NoRecord] /\ plane = InitPlane
      /\ outstanding = [k \in Keys |-> 0] /\ ep = [u \in Urbs |-> 0]
      /\ ans = [u \in Urbs |-> 0]
  BY DEF Init
<1>1. Elements(parked) = {} /\ Queued = {} /\ Elements(retired) = {}
  <2>1. <<>> \in Seq(Urbs)
    OBVIOUS
  <2> QED
    BY <2>1, <1>0, ElementsOf DEF Queued
<1>2. UrbSlots = {} /\ Unread = {} /\ Outstanding = {} /\ Open = {}
  BY <1>0, <1>1 DEF UrbSlots, Unread, Outstanding, Open, NoRecord
<1>3. ChannelTyped
  <2>1. NoRecord \in Fetched /\ MaxUrbs \in Nat
    BY DataPlaneAssumption DEF Fetched
  <2> QED
    BY <2>1, <1>0 DEF ChannelTyped
<1>4. plane \in Plane
  BY <1>0 DEF Plane, InitPlane
<1>5. BridgeTyped
  BY <1>0, <1>4 DEF BridgeTyped
<1>6. ChannelInv
  BY <1>0, <1>1 DEF ChannelInv, Distinct
<1>7. OnePlace /\ OnEndpoints
  BY <1>0, <1>1, <1>2 DEF OnePlace, OnEndpoints, Distinct
<1>8. IdsSpent
  <2>1. Cardinality(UrbSlots) = 0 /\ Len(queued) = 0
    BY <1>0, <1>2, FS_EmptySet
  <2>2. \A e \in Endpoints : plane.nextId[e] = 1
    BY <1>0 DEF InitPlane
  <2> QED
    BY <2>1, <2>2, <1>0 DEF IdsSpent
<1>9. TableDrawn /\ AdmissionSlotsAgree
  BY <1>0 DEF TableDrawn, AdmissionSlotsAgree, InitPlane
<1>10. Answers
  BY <1>0, <1>1, <1>2 DEF Answers, Urbs, Dropped
<1> QED
  BY <1>3, <1>5, <1>6, <1>7, <1>8, <1>9, <1>10 DEF UdecxInv

LEMMA PresentInv == ASSUME UdecxInv, Present PROVE UdecxInv'
<1>0. /\ ChannelTyped /\ BridgeTyped /\ ChannelInv /\ Answers
  BY DEF UdecxInv
<1>1. /\ presents' = presents + 1 /\ stage' = "Idle"
      /\ fetch' = [s \in Slots |-> NoRecord] /\ parked' = [s \in Slots |-> s]
      /\ plane' = InitPlane /\ queued' = <<>> /\ retired' = <<>>
      /\ outstanding' = [k \in Keys |-> 0] /\ down' = <<>> /\ owed' = {}
      /\ UNCHANGED <<refused, failed, urbs, ep, ans, acked>>
  BY DEF Present, ChannelOpens, Forget, driver, answer
<1>2. Queued' = {} /\ Elements(retired') = {} /\ Len(queued') = 0
  <2>1. <<>> \in Seq(Urbs) /\ Len(<<>>) = 0
    OBVIOUS
  <2> QED
    BY <2>1, <1>1, ElementsOf DEF Queued
<1>3. UrbSlots' = {} /\ Unread' = {} /\ Outstanding' = {} /\ Open' = {}
  BY <1>1, <1>2 DEF UrbSlots, Unread, Outstanding, Open, NoRecord
<1>4. parked' \in Seq(Slots) /\ Distinct(parked') /\ Elements(parked') \subseteq Slots
  <2>1. Slots = 1..FetchDepth /\ FetchDepth \in Nat
    BY UdecxImportAssumption DEF Slots
  <2> QED
    BY <2>1, <1>1 DEF Distinct, Elements
<1>5. ChannelTyped'
  <2>1. NoRecord \in Fetched
    BY DEF Fetched
  <2>2. presents' \in Nat
    BY <1>0, <1>1 DEF ChannelTyped
  <2> QED
    BY <2>1, <2>2, <1>0, <1>1, <1>4 DEF ChannelTyped
<1>6. BridgeTyped'
  <2>1. InitPlane \in Plane
    BY DEF Plane, InitPlane
  <2> QED
    BY <2>1, <1>1 DEF BridgeTyped
<1>7. ChannelInv'
  <2>1. presents' # 0
    BY <1>0, <1>1 DEF ChannelTyped
  <2>2. \A s \in Elements(parked') : fetch'[s] = NoRecord
    BY <1>1, <1>4
  <2> QED
    BY <2>1, <2>2, <1>4 DEF ChannelInv
<1>8. OnePlace' /\ OnEndpoints'
  BY <1>1, <1>2, <1>3 DEF OnePlace, OnEndpoints, Distinct
<1>9. IdsSpent'
  <2>1. Cardinality(UrbSlots') = 0
    BY <1>3, FS_EmptySet
  <2>2. \A e \in Endpoints : plane'.nextId[e] = 1
    BY <1>1 DEF InitPlane
  <2>3. urbs' \in Nat
    BY <1>0, <1>1 DEF ChannelTyped
  <2> QED
    BY <2>1, <2>2, <2>3, <1>2 DEF IdsSpent
<1>10. TableDrawn' /\ AdmissionSlotsAgree'
  BY <1>1 DEF TableDrawn, AdmissionSlotsAgree, InitPlane
<1>11. Answers'
  <2>1. presents' = 1 => 1..urbs' = {}
    BY <1>0, <1>1 DEF ChannelInv, ChannelTyped
  <2>2. Dropped' = Dropped
    BY <1>1 DEF Dropped
  <2> QED
    BY <2>1, <2>2, <1>0, <1>1, <1>2, <1>3 DEF Answers
<1> QED
  BY <1>5, <1>6, <1>7, <1>8, <1>9, <1>10, <1>11 DEF UdecxInv

\* The wire is left alone.
LEMMA ForgetNone == ASSUME BridgeTyped, UNCHANGED outstanding PROVE Forget({})
  BY DEF BridgeTyped, Forget

LEMMA OnUrbRequestInv == ASSUME UdecxInv, NEW s \in Slots, OnUrbRequest(s) PROVE UdecxInv'
<1>0. /\ ChannelTyped /\ BridgeTyped /\ ChannelInv /\ OnePlace /\ OnEndpoints /\ IdsSpent
      /\ TableDrawn /\ AdmissionSlotsAgree /\ Answers
  BY DEF UdecxInv
<1>1. PICK r, u : r = fetch[s] /\ u = r.urb
  OBVIOUS
<1>2. /\ r.op = "Urb" /\ Collect(s) /\ UNCHANGED <<plane, outstanding, retired, acked>>
      /\ r.kind = "Queue" => queued' = Append(queued, u) /\ UNCHANGED <<busy, refused, failed, ans>>
      /\ r.kind # "Queue" => Complete({u}, 0) /\ UNCHANGED queued
  BY <1>1 DEF OnUrbRequest, NoAnswer
<1>3. /\ r \in Fetched /\ stage = "Driver" /\ UNCHANGED <<stage, presents, urbs, ep, down, owed>>
      /\ fetch' \in [Slots -> Fetched] /\ parked' \in Seq(Slots) /\ ChannelInv'
      /\ UrbSlots' = UrbSlots \ {s} /\ \A t \in UrbSlots' : fetch'[t] = fetch[t]
      /\ s \in UrbSlots /\ u \in Unread /\ Unread' = Unread \ {u}
  BY <1>1, <1>2, CollectIs
<1>4. u \in Urbs /\ u \notin Queued /\ u \notin Outstanding
  BY <1>0, <1>1, <1>2, <1>3, FetchedIs DEF OnePlace
<1>5. /\ plane \in Plane /\ queued \in Seq(Urbs) /\ Len(queued) \in Nat /\ urbs \in Nat
      /\ plane.nextId \in [Endpoints -> Nat]
  BY <1>0 DEF ChannelTyped, BridgeTyped, Plane
<1>6. CASE r.kind = "Queue"
  <2>1. /\ queued' \in Seq(Urbs) /\ Queued' = Queued \cup {u} /\ Distinct(queued')
        /\ Len(queued') = Len(queued) + 1
    <3>1. PICK q \in Seq(Urbs) : q = queued
      BY <1>5
    <3>2. Distinct(q) /\ u \notin Elements(q)
      BY <3>1, <1>0, <1>4 DEF OnePlace, Queued
    <3>3. /\ Append(q, u) \in Seq(Urbs) /\ Elements(Append(q, u)) = Elements(q) \cup {u}
          /\ Distinct(Append(q, u))
      BY <3>2, <1>4, AppendIs, DistinctKept
    <3>4. Len(Append(q, u)) = Len(q) + 1
      BY <1>4
    <3>5. queued' = Append(q, u)
      BY <3>1, <1>2, <1>6
    <3> QED
      BY <3>1, <3>3, <3>4, <3>5 DEF Queued
  <2>2. Outstanding' = Outstanding
    BY <1>2 DEF Outstanding
  <2>3. Open' = Open
    BY <2>1, <2>2, <1>3 DEF Open
  <2>4. ChannelTyped' /\ BridgeTyped'
    BY <2>1, <1>0, <1>2, <1>3, <1>6 DEF ChannelTyped, BridgeTyped
  <2>5. OnePlace'
    <3>1. /\ Unread' \cap Queued' = {} /\ Unread' \cap Outstanding' = {}
          /\ Queued' \cap Outstanding' = {}
      BY <2>1, <2>2, <1>0, <1>3, <1>4 DEF OnePlace
    <3>2. \A t, v \in UrbSlots' : fetch'[t].urb = fetch'[v].urb => t = v
      BY <1>0, <1>3 DEF OnePlace
    <3> QED
      BY <3>1, <3>2, <2>1, <1>0, <1>2 DEF OnePlace
  <2>6. OnEndpoints'
    BY <2>1, <1>0, <1>1, <1>3, <1>6 DEF OnEndpoints
  <2>7. IdsSpent'
    <3>1. PICK T \in SUBSET Slots : T = UrbSlots
      BY DEF UrbSlots
    <3>2. IsFiniteSet(T) /\ Cardinality(T) \in Nat
      BY SlotsFinite
    <3>3. Cardinality(T \ {s}) = Cardinality(T) - 1
      BY <3>1, <3>2, <1>3, FS_RemoveElement
    <3>4. Cardinality(UrbSlots') = Cardinality(UrbSlots) - 1 /\ Cardinality(UrbSlots) \in Nat
      BY <3>1, <3>2, <3>3, <1>3
    <3> QED
      BY <3>4, <2>1, <1>0, <1>2, <1>3, <1>5, SMTT(30) DEF IdsSpent
  <2>8. TableDrawn' /\ AdmissionSlotsAgree'
    BY <1>0, <1>2 DEF TableDrawn, Drawn, AdmissionSlotsAgree
  <2>9. Answers'
    BY <2>3, <1>0, <1>2, <1>3, <1>6, AnswersSame
  <2> QED
    BY <2>4, <2>5, <2>6, <2>7, <2>8, <2>9, <1>3 DEF UdecxInv
<1>7. CASE r.kind # "Queue"
  <2>1. Queued' = Queued /\ Outstanding' = Outstanding /\ queued' = queued
    BY <1>2, <1>7 DEF Queued, Outstanding
  <2>2. Open' = Open \ {u} /\ u \in Open
    BY <2>1, <1>3, <1>4 DEF Open
  <2>3. PICK K : K = {} /\ Forget(K) /\ plane.table \ K = plane.table /\ K \in SUBSET Keys
    BY <1>0, <1>2, ForgetNone
  <2>4. OnePlace' /\ OnEndpoints' /\ IdsSpent' /\ TableDrawn' /\ AdmissionSlotsAgree'
    <3>1. UrbSlots' \subseteq UrbSlots /\ Queued' \subseteq Queued /\ Len(queued') <= Len(queued)
      BY <2>1, <1>3, <1>5
    <3>2. queued' \in Seq(Urbs) /\ Distinct(queued')
      BY <2>1, <1>0, <1>5 DEF OnePlace
    <3>3. plane' \in Plane /\ plane'.table = plane.table \ K /\ plane'.nextId = plane.nextId
      BY <2>3, <1>2, <1>5
    <3> QED
      BY <3>1, <3>2, <3>3, <2>3, <1>3, BridgeShrinks
  <2>5. Answers' /\ ans' \in [Urbs -> Nat] /\ refused' \subseteq Urbs /\ failed' \subseteq Urbs
    <3>1. PICK S \in SUBSET Urbs : S = {u}
      BY <1>4
    <3>2. /\ Complete(S, 0) /\ Open' \subseteq Open /\ S \subseteq Open /\ S \cap Open' = {}
          /\ Open \ Open' \subseteq S
      BY <3>1, <2>2, <1>2, <1>7
    <3> QED
      BY <3>2, <1>0, <1>2, <1>3, AnswersKeep
  <2>6. ChannelTyped' /\ BridgeTyped'
    BY <2>1, <2>5, <1>0, <1>2, <1>3 DEF ChannelTyped, BridgeTyped
  <2> QED
    BY <2>4, <2>5, <2>6, <1>3 DEF UdecxInv
<1> QED
  BY <1>6, <1>7

\* Taking a set of URBs out of the queue.
LEMMA QueueDrops ==
    ASSUME BridgeTyped, OnePlace, NEW X, queued' = Without(queued, X)
    PROVE  /\ queued' \in Seq(Urbs) /\ Distinct(queued') /\ Queued' = Queued \ X
           /\ Len(queued') <= Len(queued)
<1>1. PICK q \in Seq(Urbs) : q = queued /\ Distinct(q)
  BY DEF BridgeTyped, OnePlace
<1>2. /\ Without(q, X) \in Seq(Urbs) /\ Elements(Without(q, X)) = Elements(q) \ X
      /\ Len(Without(q, X)) <= Len(q)
  BY WithoutIs
<1>3. Distinct(Without(q, X))
  BY <1>1, DistinctKept
<1> QED
  BY <1>1, <1>2, <1>3 DEF Queued

LEMMA OnCancelInv == ASSUME UdecxInv, NEW s \in Slots, OnCancel(s) PROVE UdecxInv'
<1>0. /\ ChannelTyped /\ BridgeTyped /\ OnePlace /\ AdmissionSlotsAgree /\ Answers
  BY DEF UdecxInv
<1>1. PICK u, K : u = fetch[s].urb /\ K = {k \in Keys : outstanding[k] = u}
  OBVIOUS
<1>2. /\ fetch[s].op = "Cancel" /\ Collect(s) /\ Complete({}, 1)
      /\ acked' = acked \cup {u} /\ retired' = Retired({u})
      /\ u \in Queued => queued' = Without(queued, {u}) /\ UNCHANGED <<plane, outstanding>>
      /\ u \notin Queued => plane' = CancelledByPlaneId(K) /\ Forget(K) /\ UNCHANGED queued
  BY <1>1 DEF OnCancel, Queued
<1>3. /\ fetch[s] \in Fetched /\ stage = "Driver"
      /\ UNCHANGED <<stage, presents, urbs, ep, down, owed>>
      /\ fetch' \in [Slots -> Fetched] /\ parked' \in Seq(Slots) /\ ChannelInv'
      /\ UrbSlots' = UrbSlots /\ \A t \in UrbSlots' : fetch'[t] = fetch[t]
      /\ Unread' = Unread
  BY <1>2, CollectIs
<1>4. u \in Urbs /\ 0 \notin Urbs
  BY <1>1, <1>2, <1>3, FetchedIs DEF Urbs
<1>5. retired' \in Seq(Urbs) /\ Elements(retired') \subseteq Elements(retired) \cup {u}
  BY <1>0, <1>2, <1>4, RetiredIs DEF BridgeTyped
<1>6. /\ plane \in Plane /\ queued \in Seq(Urbs) /\ Distinct(queued) /\ Len(queued) \in Nat
  BY <1>0 DEF BridgeTyped, OnePlace
<1>7. PICK L \in SUBSET Keys :
         /\ queued' \in Seq(Urbs) /\ Distinct(queued') /\ Queued' \subseteq Queued
         /\ Queued \ Queued' \subseteq {u} /\ Len(queued') <= Len(queued)
         /\ Forget(L) /\ {outstanding[k] : k \in L} \subseteq {u}
         /\ plane' \in Plane /\ plane'.table = plane.table \ L /\ plane'.nextId = plane.nextId
  <2>1. CASE u \in Queued
    <3>1. PICK L \in SUBSET Keys : L = {} /\ Forget(L) /\ plane.table \ L = plane.table
      BY <2>1, <1>0, <1>2, ForgetNone
    <3>2. PICK X : X = {u} /\ queued' = Without(queued, X)
      BY <2>1, <1>2
    <3>3. /\ queued' \in Seq(Urbs) /\ Distinct(queued') /\ Queued' = Queued \ X
          /\ Len(queued') <= Len(queued)
      BY <3>2, <1>0, QueueDrops
    <3>4. {outstanding[k] : k \in L} \subseteq {u} /\ plane' = plane
      BY <3>1, <2>1, <1>2
    <3> QED
      BY <3>1, <3>2, <3>3, <3>4, <1>6
  <2>2. CASE u \notin Queued
    <3>1. plane' = CancelledByPlaneId(K) /\ Forget(K) /\ UNCHANGED queued
      BY <2>2, <1>2
    <3>2. plane' \in Plane /\ plane'.table = plane.table \ K /\ plane'.nextId = plane.nextId
      BY <3>1, <1>6, CancelledIs
    <3>3. K \in SUBSET Keys /\ {outstanding[k] : k \in K} \subseteq {u}
      BY <1>1
    <3>4. Queued' = Queued /\ queued' = queued /\ Len(queued') <= Len(queued)
      BY <3>1, <1>6 DEF Queued
    <3> QED
      BY <3>1, <3>2, <3>3, <3>4, <1>6
  <2> QED
    BY <2>1, <2>2
<1>8. /\ OnePlace' /\ OnEndpoints' /\ IdsSpent' /\ TableDrawn' /\ AdmissionSlotsAgree'
      /\ outstanding' \in [Keys -> Urbs \cup {0}]
      /\ Outstanding' = Outstanding \ {outstanding[k] : k \in L}
  BY <1>3, <1>7, BridgeShrinks
<1>9. Open' \subseteq Open /\ Open \ Open' \subseteq {u}
  BY <1>3, <1>7, <1>8 DEF Open
<1>10. Answers' /\ ans' \in [Urbs -> Nat] /\ refused' \subseteq Urbs /\ failed' \subseteq Urbs
  <2>1. PICK S \in SUBSET Urbs : S = {}
    OBVIOUS
  <2>2. /\ Complete(S, 1) /\ S \subseteq Open /\ S \cap Open' = {}
        /\ Elements(retired') \subseteq Elements(retired) \cup S \cup acked'
        /\ Open \ Open' \subseteq S \cup Over \cup acked'
        /\ acked \subseteq acked'
    BY <2>1, <1>2, <1>5, <1>9
  <2> QED
    BY <2>2, <1>0, <1>3, <1>9, AnswersKeep
<1>11. ChannelTyped' /\ BridgeTyped'
  BY <1>0, <1>2, <1>3, <1>4, <1>5, <1>7, <1>8, <1>10 DEF ChannelTyped, BridgeTyped
<1> QED
  BY <1>3, <1>8, <1>10, <1>11 DEF UdecxInv

LEMMA OnConfigureInv == ASSUME UdecxInv, NEW s \in Slots, OnConfigure(s) PROVE UdecxInv'
<1>0. /\ ChannelTyped /\ BridgeTyped /\ OnePlace /\ AdmissionSlotsAgree /\ Answers
  BY DEF UdecxInv
<1>1. PICK Q, K, S : /\ Q = {u \in Queued : ep[u] \in fetch[s].release}
                     /\ K = {k \in Keys : outstanding[k] # 0
                                            /\ ep[outstanding[k]] \in fetch[s].release}
                     /\ S = Q \cup {outstanding[k] : k \in K}
  OBVIOUS
<1>2. /\ fetch[s].op = "Configure" /\ Collect(s) /\ Complete(S, 1) /\ retired' = Retired(S)
      /\ queued' = Without(queued, Q) /\ plane' = CancelledByPlaneId(K) /\ Forget(K)
      /\ UNCHANGED acked
  BY <1>1 DEF OnConfigure, Queued
<1>3. /\ UNCHANGED <<stage, presents, urbs, ep, down, owed>>
      /\ fetch' \in [Slots -> Fetched] /\ parked' \in Seq(Slots) /\ ChannelInv'
      /\ UrbSlots' = UrbSlots /\ \A t \in UrbSlots' : fetch'[t] = fetch[t]
      /\ Unread' = Unread
  BY <1>2, CollectIs
<1>4. /\ plane \in Plane /\ queued \in Seq(Urbs) /\ outstanding \in [Keys -> Urbs \cup {0}]
      /\ Queued \subseteq Urbs
  BY <1>0, ElementsOf DEF BridgeTyped, Queued
<1>5. /\ S \in SUBSET Urbs /\ K \in SUBSET Keys /\ S \subseteq Queued \cup Outstanding
      /\ Q \subseteq Queued /\ {outstanding[k] : k \in K} \subseteq Outstanding
  BY <1>1, <1>4 DEF Outstanding
<1>6. retired' \in Seq(Urbs) /\ Elements(retired') \subseteq Elements(retired) \cup S
  BY <1>0, <1>2, <1>5, RetiredIs DEF BridgeTyped
<1>7. /\ queued' \in Seq(Urbs) /\ Distinct(queued') /\ Queued' = Queued \ Q
      /\ Len(queued') <= Len(queued)
  BY <1>0, <1>2, QueueDrops
<1>8. plane' \in Plane /\ plane'.table = plane.table \ K /\ plane'.nextId = plane.nextId
  BY <1>2, <1>4, CancelledIs
<1>9. /\ OnePlace' /\ OnEndpoints' /\ IdsSpent' /\ TableDrawn' /\ AdmissionSlotsAgree'
      /\ outstanding' \in [Keys -> Urbs \cup {0}]
      /\ Outstanding' = Outstanding \ {outstanding[k] : k \in K}
  <2>1. UrbSlots' \subseteq UrbSlots /\ Queued' \subseteq Queued
    BY <1>3, <1>7
  <2> QED
    BY <2>1, <1>2, <1>3, <1>5, <1>7, <1>8, BridgeShrinks
<1>10. Open' = Open \ S /\ S \subseteq Open
  <2>1. /\ Unread \cap Queued = {} /\ Unread \cap Outstanding = {}
        /\ Queued \cap Outstanding = {}
    BY <1>0 DEF OnePlace
  <2>2. PICK O : O = {outstanding[k] : k \in K}
    OBVIOUS
  <2>3. S = Q \cup O /\ O \subseteq Outstanding /\ Outstanding' = Outstanding \ O
    BY <2>2, <1>1, <1>5, <1>9
  <2> QED
    BY <2>1, <2>3, <1>3, <1>5, <1>7 DEF Open
<1>11. Answers' /\ ans' \in [Urbs -> Nat] /\ refused' \subseteq Urbs /\ failed' \subseteq Urbs
  <2>1. /\ Open' \subseteq Open /\ S \cap Open' = {} /\ acked \subseteq acked'
        /\ Elements(retired') \subseteq Elements(retired) \cup S \cup acked'
        /\ Open \ Open' \subseteq S \cup Over \cup acked'
    BY <1>2, <1>6, <1>10
  <2> QED
    BY <2>1, <1>0, <1>2, <1>3, <1>5, <1>10, AnswersKeep
<1>12. ChannelTyped' /\ BridgeTyped'
  BY <1>0, <1>2, <1>3, <1>6, <1>7, <1>8, <1>9, <1>11 DEF ChannelTyped, BridgeTyped
<1> QED
  BY <1>3, <1>9, <1>11, <1>12 DEF UdecxInv

\* The channel is left alone, in a step of a device that is presented.
LEMMA ChannelSame ==
    ASSUME UdecxInv, UNCHANGED <<fetch, parked, presents, urbs>>, stage # "Off"
    PROVE  /\ ChannelInv' /\ UrbSlots' = UrbSlots /\ Unread' = Unread
           /\ \A t \in UrbSlots' : fetch'[t] = fetch[t]
  BY DEF UdecxInv, ChannelInv, UrbSlots, Unread

\* sweepQueued.
LEMMA DriverDrainedInv == ASSUME UdecxInv, DriverDrained PROVE UdecxInv'
<1>0. /\ ChannelTyped /\ BridgeTyped /\ OnePlace /\ AdmissionSlotsAgree /\ Answers
  BY DEF UdecxInv
<1>1. PICK S : S = Swept
  OBVIOUS
<1>2. /\ stage = "Driver" /\ stage' = "Admit" /\ Complete(S, 0) /\ retired' = Retired(S)
      /\ queued' = Without(queued, S)
      /\ UNCHANGED <<presents, fetch, parked, plane, outstanding, urbs, ep, acked, down, owed>>
  BY <1>1 DEF DriverDrained, driver, net
<1>3. /\ ChannelInv' /\ UrbSlots' = UrbSlots /\ Unread' = Unread
      /\ \A t \in UrbSlots' : fetch'[t] = fetch[t]
  BY <1>2, ChannelSame
<1>4. S \subseteq Queued /\ S \in SUBSET Urbs /\ plane \in Plane
  BY <1>0, <1>1, ElementsOf DEF Swept, Queued, BridgeTyped
<1>5. retired' \in Seq(Urbs) /\ Elements(retired') \subseteq Elements(retired) \cup S
  BY <1>0, <1>2, <1>4, RetiredIs DEF BridgeTyped
<1>6. /\ queued' \in Seq(Urbs) /\ Distinct(queued') /\ Queued' = Queued \ S
      /\ Len(queued') <= Len(queued)
  BY <1>0, <1>2, QueueDrops
<1>7. PICK K \in SUBSET Keys : K = {} /\ Forget(K) /\ plane.table \ K = plane.table
  BY <1>0, <1>2, ForgetNone
<1>8. OnePlace' /\ OnEndpoints' /\ IdsSpent' /\ TableDrawn' /\ AdmissionSlotsAgree'
  <2>1. /\ UrbSlots' \subseteq UrbSlots /\ Queued' \subseteq Queued
        /\ plane' \in Plane /\ plane'.table = plane.table \ K /\ plane'.nextId = plane.nextId
    BY <1>2, <1>3, <1>4, <1>6, <1>7
  <2> QED
    BY <2>1, <1>2, <1>3, <1>6, <1>7, BridgeShrinks
<1>9. Open' = Open \ S /\ S \subseteq Open
  <2>1. /\ Unread \cap Queued = {} /\ Queued \cap Outstanding = {}
    BY <1>0 DEF OnePlace
  <2>2. Outstanding' = Outstanding
    BY <1>2 DEF Outstanding
  <2> QED
    BY <2>1, <2>2, <1>3, <1>4, <1>6 DEF Open
<1>10. Answers' /\ ans' \in [Urbs -> Nat] /\ refused' \subseteq Urbs /\ failed' \subseteq Urbs
  <2>1. /\ Open' \subseteq Open /\ S \cap Open' = {} /\ acked \subseteq acked'
        /\ Elements(retired') \subseteq Elements(retired) \cup S \cup acked'
        /\ Open \ Open' \subseteq S \cup Over \cup acked'
        /\ stage # "Off" /\ presents' = presents /\ urbs' = urbs
    BY <1>2, <1>5, <1>9
  <2> QED
    BY <2>1, <1>0, <1>2, <1>4, <1>9, AnswersKeep
<1>11. ChannelTyped' /\ BridgeTyped'
  BY <1>0, <1>2, <1>5, <1>6, <1>10 DEF ChannelTyped, BridgeTyped
<1> QED
  BY <1>3, <1>8, <1>10, <1>11 DEF UdecxInv

\* onCompletion for the requests a pump or a sweep has taken out of the table.
LEMMA CompletedInv ==
    ASSUME UdecxInv, stage # "Off", stage' # "Off",
           UNCHANGED <<presents, fetch, parked, queued, urbs, ep, acked, owed>>,
           down' \in Seq(Records), plane' \in Plane, plane'.table \subseteq plane.table,
           plane'.nextId = plane.nextId, Completed(plane.table \ plane'.table)
    PROVE  UdecxInv'
<1>0. /\ ChannelTyped /\ BridgeTyped /\ OnePlace /\ AdmissionSlotsAgree /\ Answers
  BY DEF UdecxInv
<1>1. PICK K, O, S : /\ K = plane.table \ plane'.table /\ O = {outstanding[k] : k \in K}
                     /\ S = O \ ({0} \cup Elements(retired))
  OBVIOUS
<1>2. Complete(S, 0) /\ retired' = Retired(S) /\ Forget(K)
  BY <1>1 DEF Completed
<1>3. /\ ChannelInv' /\ UrbSlots' = UrbSlots /\ Unread' = Unread
      /\ \A t \in UrbSlots' : fetch'[t] = fetch[t]
  BY ChannelSame
<1>4. /\ plane.table = {k \in Keys : outstanding[k] # 0} /\ 0 \notin Urbs
      /\ outstanding \in [Keys -> Urbs \cup {0}]
      /\ queued \in Seq(Urbs) /\ Len(queued) \in Nat /\ Distinct(queued)
  BY <1>0 DEF BridgeTyped, AdmissionSlotsAgree, OnePlace, Urbs
<1>5. /\ K \in SUBSET Keys /\ O \subseteq Outstanding /\ S \in SUBSET Urbs /\ S \subseteq O
      /\ O \ S \subseteq Elements(retired) /\ plane'.table = plane.table \ K
  <2>1. K \in SUBSET Keys /\ plane'.table = plane.table \ K
    BY <1>1, <1>4
  <2>2. \A k \in K : outstanding[k] \in Urbs /\ outstanding[k] # 0
    BY <1>1, <1>4
  <2>3. O \subseteq Urbs /\ O \subseteq Outstanding
    BY <2>1, <2>2, <1>1 DEF Outstanding
  <2> QED
    BY <2>1, <2>3, <1>1, <1>4
<1>6. retired' \in Seq(Urbs) /\ Elements(retired') \subseteq Elements(retired) \cup S
  BY <1>0, <1>2, <1>5, RetiredIs DEF BridgeTyped
<1>7. Queued' = Queued /\ queued' = queued /\ Len(queued') <= Len(queued)
  BY <1>4 DEF Queued
<1>8. /\ OnePlace' /\ OnEndpoints' /\ IdsSpent' /\ TableDrawn' /\ AdmissionSlotsAgree'
      /\ outstanding' \in [Keys -> Urbs \cup {0}] /\ Outstanding' = Outstanding \ O
  <2>1. /\ UrbSlots' \subseteq UrbSlots /\ Queued' \subseteq Queued
        /\ queued' \in Seq(Urbs) /\ Distinct(queued') /\ urbs' = urbs /\ ep' = ep
    BY <1>3, <1>4, <1>7
  <2>2. /\ OnePlace' /\ OnEndpoints' /\ IdsSpent' /\ TableDrawn' /\ AdmissionSlotsAgree'
        /\ outstanding' \in [Keys -> Urbs \cup {0}]
        /\ Outstanding' = Outstanding \ {outstanding[k] : k \in K}
    BY <2>1, <1>2, <1>3, <1>5, <1>7, BridgeShrinks
  <2> QED
    BY <2>2, <1>1
<1>9. Open' = Open \ O /\ O \subseteq Open
  <2>1. Unread \cap Outstanding = {} /\ Queued \cap Outstanding = {}
    BY <1>0 DEF OnePlace
  <2> QED
    BY <2>1, <1>3, <1>5, <1>7, <1>8 DEF Open
<1>10. Answers' /\ ans' \in [Urbs -> Nat] /\ refused' \subseteq Urbs /\ failed' \subseteq Urbs
  <2>1. Elements(retired) \subseteq Over
    BY <1>0 DEF Answers
  <2>2. /\ Open' \subseteq Open /\ S \subseteq Open /\ S \cap Open' = {} /\ acked \subseteq acked'
        /\ Elements(retired') \subseteq Elements(retired) \cup S \cup acked'
        /\ Open \ Open' \subseteq S \cup Over \cup acked'
        /\ presents' = presents /\ urbs' = urbs
    BY <2>1, <1>5, <1>6, <1>9
  <2> QED
    BY <2>2, <1>0, <1>2, <1>5, AnswersKeep
<1>11. ChannelTyped' /\ BridgeTyped'
  BY <1>0, <1>6, <1>7, <1>8, <1>10 DEF ChannelTyped, BridgeTyped
<1> QED
  BY <1>3, <1>8, <1>10, <1>11 DEF UdecxInv

LEMMA ReceiveInv == ASSUME UdecxInv, Receive PROVE UdecxInv'
<1>0. down \in Seq(Records) /\ plane \in Plane
  BY DEF UdecxInv, BridgeTyped
<1>1. PICK p, r : p \in Plane /\ p = plane /\ r = Head(down)
  BY <1>0
<1>2. /\ stage = "Net" /\ down # <<>> /\ r.type = "Complete" /\ down' = Tail(down)
      /\ plane' = Handled(p, r, Verdict(p, r)) /\ Completed(plane.table \ plane'.table)
      /\ UNCHANGED <<stage, presents, fetch, parked, queued, urbs, ep, acked, owed>>
  BY <1>1 DEF Receive, poll, driver
<1>3. r \in Records /\ down' \in Seq(Records)
  BY <1>0, <1>1, <1>2, TailIs
<1>4. plane' \in Plane /\ plane'.table \subseteq plane.table /\ plane'.nextId = plane.nextId
  <2>1. PICK q : q = Handled(p, r, Verdict(p, r))
    OBVIOUS
  <2>2. q \in Plane /\ q.table \subseteq p.table /\ q.nextId = p.nextId
    BY <2>1, <1>1, <1>2, <1>3, HandledIs
  <2> QED
    BY <2>1, <2>2, <1>1, <1>2
<1> QED
  BY <1>2, <1>3, <1>4, CompletedInv

LEMMA NetDrainedInv == ASSUME UdecxInv, NetDrained PROVE UdecxInv'
<1>0. down \in Seq(Records) /\ plane \in Plane
  BY DEF UdecxInv, BridgeTyped
<1>1. PICK p, T : p \in Plane /\ p = plane
                  /\ T = {k \in plane.table : outstanding[k] \in late}
  BY <1>0
<1>2. /\ stage = "Net" /\ stage' = "Idle" /\ plane' = Expired(p, T, {})
      /\ Completed(plane.table \ plane'.table)
      /\ UNCHANGED <<presents, fetch, parked, queued, urbs, ep, acked, owed, down>>
  BY <1>1 DEF NetDrained, driver, net
<1>3. plane' \in Plane /\ plane'.table \subseteq plane.table /\ plane'.nextId = plane.nextId
  <2>1. PICK q : q = Expired(p, T, {})
    OBVIOUS
  <2>2. q \in Plane /\ q.table = p.table \ T /\ q.nextId = p.nextId
    BY <2>1, <1>1, ExpiredIs
  <2> QED
    BY <2>1, <2>2, <1>1, <1>2
<1> QED
  BY <1>0, <1>2, <1>3, CompletedInv

\* failAll: everything the bridge holds ends, and what was retired before has ended.
LEMMA FailAllInv ==
    ASSUME UdecxInv, FailAll, stage # "Off",
           UNCHANGED <<presents, urbs, ep, acked, owed>>, down' \in Seq(Records),
           fetch' \in [Slots -> Fetched], parked' \in Seq(Slots), ChannelInv',
           UrbSlots' \subseteq UrbSlots, \A t \in UrbSlots' : fetch'[t] = fetch[t],
           stage' # "Off" => Unread' = Unread
    PROVE  UdecxInv'
<1>0. /\ ChannelTyped /\ BridgeTyped /\ OnePlace /\ AdmissionSlotsAgree /\ Answers
  BY DEF UdecxInv
<1>1. PICK S, p : S = FailedByFailAll /\ p \in Plane /\ p = plane
  BY <1>0 DEF BridgeTyped
<1>2. /\ Complete(S, 0) /\ retired' = Retired(S) /\ Forget(Keys) /\ queued' = <<>>
      /\ plane' = Drained(p)
  BY <1>1 DEF FailAll
<1>3. /\ queued' \in Seq(Urbs) /\ Distinct(queued') /\ Queued' = {}
      /\ Len(queued') <= Len(queued)
  <2>1. <<>> \in Seq(Urbs) /\ Len(<<>>) = 0 /\ Distinct(<<>>)
    BY DEF Distinct
  <2>2. Elements(<<>>) = {}
    BY <2>1, ElementsOf
  <2>3. Len(queued) \in Nat
    BY <1>0 DEF BridgeTyped
  <2> QED
    BY <2>1, <2>2, <2>3, <1>2 DEF Queued
<1>4. plane' \in Plane /\ plane'.table = plane.table \ Keys /\ plane'.nextId = plane.nextId
  <2>1. plane'.table = {} /\ plane' \in Plane /\ plane'.nextId = p.nextId
    BY <1>1, <1>2, DrainedIs
  <2>2. plane.table \ Keys = {}
    BY <1>0 DEF AdmissionSlotsAgree
  <2> QED
    BY <2>1, <2>2, <1>1
<1>5. /\ OnePlace' /\ OnEndpoints' /\ IdsSpent' /\ TableDrawn' /\ AdmissionSlotsAgree'
      /\ outstanding' \in [Keys -> Urbs \cup {0}]
  BY <1>2, <1>3, <1>4, BridgeShrinks
<1>6. Outstanding' = {}
  BY <1>2 DEF Outstanding, Forget
<1>7. /\ S = (Queued \cup Outstanding) \ Elements(retired) /\ S \in SUBSET Urbs
  <2>1. S = (Queued \cup Outstanding) \ Elements(retired)
    BY <1>1 DEF FailedByFailAll, Held, IsRetired, Queued
  <2>2. Queued \subseteq Urbs
    BY <1>0, ElementsOf DEF BridgeTyped, Queued
  <2>3. Outstanding \subseteq Urbs
    BY <1>0 DEF BridgeTyped, Outstanding
  <2> QED
    BY <2>1, <2>2, <2>3
<1>8. retired' \in Seq(Urbs) /\ Elements(retired') \subseteq Elements(retired) \cup S
  BY <1>0, <1>2, <1>7, RetiredIs DEF BridgeTyped
<1>9. Unread' \subseteq Unread /\ Open' = Unread'
  BY <1>3, <1>6 DEF Unread, Open
<1>10. Answers' /\ ans' \in [Urbs -> Nat] /\ refused' \subseteq Urbs /\ failed' \subseteq Urbs
  <2>1. Elements(retired) \subseteq Over /\ Unread \cap (Queued \cup Outstanding) = {}
    BY <1>0 DEF Answers, OnePlace
  <2>2. /\ Open' \subseteq Open /\ S \subseteq Open /\ S \cap Open' = {} /\ acked \subseteq acked'
        /\ Elements(retired') \subseteq Elements(retired) \cup S \cup acked'
        /\ presents' = presents /\ urbs' = urbs
    BY <2>1, <1>7, <1>8, <1>9 DEF Open
  <2>3. stage' # "Off" => Open \ Open' \subseteq S \cup Over \cup acked'
    BY <2>1, <1>7, <1>9 DEF Open
  <2> QED
    BY <2>2, <2>3, <1>0, <1>2, <1>7, AnswersKeep
<1>11. ChannelTyped' /\ BridgeTyped'
  BY <1>0, <1>3, <1>4, <1>5, <1>8, <1>10 DEF ChannelTyped, BridgeTyped
<1> QED
  BY <1>5, <1>10, <1>11 DEF UdecxInv

LEMMA WithdrawInv == ASSUME UdecxInv, Withdraw PROVE UdecxInv'
<1>1. /\ stage = "Idle" /\ stage' = "Off" /\ FailAll
      /\ fetch' = [s \in Slots |-> NoRecord] /\ parked' = <<>>
      /\ UNCHANGED <<presents, urbs, ep, acked, owed, down>>
  BY DEF Withdraw, ChannelCloses, driver, net
<1>2. fetch' \in [Slots -> Fetched] /\ parked' \in Seq(Slots) /\ down' \in Seq(Records)
  BY <1>1 DEF Fetched, UdecxInv, BridgeTyped
<1>3. UrbSlots' = {}
  BY <1>1 DEF UrbSlots, NoRecord
<1>4. ChannelInv'
  <2>1. <<>> \in Seq(Slots) /\ Distinct(<<>>)
    BY DEF Distinct
  <2>2. Elements(<<>>) = {}
    BY <2>1, ElementsOf
  <2>3. presents' = 0 => stage' = "Off" /\ urbs' = 0 /\ parked' = <<>>
    BY <1>1 DEF UdecxInv, ChannelInv
  <2>4. Elements(parked') = {} /\ Distinct(parked')
    BY <2>1, <2>2, <1>1
  <2> QED
    BY <2>3, <2>4 DEF ChannelInv
<1>5. UrbSlots' \subseteq UrbSlots /\ \A t \in UrbSlots' : fetch'[t] = fetch[t]
  BY <1>3
<1> QED
  BY <1>1, <1>2, <1>4, <1>5, FailAllInv

LEMMA NetLostInv == ASSUME UdecxInv, NetLost PROVE UdecxInv'
<1>1. /\ stage = "Net" /\ stage' = "Idle" /\ FailAll
      /\ UNCHANGED <<presents, fetch, parked, urbs, ep, acked, owed>>
      /\ UNCHANGED down \/ (down # <<>> /\ down' = Tail(down))
  BY DEF NetLost, driver
<1>2. /\ fetch' \in [Slots -> Fetched] /\ parked' \in Seq(Slots) /\ down \in Seq(Records)
  BY <1>1 DEF UdecxInv, ChannelTyped, BridgeTyped
<1>3. down' \in Seq(Records)
  <2>1. down # <<>> => Tail(down) \in Seq(Records)
    BY <1>2, TailIs
  <2> QED
    BY <2>1, <1>1, <1>2
<1>4. /\ ChannelInv' /\ UrbSlots' = UrbSlots /\ Unread' = Unread
      /\ \A t \in UrbSlots' : fetch'[t] = fetch[t]
  BY <1>1, ChannelSame
<1> QED
  BY <1>1, <1>2, <1>3, <1>4, FailAllInv

\* The URB that has waited longest leaves the queue; the id it would get is new.
LEMMA AdmitNextIs ==
    ASSUME UdecxInv, queued # <<>>, queued' = Tail(queued),
           NEW u, u = Head(queued), NEW e, e = ep[u], NEW k, k = RequestKey(plane, e)
    PROVE  /\ u \in Urbs /\ u \in Queued /\ e \in Endpoints /\ k \in Keys
           /\ k[1] = ChannelFor(e) /\ k[2] = plane.nextId[e]
           /\ k \notin plane.table /\ outstanding[k] = 0
           /\ queued' \in Seq(Urbs) /\ Distinct(queued') /\ Queued' = Queued \ {u}
           /\ Len(queued) \in Nat \ {0} /\ Len(queued') = Len(queued) - 1
<1>1. PICK q : q \in Seq(Urbs) /\ q = queued /\ Distinct(q) /\ q # <<>>
  BY DEF UdecxInv, BridgeTyped, OnePlace
<1>2. /\ u \in Urbs /\ u \in Elements(q) /\ Tail(q) \in Seq(Urbs)
      /\ Elements(q) = Elements(Tail(q)) \cup {u}
      /\ Distinct(Tail(q)) /\ u \notin Elements(Tail(q))
  BY <1>1, TailIs, DistinctKept
<1>3. Len(q) \in Nat \ {0} /\ Len(Tail(q)) = Len(q) - 1
  BY <1>1
<1>4. /\ u \in Urbs /\ u \in Queued /\ queued' \in Seq(Urbs) /\ Distinct(queued')
      /\ Queued' = Queued \ {u}
      /\ Len(queued) \in Nat \ {0} /\ Len(queued') = Len(queued) - 1
  BY <1>1, <1>2, <1>3 DEF Queued
<1>5. e \in Endpoints
  BY <1>4 DEF UdecxInv, OnEndpoints
<1>6. plane.nextId[e] \in Ids
  <2>1. /\ plane.nextId[e] \in Nat /\ urbs \in 0..MaxUrbs /\ MaxUrbs \in Nat
        /\ Cardinality(UrbSlots) \in Nat
    <3>1. UrbSlots \in SUBSET Slots
      BY DEF UrbSlots
    <3> QED
      BY <3>1, <1>5, SlotsFinite, DataPlaneAssumption
         DEF UdecxInv, ChannelTyped, BridgeTyped, Plane
  <2>2. /\ plane.nextId[e] >= 1
        /\ plane.nextId[e] + Len(queued) + Cardinality(UrbSlots) <= urbs + 1
    BY <1>5 DEF UdecxInv, IdsSpent
  <2> QED
    BY <2>1, <2>2, <1>4 DEF Ids
<1>7. k \in Keys /\ k[1] = ChannelFor(e) /\ k[2] = plane.nextId[e]
  BY <1>5, <1>6, KeysAre DEF RequestKey
<1>8. k \notin plane.table
  <2> SUFFICES ASSUME k \in plane.table PROVE FALSE
    OBVIOUS
  <2>1. PICK f \in Endpoints : k[1] = ChannelFor(f) /\ k[2] < plane.nextId[f]
    BY DEF UdecxInv, TableDrawn, Drawn
  <2>2. f = e
    <3>1. ChannelFor(e) = ChannelFor(f)
      BY <2>1, <1>7
    <3> QED
      BY <3>1, <1>5, KeysAre
  <2>3. plane.nextId[e] < plane.nextId[e] /\ plane.nextId[e] \in Nat
    BY <2>1, <2>2, <1>6, <1>7 DEF Ids
  <2> QED
    BY <2>3
<1>9. outstanding[k] = 0
  BY <1>7, <1>8 DEF UdecxInv, AdmissionSlotsAgree
<1> QED
  BY <1>4, <1>5, <1>7, <1>8, <1>9

\* Drawing an id: there are still enough, and what was drawn before stays drawn.
LEMMA DrawIs ==
    ASSUME UdecxInv, UNCHANGED <<urbs, fetch>>, NEW e \in Endpoints,
           plane'.nextId = [plane.nextId EXCEPT ![e] = @ + 1],
           Len(queued) \in Nat \ {0}, Len(queued') = Len(queued) - 1
    PROVE  /\ IdsSpent' /\ \A k \in Keys : Drawn(k) => Drawn(k)'
           /\ \A k : k[1] = ChannelFor(e) /\ k[2] = plane.nextId[e] => Drawn(k)'
<1>1. plane.nextId \in [Endpoints -> Nat] /\ urbs \in Nat /\ IdsSpent
  BY DEF UdecxInv, ChannelTyped, BridgeTyped, Plane
<1>2. \A f \in Endpoints : /\ plane'.nextId[f] \in {plane.nextId[f], plane.nextId[f] + 1}
                           /\ plane'.nextId[f] \in Nat /\ plane.nextId[f] \in Nat
  BY <1>1
<1>3. UrbSlots' = UrbSlots /\ Cardinality(UrbSlots) \in Nat
  <2>1. UrbSlots \in SUBSET Slots /\ UrbSlots' = UrbSlots
    BY DEF UrbSlots
  <2> QED
    BY <2>1, SlotsFinite
<1>4. IdsSpent'
  <2> SUFFICES ASSUME NEW f \in Endpoints
               PROVE  /\ plane'.nextId[f] >= 1
                      /\ plane'.nextId[f] + Len(queued') + Cardinality(UrbSlots') <= urbs' + 1
    BY DEF IdsSpent
  <2>1. /\ plane.nextId[f] >= 1
        /\ plane.nextId[f] + Len(queued) + Cardinality(UrbSlots) <= urbs + 1
    BY <1>1 DEF IdsSpent
  <2> QED
    BY <2>1, <1>1, <1>2, <1>3, SMTT(30)
<1>5. ASSUME NEW k \in Keys, Drawn(k) PROVE Drawn(k)'
  <2>1. PICK f \in Endpoints : k[1] = ChannelFor(f) /\ k[2] < plane.nextId[f]
    BY <1>5 DEF Drawn
  <2>2. k[2] \in Nat
    BY KeysAre DEF Ids
  <2>3. k[2] < plane'.nextId[f]
    BY <2>1, <2>2, <1>2
  <2> QED
    BY <2>1, <2>3 DEF Drawn
<1>6. ASSUME NEW k, k[1] = ChannelFor(e), k[2] = plane.nextId[e] PROVE Drawn(k)'
  BY <1>1, <1>6 DEF Drawn
<1> QED
  BY <1>4, <1>5, <1>6

\* One round of admitQueued whose records went out: the URB is on the wire under a new id.
LEMMA AdmittedInv == ASSUME UdecxInv, AdmitNext(TRUE) PROVE UdecxInv'
<1>0. /\ ChannelTyped /\ BridgeTyped /\ OnePlace /\ OnEndpoints /\ TableDrawn
      /\ AdmissionSlotsAgree /\ Answers
  BY DEF UdecxInv
<1>1. PICK p, u, e, k : /\ p \in Plane /\ p = plane /\ u = Head(queued) /\ e = ep[u]
                        /\ k = RequestKey(p, e)
  BY <1>0 DEF BridgeTyped
<1>2. /\ stage = "Admit" /\ queued # <<>> /\ queued' = Tail(queued)
      /\ plane' = Submitted(p, e) /\ outstanding' = [outstanding EXCEPT ![k] = u]
      /\ owed' \subseteq owed \cup {[key |-> k, urb |-> u]}
      /\ UNCHANGED <<stage, retired, refused, failed, ans, presents, fetch, parked, urbs, ep, acked, down>>
  BY <1>1 DEF AdmitNext, NoAnswer, driver
<1>3. /\ u \in Urbs /\ u \in Queued /\ e \in Endpoints /\ k \in Keys
      /\ k[1] = ChannelFor(e) /\ k[2] = plane.nextId[e]
      /\ k \notin plane.table /\ outstanding[k] = 0
      /\ queued' \in Seq(Urbs) /\ Distinct(queued') /\ Queued' = Queued \ {u}
      /\ Len(queued) \in Nat \ {0} /\ Len(queued') = Len(queued) - 1
  BY <1>1, <1>2, AdmitNextIs
<1>4. /\ plane' \in Plane /\ plane'.table = plane.table \cup {k}
      /\ plane'.nextId = [plane.nextId EXCEPT ![e] = @ + 1]
  <2>1. PICK q : q = Submitted(p, e)
    OBVIOUS
  <2>2. /\ q \in Plane /\ q.table = p.table \cup {k}
        /\ q.nextId = [p.nextId EXCEPT ![e] = @ + 1]
    BY <2>1, <1>1, <1>3, SubmittedIs
  <2> QED
    BY <2>1, <2>2, <1>1, <1>2
<1>5. /\ ChannelInv' /\ UrbSlots' = UrbSlots /\ Unread' = Unread
      /\ \A t \in UrbSlots' : fetch'[t] = fetch[t]
  BY <1>2, ChannelSame
<1>6. /\ outstanding \in [Keys -> Urbs \cup {0}] /\ 0 \notin Urbs
      /\ outstanding' \in [Keys -> Urbs \cup {0}] /\ outstanding'[k] = u
      /\ \A l \in Keys : l # k => outstanding'[l] = outstanding[l]
  BY <1>0, <1>2, <1>3 DEF BridgeTyped, Urbs
<1>7. Outstanding' = Outstanding \cup {u}
  <2>1. \A v \in Outstanding' : v \in Outstanding \cup {u}
    BY <1>6 DEF Outstanding
  <2>2. u \in Outstanding'
    BY <1>3, <1>6 DEF Outstanding
  <2>3. ASSUME NEW v \in Outstanding PROVE v \in Outstanding'
    <3>1. PICK l \in Keys : v = outstanding[l] /\ v # 0
      BY <2>3 DEF Outstanding
    <3>2. l # k
      BY <3>1, <1>3
    <3> QED
      BY <3>1, <3>2, <1>6 DEF Outstanding
  <2> QED
    BY <2>1, <2>2, <2>3
<1>8. OnePlace'
  <2>1. /\ Unread \cap Queued = {} /\ Unread \cap Outstanding = {}
        /\ Queued \cap Outstanding = {}
        /\ \A l, m \in Keys : outstanding[l] # 0 /\ outstanding[l] = outstanding[m] => l = m
    BY <1>0 DEF OnePlace
  <2>2. /\ Unread' \cap Queued' = {} /\ Unread' \cap Outstanding' = {}
        /\ Queued' \cap Outstanding' = {}
    BY <2>1, <1>3, <1>5, <1>7
  <2>3. \A l \in Keys : l # k => outstanding'[l] # u
    <3>1. u \notin Outstanding /\ u # 0
      BY <2>1, <1>3, <1>6
    <3> QED
      BY <3>1, <1>6 DEF Outstanding
  <2>4. \A l, m \in Keys : outstanding'[l] # 0 /\ outstanding'[l] = outstanding'[m] => l = m
    <3> TAKE l, m \in Keys
    <3>1. CASE l # k /\ m # k
      BY <3>1, <2>1, <1>6
    <3>2. CASE l = k \/ m = k
      BY <3>2, <2>3, <1>6
    <3> QED
      BY <3>1, <3>2
  <2>5. \A s, t \in UrbSlots' : fetch'[s].urb = fetch'[t].urb => s = t
    BY <1>0, <1>5 DEF OnePlace
  <2> QED
    BY <2>2, <2>4, <2>5, <1>3 DEF OnePlace
<1>9. OnEndpoints'
  <2>1. \A v \in Queued' : ep'[v] \in Endpoints
    BY <1>0, <1>2, <1>3 DEF OnEndpoints
  <2>2. \A s \in UrbSlots' : fetch'[s].kind = "Queue" => ep'[fetch'[s].urb] \in Endpoints
    BY <1>0, <1>2, <1>5 DEF OnEndpoints
  <2> QED
    BY <2>1, <2>2 DEF OnEndpoints
<1>10. IdsSpent' /\ TableDrawn'
  <2>1. /\ IdsSpent' /\ \A l \in Keys : Drawn(l) => Drawn(l)'
        /\ \A l : l[1] = ChannelFor(e) /\ l[2] = plane.nextId[e] => Drawn(l)'
    BY <1>2, <1>3, <1>4, DrawIs
  <2>2. plane.table \subseteq Keys
    BY <1>0 DEF AdmissionSlotsAgree
  <2>3. \A l \in plane'.table : Drawn(l)'
    BY <2>1, <2>2, <1>0, <1>3, <1>4 DEF TableDrawn
  <2> QED
    BY <2>1, <2>3 DEF TableDrawn
<1>11. AdmissionSlotsAgree'
  <2>1. u # 0
    BY <1>3, <1>6
  <2>2. {l \in Keys : outstanding'[l] # 0} = {l \in Keys : outstanding[l] # 0} \cup {k}
    BY <2>1, <1>3, <1>6
  <2> QED
    BY <2>2, <1>0, <1>4 DEF AdmissionSlotsAgree
<1>12. Answers'
  <2>1. Open' = Open
    BY <1>3, <1>5, <1>7 DEF Open
  <2> QED
    BY <2>1, <1>0, <1>2, AnswersSame
<1>13. ChannelTyped' /\ BridgeTyped'
  <2>1. owed' \subseteq [key : Keys, urb : Urbs]
    BY <1>0, <1>2, <1>3 DEF BridgeTyped
  <2> QED
    BY <2>1, <1>0, <1>2, <1>3, <1>4, <1>6 DEF ChannelTyped, BridgeTyped
<1> QED
  BY <1>5, <1>8, <1>9, <1>10, <1>11, <1>12, <1>13 DEF UdecxInv

\* One whose records did not: the URB is answered, and its id is spent.
LEMMA RefusedInv == ASSUME UdecxInv, AdmitNext(FALSE) PROVE UdecxInv'
<1>0. /\ ChannelTyped /\ BridgeTyped /\ OnePlace /\ OnEndpoints /\ TableDrawn
      /\ AdmissionSlotsAgree /\ Answers
  BY DEF UdecxInv
<1>1. PICK p, u, e, k : /\ p \in Plane /\ p = plane /\ u = Head(queued) /\ e = ep[u]
                        /\ k = RequestKey(p, e)
  BY <1>0 DEF BridgeTyped
<1>2. /\ stage = "Admit" /\ stage' = "Net" /\ queued # <<>> /\ queued' = Tail(queued)
      /\ plane' = SubmitFailed(p, e) /\ Complete({u}, 0) /\ retired' = Retired({u})
      /\ UNCHANGED <<outstanding, owed, presents, fetch, parked, urbs, ep, acked, down>>
  BY <1>1 DEF AdmitNext, driver
<1>3. /\ u \in Urbs /\ u \in Queued /\ e \in Endpoints
      /\ queued' \in Seq(Urbs) /\ Distinct(queued') /\ Queued' = Queued \ {u}
      /\ Len(queued) \in Nat \ {0} /\ Len(queued') = Len(queued) - 1
  BY <1>1, <1>2, AdmitNextIs
<1>4. /\ plane' \in Plane /\ plane'.table = plane.table
      /\ plane'.nextId = [plane.nextId EXCEPT ![e] = @ + 1]
  <2>1. PICK q : q = SubmitFailed(p, e)
    OBVIOUS
  <2>2. /\ q \in Plane /\ q.table = p.table
        /\ q.nextId = [p.nextId EXCEPT ![e] = @ + 1]
    BY <2>1, <1>1, <1>3, SubmitFailedIs
  <2> QED
    BY <2>1, <2>2, <1>1, <1>2
<1>5. /\ ChannelInv' /\ UrbSlots' = UrbSlots /\ Unread' = Unread
      /\ \A t \in UrbSlots' : fetch'[t] = fetch[t]
  BY <1>2, ChannelSame
<1>6. Outstanding' = Outstanding
  BY <1>2 DEF Outstanding
<1>7. OnePlace'
  <2>1. /\ Unread \cap Queued = {} /\ Unread \cap Outstanding = {}
        /\ Queued \cap Outstanding = {}
        /\ \A l, m \in Keys : outstanding[l] # 0 /\ outstanding[l] = outstanding[m] => l = m
    BY <1>0 DEF OnePlace
  <2>2. /\ Unread' \cap Queued' = {} /\ Unread' \cap Outstanding' = {}
        /\ Queued' \cap Outstanding' = {}
    BY <2>1, <1>3, <1>5, <1>6
  <2>3. \A s, t \in UrbSlots' : fetch'[s].urb = fetch'[t].urb => s = t
    BY <1>0, <1>5 DEF OnePlace
  <2>4. \A l, m \in Keys : outstanding'[l] # 0 /\ outstanding'[l] = outstanding'[m] => l = m
    BY <2>1, <1>2
  <2> QED
    BY <2>2, <2>3, <2>4, <1>3 DEF OnePlace
<1>8. OnEndpoints'
  <2>1. \A v \in Queued' : ep'[v] \in Endpoints
    BY <1>0, <1>2, <1>3 DEF OnEndpoints
  <2>2. \A s \in UrbSlots' : fetch'[s].kind = "Queue" => ep'[fetch'[s].urb] \in Endpoints
    BY <1>0, <1>2, <1>5 DEF OnEndpoints
  <2> QED
    BY <2>1, <2>2 DEF OnEndpoints
<1>9. IdsSpent' /\ TableDrawn'
  <2>1. IdsSpent' /\ \A l \in Keys : Drawn(l) => Drawn(l)'
    BY <1>2, <1>3, <1>4, DrawIs
  <2>2. plane.table \subseteq Keys
    BY <1>0 DEF AdmissionSlotsAgree
  <2>3. \A l \in plane'.table : Drawn(l)'
    BY <2>1, <2>2, <1>0, <1>4 DEF TableDrawn
  <2> QED
    BY <2>1, <2>3 DEF TableDrawn
<1>10. AdmissionSlotsAgree'
  BY <1>0, <1>2, <1>4 DEF AdmissionSlotsAgree
<1>11. PICK S \in SUBSET Urbs : S = {u}
  BY <1>3
<1>12. retired' \in Seq(Urbs) /\ Elements(retired') \subseteq Elements(retired) \cup S
  BY <1>0, <1>2, <1>11, RetiredIs DEF BridgeTyped
<1>13. Answers' /\ ans' \in [Urbs -> Nat] /\ refused' \subseteq Urbs /\ failed' \subseteq Urbs
  <2>1. Open' = Open \ S /\ S \subseteq Open
    BY <1>0, <1>3, <1>5, <1>6, <1>11 DEF Open, OnePlace
  <2>2. /\ Complete(S, 0) /\ Open' \subseteq Open /\ S \cap Open' = {} /\ acked \subseteq acked'
        /\ Elements(retired') \subseteq Elements(retired) \cup S \cup acked'
        /\ Open \ Open' \subseteq S \cup Over \cup acked'
        /\ stage # "Off" /\ presents' = presents /\ urbs' = urbs
    BY <2>1, <1>2, <1>11, <1>12
  <2> QED
    BY <2>1, <2>2, <1>0, AnswersKeep
<1>14. ChannelTyped' /\ BridgeTyped'
  BY <1>0, <1>2, <1>3, <1>4, <1>12, <1>13 DEF ChannelTyped, BridgeTyped
<1> QED
  BY <1>5, <1>7, <1>8, <1>9, <1>10, <1>13, <1>14 DEF UdecxInv

\* A step that leaves the URBs where they are, and answers none.
LEMMA PlacesSame ==
    ASSUME UdecxInv, stage # "Off" \/ stage' = stage, stage' # "Off" => stage # "Off",
           UNCHANGED <<presents, chan, bridge, urbs, ep, answer>>,
           down' \in Seq(Records), owed' \subseteq owed
    PROVE  UdecxInv'
<1>0. UNCHANGED <<presents, fetch, parked, refused, failed, plane, queued, outstanding, retired, urbs,
                  ep, ans, acked>>
  BY DEF chan, bridge, answer
<1>1. UrbSlots' = UrbSlots /\ Queued' = Queued /\ Outstanding' = Outstanding
  BY <1>0 DEF UrbSlots, Queued, Outstanding
<1>2. Unread' = Unread
  BY <1>0, <1>1 DEF Unread
<1>3. ChannelTyped' /\ BridgeTyped' /\ ChannelInv'
  BY <1>0 DEF UdecxInv, ChannelTyped, BridgeTyped, ChannelInv
<1>4. OnePlace' /\ OnEndpoints'
  BY <1>0, <1>1, <1>2 DEF UdecxInv, OnePlace, OnEndpoints
<1>5. IdsSpent' /\ TableDrawn' /\ AdmissionSlotsAgree'
  BY <1>0, <1>1 DEF UdecxInv, IdsSpent, TableDrawn, Drawn, AdmissionSlotsAgree
<1>6. Answers'
  <2>1. Open' = Open
    BY <1>1, <1>2 DEF Open
  <2> QED
    BY <2>1, <1>0, AnswersSame DEF UdecxInv
<1> QED
  BY <1>3, <1>4, <1>5, <1>6 DEF UdecxInv

\* poll() going on, the clock and the link.
LEMMA PassingInv ==
    ASSUME UdecxInv, \/ PollBegins \/ AdmitDone \/ LinkDies
                     \/ \E u \in Urbs : Expire(u)
                     \/ UNCHANGED vars
    PROVE  UdecxInv'
<1>1. down \in Seq(Records)
  BY DEF UdecxInv, BridgeTyped
<1>2. /\ stage # "Off" \/ stage' = stage
      /\ stage' # "Off" => stage # "Off"
      /\ UNCHANGED <<presents, chan, bridge, urbs, ep, answer, down, owed>>
  BY DEF PollBegins, AdmitDone, LinkDies, Expire, vars, poll, driver, net
<1> QED
  BY <1>1, <1>2, PlacesSame

LEMMA ExporterAnswersInv ==
    ASSUME UdecxInv, NEW o \in owed,
           \/ ExporterAnswers(o, [type |-> "Complete", key |-> o.key, more |-> FALSE,
                                  urb |-> o.urb])
           \/ ExporterAnswers(o, [type |-> "Error"])
    PROVE  UdecxInv'
<1>1. down \in Seq(Records) /\ o.key \in Keys /\ o.urb \in Urbs
  BY DEF UdecxInv, BridgeTyped
<1>2. PICK r : /\ r \in {[type |-> "Complete", key |-> o.key, more |-> FALSE, urb |-> o.urb],
                         [type |-> "Error"]}
               /\ ExporterAnswers(o, r)
  OBVIOUS
<1>3. r \in Records
  <2>1. [type |-> "Complete", key |-> o.key, more |-> FALSE, urb |-> o.urb]
           \in [type : {"Complete"}, key : Keys, more : BOOLEAN, urb : Urbs]
    BY <1>1
  <2>2. [type |-> "Error"] \in [type : {"Error"}]
    OBVIOUS
  <2> QED
    BY <2>1, <2>2, <1>2, Zenon DEF Records
<1>4. /\ down' = Append(down, r) /\ owed' \subseteq owed /\ stage' = stage
      /\ UNCHANGED <<presents, chan, bridge, urbs, ep, answer>>
  BY <1>2 DEF ExporterAnswers, poll, driver
<1>5. down' \in Seq(Records)
  BY <1>1, <1>3, <1>4, AppendIs
<1> QED
  BY <1>4, <1>5, PlacesSame

\* A slot filled with a cancellation or a configure transaction holds no URB.
LEMMA OtherGivenInv ==
    ASSUME UdecxInv, NEW r \in Fetched, r.op # "Urb", DriverGives(r), UNCHANGED <<urbs, ep>>
    PROVE  UdecxInv'
<1>0. /\ ChannelTyped /\ BridgeTyped /\ OnePlace /\ OnEndpoints /\ IdsSpent /\ TableDrawn
      /\ AdmissionSlotsAgree /\ Answers
  BY DEF UdecxInv
<1>1. /\ UNCHANGED <<stage, presents, refused, failed, plane, queued, outstanding, retired, ans,
                     acked, down, owed>>
      /\ fetch' \in [Slots -> Fetched] /\ parked' \in Seq(Slots) /\ ChannelInv'
  BY GivesIs
<1>2. PICK h \in Slots : /\ h \notin UrbSlots /\ fetch'[h] = r
                         /\ \A t \in Slots : t # h => fetch'[t] = fetch[t]
  BY GivesIs
<1>3. UrbSlots' = UrbSlots /\ \A t \in UrbSlots' : fetch'[t] = fetch[t]
  BY <1>2 DEF UrbSlots
<1>4. Unread' = Unread /\ Queued' = Queued /\ Outstanding' = Outstanding
  BY <1>1, <1>3 DEF Unread, Queued, Outstanding
<1>5. ChannelTyped' /\ BridgeTyped'
  BY <1>0, <1>1 DEF ChannelTyped, BridgeTyped
<1>6. OnePlace' /\ OnEndpoints'
  BY <1>0, <1>1, <1>3, <1>4 DEF OnePlace, OnEndpoints
<1>7. IdsSpent' /\ TableDrawn' /\ AdmissionSlotsAgree'
  BY <1>0, <1>1, <1>3 DEF IdsSpent, TableDrawn, Drawn, AdmissionSlotsAgree
<1>8. Answers'
  <2>1. Open' = Open
    BY <1>4 DEF Open
  <2> QED
    BY <2>1, <1>0, <1>1, AnswersSame
<1> QED
  BY <1>1, <1>5, <1>6, <1>7, <1>8 DEF UdecxInv

LEMMA DriverOtherInv ==
    ASSUME UdecxInv, \/ \E u \in Urbs : DriverCancels(u)
                     \/ \E e \in Endpoints : DriverConfigures({e})
    PROVE  UdecxInv'
<1>1. CASE \E u \in Urbs : DriverCancels(u)
  <2>1. PICK u \in Urbs : DriverCancels(u)
    BY <1>1
  <2>2. PICK r : r = [op |-> "Cancel", urb |-> u]
    OBVIOUS
  <2>3. r \in Fetched /\ r.op # "Urb"
    BY <2>2 DEF Fetched
  <2>4. DriverGives(r) /\ UNCHANGED <<urbs, ep>>
    BY <2>1, <2>2 DEF DriverCancels
  <2> QED
    BY <2>3, <2>4, OtherGivenInv
<1>2. CASE \E e \in Endpoints : DriverConfigures({e})
  <2>1. PICK e \in Endpoints : DriverConfigures({e})
    BY <1>2
  <2>2. PICK r : r = [op |-> "Configure", release |-> {e}]
    OBVIOUS
  <2>3. r \in Fetched /\ r.op # "Urb"
    BY <2>2 DEF Fetched
  <2>4. DriverGives(r) /\ UNCHANGED <<urbs, ep>>
    BY <2>1, <2>2 DEF DriverConfigures
  <2> QED
    BY <2>3, <2>4, OtherGivenInv
<1> QED
  BY <1>1, <1>2

\* A new URB is in the slot it was given, and nowhere else.
LEMMA DriverUrbInv ==
    ASSUME UdecxInv, NEW e \in Endpoints, NEW kind \in Kinds, DriverUrb(e, kind)
    PROVE  UdecxInv'
<1>0. /\ ChannelTyped /\ BridgeTyped /\ OnePlace /\ OnEndpoints /\ IdsSpent /\ TableDrawn
      /\ AdmissionSlotsAgree /\ Answers
  BY DEF UdecxInv
<1>1. PICK v, r : v = urbs + 1 /\ r = [op |-> "Urb", urb |-> v, kind |-> kind]
  OBVIOUS
<1>2. /\ urbs < MaxUrbs /\ urbs' = v /\ DriverGives(r)
      /\ ep' = IF kind = "Queue" THEN [ep EXCEPT ![v] = e] ELSE ep
  BY <1>1 DEF DriverUrb
<1>3. /\ urbs \in Nat /\ MaxUrbs \in Nat /\ v \in Urbs /\ v \in 0..MaxUrbs
      /\ urbs \in 0..MaxUrbs
  BY <1>0, <1>1, <1>2, DataPlaneAssumption DEF ChannelTyped, Urbs
<1>4. /\ r \in Fetched /\ r.op = "Urb" /\ r.urb = v /\ r.kind = kind
  BY <1>1, <1>3 DEF Fetched
<1>5. /\ UNCHANGED <<stage, presents, refused, failed, plane, queued, outstanding, retired, ans,
                     acked, down, owed>>
      /\ fetch' \in [Slots -> Fetched] /\ parked' \in Seq(Slots) /\ ChannelInv'
  BY <1>2, <1>4, GivesIs
<1>6. PICK h \in Slots : /\ h \notin UrbSlots /\ fetch'[h] = r
                         /\ \A t \in Slots : t # h => fetch'[t] = fetch[t]
  BY <1>2, <1>4, GivesIs
<1>7. /\ UrbSlots' = UrbSlots \cup {h} /\ \A t \in UrbSlots : fetch'[t] = fetch[t]
  BY <1>4, <1>6 DEF UrbSlots
<1>8. /\ Unread' = Unread \cup {v} /\ Queued' = Queued /\ Outstanding' = Outstanding
  <2>1. Queued' = Queued /\ Outstanding' = Outstanding
    BY <1>5 DEF Queued, Outstanding
  <2>2. \A x \in Unread' : x \in Unread \cup {v}
    BY <1>4, <1>6, <1>7 DEF Unread
  <2>3. v \in Unread' /\ Unread \subseteq Unread'
    BY <1>4, <1>6, <1>7 DEF Unread
  <2> QED
    BY <2>1, <2>2, <2>3
<1>9. v \notin Open /\ Open' = Open \cup {v} /\ ans[v] = 0 /\ v \notin Dropped
  <2>1. v \notin 1..urbs /\ v > urbs
    BY <1>1, <1>3
  <2>2. v \notin Open /\ ans[v] = 0 /\ v \notin Dropped
    BY <2>1, <1>0, <1>3 DEF Answers
  <2> QED
    BY <2>2, <1>8 DEF Open
<1>10. ep' \in [Urbs -> Endpoints \cup {0}] /\ \A x \in Urbs : x # v => ep'[x] = ep[x]
  BY <1>0, <1>2, <1>3 DEF ChannelTyped
<1>11. kind = "Queue" => ep'[v] = e
  BY <1>0, <1>2, <1>3 DEF ChannelTyped
<1>12. ChannelTyped' /\ BridgeTyped'
  BY <1>0, <1>2, <1>3, <1>5, <1>10 DEF ChannelTyped, BridgeTyped
<1>13. OnePlace'
  <2>1. /\ Unread' \cap Queued' = {} /\ Unread' \cap Outstanding' = {}
        /\ Queued' \cap Outstanding' = {}
    BY <1>0, <1>8, <1>9 DEF OnePlace, Open
  <2>2. \A t \in UrbSlots : fetch[t].urb \in Unread /\ fetch[t].urb # v
    BY <1>9 DEF Unread, Open
  <2>3. \A s, t \in UrbSlots' : fetch'[s].urb = fetch'[t].urb => s = t
    <3> TAKE s, t \in UrbSlots'
    <3>1. CASE s # h /\ t # h
      BY <3>1, <1>0, <1>7 DEF OnePlace
    <3>2. CASE s = h \/ t = h
      BY <3>2, <2>2, <1>4, <1>6, <1>7
    <3> QED
      BY <3>1, <3>2
  <2> QED
    BY <2>1, <2>3, <1>0, <1>5 DEF OnePlace
<1>14. OnEndpoints'
  <2>1. \A x \in Queued' : ep'[x] \in Endpoints
    <3> TAKE x \in Queued'
    <3>1. x \in Queued /\ x \in Urbs /\ x # v
      BY <1>0, <1>8, <1>9, ElementsOf DEF Open, Queued, BridgeTyped
    <3> QED
      BY <3>1, <1>0, <1>10 DEF OnEndpoints
  <2>2. \A t \in UrbSlots' : fetch'[t].kind = "Queue" => ep'[fetch'[t].urb] \in Endpoints
    <3> TAKE t \in UrbSlots'
    <3>1. CASE t = h
      BY <3>1, <1>4, <1>6, <1>11
    <3>2. CASE t # h
      <4>1. t \in UrbSlots /\ fetch'[t] = fetch[t] /\ fetch[t].urb \in Unread
        BY <3>2, <1>7 DEF Unread
      <4>2. fetch[t].urb \in Urbs /\ fetch[t].urb # v
        BY <4>1, <1>0, <1>9, FetchedIs DEF ChannelTyped, UrbSlots, Open
      <4> QED
        BY <4>1, <4>2, <1>0, <1>10 DEF OnEndpoints
    <3> QED
      BY <3>1, <3>2
  <2> QED
    BY <2>1, <2>2 DEF OnEndpoints
<1>15. IdsSpent'
  <2>1. PICK T \in SUBSET Slots : T = UrbSlots
    BY DEF UrbSlots
  <2>2. IsFiniteSet(T) /\ Cardinality(T) \in Nat
    BY SlotsFinite
  <2>3. Cardinality(T \cup {h}) = Cardinality(T) + 1
    BY <2>1, <2>2, <1>6, FS_AddElement
  <2>4. Cardinality(UrbSlots') = Cardinality(UrbSlots) + 1 /\ Cardinality(UrbSlots) \in Nat
    BY <2>1, <2>2, <2>3, <1>7
  <2>5. plane.nextId \in [Endpoints -> Nat] /\ Len(queued) \in Nat
    BY <1>0 DEF BridgeTyped, Plane
  <2> QED
    BY <2>4, <2>5, <1>0, <1>1, <1>2, <1>3, <1>5, SMTT(30) DEF IdsSpent
<1>16. TableDrawn' /\ AdmissionSlotsAgree'
  BY <1>0, <1>5 DEF TableDrawn, Drawn, AdmissionSlotsAgree
<1>17. Answers'
  <2>1. Over' = Over /\ Dropped' = Dropped
    BY <1>5 DEF Over, Dropped
  <2>2. 1..urbs' = 1..urbs \cup {v} /\ \A x \in Urbs : x > urbs' => x > urbs
    BY <1>1, <1>2, <1>3 DEF Urbs
  <2>3. Open' \subseteq 1..urbs'
    BY <2>2, <1>0, <1>9 DEF Answers
  <2>4. \A x \in Urbs : x \in Open' \/ x > urbs' => ans'[x] = 0 /\ x \notin Dropped'
    BY <2>1, <2>2, <1>0, <1>3, <1>5, <1>9 DEF Answers
  <2>5. stage' # "Off" /\ presents' = 1 => 1..urbs' \subseteq Open' \cup Over'
    BY <2>1, <2>2, <1>0, <1>5, <1>9 DEF Answers
  <2>6. /\ (\A x \in Urbs : ans'[x] <= 1) /\ Elements(retired') \subseteq Over'
        /\ (\A x \in Dropped' : ans'[x] = 0) /\ refused' \cap failed' = {}
    BY <2>1, <1>0, <1>5 DEF Answers
  <2> QED
    BY <2>3, <2>4, <2>5, <2>6 DEF Answers
<1> QED
  BY <1>5, <1>12, <1>13, <1>14, <1>15, <1>16, <1>17 DEF UdecxInv

-------------------------------------------------------------------------------
(* The theorems *)

LEMMA UdecxInvNext == UdecxInv /\ [Next]_vars => UdecxInv'
<1> SUFFICES ASSUME UdecxInv, [Next]_vars PROVE UdecxInv'
  OBVIOUS
<1>1. CASE Present \/ Withdraw
  BY <1>1, PresentInv, WithdrawInv
<1>2. CASE Handle
  BY <1>2, OnUrbRequestInv, OnCancelInv, OnConfigureInv DEF Handle
<1>3. CASE DriverDrained
  BY <1>3, DriverDrainedInv
<1>4. CASE \E ok \in BOOLEAN : AdmitNext(ok)
  <2>1. PICK ok \in BOOLEAN : AdmitNext(ok)
    BY <1>4
  <2>2. CASE ok = TRUE
    BY <2>1, <2>2, AdmittedInv
  <2>3. CASE ok = FALSE
    BY <2>1, <2>3, RefusedInv
  <2> QED
    BY <2>2, <2>3
<1>5. CASE Receive \/ NetDrained \/ NetLost
  BY <1>5, ReceiveInv, NetDrainedInv, NetLostInv
<1>6. CASE \E e \in Endpoints, kind \in Kinds : DriverUrb(e, kind)
  BY <1>6, DriverUrbInv
<1>7. CASE \/ \E u \in Urbs : DriverCancels(u)
           \/ \E e \in Endpoints : DriverConfigures({e})
  BY <1>7, DriverOtherInv
<1>8. CASE \E o \in owed :
              \/ ExporterAnswers(o, [type |-> "Complete", key |-> o.key, more |-> FALSE,
                                     urb |-> o.urb])
              \/ ExporterAnswers(o, [type |-> "Error"])
  BY <1>8, ExporterAnswersInv
<1>9. CASE \/ PollBegins \/ AdmitDone \/ LinkDies \/ \E u \in Urbs : Expire(u)
           \/ UNCHANGED vars
  BY <1>9, PassingInv
<1> QED
  BY <1>1, <1>2, <1>3, <1>4, <1>5, <1>6, <1>7, <1>8, <1>9 DEF Next

\* The inductive invariant: where every URB of the bridge is, and what has become of those
\* that are nowhere (UdecxBridge and UdecxDriverChannel as a whole).
THEOREM UdecxInvHolds == Spec => []UdecxInv
<1> QED
  BY UdecxInvInit, UdecxInvNext, PTL DEF Spec

\* The bridge offers the driver at most one completion of a URB, and during the first
\* presentation, where every URB is the device's own, one it no longer holds was completed,
\* cancelled by the driver, or offered to a channel that did not take it; it is forgotten in
\* no other way (onCancel, onConfigure, onCompletion, failAll, retire, sendRecord).
THEOREM EveryUrbHasOneOutcome == Spec => []OneOutcome
<1>1. ASSUME UdecxInv PROVE OneOutcome
  <2>1. Answers /\ ChannelTyped /\ 1..urbs \subseteq Urbs
    BY <1>1, DataPlaneAssumption DEF UdecxInv, ChannelTyped, Urbs
  <2>2. ASSUME stage # "Off", presents = 1, NEW u \in Taken \ Held
        PROVE  ans[u] = 1 \/ u \in acked \/ u \in Dropped
    <3>1. u \in 1..urbs /\ u \notin Unread
      BY <2>2 DEF Taken, Unread, UrbSlots
    <3>2. u \notin Open
      BY <3>1, <2>2 DEF Open, Held, Queued
    <3> QED
      BY <3>1, <3>2, <2>1, <2>2 DEF Answers, Over
  <2> QED
    BY <2>1, <2>2 DEF OneOutcome, Answers
<1> QED
  BY <1>1, UdecxInvHolds, PTL

\* The bridge's map and the plane's table hold the same requests, so no admission slot
\* stays taken by a transfer nobody waits for (onCancel, onConfigure, onCompletion).
THEOREM SlotsStayInStep == Spec => []AdmissionSlotsAgree
<1>1. UdecxInv => AdmissionSlotsAgree
  BY DEF UdecxInv
<1> QED
  BY <1>1, UdecxInvHolds, PTL

===============================================================================
