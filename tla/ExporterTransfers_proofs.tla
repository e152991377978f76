------------------------ MODULE ExporterTransfers_proofs ------------------------
(***************************************************************************)
(* The safety of the exporter's data plane, for every set of endpoints,    *)
(* every credit and every number of SUBMITs: each request is answered once *)
(* and held until then (I1), the device's slots are accounted for, and an  *)
(* endpoint's transfers reach the device in the order they came.           *)
(*                                                                         *)
(* The three follow from one inductive invariant.  AnsweredOnce alone is   *)
(* not inductive: it needs the tables to be disjoint, a queue to hold a    *)
(* request once and only on its own endpoint, and that no table knows a    *)
(* SUBMIT that has not come.                                               *)
(***************************************************************************)
EXTENDS ExporterTransfers, Ops_proofs

\* The requests the exporter still owes an answer or has dropped unanswered.
Open == Queued \cup inFlight \cup {rx} \cup dropped

\* No table knows a request that has not come.
KnownRequests ==
    /\ Queued \cup inFlight \cup port \cup dropped \subseteq 1..sub
    /\ rx \in 0..sub
    /\ \A e \in Endpoints : lastIssued[e] <= sub

\* A request is in one table at a time, and what reached the device is not waiting
\* for it.
TablesDisjoint ==
    /\ Queued \cap inFlight = {}
    /\ dropped \cap (Queued \cup inFlight) = {}
    /\ rx \notin Queued \cup inFlight \cup dropped
    /\ port \cap (Queued \cup dropped) = {} /\ rx \notin port

\* Among the transfers in flight a control transfer is alone.
BarrierInFlight ==
    \A r \in inFlight : IsEp0(ep[r]) => inFlight = {r}

\* A queue holds the requests of its own endpoint, oldest first; what was issued
\* there is older still.
QueuesInOrder ==
    \A e \in Endpoints :
        /\ Increasing(queue[e])
        /\ \A r \in InQueue(e) : ep[r] = e /\ lastIssued[e] < r

\* Nothing is received while an OUT is being reassembled: it is the youngest.
YoungestReassembled ==
    rx # 0 => /\ rx = sub
              /\ ep[rx] \in Endpoints
              /\ \A e \in Endpoints : lastIssued[e] < rx

\* The answers so far, for the requests to come as well.
AnswersCounted ==
    \A r \in Reqs : answers[r] = IF r <= sub /\ r \notin Open THEN 1 ELSE 0

\* A data endpoint is reserved for what the device runs on it.
Reserved ==
    \A r \in port : ~IsEp0(ep[r]) => ep[r] \in Endpoints /\ busy[ep[r]] = r

ExporterInv ==
    /\ TransfersTypeOK
    /\ KnownRequests
    /\ TablesDisjoint
    /\ QueuesInOrder
    /\ YoungestReassembled
    /\ AnswersCounted
    /\ Reserved
    /\ NoLeakedSlot
    /\ BarrierInFlight
    /\ WithinCredit

-------------------------------------------------------------------------------
(* The queues *)

\* What it is to be queued, and that the queues hold requests only.
LEMMA QueuedIs ==
    ASSUME queue \in [Endpoints -> Seq(Reqs)]
    PROVE  /\ \A r : r \in Queued <=> \E e \in Endpoints : r \in InQueue(e)
           /\ \A e \in Endpoints : InQueue(e) \subseteq Reqs
           /\ Queued \subseteq Reqs
<1>1. \A r : r \in Queued <=> \E e \in Endpoints : r \in InQueue(e)
  BY DEF Queued
<1>2. \A e \in Endpoints : InQueue(e) \subseteq Reqs
  BY ElementsOf DEF InQueue
<1> QED
  BY <1>1, <1>2

\* enqueueTransfer adds one request to one queue.
LEMMA QueuedAppend ==
    ASSUME queue \in [Endpoints -> Seq(Reqs)],
           NEW e \in Endpoints, NEW r \in Reqs,
           queue' = [queue EXCEPT ![e] = Append(@, r)]
    PROVE  /\ queue' \in [Endpoints -> Seq(Reqs)]
           /\ \A f \in Endpoints :
                 InQueue(f)' = IF f = e THEN InQueue(f) \cup {r} ELSE InQueue(f)
           /\ Queued' = Queued \cup {r}
<1>1. queue' \in [Endpoints -> Seq(Reqs)]
  BY AppendIs
<1>2. \A f \in Endpoints :
         InQueue(f)' = IF f = e THEN InQueue(f) \cup {r} ELSE InQueue(f)
  <2>1. queue'[e] = Append(queue[e], r) /\ \A f \in Endpoints \ {e} : queue'[f] = queue[f]
    OBVIOUS
  <2>2. Elements(Append(queue[e], r)) = Elements(queue[e]) \cup {r}
    BY AppendIs
  <2> QED
    BY <2>1, <2>2 DEF InQueue
<1>3. Queued' = Queued \cup {r}
  BY <1>2 DEF Queued
<1> QED
  BY <1>1, <1>2, <1>3

\* A cancel or a sweep takes the same requests out of every queue.
LEMMA QueuedWithout ==
    ASSUME NEW q \in [Endpoints -> Seq(Reqs)], NEW X,
           queue' = [e \in Endpoints |-> Without(q[e], X)]
    PROVE  /\ queue' \in [Endpoints -> Seq(Reqs)]
           /\ \A e \in Endpoints : InQueue(e)' = Elements(q[e]) \ X
           /\ \A e \in Endpoints : Increasing(q[e]) => Increasing(queue'[e])
<1>1. \A e \in Endpoints : /\ Without(q[e], X) \in Seq(Reqs)
                           /\ Elements(Without(q[e], X)) = Elements(q[e]) \ X
  BY WithoutIs
<1>2. ASSUME NEW e \in Endpoints, Increasing(q[e]) PROVE Increasing(queue'[e])
  <2>1. Reqs \in SUBSET Nat
    BY DEF Reqs
  <2> QED
    BY <2>1, <1>2, WithoutIncreasing
<1> QED
  BY <1>1, <1>2 DEF InQueue

-------------------------------------------------------------------------------
(* Credit *)

\* Two disjoint sets of requests that together shrink keep within a bound.
LEMMA CreditShrinks ==
    ASSUME NEW Q \in SUBSET Reqs, NEW F \in SUBSET Reqs, Q \cap F = {},
           NEW Q2 \in SUBSET Reqs, NEW F2 \in SUBSET Reqs, Q2 \cap F2 = {},
           Q2 \cup F2 \subseteq Q \cup F,
           NEW c \in Nat, Cardinality(Q) + Cardinality(F) <= c
    PROVE  Cardinality(Q2) + Cardinality(F2) <= c
<1>1. IsFiniteSet(Reqs)
  BY FS_Interval, ExporterTransfersAssumption DEF Reqs
<1>2. \A S \in SUBSET Reqs : IsFiniteSet(S) /\ Cardinality(S) \in Nat
  BY <1>1, FS_Subset, FS_CardinalityType
<1>3. \A S, T \in SUBSET Reqs :
         S \cap T = {} => Cardinality(S \cup T) = Cardinality(S) + Cardinality(T)
  <2> SUFFICES ASSUME NEW S \in SUBSET Reqs, NEW T \in SUBSET Reqs, S \cap T = {}
               PROVE  Cardinality(S \cup T) = Cardinality(S) + Cardinality(T)
    OBVIOUS
  <2>1. Cardinality(S \cup T)
            = Cardinality(S) + Cardinality(T) - Cardinality(S \cap T)
    BY <1>2, FS_Union
  <2>2. Cardinality(S \cap T) = 0
    BY FS_EmptySet
  <2> QED
    BY <2>1, <2>2, <1>2
<1>4. Cardinality(Q2 \cup F2) <= Cardinality(Q \cup F)
  <2>1. IsFiniteSet(Q \cup F) /\ Q2 \cup F2 \in SUBSET (Q \cup F)
    BY <1>2
  <2> QED
    BY <2>1, FS_Subset
<1>5. /\ Cardinality(Q2 \cup F2) = Cardinality(Q2) + Cardinality(F2)
      /\ Cardinality(Q \cup F) = Cardinality(Q) + Cardinality(F)
  BY <1>3
<1>6. /\ Cardinality(Q) \in Nat /\ Cardinality(F) \in Nat
      /\ Cardinality(Q2) \in Nat /\ Cardinality(F2) \in Nat
  BY <1>2
<1> QED
  BY <1>4, <1>5, <1>6

\* Below the credit there is room for one more.
LEMMA CreditAdds ==
    ASSUME NEW Q \in SUBSET Reqs, NEW F \in SUBSET Reqs, NEW r \in Reqs,
           ~(Cardinality(Q) + Cardinality(F) >= CreditUrbs)
    PROVE  Cardinality(Q \cup {r}) + Cardinality(F) <= CreditUrbs
<1>1. IsFiniteSet(Reqs)
  BY FS_Interval, ExporterTransfersAssumption DEF Reqs
<1>2. /\ IsFiniteSet(Q) /\ Cardinality(Q) \in Nat
      /\ IsFiniteSet(F) /\ Cardinality(F) \in Nat
  BY <1>1, FS_Subset, FS_CardinalityType
<1>3. Cardinality(Q \cup {r}) = Cardinality(Q) \/ Cardinality(Q \cup {r}) = Cardinality(Q) + 1
  BY <1>2, FS_AddElement
<1>4. CreditUrbs \in Nat
  BY ExporterTransfersAssumption
<1> QED
  BY <1>2, <1>3, <1>4

-------------------------------------------------------------------------------
(* The actions, one lemma each *)

LEMMA ExporterInvInit == Init => ExporterInv
<1> SUFFICES ASSUME Init PROVE ExporterInv
  OBVIOUS
<1> USE DEF Init
<1>1. \A e \in Endpoints : InQueue(e) = {}
  <2>1. <<>> \in Seq(Reqs)
    OBVIOUS
  <2> QED
    BY <2>1, ElementsOf DEF InQueue
<1>2. Queued = {}
  BY <1>1 DEF Queued
<1>3. TransfersTypeOK
  BY <1>2, ExporterTransfersAssumption DEF TransfersTypeOK
<1>4. WithinCredit
  BY <1>2, FS_EmptySet, ExporterTransfersAssumption DEF WithinCredit
<1>5. QueuesInOrder
  BY <1>1 DEF QueuesInOrder, Increasing
<1>6. AnswersCounted
  BY ExporterTransfersAssumption DEF AnswersCounted, Reqs
<1> QED
  BY <1>2, <1>3, <1>4, <1>5, <1>6
     DEF ExporterInv, KnownRequests, TablesDisjoint, YoungestReassembled, Reserved,
         NoLeakedSlot, BarrierInFlight

\* enqueueTransfer, of a request no table knows: it is queued at the end of its
\* endpoint's queue, within the credit, or answered.
LEMMA EnqueueIs ==
    ASSUME TransfersTypeOK, QueuesInOrder, WithinCredit,
           NEW r \in Reqs, NEW e \in Endpoints, NEW over \in BOOLEAN,
           Enqueue(r, e, over), UNCHANGED inFlight, \A x \in InQueue(e) : x < r
    PROVE  /\ queue' \in [Endpoints -> Seq(Reqs)]
           /\ \A f \in Endpoints : Increasing(queue'[f])
           /\ WithinCredit'
           /\ \/ /\ Queued' = Queued \cup {r} /\ answers' = answers
                 /\ \A f \in Endpoints :
                       InQueue(f)' = IF f = e THEN InQueue(f) \cup {r} ELSE InQueue(f)
              \/ /\ Queued' = Queued /\ answers' = Answer({r})
                 /\ \A f \in Endpoints : InQueue(f)' = InQueue(f)
<1>1. queue \in [Endpoints -> Seq(Reqs)] /\ \A f \in Endpoints : Increasing(queue[f])
  BY DEF TransfersTypeOK, QueuesInOrder
<1>2. CASE OverCredit \/ over
  <2>1. UNCHANGED queue /\ answers' = Answer({r})
    BY <1>2 DEF Enqueue
  <2>2. Queued' = Queued /\ \A f \in Endpoints : InQueue(f)' = InQueue(f)
    BY <2>1 DEF Queued, InQueue
  <2> QED
    BY <2>1, <2>2, <1>1 DEF WithinCredit
<1>3. CASE ~(OverCredit \/ over)
  <2>1. queue' = [queue EXCEPT ![e] = Append(@, r)] /\ answers' = answers
    BY <1>3 DEF Enqueue
  <2>2. /\ queue' \in [Endpoints -> Seq(Reqs)]
        /\ \A f \in Endpoints :
              InQueue(f)' = IF f = e THEN InQueue(f) \cup {r} ELSE InQueue(f)
        /\ Queued' = Queued \cup {r}
    BY <2>1, <1>1, QueuedAppend
  <2>3. Increasing(Append(queue[e], r))
    BY <1>1, AppendIs DEF InQueue
  <2>4. \A f \in Endpoints : Increasing(queue'[f])
    BY <2>1, <2>3, <1>1
  <2>5. Queued \subseteq Reqs /\ inFlight \subseteq Reqs
    BY <1>1, QueuedIs DEF TransfersTypeOK
  <2>6. WithinCredit'
    BY <1>3, <2>2, <2>5, CreditAdds DEF WithinCredit, OverCredit
  <2> QED
    BY <2>1, <2>2, <2>4, <2>6
<1> QED
  BY <1>2, <1>3

\* A SUBMIT: it is the youngest request and no table knew it.
LEMMA NewSubmitIs ==
    ASSUME ExporterInv, NEW e \in Endpoints, NewSubmit(e)
    PROVE  /\ rx = 0 /\ sub \in Nat /\ sub' = sub + 1 /\ sub' \in Reqs
           /\ ep' \in [Reqs -> Endpoints \cup {0}] /\ ep'[sub'] = e
           /\ \A r \in 1..sub : r \in Reqs /\ r # sub' /\ ep'[r] = ep[r]
           /\ sub' \notin Open /\ answers[sub'] = 0
           /\ \A f \in Endpoints : lastIssued[f] < sub' /\ \A x \in InQueue(f) : x < sub'
<1>1. /\ rx = 0 /\ sub < MaxReqs /\ sub' = sub + 1 /\ ep' = [ep EXCEPT ![sub'] = e]
      /\ sub \in 0..MaxReqs /\ ep \in [Reqs -> Endpoints \cup {0}] /\ MaxReqs \in Nat
  BY ExporterTransfersAssumption DEF ExporterInv, TransfersTypeOK, NewSubmit
<1>2. sub \in Nat /\ sub' \in Reqs
  BY <1>1 DEF Reqs
<1>3. ep' \in [Reqs -> Endpoints \cup {0}] /\ ep'[sub'] = e
  BY <1>1, <1>2
<1>4. \A r \in 1..sub : r \in Reqs /\ r # sub' /\ ep'[r] = ep[r]
  BY <1>1, <1>2 DEF Reqs
<1>5. sub' \notin Open
  BY <1>1, <1>2 DEF ExporterInv, KnownRequests, Open
<1>6. answers[sub'] = 0
  BY <1>1, <1>2 DEF ExporterInv, AnswersCounted
<1>7. \A f \in Endpoints : lastIssued[f] < sub'
  BY <1>1, <1>2, SMTT(30) DEF ExporterInv, KnownRequests, TransfersTypeOK, Reqs
<1>8. \A f \in Endpoints : \A x \in InQueue(f) : x < sub'
  <2>1. \A f \in Endpoints : InQueue(f) \subseteq 1..sub
    BY DEF ExporterInv, KnownRequests, Queued
  <2> QED
    BY <2>1, <1>1
<1> QED
  BY <1>1, <1>2, <1>3, <1>4, <1>5, <1>6, <1>7, <1>8

\* The parts of the invariant that a new request leaves as they were.
LEMMA NewSubmitKeeps ==
    ASSUME ExporterInv, NEW e \in Endpoints, NewSubmit(e),
           UNCHANGED <<inFlight, busy, port>>
    PROVE  Reserved' /\ NoLeakedSlot' /\ BarrierInFlight'
<1>1. \A r \in 1..sub : ep'[r] = ep[r]
  BY NewSubmitIs
<1>2. inFlight \subseteq 1..sub /\ port \subseteq 1..sub
  BY DEF ExporterInv, KnownRequests
<1> QED
  BY <1>1, <1>2 DEF ExporterInv, Reserved, NoLeakedSlot, BarrierInFlight

LEMMA RecvSubmitInv ==
    ASSUME ExporterInv, NEW e \in Endpoints, NEW over \in BOOLEAN, RecvSubmit(e, over)
    PROVE  ExporterInv'
<1>0. PICK n \in Reqs : n = sub'
  BY NewSubmitIs DEF RecvSubmit
<1>1. /\ TransfersTypeOK /\ KnownRequests /\ TablesDisjoint /\ QueuesInOrder
      /\ AnswersCounted /\ WithinCredit
  BY DEF ExporterInv
<1>2. /\ NewSubmit(e) /\ Enqueue(n, e, over) /\ state = "Leased"
      /\ UNCHANGED <<state, inFlight, cancelReq, busy, port, late, rx, dropped, lastIssued>>
  BY <1>0 DEF RecvSubmit, NewSubmit
<1>3. /\ rx = 0 /\ sub \in Nat /\ n = sub + 1 /\ sub' = n
      /\ ep' \in [Reqs -> Endpoints \cup {0}] /\ ep'[n] = e
      /\ \A r \in 1..sub : r \in Reqs /\ r # n /\ ep'[r] = ep[r]
      /\ n \notin Open /\ answers[n] = 0
      /\ \A f \in Endpoints : lastIssued[f] < n /\ \A x \in InQueue(f) : x < n
  BY <1>0, <1>2, NewSubmitIs
<1>4. /\ queue' \in [Endpoints -> Seq(Reqs)]
      /\ \A f \in Endpoints : Increasing(queue'[f])
      /\ WithinCredit'
      /\ \/ /\ Queued' = Queued \cup {n} /\ answers' = answers
            /\ \A f \in Endpoints :
                  InQueue(f)' = IF f = e THEN InQueue(f) \cup {n} ELSE InQueue(f)
         \/ /\ Queued' = Queued /\ answers' = Answer({n})
            /\ \A f \in Endpoints : InQueue(f)' = InQueue(f)
  <2>1. UNCHANGED inFlight /\ \A x \in InQueue(e) : x < n
    BY <1>2, <1>3
  <2> QED
    BY <2>1, <1>1, <1>2, EnqueueIs, ZenonT(60)
<1>5. TransfersTypeOK'
  <2>1. answers' \in [Reqs -> Nat]
    <3>1. answers \in [Reqs -> Nat]
      BY <1>1 DEF TransfersTypeOK
    <3>2. Answer({n}) \in [Reqs -> Nat]
      BY <3>1 DEF Answer
    <3> QED
      BY <3>1, <3>2, <1>4
  <2>2. sub' \in 0..MaxReqs
    BY <1>3, ExporterTransfersAssumption DEF Reqs
  <2> QED
    BY <2>1, <2>2, <1>1, <1>2, <1>3, <1>4 DEF TransfersTypeOK
<1>6. KnownRequests'
  <2>1. 1..sub \subseteq 1..n /\ n \in 1..n
    BY <1>3
  <2>2. \A f \in Endpoints : lastIssued'[f] <= n
    <3>1. lastIssued' = lastIssued
      BY <1>2
    <3>2. n \in Nat /\ \A f \in Endpoints : lastIssued[f] \in Nat
      BY <1>1, <1>3 DEF TransfersTypeOK, Reqs
    <3>3. \A f \in Endpoints : lastIssued[f] < n
      BY <1>3
    <3> QED
      BY <3>1, <3>2, <3>3
  <2> QED
    BY <2>1, <2>2, <1>1, <1>2, <1>3, <1>4 DEF KnownRequests
<1>7. TablesDisjoint'
  <2>1. n \notin port
    BY <1>1, <1>3 DEF KnownRequests
  <2> QED
    BY <2>1, <1>1, <1>2, <1>3, <1>4 DEF TablesDisjoint, Open
<1>8. QueuesInOrder'
  <2> SUFFICES ASSUME NEW f \in Endpoints, NEW r \in InQueue(f)'
               PROVE  ep'[r] = f /\ lastIssued'[f] < r
    BY <1>4 DEF QueuesInOrder
  <2>1. CASE r \in InQueue(f)
    <3>1. r \in 1..sub
      BY <2>1, <1>1 DEF KnownRequests, Queued
    <3> QED
      BY <3>1, <2>1, <1>1, <1>2, <1>3 DEF QueuesInOrder
  <2>2. CASE r \notin InQueue(f)
    <3>1. f = e /\ r = n
      BY <2>2, <1>4
    <3> QED
      BY <3>1, <1>2, <1>3
  <2> QED
    BY <2>1, <2>2
<1>9. YoungestReassembled'
  BY <1>2, <1>3 DEF YoungestReassembled
<1>10. AnswersCounted'
  <2> SUFFICES ASSUME NEW r \in Reqs
               PROVE  answers'[r] = IF r <= n /\ r \notin Open' THEN 1 ELSE 0
    BY <1>3 DEF AnswersCounted
  <2>1. CASE r = n
    <3>1. n <= n /\ (n \in Open' <=> n \in Queued')
      BY <1>2, <1>3 DEF Open
    <3>2. n \in Queued' => answers'[n] = 0
      BY <1>3, <1>4 DEF Open
    <3>3. n \notin Queued' => answers'[n] = 1
      BY <1>3, <1>4 DEF Answer
    <3> QED
      BY <2>1, <3>1, <3>2, <3>3
  <2>2. CASE r # n
    <3>1. answers'[r] = answers[r]
      BY <2>2, <1>4 DEF Answer
    <3>2. r \in Open' <=> r \in Open
      BY <2>2, <1>2, <1>4 DEF Open
    <3>3. r <= n <=> r <= sub
      BY <2>2, <1>3 DEF Reqs
    <3> QED
      BY <3>1, <3>2, <3>3, <1>1 DEF AnswersCounted
  <2> QED
    BY <2>1, <2>2
<1>11. Reserved' /\ NoLeakedSlot' /\ BarrierInFlight'
  BY <1>2, NewSubmitKeeps
<1> QED
  BY <1>4, <1>5, <1>6, <1>7, <1>8, <1>9, <1>10, <1>11 DEF ExporterInv

\* The first segment of an OUT: the request is in reassembly and nowhere else.
LEMMA RecvSubmitSegmentInv ==
    ASSUME ExporterInv, NEW e \in Endpoints, RecvSubmitSegment(e)
    PROVE  ExporterInv'
<1>0. PICK n \in Reqs : n = sub'
  BY NewSubmitIs DEF RecvSubmitSegment
<1>1. /\ TransfersTypeOK /\ KnownRequests /\ TablesDisjoint /\ QueuesInOrder
      /\ AnswersCounted /\ WithinCredit
  BY DEF ExporterInv
<1>2. /\ NewSubmit(e) /\ rx' = n /\ state = "Leased"
      /\ UNCHANGED <<state, queue, inFlight, cancelReq, busy, port, late, answers,
                     dropped, lastIssued>>
  BY <1>0 DEF RecvSubmitSegment, NewSubmit
<1>3. /\ rx = 0 /\ sub \in Nat /\ n = sub + 1 /\ sub' = n
      /\ ep' \in [Reqs -> Endpoints \cup {0}] /\ ep'[n] = e
      /\ \A r \in 1..sub : r \in Reqs /\ r # n /\ ep'[r] = ep[r]
      /\ n \notin Open /\ answers[n] = 0
      /\ \A f \in Endpoints : lastIssued[f] < n /\ \A x \in InQueue(f) : x < n
  BY <1>0, <1>2, NewSubmitIs
<1>4. Queued' = Queued /\ \A f \in Endpoints : InQueue(f)' = InQueue(f)
  BY <1>2 DEF Queued, InQueue
<1>5. TransfersTypeOK'
  <2>1. sub' \in 0..MaxReqs
    BY <1>3, ExporterTransfersAssumption DEF Reqs
  <2> QED
    BY <2>1, <1>1, <1>2, <1>3, <1>4 DEF TransfersTypeOK
<1>6. KnownRequests'
  <2>1. 1..sub \subseteq 1..n /\ n \in 0..n
    BY <1>3
  <2>2. \A f \in Endpoints : lastIssued'[f] <= n
    <3>1. lastIssued' = lastIssued
      BY <1>2
    <3>2. n \in Nat /\ \A f \in Endpoints : lastIssued[f] \in Nat
      BY <1>1, <1>3 DEF TransfersTypeOK, Reqs
    <3>3. \A f \in Endpoints : lastIssued[f] < n
      BY <1>3
    <3> QED
      BY <3>1, <3>2, <3>3
  <2> QED
    BY <2>1, <2>2, <1>1, <1>2, <1>3, <1>4 DEF KnownRequests
<1>7. TablesDisjoint'
  <2>1. n \notin port
    BY <1>1, <1>3 DEF KnownRequests
  <2> QED
    BY <2>1, <1>1, <1>2, <1>3, <1>4 DEF TablesDisjoint, Open
<1>8. QueuesInOrder'
  <2> SUFFICES ASSUME NEW f \in Endpoints, NEW r \in InQueue(f)
               PROVE  ep'[r] = f /\ lastIssued'[f] < r
    BY <1>1, <1>2, <1>4 DEF QueuesInOrder
  <2>1. r \in 1..sub
    BY <1>1 DEF KnownRequests, Queued
  <2> QED
    BY <2>1, <1>1, <1>2, <1>3 DEF QueuesInOrder
<1>9. YoungestReassembled'
  BY <1>2, <1>3 DEF YoungestReassembled
<1>10. AnswersCounted'
  <2> SUFFICES ASSUME NEW r \in Reqs
               PROVE  answers[r] = IF r <= n /\ r \notin Open' THEN 1 ELSE 0
    BY <1>2, <1>3 DEF AnswersCounted
  <2>1. CASE r = n
    BY <2>1, <1>2, <1>3 DEF Open
  <2>2. CASE r # n
    <3>1. r \in Open' <=> r \in Open
      BY <2>2, <1>2, <1>3, <1>4 DEF Open, Reqs
    <3>2. r <= n <=> r <= sub
      BY <2>2, <1>3 DEF Reqs
    <3> QED
      BY <3>1, <3>2, <1>1 DEF AnswersCounted
  <2> QED
    BY <2>1, <2>2
<1>11. Reserved' /\ NoLeakedSlot' /\ BarrierInFlight'
  BY <1>2, NewSubmitKeeps
<1>12. WithinCredit'
  BY <1>1, <1>2, <1>4 DEF WithinCredit
<1> QED
  BY <1>5, <1>6, <1>7, <1>8, <1>9, <1>10, <1>11, <1>12 DEF ExporterInv

\* The reassembled OUT goes where a whole SUBMIT would have gone.
LEMMA RecvLastDataInv ==
    ASSUME ExporterInv, NEW over \in BOOLEAN, RecvLastData(over)
    PROVE  ExporterInv'
<1>0. PICK n \in Reqs, e \in Endpoints : n = rx /\ e = ep[rx]
  BY DEF RecvLastData, ExporterInv, TransfersTypeOK, YoungestReassembled
<1>1. /\ TransfersTypeOK /\ KnownRequests /\ TablesDisjoint /\ QueuesInOrder
      /\ YoungestReassembled /\ AnswersCounted /\ Reserved /\ NoLeakedSlot
      /\ BarrierInFlight /\ WithinCredit
  BY DEF ExporterInv
<1>2. /\ state = "Leased" /\ n # 0 /\ rx' = 0 /\ Enqueue(n, e, over)
      /\ UNCHANGED <<state, sub, ep, inFlight, cancelReq, busy, port, late, dropped,
                     lastIssued>>
  BY <1>0 DEF RecvLastData
<1>3. /\ sub \in Nat /\ n = sub
      /\ \A f \in Endpoints : lastIssued[f] < n
      /\ n \notin Queued \cup inFlight \cup dropped
      /\ \A f \in Endpoints : \A x \in InQueue(f) : x < n
  <2>1. sub \in Nat /\ n = sub
    BY <1>0, <1>1, <1>2 DEF TransfersTypeOK, YoungestReassembled
  <2>2. /\ n \notin Queued \cup inFlight \cup dropped
        /\ \A f \in Endpoints : lastIssued[f] < n
    BY <1>0, <1>1, <1>2 DEF TablesDisjoint, YoungestReassembled
  <2>3. \A f \in Endpoints : \A x \in InQueue(f) : x \in 1..sub /\ x # n
    BY <2>2, <1>1 DEF KnownRequests, Queued
  <2>4. \A f \in Endpoints : \A x \in InQueue(f) : x < n
    BY <2>1, <2>3
  <2> QED
    BY <2>1, <2>2, <2>4
<1>4. /\ queue' \in [Endpoints -> Seq(Reqs)]
      /\ \A f \in Endpoints : Increasing(queue'[f])
      /\ WithinCredit'
      /\ \/ /\ Queued' = Queued \cup {n} /\ answers' = answers
            /\ \A f \in Endpoints :
                  InQueue(f)' = IF f = e THEN InQueue(f) \cup {n} ELSE InQueue(f)
         \/ /\ Queued' = Queued /\ answers' = Answer({n})
            /\ \A f \in Endpoints : InQueue(f)' = InQueue(f)
  <2>1. UNCHANGED inFlight /\ \A x \in InQueue(e) : x < n
    BY <1>2, <1>3
  <2> QED
    BY <2>1, <1>1, <1>2, EnqueueIs, ZenonT(60)
<1>5. TransfersTypeOK'
  <2>1. answers' \in [Reqs -> Nat]
    <3>1. answers \in [Reqs -> Nat]
      BY <1>1 DEF TransfersTypeOK
    <3>2. Answer({n}) \in [Reqs -> Nat]
      BY <3>1 DEF Answer
    <3> QED
      BY <3>1, <3>2, <1>4
  <2> QED
    BY <2>1, <1>1, <1>2, <1>4 DEF TransfersTypeOK
<1>6. KnownRequests'
  <2>1. n \in 1..sub /\ 0 \in 0..sub
    BY <1>3 DEF Reqs
  <2> QED
    BY <2>1, <1>1, <1>2, <1>4 DEF KnownRequests
<1>7. TablesDisjoint'
  <2>1. 0 \notin Queued \cup {n} \cup inFlight \cup dropped \cup port
    BY <1>1, <1>2, QueuedIs DEF TransfersTypeOK, Reqs
  <2>2. n \notin port
    BY <1>0, <1>1 DEF TablesDisjoint
  <2> QED
    BY <2>1, <2>2, <1>1, <1>2, <1>3, <1>4 DEF TablesDisjoint
<1>8. QueuesInOrder'
  BY <1>0, <1>1, <1>2, <1>3, <1>4 DEF QueuesInOrder
<1>9. YoungestReassembled'
  BY <1>2 DEF YoungestReassembled
<1>10. AnswersCounted'
  <2> SUFFICES ASSUME NEW r \in Reqs
               PROVE  answers'[r] = IF r <= sub /\ r \notin Open' THEN 1 ELSE 0
    BY <1>2 DEF AnswersCounted
  <2>1. r # 0
    BY DEF Reqs
  <2>2. CASE r = n
    <3>1. r \in Open' <=> n \in Queued'
      BY <2>1, <2>2, <1>2, <1>3 DEF Open
    <3>2. r \in Open /\ answers[r] = 0 /\ r <= sub
      BY <2>2, <1>0, <1>1, <1>3 DEF AnswersCounted, Open
    <3>3. n \in Queued' => answers'[r] = 0
      BY <2>2, <3>2, <1>3, <1>4
    <3>4. n \notin Queued' => answers'[r] = 1
      BY <2>2, <3>2, <1>3, <1>4 DEF Answer
    <3> QED
      BY <3>1, <3>2, <3>3, <3>4
  <2>3. CASE r # n
    <3>1. answers'[r] = answers[r]
      BY <2>3, <1>4 DEF Answer
    <3>2. r \in Open' <=> r \in Open
      BY <2>1, <2>3, <1>0, <1>2, <1>4 DEF Open
    <3> QED
      BY <3>1, <3>2, <1>1 DEF AnswersCounted
  <2> QED
    BY <2>2, <2>3
<1>11. Reserved' /\ NoLeakedSlot' /\ BarrierInFlight'
  BY <1>1, <1>2 DEF Reserved, NoLeakedSlot, BarrierInFlight
<1> QED
  BY <1>4, <1>5, <1>6, <1>7, <1>8, <1>9, <1>10, <1>11 DEF ExporterInv

\* Answering requests that were open and no longer are keeps the count.
LEMMA AnswerCounts ==
    ASSUME TransfersTypeOK, AnswersCounted, UNCHANGED sub,
           NEW S, answers' = Answer(S), S \subseteq Open, S \subseteq 1..sub,
           \A r \in Reqs : r \in Open' <=> r \in Open /\ r \notin S
    PROVE  answers' \in [Reqs -> Nat] /\ AnswersCounted'
<1>1. answers \in [Reqs -> Nat]
  BY DEF TransfersTypeOK
<1>2. answers' \in [Reqs -> Nat]
  BY <1>1 DEF Answer
<1>3. ASSUME NEW r \in Reqs
      PROVE  answers'[r] = IF r <= sub /\ r \notin Open' THEN 1 ELSE 0
  <2>1. CASE r \in S
    <3>1. r \in Open /\ r <= sub /\ answers[r] = 0
      BY <2>1 DEF AnswersCounted, TransfersTypeOK
    <3> QED
      BY <2>1, <3>1 DEF Answer
  <2>2. CASE r \notin S
    BY <2>2 DEF Answer, AnswersCounted
  <2> QED
    BY <2>1, <2>2
<1> QED
  BY <1>2, <1>3 DEF AnswersCounted

\* handleCancel answers the queued requests it matches and touches no other count.
LEMMA CancelInv ==
    ASSUME ExporterInv, NEW target, NEW stopped, Cancel(target, stopped)
    PROVE  ExporterInv'
<1>1. /\ TransfersTypeOK /\ KnownRequests /\ TablesDisjoint /\ QueuesInOrder
      /\ YoungestReassembled /\ AnswersCounted /\ Reserved /\ NoLeakedSlot
      /\ BarrierInFlight /\ WithinCredit
  BY DEF ExporterInv
<1>2. /\ state = "Leased" /\ stopped \subseteq inFlight
      /\ answers' = Answer(target \cap Queued)
      /\ queue' = [e \in Endpoints |-> Without(queue[e], target)]
      /\ cancelReq' = cancelReq \cup stopped
      /\ UNCHANGED <<state, sub, ep, inFlight, busy, port, late, rx, dropped, lastIssued>>
  BY DEF Cancel, CancelMarked
<1>3. queue \in [Endpoints -> Seq(Reqs)]
  BY <1>1 DEF TransfersTypeOK
<1>4. /\ queue' \in [Endpoints -> Seq(Reqs)]
      /\ \A e \in Endpoints : InQueue(e)' = InQueue(e) \ target
      /\ \A e \in Endpoints : Increasing(queue'[e])
  <2>1. /\ queue' \in [Endpoints -> Seq(Reqs)]
        /\ \A e \in Endpoints : InQueue(e)' = Elements(queue[e]) \ target
        /\ \A e \in Endpoints : Increasing(queue[e]) => Increasing(queue'[e])
    BY <1>2, <1>3, QueuedWithout
  <2> QED
    BY <2>1, <1>1 DEF QueuesInOrder, InQueue
<1>5. Queued' = Queued \ target
  BY <1>4 DEF Queued
<1>6. answers' \in [Reqs -> Nat] /\ AnswersCounted'
  <2>1. PICK S : S = target \cap Queued
    OBVIOUS
  <2>2. answers' = Answer(S) /\ S \subseteq Open /\ S \subseteq 1..sub
    BY <2>1, <1>1, <1>2 DEF Open, KnownRequests
  <2>3. \A r \in Reqs : r \in Open' <=> r \in Open /\ r \notin S
    BY <2>1, <1>1, <1>2, <1>5 DEF Open, TablesDisjoint
  <2>4. UNCHANGED sub
    BY <1>2
  <2> QED
    BY <2>2, <2>3, <2>4, <1>1, AnswerCounts
<1>7. TransfersTypeOK'
  BY <1>1, <1>2, <1>4, <1>5, <1>6 DEF TransfersTypeOK
<1>8. KnownRequests' /\ TablesDisjoint'
  BY <1>1, <1>2, <1>5 DEF KnownRequests, TablesDisjoint
<1>9. QueuesInOrder'
  BY <1>1, <1>2, <1>4 DEF QueuesInOrder
<1>10. YoungestReassembled' /\ Reserved' /\ NoLeakedSlot' /\ BarrierInFlight'
  BY <1>1, <1>2 DEF YoungestReassembled, Reserved, NoLeakedSlot, BarrierInFlight
<1>11. WithinCredit'
  <2>1. PICK Q \in SUBSET Reqs, F \in SUBSET Reqs, Q2 \in SUBSET Reqs :
           Q = Queued /\ F = inFlight /\ Q2 = Queued'
    BY <1>3, <1>5, <1>1, QueuedIs DEF TransfersTypeOK
  <2>2. Q \cap F = {} /\ Q2 \cap F = {} /\ Q2 \cup F \subseteq Q \cup F
    BY <2>1, <1>1, <1>5 DEF TablesDisjoint
  <2>3. CreditUrbs \in Nat /\ Cardinality(Q) + Cardinality(F) <= CreditUrbs
    BY <2>1, <1>1, ExporterTransfersAssumption DEF WithinCredit
  <2>4. Cardinality(Q2) + Cardinality(F) <= CreditUrbs
    BY <2>2, <2>3, CreditShrinks
  <2> QED
    BY <2>1, <2>4, <1>2 DEF WithinCredit
<1> QED
  BY <1>6, <1>7, <1>8, <1>9, <1>10, <1>11 DEF ExporterInv

LEMMA ExpireInv ==
    ASSUME ExporterInv, NEW r \in Reqs, Expire(r)
    PROVE  ExporterInv'
<1>1. /\ late' = late \cup {r}
      /\ UNCHANGED <<state, sub, ep, queue, inFlight, cancelReq, busy, port, rx,
                     answers, dropped, lastIssued>>
  BY DEF Expire
<1>2. Queued' = Queued /\ \A e \in Endpoints : InQueue(e)' = InQueue(e)
  BY <1>1 DEF Queued, InQueue
<1>3. TransfersTypeOK'
  BY <1>1, <1>2 DEF ExporterInv, TransfersTypeOK
<1>4. AnswersCounted'
  BY <1>1, <1>2 DEF ExporterInv, AnswersCounted, Open
<1> QED
  BY <1>1, <1>2, <1>3, <1>4
     DEF ExporterInv, KnownRequests, TablesDisjoint, QueuesInOrder, YoungestReassembled,
         Reserved, NoLeakedSlot, BarrierInFlight, WithinCredit

\* Orphaning takes nothing from the peer: the exporter owed nothing.
LEMMA OrphanInv ==
    ASSUME ExporterInv, Orphan
    PROVE  ExporterInv'
<1>1. /\ inFlight = {} /\ Queued = {} /\ state' = "Orphaned"
      /\ busy' = [e \in Endpoints |-> 0] /\ port' = {}
      /\ UNCHANGED <<sub, ep, queue, inFlight, cancelReq, late, rx, answers, dropped,
                     lastIssued>>
  BY DEF Orphan
<1>2. Queued' = Queued /\ \A e \in Endpoints : InQueue(e)' = InQueue(e)
  BY <1>1 DEF Queued, InQueue
<1>3. TransfersTypeOK'
  BY <1>1, <1>2 DEF ExporterInv, TransfersTypeOK
<1>4. AnswersCounted'
  BY <1>1, <1>2 DEF ExporterInv, AnswersCounted, Open
<1> QED
  BY <1>1, <1>2, <1>3, <1>4
     DEF ExporterInv, KnownRequests, TablesDisjoint, QueuesInOrder, YoungestReassembled,
         Reserved, NoLeakedSlot, BarrierInFlight, WithinCredit

\* The end of an attach answers all that is in flight or queued, and forgets the
\* OUT that was being reassembled.
LEMMA EndInv ==
    ASSUME ExporterInv, End
    PROVE  ExporterInv'
<1>1. /\ TransfersTypeOK /\ KnownRequests /\ TablesDisjoint /\ QueuesInOrder
      /\ AnswersCounted
  BY DEF ExporterInv
<1>2. /\ state' = "Idle" /\ answers' = Answer(inFlight \cup Queued)
      /\ queue' = [e \in Endpoints |-> <<>>] /\ inFlight' = {} /\ cancelReq' = {}
      /\ busy' = [e \in Endpoints |-> 0] /\ port' = {} /\ rx' = 0
      /\ dropped' = IF rx = 0 THEN dropped ELSE dropped \cup {rx}
      /\ UNCHANGED <<sub, ep, late, lastIssued>>
  BY DEF End, Failed
<1>3. \A e \in Endpoints : InQueue(e)' = {} /\ queue'[e] = <<>> /\ <<>> \in Seq(Reqs)
  <2>1. <<>> \in Seq(Reqs)
    OBVIOUS
  <2> QED
    BY <2>1, <1>2, ElementsOf DEF InQueue
<1>4. Queued' = {}
  BY <1>3 DEF Queued
<1>5. answers' \in [Reqs -> Nat] /\ AnswersCounted'
  <2>1. PICK S : S = inFlight \cup Queued
    OBVIOUS
  <2>2. answers' = Answer(S) /\ S \subseteq Open /\ S \subseteq 1..sub
    BY <2>1, <1>1, <1>2 DEF Open, KnownRequests
  <2>3. \A r \in Reqs : r # 0
    BY DEF Reqs
  <2>4. \A r \in Reqs : r \in Open' <=> r \in Open /\ r \notin S
    BY <2>1, <2>3, <1>1, <1>2, <1>4 DEF Open, TablesDisjoint
  <2>5. UNCHANGED sub
    BY <1>2
  <2> QED
    BY <2>2, <2>4, <2>5, <1>1, AnswerCounts
<1>6. TransfersTypeOK'
  BY <1>1, <1>2, <1>3, <1>4, <1>5 DEF TransfersTypeOK
<1>7. KnownRequests'
  <2>1. 0 \in 0..sub /\ (rx # 0 => rx \in 1..sub)
    BY <1>1 DEF KnownRequests, TransfersTypeOK
  <2> QED
    BY <2>1, <1>1, <1>2, <1>4 DEF KnownRequests
<1>8. TablesDisjoint'
  BY <1>1, <1>2, <1>4 DEF TablesDisjoint, TransfersTypeOK, Reqs
<1>9. QueuesInOrder'
  BY <1>3 DEF QueuesInOrder, Increasing
<1>10. YoungestReassembled' /\ Reserved' /\ NoLeakedSlot' /\ BarrierInFlight'
  BY <1>2 DEF YoungestReassembled, Reserved, NoLeakedSlot, BarrierInFlight
<1>11. WithinCredit'
  BY <1>2, <1>4, FS_EmptySet, ExporterTransfersAssumption DEF WithinCredit
<1> QED
  BY <1>5, <1>6, <1>7, <1>8, <1>9, <1>10, <1>11 DEF ExporterInv

LEMMA AttachInv ==
    ASSUME ExporterInv, Attach
    PROVE  ExporterInv'
<1>1. /\ state' = "Leased"
      /\ UNCHANGED <<sub, ep, queue, inFlight, cancelReq, busy, port, late, rx,
                     answers, dropped, lastIssued>>
  BY DEF Attach
<1>2. Queued' = Queued /\ \A e \in Endpoints : InQueue(e)' = InQueue(e)
  BY <1>1 DEF Queued, InQueue
<1>3. TransfersTypeOK'
  BY <1>1, <1>2 DEF ExporterInv, TransfersTypeOK
<1>4. AnswersCounted'
  BY <1>1, <1>2 DEF ExporterInv, AnswersCounted, Open
<1> QED
  BY <1>1, <1>2, <1>3, <1>4
     DEF ExporterInv, KnownRequests, TablesDisjoint, QueuesInOrder, YoungestReassembled,
         Reserved, NoLeakedSlot, BarrierInFlight, WithinCredit

-------------------------------------------------------------------------------
(* pump() *)

\* admit hands over, or refuses, the oldest transfer of an endpoint.
LEMMA HeadsAre ==
    ASSUME TransfersTypeOK, QueuesInOrder, NEW v \in [Endpoints -> Verdicts],
           NEW fl, NEW b, AdmitPass(v, fl, b), NEW verdict \in Verdicts \ {"none"}
    PROVE  /\ \A e \in Endpoints :
                 v[e] = verdict => /\ queue[e] # <<>>
                                   /\ Head(queue[e]) \in InQueue(e)
                                   /\ Head(queue[e]) \in Heads(v, verdict, Endpoints)
           /\ \A r \in Heads(v, verdict, Endpoints) :
                 /\ ep[r] \in Endpoints /\ v[ep[r]] = verdict
                 /\ r = Head(queue[ep[r]]) /\ r \in InQueue(ep[r])
<1>1. queue \in [Endpoints -> Seq(Reqs)]
  BY DEF TransfersTypeOK
<1>2. ASSUME NEW e \in Endpoints, v[e] = verdict
      PROVE  /\ queue[e] # <<>> /\ Head(queue[e]) \in InQueue(e)
             /\ Head(queue[e]) \in Heads(v, verdict, Endpoints)
  <2>1. queue[e] # <<>>
    BY <1>2 DEF AdmitPass
  <2>2. Head(queue[e]) \in InQueue(e)
    BY <2>1, <1>1, TailIs DEF InQueue
  <2> QED
    BY <2>1, <2>2, <1>2 DEF Heads
<1>3. ASSUME NEW r \in Heads(v, verdict, Endpoints)
      PROVE  /\ ep[r] \in Endpoints /\ v[ep[r]] = verdict
             /\ r = Head(queue[ep[r]]) /\ r \in InQueue(ep[r])
  <2>1. PICK e \in Endpoints : v[e] = verdict /\ r = Head(queue[e])
    BY DEF Heads
  <2>2. r \in InQueue(e) /\ ep[r] = e
    BY <2>1, <1>2 DEF QueuesInOrder
  <2> QED
    BY <2>1, <2>2
<1> QED
  BY <1>2, <1>3

\* The queues after admit: what was handed over or refused is out of its queue.
LEMMA AfterAdmitIs ==
    ASSUME TransfersTypeOK, QueuesInOrder, NEW v \in [Endpoints -> Verdicts],
           NEW fl, NEW b, AdmitPass(v, fl, b), NEW e \in Endpoints,
           NEW out, out = Heads(v, "Ok", Endpoints) \cup Heads(v, "Refused", Endpoints)
    PROVE  /\ AfterAdmit(queue[e], v[e]) \in Seq(Reqs)
           /\ Elements(AfterAdmit(queue[e], v[e])) = InQueue(e) \ out
           /\ Increasing(AfterAdmit(queue[e], v[e]))
<1>1. queue[e] \in Seq(Reqs) /\ Increasing(queue[e])
  BY DEF TransfersTypeOK, QueuesInOrder
<1>2. \A r \in InQueue(e) : r \in Nat /\ ep[r] = e
  <2>1. InQueue(e) \subseteq Reqs
    BY <1>1, ElementsOf DEF InQueue
  <2> QED
    BY <2>1 DEF QueuesInOrder, Reqs
<1>3. \A r \in out : ep[r] = e => v[e] \in {"Ok", "Refused"} /\ r = Head(queue[e])
  BY HeadsAre DEF Verdicts
<1>4. CASE v[e] \in {"Ok", "Refused"}
  <2>1. queue[e] # <<>> /\ Head(queue[e]) \in out
    BY <1>4, HeadsAre DEF Verdicts
  <2>2. AfterAdmit(queue[e], v[e]) = Tail(queue[e])
    BY <1>4 DEF AfterAdmit
  <2>3. /\ Tail(queue[e]) \in Seq(Reqs) /\ Increasing(Tail(queue[e]))
        /\ InQueue(e) = Elements(Tail(queue[e])) \cup {Head(queue[e])}
        /\ \A y \in Elements(Tail(queue[e])) : Head(queue[e]) < y
        /\ Head(queue[e]) \in InQueue(e)
    BY <2>1, <1>1, TailIs DEF InQueue
  <2>4. Head(queue[e]) \notin Elements(Tail(queue[e]))
    BY <2>3, <1>2
  <2>5. Elements(Tail(queue[e])) = InQueue(e) \ out
    BY <2>1, <2>3, <2>4, <1>2, <1>3
  <2> QED
    BY <2>2, <2>3, <2>5
<1>5. CASE v[e] \notin {"Ok", "Refused"}
  <2>1. AfterAdmit(queue[e], v[e]) = queue[e]
    BY <1>5 DEF AfterAdmit
  <2>2. InQueue(e) = InQueue(e) \ out
    BY <1>2, <1>3, <1>5
  <2> QED
    BY <2>1, <2>2, <1>1 DEF InQueue
<1> QED
  BY <1>4, <1>5

\* admit keeps ep0 a barrier: what it puts in flight beside fl leaves a control
\* transfer alone.
LEMMA AdmitKeepsBarrier ==
    ASSUME TransfersTypeOK, QueuesInOrder, NEW v \in [Endpoints -> Verdicts],
           NEW fl, NEW b, AdmitPass(v, fl, b),
           \A r \in fl : IsEp0(ep[r]) => fl = {r},
           NEW acc, acc = Heads(v, "Ok", Endpoints),
           NEW r \in fl \cup acc, IsEp0(ep[r])
    PROVE  fl \cup acc = {r}
<1>1. \A s \in acc : /\ ep[s] \in Endpoints /\ v[ep[s]] = "Ok" /\ s = Head(queue[ep[s]])
                     /\ queue[ep[s]] # <<>>
  <2>1. "Ok" \in Verdicts \ {"none"}
    BY DEF Verdicts
  <2> QED
    BY <2>1, HeadsAre
<1> DEFINE Before(e) == Heads(v, "Ok", {f \in Endpoints : f < e})
<1>2. \A s, t \in acc : ep[s] < ep[t] => s \in Before(ep[t])
  BY <1>1 DEF Heads
<1>3. \A s \in acc : MayAdmit(ep[s], fl \cup Before(ep[s]), b)
  BY <1>1 DEF AdmitPass
<1> HIDE DEF Before
<1>4. \A s \in acc : IsEp0(ep[s]) => fl = {} /\ Before(ep[s]) = {}
  BY <1>3 DEF MayAdmit
<1>5. \A s \in acc : \A t \in fl \cup Before(ep[s]) : ~IsEp0(ep[t])
  BY <1>3, <1>4 DEF MayAdmit
<1>6. CASE r \in fl
  <2>1. acc = {}
    BY <1>5, <1>6
  <2> QED
    BY <2>1, <1>6
<1>7. CASE r \in acc
  <2>1. fl = {} /\ Before(ep[r]) = {}
    BY <1>4, <1>7
  <2>2. ASSUME NEW s \in acc PROVE s = r
    <3>1. ep[s] \in Nat /\ ep[r] \in Nat
      BY <1>1, <1>7, ExporterTransfersAssumption
    <3>2. ~(ep[s] < ep[r])
      BY <2>1, <1>2, <1>7
    <3>3. ~(ep[r] < ep[s])
      BY <1>2, <1>5, <1>7
    <3>4. ep[s] = ep[r]
      BY <3>1, <3>2, <3>3
    <3> QED
      BY <3>4, <1>1, <1>7
  <2> QED
    BY <2>1, <2>2, <1>7
<1> QED
  BY <1>6, <1>7

\* One pump: what it collects, refuses or finds expired is answered and let go of,
\* what it hands over moves from its queue to the device, and an endpoint is
\* reserved exactly as long as the device works for it.
LEMMA PumpInv ==
    ASSUME ExporterInv, NEW fin1, NEW v \in [Endpoints -> Verdicts], NEW fin2, NEW stop,
           Pump(fin1, v, fin2, stop)
    PROVE  ExporterInv'
<1>1. /\ TransfersTypeOK /\ KnownRequests /\ TablesDisjoint /\ QueuesInOrder
      /\ YoungestReassembled /\ AnswersCounted /\ Reserved /\ NoLeakedSlot
      /\ BarrierInFlight /\ WithinCredit
  BY DEF ExporterInv
<1>2. PICK fl1, b1, acc, ref, q2, fl2, b2, fl3, qlate, flate :
         /\ fl1 = inFlight \ fin1
         /\ b1 = Freed(busy, fin1, inFlight)
         /\ acc = Heads(v, "Ok", Endpoints)
         /\ ref = Heads(v, "Refused", Endpoints)
         /\ q2 = [e \in Endpoints |-> AfterAdmit(queue[e], v[e])]
         /\ fl2 = fl1 \cup acc
         /\ b2 = [e \in Endpoints |-> IF v[e] = "Ok" THEN Head(queue[e]) ELSE b1[e]]
         /\ fl3 = fl2 \ fin2
         /\ qlate = (Queued \ (acc \cup ref)) \cap late
         /\ flate = (fl3 \cap late) \ cancelReq
  OBVIOUS
<1>3. /\ state = "Leased"
      /\ fin1 \subseteq port
      /\ AdmitPass(v, fl1, b1)
      /\ fin2 \subseteq (port \ fin1) \cup acc
      /\ stop \subseteq flate
      /\ queue' = [e \in Endpoints |-> Without(q2[e], qlate)]
      /\ inFlight' = fl3 \ (flate \ stop)
      /\ cancelReq' = ((cancelReq \ fin1) \ fin2) \cup stop
      /\ busy' = Freed(b2, fin2, fl2)
      /\ port' = ((port \ fin1) \cup acc) \ fin2
      /\ answers' = Answer((fin1 \cap inFlight) \cup ref \cup (fin2 \cap fl2)
                              \cup qlate \cup (flate \ stop))
      /\ lastIssued' = [e \in Endpoints |->
                           IF v[e] = "Ok" THEN Head(queue[e]) ELSE lastIssued[e]]
      /\ UNCHANGED <<state, sub, ep, late, rx, dropped>>
  BY <1>2 DEF Pump, SweptQueued, SweptInFlight
<1>4. /\ \A r \in acc : /\ ep[r] \in Endpoints /\ v[ep[r]] = "Ok"
                        /\ r = Head(queue[ep[r]]) /\ r \in InQueue(ep[r])
      /\ \A e \in Endpoints :
            v[e] = "Ok" => /\ queue[e] # <<>> /\ Head(queue[e]) \in InQueue(e)
                           /\ Head(queue[e]) \in acc
  <2>1. "Ok" \in Verdicts \ {"none"}
    BY DEF Verdicts
  <2> QED
    BY <2>1, <1>1, <1>2, <1>3, HeadsAre
<1>5. ref \subseteq Queued /\ acc \cap ref = {}
  <2>1. "Refused" \in Verdicts \ {"none"}
    BY DEF Verdicts
  <2>2. \A r \in ref : ep[r] \in Endpoints /\ r \in InQueue(ep[r]) /\ v[ep[r]] = "Refused"
    BY <2>1, <1>1, <1>2, <1>3, HeadsAre
  <2>3. ref \subseteq Queued
    BY <2>2 DEF Queued
  <2>4. acc \cap ref = {}
    BY <2>2, <1>4
  <2> QED
    BY <2>3, <2>4
<1>6. acc \subseteq Queued
  BY <1>4 DEF Queued
<1>7. /\ queue' \in [Endpoints -> Seq(Reqs)]
      /\ \A e \in Endpoints : InQueue(e)' = (InQueue(e) \ (acc \cup ref)) \ qlate
      /\ \A e \in Endpoints : Increasing(queue'[e])
  <2>1. \A e \in Endpoints :
           /\ q2[e] \in Seq(Reqs)
           /\ Elements(q2[e]) = InQueue(e) \ (acc \cup ref)
           /\ Increasing(q2[e])
    <3>1. PICK out : out = acc \cup ref
      OBVIOUS
    <3>2. \A e \in Endpoints :
             /\ AfterAdmit(queue[e], v[e]) \in Seq(Reqs)
             /\ Elements(AfterAdmit(queue[e], v[e])) = InQueue(e) \ out
             /\ Increasing(AfterAdmit(queue[e], v[e]))
      BY <3>1, <1>1, <1>2, <1>3, AfterAdmitIs
    <3> QED
      BY <3>1, <3>2, <1>2
  <2>2. q2 \in [Endpoints -> Seq(Reqs)]
    BY <2>1, <1>2
  <2>3. /\ queue' \in [Endpoints -> Seq(Reqs)]
        /\ \A e \in Endpoints : InQueue(e)' = Elements(q2[e]) \ qlate
        /\ \A e \in Endpoints : Increasing(q2[e]) => Increasing(queue'[e])
    BY <2>2, <1>3, QueuedWithout
  <2> QED
    BY <2>1, <2>3
<1>8. Queued' = (Queued \ (acc \cup ref)) \ qlate
  BY <1>7 DEF Queued
<1>9. /\ Queued \subseteq Reqs /\ Queued \subseteq 1..sub
      /\ inFlight \subseteq Reqs /\ port \subseteq Reqs
  BY <1>1, QueuedIs DEF TransfersTypeOK, KnownRequests
<1>10. answers' \in [Reqs -> Nat] /\ AnswersCounted'
  <2>1. PICK S : S = (fin1 \cap inFlight) \cup ref \cup (fin2 \cap fl2)
                        \cup qlate \cup (flate \ stop)
    OBVIOUS
  <2>2. answers' = Answer(S) /\ UNCHANGED sub
    BY <2>1, <1>3
  <2>3. S \subseteq Queued \cup inFlight
    BY <2>1, <1>2, <1>5, <1>6
  <2>4. S \subseteq Open /\ S \subseteq 1..sub
    BY <2>3, <1>1 DEF Open, KnownRequests
  <2>5. \A r : r \in Queued' \cup inFlight'
                  <=> r \in Queued \cup inFlight /\ r \notin S
    <3> TAKE r
    <3>1. CASE r \in Queued
      <4>1. r \notin inFlight
        BY <3>1, <1>1 DEF TablesDisjoint
      <4>2. CASE r \in acc
        BY <4>1, <4>2, <3>1, <2>1, <1>2, <1>3, <1>5, <1>8
      <4>3. CASE r \notin acc
        BY <4>1, <4>3, <3>1, <2>1, <1>2, <1>3, <1>8
      <4> QED
        BY <4>2, <4>3
    <3>2. CASE r \notin Queued
      BY <3>2, <2>1, <1>2, <1>3, <1>5, <1>6, <1>8
    <3> QED
      BY <3>1, <3>2
  <2>6. \A r \in Reqs : r \in Open' <=> r \in Open /\ r \notin S
    BY <2>3, <2>5, <1>1, <1>3 DEF Open, TablesDisjoint
  <2> QED
    BY <2>2, <2>4, <2>6, <1>1, AnswerCounts
<1>11. /\ fl2 \subseteq inFlight \cup Queued
       /\ inFlight' \subseteq fl2 /\ inFlight' \subseteq inFlight \cup acc
       /\ port' \subseteq port \cup acc
  BY <1>2, <1>3, <1>6
<1>12. busy' \in [Endpoints -> Reqs \cup {0}]
  <2>1. b1 \in [Endpoints -> Reqs \cup {0}]
    BY <1>1, <1>2 DEF TransfersTypeOK, Freed
  <2>2. \A e \in Endpoints : v[e] = "Ok" => Head(queue[e]) \in Reqs
    BY <1>4, <1>6, <1>9
  <2>3. b2 \in [Endpoints -> Reqs \cup {0}]
    BY <2>1, <2>2, <1>2
  <2> QED
    BY <2>3, <1>3 DEF Freed
<1>13. TransfersTypeOK'
  <2>1. inFlight' \subseteq Reqs /\ port' \subseteq Reqs
    BY <1>6, <1>9, <1>11
  <2>2. cancelReq' \subseteq inFlight'
    BY <1>1, <1>2, <1>3 DEF TransfersTypeOK
  <2>3. lastIssued' \in [Endpoints -> Reqs \cup {0}]
    <3>1. \A e \in Endpoints : v[e] = "Ok" => Head(queue[e]) \in Reqs
      BY <1>4, <1>6, <1>9
    <3> QED
      BY <3>1, <1>1, <1>3 DEF TransfersTypeOK
  <2> QED
    BY <2>1, <2>2, <2>3, <1>1, <1>3, <1>7, <1>10, <1>12 DEF TransfersTypeOK
<1>14. KnownRequests'
  <2>1. Queued' \cup inFlight' \cup port' \cup dropped' \subseteq 1..sub
    BY <1>1, <1>3, <1>6, <1>8, <1>11 DEF KnownRequests
  <2>2. ASSUME NEW e \in Endpoints PROVE lastIssued'[e] <= sub
    <3>1. CASE v[e] = "Ok"
      <4>1. Head(queue[e]) \in 1..sub
        BY <3>1, <1>4, <1>6, <1>9
      <4> QED
        BY <4>1, <3>1, <1>1, <1>3 DEF TransfersTypeOK
    <3>2. CASE v[e] # "Ok"
      BY <3>2, <1>1, <1>3 DEF KnownRequests
    <3> QED
      BY <3>1, <3>2
  <2> QED
    BY <2>1, <2>2, <1>1, <1>3 DEF KnownRequests
<1>15. TablesDisjoint'
  BY <1>1, <1>3, <1>6, <1>8, <1>11 DEF TablesDisjoint
<1>16. QueuesInOrder'
  <2> SUFFICES ASSUME NEW e \in Endpoints, NEW r \in InQueue(e)'
               PROVE  ep[r] = e /\ lastIssued'[e] < r
    BY <1>3, <1>7 DEF QueuesInOrder
  <2>1. r \in InQueue(e) /\ r \notin acc
    BY <1>7
  <2>2. ep[r] = e /\ lastIssued[e] < r
    BY <2>1, <1>1 DEF QueuesInOrder
  <2>3. CASE v[e] = "Ok"
    <3>1. queue[e] \in Seq(Reqs) /\ queue[e] # <<>> /\ Increasing(queue[e])
      BY <2>3, <1>1, <1>4 DEF TransfersTypeOK, QueuesInOrder
    <3>2. /\ InQueue(e) = Elements(Tail(queue[e])) \cup {Head(queue[e])}
          /\ \A y \in Elements(Tail(queue[e])) : Head(queue[e]) < y
      BY <3>1, TailIs DEF InQueue
    <3>3. Head(queue[e]) < r
      BY <3>2, <2>1, <2>3, <1>4
    <3> QED
      BY <3>3, <2>2, <2>3, <1>3
  <2>4. CASE v[e] # "Ok"
    BY <2>2, <2>4, <1>3
  <2> QED
    BY <2>3, <2>4
<1>17. YoungestReassembled'
  <2> SUFFICES ASSUME rx # 0, NEW e \in Endpoints
               PROVE  lastIssued'[e] < rx
    BY <1>1, <1>3 DEF YoungestReassembled
  <2>1. rx = sub /\ lastIssued[e] < rx
    BY <1>1 DEF YoungestReassembled
  <2>2. CASE v[e] = "Ok"
    <3>1. Head(queue[e]) \in 1..sub /\ Head(queue[e]) # rx
      BY <2>2, <1>1, <1>4, <1>6, <1>9 DEF TablesDisjoint
    <3>2. sub \in Nat
      BY <1>1 DEF TransfersTypeOK
    <3>3. Head(queue[e]) < rx
      BY <3>1, <3>2, <2>1
    <3> QED
      BY <3>3, <2>2, <1>3
  <2>3. CASE v[e] # "Ok"
    BY <2>1, <2>3, <1>3
  <2> QED
    BY <2>2, <2>3
<1>18. \A e \in Endpoints : busy'[e] = IF b2[e] \in fin2 THEN 0 ELSE b2[e]
  BY <1>3 DEF Freed
<1>19. \A e \in Endpoints : b1[e] = IF busy[e] \in fin1 THEN 0 ELSE busy[e]
  BY <1>2 DEF Freed
<1>20. Reserved'
  <2> SUFFICES ASSUME NEW r \in port', ~IsEp0(ep[r])
               PROVE  ep[r] \in Endpoints /\ busy'[ep[r]] = r
    BY <1>3 DEF Reserved
  <2>1. r \notin fin2
    BY <1>3
  <2>2. CASE r \in acc
    <3>1. ep[r] \in Endpoints /\ b2[ep[r]] = r
      BY <2>2, <1>2, <1>4
    <3> QED
      BY <3>1, <2>1, <1>18
  <2>3. CASE r \notin acc
    <3>1. r \in port /\ r \notin fin1
      BY <2>3, <1>3
    <3>2. ep[r] \in Endpoints /\ busy[ep[r]] = r
      BY <3>1, <1>1 DEF Reserved
    <3>3. b1[ep[r]] = r /\ r # 0
      BY <3>1, <3>2, <1>9, <1>19 DEF Reqs
    <3>4. v[ep[r]] # "Ok"
      <4> SUFFICES ASSUME v[ep[r]] = "Ok" PROVE FALSE
        OBVIOUS
      <4>1. b1[ep[r]] = 0
        BY <3>2, <1>3 DEF AdmitPass, MayAdmit
      <4> QED
        BY <4>1, <3>3
    <3>5. b2[ep[r]] = r
      BY <3>2, <3>3, <3>4, <1>2
    <3> QED
      BY <3>2, <3>5, <2>1, <1>18
  <2> QED
    BY <2>2, <2>3
<1>21. NoLeakedSlot'
  <2> SUFFICES ASSUME NEW e \in Endpoints, busy'[e] # 0 PROVE busy'[e] \in port'
    BY DEF NoLeakedSlot
  <2>1. busy'[e] = b2[e] /\ b2[e] \notin fin2
    BY <1>18
  <2>2. CASE v[e] = "Ok"
    BY <2>1, <2>2, <1>2, <1>3, <1>4
  <2>3. CASE v[e] # "Ok"
    <3>1. b2[e] = b1[e]
      BY <2>3, <1>2
    <3>2. busy[e] = b1[e] /\ busy[e] \notin fin1 /\ busy[e] # 0
      BY <3>1, <2>1, <1>19
    <3> QED
      BY <3>1, <3>2, <2>1, <1>1, <1>3 DEF NoLeakedSlot
  <2> QED
    BY <2>2, <2>3
<1>22. BarrierInFlight'
  <2> SUFFICES ASSUME NEW r \in inFlight', IsEp0(ep[r]) PROVE inFlight' = {r}
    BY <1>3 DEF BarrierInFlight
  <2>1. \A x \in fl1 : IsEp0(ep[x]) => fl1 = {x}
    BY <1>1, <1>2 DEF BarrierInFlight
  <2>2. r \in fl1 \cup acc
    BY <1>2, <1>11
  <2>3. TransfersTypeOK /\ QueuesInOrder /\ AdmitPass(v, fl1, b1)
    BY <1>1, <1>3
  <2>4. acc = Heads(v, "Ok", Endpoints)
    BY <1>2
  <2>5. fl1 \cup acc = {r}
    BY <2>1, <2>2, <2>3, <2>4, AdmitKeepsBarrier
  <2> QED
    BY <2>5, <1>2, <1>11
<1>23. WithinCredit'
  <2>1. PICK Q \in SUBSET Reqs, F \in SUBSET Reqs, Q2 \in SUBSET Reqs, F2 \in SUBSET Reqs :
           Q = Queued /\ F = inFlight /\ Q2 = Queued' /\ F2 = inFlight'
    BY <1>6, <1>8, <1>9, <1>11
  <2>2. Q \cap F = {} /\ Q2 \cap F2 = {} /\ Q2 \cup F2 \subseteq Q \cup F
    BY <2>1, <1>1, <1>6, <1>8, <1>11, <1>15 DEF TablesDisjoint
  <2>3. CreditUrbs \in Nat /\ Cardinality(Q) + Cardinality(F) <= CreditUrbs
    BY <2>1, <1>1, ExporterTransfersAssumption DEF WithinCredit
  <2>4. Cardinality(Q2) + Cardinality(F2) <= CreditUrbs
    BY <2>2, <2>3, CreditShrinks
  <2> QED
    BY <2>1, <2>4 DEF WithinCredit
<1> QED
  BY <1>10, <1>13, <1>14, <1>15, <1>16, <1>17, <1>20, <1>21, <1>22, <1>23 DEF ExporterInv

-------------------------------------------------------------------------------
(* The theorems *)

\* One step of anything keeps the invariant.
LEMMA ExporterInvNext == ExporterInv /\ [Next]_vars => ExporterInv'
<1> SUFFICES ASSUME ExporterInv, [Next]_vars PROVE ExporterInv'
  OBVIOUS
<1>1. CASE UNCHANGED vars
  <2>1. UNCHANGED <<state, sub, ep, queue, inFlight, cancelReq, busy, port, late, rx,
                    answers, dropped, lastIssued>>
    BY <1>1 DEF vars
  <2>2. Queued' = Queued /\ \A e \in Endpoints : InQueue(e)' = InQueue(e)
    BY <2>1 DEF Queued, InQueue
  <2>3. TransfersTypeOK'
    BY <2>1, <2>2 DEF ExporterInv, TransfersTypeOK
  <2>4. AnswersCounted'
    BY <2>1, <2>2 DEF ExporterInv, AnswersCounted, Open
  <2> QED
    BY <2>1, <2>2, <2>3, <2>4
       DEF ExporterInv, KnownRequests, TablesDisjoint, QueuesInOrder, YoungestReassembled,
           Reserved, NoLeakedSlot, BarrierInFlight, WithinCredit
<1>2. CASE \E e \in Endpoints, over \in BOOLEAN : RecvSubmit(e, over)
  BY <1>2, RecvSubmitInv
<1>3. CASE \E e \in Endpoints : RecvSubmitSegment(e)
  BY <1>3, RecvSubmitSegmentInv
<1>4. CASE \E over \in BOOLEAN : RecvLastData(over)
  BY <1>4, RecvLastDataInv
<1>5. CASE \E r \in Reqs, stopped \in SUBSET inFlight : RecvCancelRequest(r, stopped)
  <2>1. PICK target, stopped : Cancel(target, stopped)
    BY <1>5 DEF RecvCancelRequest
  <2> QED
    BY <2>1, CancelInv
<1>6. CASE \E e \in Endpoints, stopped \in SUBSET inFlight : RecvCancelEndpoint(e, stopped)
  <2>1. PICK target, stopped : Cancel(target, stopped)
    BY <1>6 DEF RecvCancelEndpoint
  <2> QED
    BY <2>1, CancelInv
<1>7. CASE Pumps(0)
  <2>1. PICK v \in [Endpoints -> Verdicts] : \E fin1, fin2, stop : Pump(fin1, v, fin2, stop)
    BY <1>7 DEF Pumps
  <2>2. PICK fin1, fin2, stop : Pump(fin1, v, fin2, stop)
    BY <2>1
  <2> QED
    BY <2>2, PumpInv
<1>8. CASE \E r \in Reqs : Expire(r)
  BY <1>8, ExpireInv
<1>9. CASE Orphan
  BY <1>9, OrphanInv
<1>10. CASE End
  BY <1>10, EndInv
<1>11. CASE Attach
  BY <1>11, AttachInv
<1> QED
  BY <1>1, <1>2, <1>3, <1>4, <1>5, <1>6, <1>7, <1>8, <1>9, <1>10, <1>11 DEF Next

\* The invariant holds in every reachable state of the exporter's data plane.
THEOREM ExporterInvHolds == Spec => []ExporterInv
  BY ExporterInvInit, ExporterInvNext, PTL DEF Spec

\* Every variable keeps its type, and a session that does not admit holds nothing.
THEOREM TransfersTyped == Spec => []TransfersTypeOK
<1>1. ExporterInv => TransfersTypeOK
  BY DEF ExporterInv
<1> QED
  BY <1>1, ExporterInvHolds, PTL

\* Invariant I1 at the exporter: a request is answered once, and is in the table
\* that will answer it until then, whatever cancels, deadlines, late outcomes and
\* endings race (failAllTransfers, sweepDeadlines, collect).
THEOREM RequestsAnsweredOnce == Spec => []AnsweredOnce
<1>1. ExporterInv => AnsweredOnce
  <2> SUFFICES ASSUME ExporterInv, NEW r \in 1..sub
               PROVE  answers[r] = IF r \in Open THEN 0 ELSE 1
    BY DEF AnsweredOnce, Open
  <2>1. r \in Reqs /\ r <= sub
    BY ExporterTransfersAssumption DEF ExporterInv, TransfersTypeOK, Reqs
  <2> QED
    BY <2>1 DEF ExporterInv, AnswersCounted
<1> QED
  BY <1>1, ExporterInvHolds, PTL

\* The device's slots are accounted for: one transfer on a data endpoint, no slot
\* leaked, nothing that is waited for beside a control transfer that is, never more
\* than the credit (mayAdmit, collect, sweepDeadlines, enqueueTransfer).
THEOREM SlotsAreAccounted == Spec => []SlotsAccounted
<1>1. ExporterInv => SlotsAccounted
  <2> SUFFICES ASSUME ExporterInv PROVE SlotsAccounted
    OBVIOUS
  <2>1. OneTransferPerEndpoint
    BY DEF ExporterInv, Reserved, OneTransferPerEndpoint
  <2>2. ASSUME NEW r \in port PROVE answers[r] = 1 \/ r \in inFlight
    <3>1. r \in Reqs /\ r <= sub /\ r \notin Queued \cup {rx} \cup dropped
      BY DEF ExporterInv, TransfersTypeOK, KnownRequests, TablesDisjoint
    <3> QED
      BY <3>1 DEF ExporterInv, AnswersCounted, Open
  <2>3. BarrierForWaiting
    BY <2>2 DEF ExporterInv, BarrierInFlight, BarrierForWaiting
  <2> QED
    BY <2>1, <2>3 DEF ExporterInv, SlotsAccounted
<1> QED
  BY <1>1, ExporterInvHolds, PTL

\* An endpoint's transfers reach the device in the order they were asked for,
\* through Busy ports, cancels and timeouts (admit).
THEOREM TransfersIssuedInOrder == Spec => []IssuedInOrder
<1>1. ExporterInv => IssuedInOrder
  <2> SUFFICES ASSUME ExporterInv, NEW e \in Endpoints
               PROVE  /\ \A i \in DOMAIN queue[e] : queue[e][i] > lastIssued[e]
                      /\ Increasing(queue[e])
    BY DEF IssuedInOrder, Increasing
  <2>1. Increasing(queue[e]) /\ \A r \in InQueue(e) : lastIssued[e] < r
    BY DEF ExporterInv, QueuesInOrder
  <2>2. \A i \in DOMAIN queue[e] : queue[e][i] \in InQueue(e)
    BY DEF InQueue, Elements
  <2>3. \A i \in DOMAIN queue[e] : queue[e][i] > lastIssued[e]
    <3>1. /\ lastIssued[e] \in Nat
          /\ \A i \in DOMAIN queue[e] : queue[e][i] \in Nat
      BY ExporterTransfersAssumption DEF ExporterInv, TransfersTypeOK, Reqs
    <3> QED
      BY <3>1, <2>1, <2>2
  <2> QED
    BY <2>1, <2>3
<1> QED
  BY <1>1, ExporterInvHolds, PTL

===============================================================================
