--------------------------- MODULE ExporterTransfers ---------------------------
(***************************************************************************)
(* The data plane of session::ExporterSession: every SUBMIT of an attached *)
(* peer, from the record it arrives in to the COMPLETE that answers it,    *)
(* through the per-endpoint queues, the device and the deadline sweep.     *)
(*                                                                         *)
(* The device is any IAsyncUsbDevicePort that keeps its contract: it holds *)
(* the transfers it accepted (port), reports each one once, in any order   *)
(* and at any time or never, refuses or accepts a cancel as it likes, and  *)
(* reports what it accepted a cancel for.  InlineAsyncPort is the case     *)
(* that reports at once and refuses every cancel.                          *)
(*                                                                         *)
(* A request is the number of its SUBMIT and is also its device token: the *)
(* code draws a new token per admission and never reuses one.  A deadline  *)
(* is not a clock value: it passes at some moment after the request was    *)
(* accepted (Expire).  An endpoint is its address, as in the code.  What   *)
(* is queued in bytes is abstracted to a choice (Enqueue).  Verbs have     *)
(* their own tables in the code and are not modelled here.                 *)
(***************************************************************************)
EXTENDS QueueOps

CONSTANTS
    Endpoints,    \* endpoint addresses of the device, ep0 among them
    IntrEps,      \* those of interrupt type: their transfers have no deadline
    CreditUrbs,   \* kCreditUrbs
    MaxReqs       \* bound: SUBMITs in one behaviour

ASSUME ExporterTransfersAssumption ==
    /\ Endpoints \subseteq Nat
    /\ IntrEps \subseteq Endpoints
    /\ CreditUrbs \in Nat \ {0}
    /\ MaxReqs \in Nat

Reqs == 1..MaxReqs

VARIABLES
    state,       \* _state: "Leased" and "Orphaned" with a port, "Idle" without
    sub,         \* SUBMITs received so far
    ep,          \* the endpoint each of them names
    queue,       \* _queues
    inFlight,    \* _inFlight: requests the device owns and the peer waits for
    cancelReq,   \* those with cancelRequested set
    busy,        \* _busyEndpoint: the request that holds an endpoint, or 0
    port,        \* what the device is physically working on
    late,        \* requests whose deadline has passed
    rx,          \* the segmented OUT being reassembled (_rxRequestId), or 0
    answers,     \* COMPLETEs emitted per request
    dropped,     \* half-received OUTs that died with their attach
    lastIssued   \* the last request handed to the device on each endpoint

vars == <<state, sub, ep, queue, inFlight, cancelReq, busy, port, late, rx,
          answers, dropped, lastIssued>>

IsEp0(e) == e % 128 = 0

InQueue(e) == Elements(queue[e])

Queued == UNION {InQueue(e) : e \in Endpoints}

\* One more COMPLETE for each request of S.
Answer(S) == [r \in Reqs |-> IF r \in S THEN answers[r] + 1 ELSE answers[r]]

Init ==
    /\ state = "Leased"
    /\ sub = 0
    /\ ep = [r \in Reqs |-> 0]
    /\ queue = [e \in Endpoints |-> <<>>]
    /\ inFlight = {}
    /\ cancelReq = {}
    /\ busy = [e \in Endpoints |-> 0]
    /\ port = {}
    /\ late = {}
    /\ rx = 0
    /\ answers = [r \in Reqs |-> 0]
    /\ dropped = {}
    /\ lastIssued = [e \in Endpoints |-> 0]

-------------------------------------------------------------------------------
(* Accepting transfers *)

OverCredit == Cardinality(Queued) + Cardinality(inFlight) >= CreditUrbs

\* enqueueTransfer: at the credit it advertised, in transfers or in queued
\* bytes, the exporter answers NoResources; otherwise the transfer waits.
Enqueue(r, e, overBytes) ==
    IF OverCredit \/ overBytes
    THEN answers' = Answer({r}) /\ UNCHANGED queue
    ELSE queue' = [queue EXCEPT ![e] = Append(@, r)] /\ UNCHANGED answers

NewSubmit(e) ==
    /\ state = "Leased"
    /\ rx = 0
    /\ sub < MaxReqs
    /\ sub' = sub + 1
    /\ ep' = [ep EXCEPT ![sub'] = e]

\* A SUBMIT that fits in one record.
RecvSubmit(e, overBytes) ==
    /\ NewSubmit(e)
    /\ Enqueue(sub', e, overBytes)
    /\ UNCHANGED <<state, inFlight, cancelReq, busy, port, late, rx, dropped,
                   lastIssued>>

\* The first segment of an OUT SUBMIT: nothing is queued until all of it is here.
RecvSubmitSegment(e) ==
    /\ NewSubmit(e)
    /\ rx' = sub'
    /\ UNCHANGED <<state, queue, inFlight, cancelReq, busy, port, late, answers,
                   dropped, lastIssued>>

\* The DATA record that completes it.  One that does not changes nothing here.
RecvLastData(overBytes) ==
    /\ state = "Leased"
    /\ rx # 0
    /\ rx' = 0
    /\ Enqueue(rx, ep[rx], overBytes)
    /\ UNCHANGED <<state, sub, ep, inFlight, cancelReq, busy, port, late,
                   dropped, lastIssued>>

-------------------------------------------------------------------------------
(* CANCEL *)

\* Mutant: everything the CANCEL names is marked, the queued ones too.
CancelMarksTarget(target, stopped) == target

\* What a CANCEL marks as cancelRequested: the transfers whose cancel the port
\* accepted.  A refused one keeps its deadline.
CancelMarked(target, stopped) == stopped

\* handleCancel on the requests it matches: the queued ones are answered, the
\* port is asked for those in flight and accepts for `stopped`.
Cancel(target, stopped) ==
    /\ state = "Leased"
    /\ stopped \subseteq target \cap inFlight
    /\ answers' = Answer(target \cap Queued)
    /\ queue' = [e \in Endpoints |-> Without(queue[e], target)]
    /\ cancelReq' = cancelReq \cup CancelMarked(target, stopped)
    /\ UNCHANGED <<state, sub, ep, inFlight, busy, port, late, rx, dropped,
                   lastIssued>>

RecvCancelRequest(r, stopped) == Cancel({r}, stopped)

RecvCancelEndpoint(e, stopped) == Cancel({r \in 1..sub : ep[r] = e}, stopped)

-------------------------------------------------------------------------------
(* pump() after reading: collect, admit, collect, sweep.  Each stage is an     *)
(* operator from the tables it reads to the tables it leaves.                  *)

\* Mutant: the endpoint is freed only for a transfer that is still in flight.
FreedOnlyInFlight(b, fin, fl) ==
    [e \in Endpoints |-> IF b[e] \in fin /\ b[e] \in fl THEN 0 ELSE b[e]]

\* collect: an outcome frees the endpoint its token holds, whether or not the
\* transfer is still in flight.
Freed(b, fin, fl) == [e \in Endpoints |-> IF b[e] \in fin THEN 0 ELSE b[e]]

MayAdmit(e, fl, b) ==
    IF IsEp0(e) THEN fl = {}
    ELSE (\A r \in fl : ~IsEp0(ep[r])) /\ b[e] = 0

Verdicts == {"none", "Ok", "Busy", "Refused"}

\* The queue heads that got this verdict on the endpoints of S.
Heads(v, verdict, S) ==
    {Head(queue[e]) : e \in {f \in S : v[f] = verdict /\ queue[f] # <<>>}}

\* admit: one pass over the endpoints in address order.  v is what became of
\* each: not tried, or the port's answer.  The endpoints before e in the pass
\* have already put their accepted transfer in flight when e is tried.
AdmitPass(v, fl, b) ==
    \A e \in Endpoints :
        LET before == Heads(v, "Ok", {f \in Endpoints : f < e})
        IN  v[e] # "none" <=> queue[e] # <<>> /\ MayAdmit(e, fl \cup before, b)

\* Mutant: a transfer the port had no room for goes to the back.
AfterAdmitBack(q, verdict) ==
    CASE verdict \in {"Ok", "Refused"} -> Tail(q)
      [] verdict = "Busy"              -> Append(Tail(q), Head(q))
      [] verdict = "none"              -> q

\* A refused transfer is answered and gone; Busy puts it back at the front.
AfterAdmit(q, verdict) ==
    IF verdict \in {"Ok", "Refused"} THEN Tail(q) ELSE q

\* Mutant: a deadline is looked at only once the device owns the transfer.
SweptQueuedNone(waiting) == {}

\* sweepDeadlines, the queues: a transfer that never reached the device times out
\* where it waits.
SweptQueued(waiting) == waiting \cap late

\* sweepDeadlines, the device: the expired transfers the port is asked to stop.
\* One it already accepted a cancel for is left to the port's report.
SweptInFlight(fl) == (fl \cap late) \ cancelReq

\* One pump of a leased session.  fin1 and fin2 are what the port reports to the
\* first and the second collect, v what it says to admit, and stop the expired
\* transfers whose cancel it accepts.
Pump(fin1, v, fin2, stop) ==
    LET fl1   == inFlight \ fin1
        b1    == Freed(busy, fin1, inFlight)
        acc   == Heads(v, "Ok", Endpoints)
        ref   == Heads(v, "Refused", Endpoints)
        q2    == [e \in Endpoints |-> AfterAdmit(queue[e], v[e])]
        fl2   == fl1 \cup acc
        b2    == [e \in Endpoints |-> IF v[e] = "Ok" THEN Head(queue[e]) ELSE b1[e]]
        fl3   == fl2 \ fin2
        qlate == SweptQueued(Queued \ (acc \cup ref))
        flate == SweptInFlight(fl3)
    IN  /\ state = "Leased"
        /\ fin1 \subseteq port
        /\ AdmitPass(v, fl1, b1)
        /\ fin2 \subseteq (port \ fin1) \cup acc
        /\ stop \subseteq flate
        /\ queue' = [e \in Endpoints |-> Without(q2[e], qlate)]
        /\ inFlight' = fl3 \ (flate \ stop)
        /\ cancelReq' = ((cancelReq \ fin1) \ fin2) \cup stop
        /\ busy' = Freed(b2, fin2, fl2)
        /\ port' = ((port \ fin1) \cup acc) \ fin2
        /\ answers' = Answer((fin1 \cap inFlight) \cup ref \cup (fin2 \cap fl2)
                                \cup qlate \cup (flate \ stop))
        /\ lastIssued' = [e \in Endpoints |->
                             IF v[e] = "Ok" THEN Head(queue[e]) ELSE lastIssued[e]]
        /\ UNCHANGED <<state, sub, ep, late, rx, dropped>>

-------------------------------------------------------------------------------
(* Time and endings *)

\* An interrupt transfer has no deadline (deadlineMsFor).
Expire(r) ==
    /\ r \in Queued \cup inFlight
    /\ r \notin late
    /\ ep[r] \notin IntrEps
    /\ late' = late \cup {r}
    /\ UNCHANGED <<state, sub, ep, queue, inFlight, cancelReq, busy, port, rx,
                   answers, dropped, lastIssued>>

\* Mutant: the queues are cleared without an answer.
FailedInFlightOnly == inFlight

\* failAllTransfers answers whatever is in flight and whatever is queued.
Failed == inFlight \cup Queued

\* The lease timer ran out, which takes silence and nothing owed: the session
\* keeps its port but admits nothing more, the port gives up what its deadline
\* answered, and a half-received OUT stays half received.
Orphan ==
    /\ state = "Leased"
    /\ inFlight = {} /\ Queued = {}
    /\ state' = "Orphaned"
    /\ busy' = [e \in Endpoints |-> 0]
    /\ port' = {}
    /\ UNCHANGED <<sub, ep, queue, inFlight, cancelReq, late, rx, answers, dropped,
                   lastIssued>>

\* DETACH, GOODBYE, the loss of the transport, or a fatal record: the port gives
\* everything up (abortAll), everything owed is answered, and a half-received
\* OUT is forgotten.
End ==
    /\ state # "Idle"
    /\ state' = "Idle"
    /\ answers' = Answer(Failed)
    /\ queue' = [e \in Endpoints |-> <<>>]
    /\ inFlight' = {}
    /\ cancelReq' = {}
    /\ busy' = [e \in Endpoints |-> 0]
    /\ port' = {}
    /\ rx' = 0
    /\ dropped' = IF rx = 0 THEN dropped ELSE dropped \cup {rx}
    /\ UNCHANGED <<sub, ep, late, lastIssued>>

\* The peer attaches again; its request numbers go on.
Attach ==
    /\ state = "Idle"
    /\ state' = "Leased"
    /\ UNCHANGED <<sub, ep, queue, inFlight, cancelReq, busy, port, late, rx,
                   answers, dropped, lastIssued>>

Pumps(r) ==
    \E fin1 \in SUBSET port, v \in [Endpoints -> Verdicts] :
        LET acc == Heads(v, "Ok", Endpoints)
        IN  /\ r # 0 => r \in fin1
            /\ \E fin2 \in SUBSET (port \cup acc),
                  stop \in SUBSET (late \cap (inFlight \cup acc)) :
                  Pump(fin1, v, fin2, stop)

Next ==
    \/ \E e \in Endpoints, over \in BOOLEAN : RecvSubmit(e, over)
    \/ \E e \in Endpoints : RecvSubmitSegment(e)
    \/ \E over \in BOOLEAN : RecvLastData(over)
    \/ \E r \in Reqs, stopped \in SUBSET inFlight : RecvCancelRequest(r, stopped)
    \/ \E e \in Endpoints, stopped \in SUBSET inFlight : RecvCancelEndpoint(e, stopped)
    \/ Pumps(0)
    \/ \E r \in Reqs : Expire(r)
    \/ Orphan
    \/ End
    \/ Attach

Spec == Init /\ [][Next]_vars

\* A pump in which the device has nothing to report.
PumpSilent ==
    \E v \in [Endpoints -> Verdicts], stop \in SUBSET late : Pump({}, v, {}, stop)

\* The session is pumped for ever, clocks run, and a port reports a transfer it
\* accepted a cancel for.  A device that never finishes a transfer is allowed:
\* what is fair is the pump, not the device.
Fairness ==
    /\ WF_vars(PumpSilent)
    /\ \A r \in Reqs : WF_vars(Expire(r))
    /\ \A r \in Reqs : WF_vars(r \in cancelReq /\ Pumps(r))

FairSpec == Spec /\ Fairness

-------------------------------------------------------------------------------
(* Properties *)

\* Every variable keeps its type; a cancel is marked only in a record of
\* _inFlight, and a session that does not admit has nothing in its tables.
TransfersTypeOK ==
    /\ state \in {"Idle", "Leased", "Orphaned"}
    /\ sub \in 0..MaxReqs
    /\ ep \in [Reqs -> Endpoints \cup {0}]
    /\ queue \in [Endpoints -> Seq(Reqs)]
    /\ inFlight \subseteq Reqs
    /\ cancelReq \subseteq inFlight
    /\ busy \in [Endpoints -> Reqs \cup {0}]
    /\ port \subseteq Reqs
    /\ late \subseteq Reqs
    /\ rx \in Reqs \cup {0}
    /\ answers \in [Reqs -> Nat]
    /\ dropped \subseteq Reqs
    /\ lastIssued \in [Endpoints -> Reqs \cup {0}]
    /\ state # "Leased" => inFlight = {} /\ Queued = {} /\ port = {}
    /\ state = "Idle" => rx = 0

\* Invariant I1, exporter side: a request is answered exactly once, and until
\* then it is in exactly the tables that will answer it; nothing evaporates and
\* nothing is answered twice, whatever cancels, deadlines, late outcomes and
\* endings race (failAllTransfers, sweepDeadlines, collect).
AnsweredOnce ==
    \A r \in 1..sub :
        IF r \in Queued \cup inFlight \cup {rx} \cup dropped
        THEN answers[r] = 0
        ELSE answers[r] = 1

\* USB serialises per endpoint: at most one transfer of a data endpoint is
\* physically running, even after its deadline answered it (mayAdmit, and the
\* endpoint sweepDeadlines leaves reserved).
OneTransferPerEndpoint ==
    \A r, s \in port : ep[r] = ep[s] /\ ~IsEp0(ep[r]) => r = s

\* An endpoint is reserved only while the device really works for it: no late
\* outcome leaves a slot taken for the rest of the session (collect).
NoLeakedSlot == \A e \in Endpoints : busy[e] # 0 => busy[e] \in port

\* ep0 is a barrier for the transfers a peer waits for: of a control transfer and
\* anything else on the device, one has been answered by its deadline already
\* (mayAdmit, which looks at _inFlight).  That the answered one may still be running
\* beside the other is what Ep0RunsAlone is about.
BarrierForWaiting ==
    \A r, s \in port : IsEp0(ep[r]) /\ r # s => 1 \in {answers[r], answers[s]}

\* The transfers of an endpoint reach the device in the order they were asked
\* for, through Busy ports, cancels and timeouts (admit's push_front).
IssuedInOrder ==
    \A e \in Endpoints :
        /\ \A i \in DOMAIN queue[e] : queue[e][i] > lastIssued[e]
        /\ \A i, j \in DOMAIN queue[e] : i < j => queue[e][i] < queue[e][j]

\* The exporter never owes more than the credit it advertised (enqueueTransfer).
WithinCredit == Cardinality(Queued) + Cardinality(inFlight) <= CreditUrbs

\* The slots the exporter hands out are accounted for: a data endpoint carries one
\* transfer at a time, is free again once its transfer is off the device whoever
\* answered it, no two transfers that are waited for run beside ep0, and what is held
\* never exceeds the credit (mayAdmit, collect, sweepDeadlines, enqueueTransfer).
SlotsAccounted ==
    OneTransferPerEndpoint /\ NoLeakedSlot /\ BarrierForWaiting /\ WithinCredit

\* Every transfer with a deadline is answered, even by a device that never
\* finishes it and a port that refuses every cancel (sweepDeadlines).
EventuallyAnswered ==
    \A r \in Reqs :
        (r \in Queued \cup inFlight /\ ep[r] \notin IntrEps)
            ~> (r \notin Queued \cup inFlight)

-------------------------------------------------------------------------------
(* What comments and tests say, and the code does otherwise *)

\* ExporterSession.h 39-41: ep0 admits only when nothing else is outstanding, and
\* nothing else admits while ep0 is; so a control transfer is alone on the device.
Ep0RunsAlone == \A r \in port : IsEp0(ep[r]) => port = {r}

===============================================================================
