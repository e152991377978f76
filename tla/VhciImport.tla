------------------------------ MODULE VhciImport ------------------------------
(***************************************************************************)
(* The Linux importer: linuxvhci::VhciNetBridge between vhci-hcd and the   *)
(* data plane of an attached session, the link, and an exporter that does  *)
(* what ExporterTransfers establishes of ours: every SUBMIT it receives    *)
(* gets exactly one COMPLETE, in one record or several, in any order and   *)
(* at any time.                                                            *)
(*                                                                         *)
(* One thread runs the bridge.  A poll() goes through its stages in order: *)
(* every PDU of the kernel, sweep and admit, every record of the network,  *)
(* sweep and admit again.  The kernel, the clock, the exporter and the     *)
(* link take steps between any two of them.                                *)
(*                                                                         *)
(* A URB is the number of its CMD_SUBMIT; seqnums are never reused.  The   *)
(* time a URB may take is stamped when the kernel hands it over and passed *)
(* on to the plane, so it has one deadline, which passes at some moment    *)
(* (Expire).  CANCEL asks the exporter to hurry and releases it from       *)
(* nothing, so it has no effect here; CANCEL_ACK and the control plane's   *)
(* records are skipped by pump() and left out.                             *)
(***************************************************************************)
EXTENDS DataPlaneOps, QueueOps

CONSTANTS
    IntrEps,   \* interrupt endpoints: their URBs have no deadline
    MaxSegs    \* bound: records of one reply

ASSUME VhciImportAssumption ==
    /\ IntrEps \subseteq Endpoints
    /\ MaxSegs \in Nat \ {0}

Urbs == 1..MaxUrbs

VARIABLES
    stage,         \* where poll() is
    link,          \* "Up", "Down" (the peer is gone), "Fatal" (RecordLayer::_fatal)
    why,           \* why pump() failed, or ""
    gone,          \* drainKernel found the kernel's end closed
    plane,         \* the ImporterDataPlane
    pending,       \* _pending
    outstanding,   \* _outstanding: the URB of each request, or 0
    bySeqnum,      \* _bySeqnum: the request of each URB, or NoKey
    waiters,       \* _verbWaiters: the URB parked on each verb, or 0
    urbs,          \* CMD_SUBMITs received so far
    ep,            \* the endpoint each of them is about
    late,          \* URBs whose deadline has passed
    down,          \* records on their way from the exporter
    owed,          \* SUBMITs the exporter has not answered: [key, urb]
    owedVerbs,     \* EP_CLEAR_HALTs it has not acknowledged
    rets,          \* RET_SUBMITs sent per URB
    resets,        \* URBs whose RET_UNLINK said -ECONNRESET
    zeros,         \* URBs whose RET_UNLINK said 0
    early,         \* those of them the kernel still held: that completed them
    strangers      \* URBs completed with the reply to another

bridge == <<stage, gone, plane, pending, outstanding, bySeqnum, waiters>>
kernel == <<urbs, ep, rets, resets, zeros, early, strangers>>
net    == <<link, down, owed, owedVerbs>>
vars   == <<bridge, kernel, net, why, late>>

Init ==
    /\ stage = "Kernel"
    /\ link = "Up"
    /\ why = ""
    /\ gone = FALSE
    /\ plane = InitPlane
    /\ pending = <<>>
    /\ outstanding = [k \in Keys |-> 0]
    /\ bySeqnum = [u \in Urbs |-> NoKey]
    /\ waiters = [k \in Keys |-> 0]
    /\ urbs = 0
    /\ ep = [u \in Urbs |-> 0]
    /\ late = {}
    /\ down = <<>>
    /\ owed = {}
    /\ owedVerbs = {}
    /\ rets = [u \in Urbs |-> 0]
    /\ resets = {}
    /\ zeros = {}
    /\ early = {}
    /\ strangers = {}

Pending == Elements(pending)

Outstanding == {outstanding[k] : k \in Keys} \ {0}

Waiting == {waiters[k] : k \in Keys} \ {0}

Held == Pending \cup Outstanding \cup Waiting

\* One more RET_SUBMIT for each URB of S.
Return(S) == [u \in Urbs |-> IF u \in S THEN rets[u] + 1 ELSE rets[u]]

\* onCompletion for the requests of K: their URBs, and the maps without them.
UrbsOf(K) == {outstanding[k] : k \in K} \ {0}

Forget(K) ==
    /\ outstanding' = [k \in Keys |-> IF k \in K THEN 0 ELSE outstanding[k]]
    /\ bySeqnum' = [u \in Urbs |-> IF u \in UrbsOf(K) THEN NoKey ELSE bySeqnum[u]]

\* onVerb for the verbs of V.
WaitersOf(V) == {waiters[k] : k \in V} \ {0}

ForgetWaiters(V) == waiters' = [k \in Keys |-> IF k \in V THEN 0 ELSE waiters[k]]

\* sendRecord: fails once the layer is fatal, makes it so when it finds the peer
\* gone, and until then buffers.
Sends(ok) ==
    \/ ok /\ link # "Fatal" /\ UNCHANGED link
    \/ ~ok /\ link # "Up" /\ link' = "Fatal"

-------------------------------------------------------------------------------
(* drainKernel *)

NewUrb(e) ==
    /\ stage = "Kernel"
    /\ urbs < MaxUrbs
    /\ urbs' = urbs + 1
    /\ ep' = [ep EXCEPT ![urbs'] = e]

\* A transfer, or a control request the arbiter forwards: queued, no more.
OnSubmit(e) ==
    /\ NewUrb(e)
    /\ pending' = Append(pending, urbs')
    /\ UNCHANGED <<stage, gone, plane, outstanding, bySeqnum, waiters, rets, resets,
                   zeros, early, strangers, net, why, late>>

\* A control request answered from the manifest or refused, an unknown endpoint,
\* an isochronous transfer.
OnSubmitLocal(e) ==
    /\ NewUrb(e)
    /\ rets' = Return({urbs'})
    /\ UNCHANGED <<bridge, resets, zeros, early, strangers, net, why, late>>

\* CLEAR_FEATURE(ENDPOINT_HALT): the URB is parked on a verb, or answered when the
\* verb cannot be sent.
OnSubmitClearHalt(e, ok) ==
    /\ NewUrb(e)
    /\ Sends(ok)
    /\ IF ok
       THEN /\ plane' = HaltSent(plane, e)
            /\ waiters' = [waiters EXCEPT ![VerbKey(plane, e)] = urbs']
            /\ owedVerbs' = IF link = "Up" THEN owedVerbs \cup {VerbKey(plane, e)}
                            ELSE owedVerbs
            /\ UNCHANGED rets
       ELSE /\ plane' = HaltFailed(plane)
            /\ rets' = Return({urbs'})
            /\ UNCHANGED <<waiters, owedVerbs>>
    /\ UNCHANGED <<stage, gone, pending, outstanding, bySeqnum, resets, zeros, early,
                   strangers, down, owed, why, late>>

\* Mutant: the plane is not told.
UnlinkedPlaneUntold(u) == plane

\* cancel, of a URB that is on the network.
UnlinkedPlane(u) == Cancelled(plane, bySeqnum[u])

\* CMD_UNLINK of a URB on the network: retired here and now; the CANCEL is best
\* effort.
OnUnlinkOutstanding(u) ==
    /\ stage = "Kernel"
    /\ u \in 1..urbs
    /\ u \notin resets \cup zeros
    /\ bySeqnum[u] # NoKey
    /\ \E ok \in BOOLEAN : Sends(ok)
    /\ plane' = UnlinkedPlane(u)
    /\ outstanding' = [outstanding EXCEPT ![bySeqnum[u]] = 0]
    /\ bySeqnum' = [bySeqnum EXCEPT ![u] = NoKey]
    /\ resets' = resets \cup {u}
    /\ UNCHANGED <<stage, gone, pending, waiters, urbs, ep, rets, zeros, early, strangers,
                   down, owed, owedVerbs, why, late>>

\* Of one that is still queued.
OnUnlinkPending(u) ==
    /\ stage = "Kernel"
    /\ u \in Pending
    /\ u \notin resets \cup zeros
    /\ bySeqnum[u] = NoKey
    /\ pending' = Without(pending, {u})
    /\ resets' = resets \cup {u}
    /\ UNCHANGED <<stage, gone, plane, outstanding, bySeqnum, waiters, urbs, ep, rets,
                   zeros, early, strangers, net, why, late>>

\* Of one that is neither: status 0, which completes the URB where the kernel still
\* holds it.
OnUnlinkOther(u) ==
    /\ stage = "Kernel"
    /\ u \in 1..urbs
    /\ u \notin resets \cup zeros
    /\ bySeqnum[u] = NoKey
    /\ u \notin Pending
    /\ zeros' = zeros \cup {u}
    /\ early' = IF rets[u] = 0 THEN early \cup {u} ELSE early
    /\ UNCHANGED <<bridge, urbs, ep, rets, resets, strangers, net, why, late>>

\* Mutant: what is queued is dropped without an answer.
FailAllDropsQueue ==
    /\ plane' = Drained(plane)
    /\ rets' = Return(Outstanding \cup WaitersOf(plane.verbs))
    /\ Forget(Keys)
    /\ ForgetWaiters(plane.verbs)
    /\ pending' = <<>>

\* failAll: what the plane holds, what only the bridge does, and what is queued.
FailAll ==
    /\ plane' = Drained(plane)
    /\ rets' = Return(Outstanding \cup Pending \cup WaitersOf(plane.verbs))
    /\ Forget(Keys)
    /\ ForgetWaiters(plane.verbs)
    /\ pending' = <<>>

\* A PDU that cannot be decoded.
KernelFatal ==
    /\ stage = "Kernel"
    /\ FailAll
    /\ stage' = "Dead"
    /\ UNCHANGED <<gone, urbs, ep, resets, zeros, early, strangers, net, why, late>>

\* Nothing more to read, or the kernel's end is closed; then sweepPending.
KernelDrained(closed) ==
    /\ stage = "Kernel"
    /\ stage' = "Admit"
    /\ gone' = closed
    /\ pending' = Without(pending, late)
    /\ rets' = Return(Pending \cap late)
    /\ UNCHANGED <<plane, outstanding, bySeqnum, waiters, urbs, ep, resets, zeros, early,
                   strangers, net, why, late>>

-------------------------------------------------------------------------------
(* admitPending, twice in a poll *)

Admitting == stage \in {"Admit", "Readmit"}

\* One round of its loop, for the URB that has waited longest.
AdmitNext(ok) ==
    LET u == Head(pending)
        k == RequestKey(plane, ep[u])
    IN  /\ Admitting
        /\ pending # <<>>
        /\ CanAdmit(plane)
        /\ pending' = Tail(pending)
        /\ IF u \in late
           THEN /\ rets' = Return({u})
                /\ UNCHANGED <<link, plane, outstanding, bySeqnum, owed>>
           ELSE /\ Sends(ok)
                /\ IF ok
                   THEN /\ plane' = Submitted(plane, ep[u])
                        /\ outstanding' = [outstanding EXCEPT ![k] = u]
                        /\ bySeqnum' = [bySeqnum EXCEPT ![u] = k]
                        /\ owed' = IF link = "Up"
                                   THEN owed \cup {[key |-> k, urb |-> u]} ELSE owed
                        /\ UNCHANGED rets
                   ELSE /\ plane' = SubmitFailed(plane, ep[u])
                        /\ rets' = Return({u})
                        /\ UNCHANGED <<outstanding, bySeqnum, owed>>
        /\ UNCHANGED <<stage, gone, waiters, urbs, ep, resets, zeros, early, strangers,
                       down, owedVerbs, why, late>>

AdmitEnds == pending = <<>> \/ ~CanAdmit(plane)

AdmitDone ==
    /\ stage = "Admit"
    /\ AdmitEnds
    /\ stage' = "Net"
    /\ UNCHANGED <<gone, plane, pending, outstanding, bySeqnum, waiters, kernel, net,
                   why, late>>

-------------------------------------------------------------------------------
(* pumpPlane: pump, then sweepDeadlines *)

\* One record that does not end the session.
Receive ==
    LET r == Head(down)
        v == Verdict(plane, r)
    IN  /\ stage = "Net"
        /\ link # "Fatal"
        /\ down # <<>>
        /\ v # "Fatal"
        /\ down' = Tail(down)
        /\ plane' = Handled(plane, r, v)
        /\ CASE v = "Deliver" ->
                    /\ rets' = Return(UrbsOf({r.key}))
                    /\ strangers' = strangers \cup (UrbsOf({r.key}) \ {r.urb})
                    /\ Forget({r.key})
                    /\ UNCHANGED waiters
             [] v = "Verb" ->
                    /\ rets' = Return(WaitersOf({r.key}))
                    /\ ForgetWaiters({r.key})
                    /\ UNCHANGED <<outstanding, bySeqnum, strangers>>
             [] OTHER ->
                    UNCHANGED <<outstanding, bySeqnum, waiters, rets, strangers>>
        /\ UNCHANGED <<stage, gone, pending, urbs, ep, resets, zeros, early, link, owed,
                       owedVerbs, why, late>>

LateKeys == {k \in plane.table : outstanding[k] \in late}

LateVerbs == {k \in plane.verbs : waiters[k] \in late}

\* sweepDeadlines, however pump() ended.
SweepPlane ==
    /\ plane' = Expired(plane, LateKeys, LateVerbs)
    /\ rets' = Return(UrbsOf(plane.table \ plane'.table)
                        \cup WaitersOf(plane.verbs \ plane'.verbs))
    /\ Forget(plane.table \ plane'.table)
    /\ ForgetWaiters(plane.verbs \ plane'.verbs)
    /\ stage' = "Readmit"
    /\ UNCHANGED <<gone, pending, urbs, ep, resets, zeros, early, strangers, late>>

\* No complete record is here now: what is under way may still be in the network.
NetDrained ==
    /\ stage = "Net"
    /\ link # "Fatal"
    /\ SweepPlane
    /\ UNCHANGED <<net, why>>

NetLost ==
    /\ stage = "Net"
    /\ link # "Up"
    /\ SweepPlane
    /\ why' = "TransportLost"
    /\ UNCHANGED net

\* A record that ends the session: ERROR, or a DATA that continues nothing.
NetFatal ==
    /\ stage = "Net"
    /\ link # "Fatal"
    /\ down # <<>>
    /\ Verdict(plane, Head(down)) = "Fatal"
    /\ SweepPlane
    /\ down' = Tail(down)
    /\ why' = IF Head(down).type = "Error" THEN "Error" ELSE "MalformedFrame"
    /\ UNCHANGED <<link, owed, owedVerbs>>

\* The end of poll(): a failed pump fails everything, a closed kernel just stops.
PollEnd ==
    /\ stage = "Readmit"
    /\ AdmitEnds
    /\ stage' = IF why # "" \/ gone THEN "Dead" ELSE "Kernel"
    /\ IF why # ""
       THEN FailAll
       ELSE UNCHANGED <<plane, rets, outstanding, bySeqnum, waiters, pending>>
    /\ UNCHANGED <<gone, urbs, ep, resets, zeros, early, strangers, net, why, late>>

-------------------------------------------------------------------------------
(* The clock, the exporter and the link *)

Expire(u) ==
    /\ u \in Held
    /\ u \notin late
    /\ u \in Waiting \/ ep[u] \notin IntrEps
    /\ late' = late \cup {u}
    /\ UNCHANGED <<bridge, kernel, net, why>>

\* emitTransfer: COMPLETE, and the rest of the payload in DATA records.
ExporterAnswers(o, n) ==
    /\ link = "Up"
    /\ o \in owed
    /\ owed' = owed \ {o}
    /\ down' = down \o [i \in 1..n |->
                    [type |-> IF i = 1 THEN "Complete" ELSE "Data",
                     key |-> o.key, more |-> i < n, urb |-> o.urb]]
    /\ UNCHANGED <<bridge, kernel, link, owedVerbs, why, late>>

\* An ERROR instead: the exporter's session is orphaned.
ExporterRefuses(o) ==
    /\ link = "Up"
    /\ o \in owed
    /\ owed' = owed \ {o}
    /\ down' = Append(down, [type |-> "Error"])
    /\ UNCHANGED <<bridge, kernel, link, owedVerbs, why, late>>

\* CTRL_ACK goes out through sendSimple, whose channel is always 0.
ExporterAcks(k) ==
    /\ link = "Up"
    /\ k \in owedVerbs
    /\ owedVerbs' = owedVerbs \ {k}
    /\ down' = Append(down, [type |-> "CtrlAck", key |-> <<ChannelSession, k[2]>>])
    /\ UNCHANGED <<bridge, kernel, link, owed, why, late>>

LinkDies ==
    /\ link = "Up"
    /\ link' = "Down"
    /\ UNCHANGED <<bridge, kernel, down, owed, owedVerbs, why, late>>

-------------------------------------------------------------------------------

Next ==
    \/ \E e \in Endpoints :
          \/ OnSubmit(e)
          \/ OnSubmitLocal(e)
          \/ \E ok \in BOOLEAN : OnSubmitClearHalt(e, ok)
    \/ \E u \in Urbs :
          \/ OnUnlinkOutstanding(u)
          \/ OnUnlinkPending(u)
          \/ OnUnlinkOther(u)
          \/ Expire(u)
    \/ KernelFatal
    \/ \E closed \in BOOLEAN : KernelDrained(closed)
    \/ \E ok \in BOOLEAN : AdmitNext(ok)
    \/ AdmitDone
    \/ Receive
    \/ NetDrained
    \/ NetLost
    \/ NetFatal
    \/ PollEnd
    \/ \E o \in owed :
          \/ \E n \in 1..MaxSegs : ExporterAnswers(o, n)
          \/ ExporterRefuses(o)
    \/ \E k \in owedVerbs : ExporterAcks(k)
    \/ LinkDies

Spec == Init /\ [][Next]_vars

\* The broker's loop calls poll() for ever, every call ends, and clocks run.
\* Nothing is assumed of the exporter, the link or the kernel.
Fairness ==
    /\ WF_vars(KernelDrained(FALSE))
    /\ WF_vars(\E ok \in BOOLEAN : AdmitNext(ok))
    /\ WF_vars(AdmitDone)
    /\ WF_vars(NetDrained \/ NetLost)
    /\ WF_vars(PollEnd)
    /\ \A u \in Urbs : WF_vars(Expire(u))

FairSpec == Spec /\ Fairness

-------------------------------------------------------------------------------
(* Properties *)

\* How often the kernel was given the outcome of a URB: a RET_SUBMIT, an unlink
\* answered -ECONNRESET, or one answered 0 while the kernel still held it.
Outcomes(u) ==
    rets[u] + (IF u \in resets THEN 1 ELSE 0) + (IF u \in early THEN 1 ELSE 0)

\* Invariant I1 at the kernel: a URB has exactly one outcome and none while the
\* bridge holds it, whatever unlinks, deadlines, late replies and teardowns race
\* (onUnlink, onCompletion, sweepDeadlines, failAll).  The one exception is a
\* CLEAR_HALT unlinked while it is parked, never a transfer: it is told 0 at once,
\* and a RET_SUBMIT still follows (KernelToldOnce).
ReturnedOnce ==
    \A u \in 1..urbs :
        \/ u \notin early /\ Outcomes(u) = IF u \in Held THEN 0 ELSE 1
        \/ /\ u \in early
           /\ u \notin Pending \cup Outstanding
           /\ Outcomes(u) = IF u \in Waiting THEN 1 ELSE 2

\* The bridge and the plane agree on what is on the network, and the bridge's two
\* maps on whose it is: no unlink or timeout leaves the one admission slot taken
\* by a request nobody waits for, or a reply being put together for one
\* (_outstanding, _bySeqnum, RequestTable, _pendingReply).
TablesAgree ==
    /\ plane.table = {k \in Keys : outstanding[k] # 0}
    /\ \A k \in Keys : outstanding[k] # 0 => bySeqnum[outstanding[k]] = k
    /\ \A u \in Urbs : bySeqnum[u] # NoKey => outstanding[bySeqnum[u]] = u
    /\ plane.verbs = {k \in Keys : waiters[k] # 0}
    /\ plane.partial \subseteq plane.table

\* No URB is completed with the bytes of another, however late a reply comes
\* (nextRequestId never reuses an id: rule R8).
OwnReply == strangers = {}

\* Every URB with a deadline is returned or unlinked, with an exporter that never
\* answers, stops half way through a reply, or is gone (rule R-C): the kernel has
\* no timeout of its own.
EventuallyReturned ==
    \A u \in Urbs :
        (u \in Held /\ (u \in Waiting \/ ep[u] \notin IntrEps))
            ~> (u \notin Held \/ stage = "Dead")

-------------------------------------------------------------------------------
(* What comments and tests say, and the code does otherwise *)

\* VhciNetBridge.cpp 308 (an unlink is answered 0 when the RET_SUBMIT is already
\* on the wire) and docs/LINUX_IMPORTER_PLAN.md 682 (no RET_SUBMIT for a seqnum that
\* a RET_UNLINK retired): the kernel is given the outcome of a URB once.
KernelToldOnce == \A u \in 1..urbs : Outcomes(u) <= 1

\* test_netbridge.cpp 465-507: a CLEAR_HALT is answered on the acknowledgement; a
\* CTRL_ACK for a verb that is still waited for ends the wait.
AckEndsTheWait ==
    [][Receive /\ Head(down).type = "CtrlAck"
          => \A k \in plane'.verbs : k[2] # Head(down).key[2]]_vars

===============================================================================
