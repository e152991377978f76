------------------------------ MODULE UdecxImport ------------------------------
(***************************************************************************)
(* The Windows importer in user mode: windows::UdecxPresenter builds a     *)
(* UdecxDriverChannel, an ImporterDataPlane and a UdecxBridge over an      *)
(* attached session, and pumps the bridge.  The link and the exporter are  *)
(* those of VhciImport.tla, with replies of one record.                    *)
(*                                                                         *)
(* The driver is what IDriverChannel and UdecxIpc say it is: it fills the  *)
(* parked FETCHes in the order they were parked with well-formed UdecxIpc  *)
(* records, each about an id of its own choosing, and takes a COMPLETE at  *)
(* once or later.  A malformed record is counted and changes nothing, and  *)
(* is left out.  (What airusb.sys itself does is UdecxDriver.tla; its      *)
(* envelope differs from UdecxIpc's, see the README.)                      *)
(*                                                                         *)
(* One thread runs present, pump and withdraw.  Deadlines are those of     *)
(* VhciImport.tla: one per URB, which passes at some moment.               *)
(***************************************************************************)
EXTENDS DataPlaneOps, QueueOps, SequencesExt

CONSTANTS
    IntrEps,         \* interrupt endpoints: their URBs have no deadline
    FetchDepth,      \* kFetchDepth
    CompleteSlots,   \* kCompleteSlots
    MaxRetired,      \* kMaxRetired
    MaxPresents,     \* bound: devices presented
    MaxCancels,      \* bound: cancellations
    MaxConfigures    \* bound: configure transactions

ASSUME UdecxImportAssumption ==
    /\ IntrEps \subseteq Endpoints
    /\ {FetchDepth, CompleteSlots, MaxRetired} \subseteq Nat \ {0}
    /\ {MaxPresents, MaxCancels, MaxConfigures} \subseteq Nat

Urbs == 1..MaxUrbs
Slots == 1..FetchDepth

\* What onUrbRequest makes of a URB: a stale, too long or locally answerable one is
\* answered at once, any other is queued.
Kinds == {"AnswerNow", "Queue"}

NoRecord == [op |-> "None"]

VARIABLES
    stage,         \* "Off", or where poll() is: "Idle", "Driver", "Admit", "Net"
    presents,      \* devices presented so far
    configures,    \* configure transactions so far
    fetch,         \* what each FETCH slot was completed with
    parked,        \* the slots the driver holds, in the order it got them
    busy,          \* completion slots whose IOCTL may still be pending
    refused,       \* URBs whose completion send() refused as Busy: no slot was free
    failed,        \* URBs whose completion send() could not hand over at all
    plane,         \* the ImporterDataPlane
    queued,        \* _queued
    outstanding,   \* _outstanding: the URB of each request, or 0
    retired,       \* _retiredOrder
    urbs,          \* URBs the driver has handed over
    ep,            \* the endpoint of each the bridge may queue
    late,          \* URBs whose deadline has passed
    cancels,       \* URBs the driver has cancelled
    ans,           \* UrbCompletions the channel took, per URB
    acked,         \* URBs whose cancellation the bridge has carried out
    link, down, owed   \* as in VhciImport

poll   == <<stage, presents>>
chan   == <<fetch, parked, busy, refused, failed>>
bridge == <<plane, queued, outstanding, retired>>
driver == <<urbs, ep, cancels, configures>>
answer == <<ans, acked>>
net    == <<link, down, owed>>
vars   == <<poll, chan, bridge, driver, answer, net, late>>

Init ==
    /\ stage = "Off" /\ presents = 0 /\ configures = 0
    /\ fetch = [s \in Slots |-> NoRecord]
    /\ parked = <<>>
    /\ busy = 0 /\ refused = {} /\ failed = {}
    /\ plane = InitPlane
    /\ queued = <<>>
    /\ outstanding = [k \in Keys |-> 0]
    /\ retired = <<>>
    /\ urbs = 0
    /\ ep = [u \in Urbs |-> 0]
    /\ late = {} /\ cancels = {}
    /\ ans = [u \in Urbs |-> 0]
    /\ acked = {}
    /\ link = "Down" /\ down = <<>> /\ owed = {}

Outstanding == {outstanding[k] : k \in Keys} \ {0}
Held == Elements(queued) \cup Outstanding

-------------------------------------------------------------------------------
(* Records for the driver *)

\* completeToDriver for every URB of S, and n records more, each offered to send()
\* once.  send() takes a free slot and answers Busy when it finds none; without an
\* event, or when the driver refuses the IOCTL, it fails with slots to spare.
\* sendRecord notes the status and drops the record.  An IOCTL may be pending for
\* any time, so whatever was given a slot may still hold it, or flush() may have
\* reaped it.
Complete(S, n) ==
    \E refuse \in SUBSET S : \E fail \in SUBSET (S \ refuse), more \in 0..n :
        LET took  == S \ (refuse \cup fail)
            taken == busy + Cardinality(took) + more
        IN  /\ refuse # {} => taken >= CompleteSlots
            /\ busy' = IF taken < CompleteSlots THEN taken ELSE CompleteSlots
            /\ refused' = refused \cup refuse
            /\ failed' = failed \cup fail
            /\ ans' = [u \in Urbs |-> IF u \in took THEN ans[u] + 1 ELSE ans[u]]

NoAnswer == UNCHANGED <<busy, refused, failed, ans>>

IsRetired(u) == u \in Elements(retired)

\* retire, of every URB of S: a ring of the MaxRetired youngest.
Retired(S) ==
    LET all == retired \o SetToSeq(S \ Elements(retired))
        old == Len(all) - MaxRetired
    IN  IF old > 0 THEN SubSeq(all, old + 1, Len(all)) ELSE all

Forget(K) == outstanding' = [k \in Keys |-> IF k \in K THEN 0 ELSE outstanding[k]]

-------------------------------------------------------------------------------
(* present and withdraw *)

\* UdecxDriverChannel::open binds the driver and parks every FETCH ...
ChannelOpens ==
    /\ fetch' = [s \in Slots |-> NoRecord]
    /\ parked' = [s \in Slots |-> s]
    /\ busy' = 0

\* ... and close cancels them.
ChannelCloses ==
    /\ fetch' = [s \in Slots |-> NoRecord]
    /\ parked' = <<>>

\* open, plugIn, a plane and a bridge.  A step that fails undoes the ones before
\* it, which leaves nothing.
Present ==
    /\ stage = "Off" /\ presents < MaxPresents
    /\ presents' = presents + 1
    /\ stage' = "Idle"
    /\ ChannelOpens
    /\ plane' = InitPlane
    /\ queued' = <<>> /\ retired' = <<>>
    /\ Forget(Keys)
    /\ link' = "Up" /\ down' = <<>> /\ owed' = {}
    /\ UNCHANGED <<refused, failed, driver, answer, late>>

\* Mutant: what is queued is dropped without an answer.
FailedByFailAllOnWire == {u \in Outstanding : ~IsRetired(u)}

\* failAll answers what is on the wire and what is queued, unless already retired.
FailedByFailAll == {u \in Held : ~IsRetired(u)}

FailAll ==
    /\ Complete(FailedByFailAll, 0)
    /\ retired' = Retired(FailedByFailAll)
    /\ Forget(Keys)
    /\ queued' = <<>>
    /\ plane' = Drained(plane)

\* withdraw: plug out, fail what is left, drop the bridge, the plane and the
\* channel.  present() does it too when a device is already presented.
Withdraw ==
    /\ stage = "Idle"
    /\ stage' = "Off"
    /\ FailAll
    /\ ChannelCloses
    /\ UNCHANGED <<presents, driver, acked, net, late>>

-------------------------------------------------------------------------------
(* drainDriver *)

PollBegins ==
    /\ stage = "Idle"
    /\ stage' = "Driver"
    /\ UNCHANGED <<presents, chan, bridge, driver, answer, net, late>>

\* tryReceive: the first slot, by index, that holds a record; it is parked again.
Ready == {s \in Slots : fetch[s] # NoRecord}
IsFirst(s) == s \in Ready /\ \A t \in Ready : s <= t

Collect(s) ==
    /\ stage = "Driver" /\ IsFirst(s)
    /\ fetch' = [fetch EXCEPT ![s] = NoRecord]
    /\ parked' = Append(parked, s)
    /\ UNCHANGED <<poll, driver, net, late>>

OnUrbRequest(s) ==
    /\ Collect(s)
    /\ LET r == fetch[s]
       IN  /\ r.op = "Urb"
           /\ IF r.kind = "Queue"
              THEN queued' = Append(queued, r.urb) /\ NoAnswer
              ELSE Complete({r.urb}, 0) /\ UNCHANGED queued
    /\ UNCHANGED <<plane, outstanding, retired, acked>>

\* Mutant: the plane is given the driver's id, finds nothing and keeps its slot.
CancelledByDriverId(K) == plane

\* plane.cancel of the requests of K, by the plane's own ids.
CancelledByPlaneId(K) ==
    [plane EXCEPT !.table = @ \ K, !.partial = @ \ K]

\* Acknowledged first; then dropped from the queue, or from the wire.
OnCancel(s) ==
    /\ Collect(s)
    /\ LET r == fetch[s]
           K == {k \in Keys : outstanding[k] = r.urb}
       IN  /\ r.op = "Cancel"
           /\ Complete({}, 1)
           /\ acked' = acked \cup {r.urb}
           /\ retired' = Retired({r.urb})
           /\ IF r.urb \in Elements(queued)
              THEN /\ queued' = Without(queued, {r.urb})
                   /\ UNCHANGED <<plane, outstanding>>
              ELSE /\ plane' = CancelledByPlaneId(K)
                   /\ Forget(K)
                   /\ UNCHANGED queued

\* The transfers of the endpoints being released end here, queued or on the wire;
\* the result follows them.  (commitVerb and the choice between Ok and Unsupported
\* touch nothing else.)
OnConfigure(s) ==
    /\ Collect(s)
    /\ LET r == fetch[s]
           Q == {u \in Elements(queued) : ep[u] \in r.release}
           K == {k \in Keys : outstanding[k] # 0 /\ ep[outstanding[k]] \in r.release}
           S == Q \cup {outstanding[k] : k \in K}
       IN  /\ r.op = "Configure"
           /\ Complete(S, 1)
           /\ retired' = Retired(S)
           /\ queued' = Without(queued, Q)
           /\ plane' = CancelledByPlaneId(K)
           /\ Forget(K)
    /\ UNCHANGED acked

\* Mutant: the deadline of a queued URB starts when it reaches the wire.
SweptNone == {}

\* sweepQueued.
Swept == Elements(queued) \cap late

DriverDrained ==
    /\ stage = "Driver" /\ Ready = {}
    /\ stage' = "Admit"
    /\ Complete(Swept, 0)
    /\ retired' = Retired(Swept)
    /\ queued' = Without(queued, Swept)
    /\ UNCHANGED <<presents, fetch, parked, plane, outstanding, driver, acked, net, late>>

-------------------------------------------------------------------------------
(* admitQueued *)

\* sendRecord of the plane, as in VhciImport.
Sends(ok) ==
    \/ ok /\ link # "Fatal" /\ UNCHANGED link
    \/ ~ok /\ link # "Up" /\ link' = "Fatal"

\* One round of the loop; a submit that fails ends it.
AdmitNext(ok) ==
    LET u == Head(queued)
        k == RequestKey(plane, ep[u])
    IN  /\ stage = "Admit"
        /\ queued # <<>> /\ CanAdmit(plane)
        /\ queued' = Tail(queued)
        /\ Sends(ok)
        /\ IF ok
           THEN /\ plane' = Submitted(plane, ep[u])
                /\ outstanding' = [outstanding EXCEPT ![k] = u]
                /\ owed' = IF link = "Up" THEN owed \cup {[key |-> k, urb |-> u]} ELSE owed
                /\ NoAnswer
                /\ UNCHANGED <<stage, retired>>
           ELSE /\ plane' = SubmitFailed(plane, ep[u])
                /\ Complete({u}, 0)
                /\ retired' = Retired({u})
                /\ stage' = "Net"
                /\ UNCHANGED <<outstanding, owed>>
        /\ UNCHANGED <<presents, fetch, parked, driver, acked, down, late>>

AdmitDone ==
    /\ stage = "Admit"
    /\ queued = <<>> \/ ~CanAdmit(plane)
    /\ stage' = "Net"
    /\ UNCHANGED <<presents, chan, bridge, driver, answer, net, late>>

-------------------------------------------------------------------------------
(* pumpPlane, flush *)

\* onCompletion for the requests of K: the ones nobody cancelled are answered.
Completed(K) ==
    LET S == {outstanding[k] : k \in K} \ ({0} \cup Elements(retired))
    IN  /\ Complete(S, 0)
        /\ retired' = Retired(S)
        /\ Forget(K)

Receive ==
    /\ stage = "Net" /\ link # "Fatal" /\ down # <<>>
    /\ Head(down).type = "Complete"
    /\ down' = Tail(down)
    /\ plane' = Handled(plane, Head(down), Verdict(plane, Head(down)))
    /\ Completed(plane.table \ plane'.table)
    /\ UNCHANGED <<poll, fetch, parked, queued, driver, acked, link, owed, late>>

\* Nothing more has arrived: sweepDeadlines.
NetDrained ==
    /\ stage = "Net" /\ link # "Fatal"
    /\ stage' = "Idle"
    /\ plane' = Expired(plane, {k \in plane.table : outstanding[k] \in late}, {})
    /\ Completed(plane.table \ plane'.table)
    /\ UNCHANGED <<presents, fetch, parked, queued, driver, acked, net, late>>

\* The link is lost, or an ERROR arrived: failAll.
NetLost ==
    /\ stage = "Net"
    /\ \/ link # "Up" /\ UNCHANGED down
       \/ link # "Fatal" /\ down # <<>> /\ Head(down).type = "Error" /\ down' = Tail(down)
    /\ stage' = "Idle"
    /\ FailAll
    /\ UNCHANGED <<presents, fetch, parked, driver, acked, link, owed, late>>

-------------------------------------------------------------------------------
(* The driver, the clock, the exporter and the link *)

\* A parked FETCH is completed with a record: the one parked longest.
DriverGives(r) ==
    /\ parked # <<>>
    /\ fetch' = [fetch EXCEPT ![Head(parked)] = r]
    /\ parked' = Tail(parked)
    /\ UNCHANGED <<poll, busy, refused, failed, bridge, answer, net, late>>

DriverUrb(e, kind) ==
    /\ urbs < MaxUrbs
    /\ urbs' = urbs + 1
    /\ ep' = IF kind = "Queue" THEN [ep EXCEPT ![urbs'] = e] ELSE ep
    /\ DriverGives([op |-> "Urb", urb |-> urbs', kind |-> kind])
    /\ UNCHANGED <<cancels, configures>>

DriverCancels(u) ==
    /\ u \in 1..urbs /\ u \notin cancels /\ Cardinality(cancels) < MaxCancels
    /\ cancels' = cancels \cup {u}
    /\ DriverGives([op |-> "Cancel", urb |-> u])
    /\ UNCHANGED <<urbs, ep, configures>>

DriverConfigures(E) ==
    /\ configures < MaxConfigures
    /\ configures' = configures + 1
    /\ DriverGives([op |-> "Configure", release |-> E])
    /\ UNCHANGED <<urbs, ep, cancels>>

Expire(u) ==
    /\ u \in Held \ late
    /\ ep[u] \notin IntrEps
    /\ late' = late \cup {u}
    /\ UNCHANGED <<poll, chan, bridge, driver, answer, net>>

ExporterAnswers(o, r) ==
    /\ link = "Up" /\ o \in owed
    /\ owed' = owed \ {o}
    /\ down' = Append(down, r)
    /\ UNCHANGED <<poll, chan, bridge, driver, answer, link, late>>

LinkDies ==
    /\ link = "Up"
    /\ link' = "Down"
    /\ UNCHANGED <<poll, chan, bridge, driver, answer, down, owed, late>>

-------------------------------------------------------------------------------
Handle == \E s \in Slots : OnUrbRequest(s) \/ OnCancel(s) \/ OnConfigure(s)

Next ==
    \/ Present \/ Withdraw
    \/ PollBegins \/ Handle \/ DriverDrained
    \/ \E ok \in BOOLEAN : AdmitNext(ok)
    \/ AdmitDone
    \/ Receive \/ NetDrained \/ NetLost
    \/ \E e \in Endpoints, kind \in Kinds : DriverUrb(e, kind)
    \/ \E u \in Urbs : DriverCancels(u) \/ Expire(u)
    \/ \E e \in Endpoints : DriverConfigures({e})
    \/ \E o \in owed :
          \/ ExporterAnswers(o, [type |-> "Complete", key |-> o.key, more |-> FALSE,
                                 urb |-> o.urb])
          \/ ExporterAnswers(o, [type |-> "Error"])
    \/ LinkDies

Spec == Init /\ [][Next]_vars

\* The broker pumps for ever, every call ends, clocks run.
Fairness ==
    /\ WF_vars(PollBegins) /\ WF_vars(Handle) /\ WF_vars(DriverDrained)
    /\ WF_vars(\E ok \in BOOLEAN : AdmitNext(ok)) /\ WF_vars(AdmitDone)
    /\ WF_vars(NetDrained \/ NetLost)
    /\ \A u \in Urbs : WF_vars(Expire(u))

FairSpec == Spec /\ Fairness

-------------------------------------------------------------------------------
(* Properties *)

\* The URBs the bridge has taken from the channel.
Taken == {u \in 1..urbs : \A s \in Slots :
                fetch[s].op = "Urb" => fetch[s].urb # u}

\* The URBs whose completion the bridge has offered to the channel, in vain.
Dropped == refused \cup failed

\* The bridge offers the driver one completion of a URB: a URB completed is not
\* offered again, nor is one whose completion the channel did not take.  And one the
\* bridge no longer holds has been completed, or cancelled by the driver, or offered
\* to a channel that did not take it; nothing is forgotten in any other way, whatever
\* cancellations, releases, deadlines, late replies and link losses race, and in
\* whatever order the slots are read (onCancel, onConfigure, onCompletion, failAll,
\* retire, sendRecord).
OneOutcome ==
    /\ \A u \in Urbs : ans[u] <= IF u \in Dropped THEN 0 ELSE 1
    /\ refused \cap failed = {}
    /\ stage # "Off" /\ presents = 1
         => \A u \in Taken \ Held : ans[u] = 1 \/ u \in acked \/ u \in Dropped

\* The bridge and the plane agree on what is on the wire, so no cancellation or
\* release leaves the one admission slot taken by a transfer nobody waits for.
AdmissionSlotsAgree == plane.table = {k \in Keys : outstanding[k] # 0}

\* Every URB handed over that may not idle for ever is completed, cancelled or
\* withdrawn, or its completion offered to a channel that does not take it, with an
\* exporter that never answers and a link that stalls (sweepQueued, sweepDeadlines,
\* failAll).
EventuallyAnswered ==
    \A u \in Urbs :
        (u <= urbs /\ ep[u] \notin IntrEps)
            ~> (ans[u] > 0 \/ u \in acked \cup Dropped \/ stage = "Off")

\* A completion send() refuses as Busy is queued by the bridge and retried
\* (UdecxDriverChannel::send: "Honest backpressure: the bridge queues and retries").
BusyIsRetried ==
    \A u \in Urbs : u \in refused ~> (ans[u] > 0 \/ stage = "Off")

===============================================================================
