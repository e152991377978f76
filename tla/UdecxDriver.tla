------------------------------ MODULE UdecxDriver ------------------------------
(***************************************************************************)
(* airusb.sys, the Windows virtual host controller: the guest's URBs, the  *)
(* inverted call that hands them to the host process, the completions that *)
(* come back, cancellation, endpoint purge and reset, and the teardown     *)
(* that must not depend on the host being alive.                           *)
(*                                                                         *)
(* A step is what one callback does between two moments at which another   *)
(* can run: one critical section of ctx->Lock, or one framework call.  KMDF *)
(* and UdeCx are external and modelled from how the driver uses them:      *)
(*   - a request marked cancelable that the guest cancels belongs to the   *)
(*     cancel routine, and WdfRequestUnmarkCancelable then says CANCELLED; *)
(*   - purging an endpoint's queue cancels what it delivered and waits     *)
(*     until all of it is completed;                                       *)
(*   - plugging a device out purges its endpoint.                          *)
(* Completing a request twice, unlinking an entry that is on no list and   *)
(* touching the context of a completed request stop the machine (bugcheck).*)
(*                                                                         *)
(* The host is any process that opens the control interface: it may bind,  *)
(* plug in and out, park FETCHes, answer what it was given at any time or  *)
(* never, and close its handle or die at any moment.                       *)
(***************************************************************************)
EXTENDS Integers, QueueOps

CONSTANTS
    Eps,             \* the endpoints of the device
    Urbs,            \* the guest's URBs, each one WDFREQUEST
    EpOf,            \* the endpoint each of them is for
    Resets,          \* its endpoint resets
    MaxOutstanding,  \* AIRUSB_MAX_OUTSTANDING
    Wrap,            \* 2^w of the counters' ULONG
    MaxWork,         \* bound: URBs and resets that come in one behaviour
    MaxBinds,        \* bound: host processes in one behaviour
    MaxPlugs,        \* bound: devices plugged in
    MaxPurges,       \* bound: purges the guest asks for
    MaxFetch,        \* bound: FETCHes parked at once
    MaxPumps         \* bound: threads waiting to pump when a FETCH comes

ASSUME UdecxDriverAssumption ==
    /\ Urbs \cap Resets = {}
    /\ EpOf \in [Urbs -> Eps]
    /\ MaxOutstanding \in Nat \ {0}
    /\ Wrap \in Nat /\ Wrap > MaxOutstanding
    /\ {MaxWork, MaxBinds, MaxPlugs, MaxPurges, MaxFetch, MaxPumps} \subseteq Nat

VARIABLES
    life,        \* Life
    bound,       \* Bound (and Owner)
    sess,        \* SessionIncarnation
    dev,         \* DeviceIncarnation
    hostDev,     \* the device incarnation PLUG_IN told the host
    usbDevice,   \* UsbDevice # NULL
    bus,         \* UdeCx's device: "empty", "plugging", "live", "removing"
    teardown,    \* the work item: "idle", "queued", "delete"
    closing,     \* cleanups that have released the controller
    ending,      \* cleanups that have purged the FETCHes as well
    fetchOpen,   \* the queue of FETCHes takes new ones
    purges,      \* purges the guest asked for so far
    pc,          \* where the handler of each URB and reset is
    reqState,    \* AIRUSB_REQ_STATE of each URB
    stamp,       \* the incarnations each URB carries
    pending,     \* PendingWork
    exported,    \* Exported
    claimed,     \* entries detached and not yet completed
    pendingCount,
    outstanding,
    mark,        \* KMDF: "no", "yes", "cancelling", "off"
    cancelled,   \* URBs the guest cancelled before they were marked
    done,        \* URBs completed to the guest
    purge,       \* EvtEndpointPurge per endpoint: "open", "asked", "detached",
                 \* "draining", "purged"
    purging,     \* endpoints with Purging set
    takers,      \* threads at the top of the loop of AirUsbPumpFetch
    seekers,     \* threads in it that found no URB and look for a reset
    giving,      \* what threads in it have taken and not yet found a FETCH for
    backing,     \* what they found none for and have not yet put back
    fetches,     \* FETCHes parked in that queue
    host,        \* URBs the host process has been given
    sent,        \* resets with Sent set
    bugcheck

session == <<life, bound, sess, dev, hostDev, usbDevice, bus, teardown, closing, ending>>
lists   == <<pending, exported, claimed, pendingCount, outstanding, reqState>>
kmdf    == <<mark, cancelled, done>>
endp    == <<purge, purging, purges>>
call    == <<takers, seekers, giving, backing, fetches, fetchOpen, host>>
vars == <<session, lists, kmdf, endp, call, pc, stamp, sent, bugcheck>>

Parked == {r \in Resets : pc[r] = "parked"}
On(e) == {u \in Urbs : EpOf[u] = e}
Delivered == {u \in Urbs : pc[u] \notin {"new", "refused"}}

Init ==
    /\ life = "Running" /\ bound = FALSE /\ usbDevice = FALSE
    /\ sess = 0 /\ dev = 0 /\ hostDev = 0
    /\ bus = "empty" /\ teardown = "idle" /\ purges = 0
    /\ closing = 0 /\ ending = 0
    /\ pc = [x \in Urbs \cup Resets |-> "new"]
    /\ reqState = [u \in Urbs |-> "Queued"]
    /\ stamp = [u \in Urbs |-> <<0, 0>>]
    /\ pending = <<>> /\ exported = {} /\ claimed = {}
    /\ pendingCount = 0 /\ outstanding = 0
    /\ mark = [u \in Urbs |-> "no"]
    /\ cancelled = {} /\ done = {}
    /\ purge = [e \in Eps |-> "open"] /\ purging = {}
    /\ takers = 0 /\ seekers = 0 /\ giving = {} /\ backing = {}
    /\ fetches = 0 /\ fetchOpen = TRUE /\ host = {}
    /\ sent = {}
    /\ bugcheck = FALSE

\* A ULONG decremented without a test ...
Dec(n) == (n + Wrap - 1) % Wrap

\* ... and with one.
DecIfAny(n) == IF n = 0 THEN 0 ELSE n - 1

\* UdecxUrbComplete: a second completion stops the machine.
Complete(S) ==
    /\ done' = done \cup S
    /\ bugcheck' = (S \cap done # {})

-------------------------------------------------------------------------------
(* The guest's URBs *)

\* The guest sends x, a URB or a reset.
Comes(x) ==
    /\ pc[x] = "new"
    /\ Cardinality({y \in Urbs \cup Resets : pc[y] # "new"}) < MaxWork

\* The bound on what the driver holds, as its counters have it.
AtLimit == (pendingCount + outstanding) % Wrap >= MaxOutstanding

\* EvtIoInternalDeviceControl up to the id: declined with an answer, or admitted.
UrbArrive(u) ==
    /\ Comes(u)
    /\ bus \in {"plugging", "live"} /\ purge[EpOf[u]] = "open"
    /\ IF \/ life # "Running" \/ ~bound \/ EpOf[u] \in purging
          \/ AtLimit
       THEN pc' = [pc EXCEPT ![u] = "refused"] /\ UNCHANGED stamp
       ELSE /\ pc' = [pc EXCEPT ![u] = "admitted"]
            /\ stamp' = [stamp EXCEPT ![u] = <<sess, dev>>]
    /\ UNCHANGED <<session, lists, kmdf, endp, call, sent, bugcheck>>

\* Linked first ...
UrbLink(u) ==
    /\ pc[u] = "admitted"
    /\ pc' = [pc EXCEPT ![u] = "linked"]
    /\ pending' = Append(pending, u)
    /\ pendingCount' = (pendingCount + 1) % Wrap
    /\ UNCHANGED <<session, exported, claimed, outstanding, reqState, kmdf, endp,
                   call, stamp, sent, bugcheck>>

\* The entry u off whatever list it is on, and one off the counter its state names.
Unlink(u) ==
    /\ pending' = Without(pending, {u})
    /\ exported' = exported \ {u}
    /\ claimed' = claimed \ {u}
    /\ pendingCount' = IF reqState[u] = "Queued" THEN DecIfAny(pendingCount)
                                                 ELSE pendingCount
    /\ outstanding' = IF reqState[u] = "Exported" THEN DecIfAny(outstanding)
                                                  ELSE outstanding

\* ... then marked cancelable, and pumped.  If the guest cancelled it already,
\* KMDF does not call the cancel routine: it is completed here.
UrbMark(u) ==
    /\ pc[u] = "linked"
    /\ pc' = [pc EXCEPT ![u] = "handed"]
    /\ IF u \in cancelled
       THEN /\ IF reqState[u] = "Queued"
               THEN Unlink(u) /\ reqState' = [reqState EXCEPT ![u] = "Retired"]
               ELSE UNCHANGED lists
            /\ Complete({u})
            /\ UNCHANGED <<mark, takers>>
       ELSE /\ bugcheck' = (u \in done)
            /\ mark' = [mark EXCEPT ![u] = "yes"]
            /\ takers' = takers + 1
            /\ UNCHANGED <<lists, done>>
    /\ UNCHANGED <<session, cancelled, endp, seekers, giving, backing, fetches, fetchOpen,
                   host, stamp, sent>>

\* The guest gives up on a URB: KMDF calls the cancel routine of a marked one.
GuestCancels(S) ==
    /\ mark' = [u \in Urbs |-> IF u \in S /\ mark[u] = "yes" THEN "cancelling" ELSE mark[u]]
    /\ cancelled' = cancelled \cup {u \in S : mark[u] = "no"}

GuestCancel(u) ==
    /\ u \in Delivered \ done
    /\ mark[u] \in {"no", "yes"} /\ u \notin cancelled
    /\ GuestCancels({u})
    /\ UNCHANGED <<session, lists, done, endp, call, pc, stamp, sent, bugcheck>>

\* AirUsbEvtRequestCancel: unlinks by state, then completes.
EvtRequestCancel(u) ==
    /\ mark[u] = "cancelling"
    /\ mark' = [mark EXCEPT ![u] = "off"]
    /\ reqState' = [reqState EXCEPT ![u] = "Retired"]
    /\ IF reqState[u] \in {"Queued", "Exported"}
       THEN Unlink(u)
       ELSE UNCHANGED <<pending, exported, claimed, pendingCount, outstanding>>
    /\ done' = done \cup {u}
    /\ bugcheck' = \/ u \in done
                   \/ /\ reqState[u] \in {"Queued", "Exported"}
                      /\ u \notin Elements(pending) \cup exported \cup claimed
    /\ UNCHANGED <<session, cancelled, endp, call, pc, stamp, sent>>

-------------------------------------------------------------------------------
(* Retiring *)

\* Mutant: the transfers the host is working on are forgotten.
DetachedByRetirePendingOnly == Elements(pending)

\* AirUsbRetireAllLocked: both lists, each entry claimed as it is detached.
DetachedByRetire == Elements(pending) \cup exported

RetireAllLocked ==
    /\ claimed' = claimed \cup DetachedByRetire
    /\ reqState' = [u \in Urbs |-> IF u \in Elements(pending) \cup exported
                                   THEN "Completing" ELSE reqState[u]]
    /\ pending' = <<>> /\ exported' = {}
    /\ pendingCount' = 0 /\ outstanding' = 0
    /\ bugcheck' = (exported \cap done # {})

\* AirUsbCompleteDetached, and the end of AirUsbHandleCompletion: the entry is
\* completed unless the cancel routine already owns it.
CompleteClaimed(u) ==
    /\ u \in claimed
    /\ claimed' = claimed \ {u}
    /\ IF mark[u] = "cancelling"
       THEN UNCHANGED <<mark, reqState, done, bugcheck>>
       ELSE /\ mark' = [mark EXCEPT ![u] = "off"]
            /\ reqState' = [reqState EXCEPT ![u] = "Retired"]
            /\ Complete({u})
    /\ UNCHANGED <<session, pending, exported, pendingCount, outstanding,
                   cancelled, endp, call, pc, stamp, sent>>

\* AirUsbEvtDeviceD0Exit.
D0Exit ==
    /\ bus = "live"
    /\ pending # <<>> \/ exported # {}
    /\ RetireAllLocked
    /\ UNCHANGED <<session, kmdf, endp, call, pc, stamp, sent>>

-------------------------------------------------------------------------------
(* Purge and start of an endpoint *)

PurgeAsked(e) ==
    /\ bus = "live" /\ purge[e] = "open" /\ purges < MaxPurges
    /\ purge' = [purge EXCEPT ![e] = "asked"]
    /\ purges' = purges + 1
    /\ UNCHANGED <<session, lists, kmdf, purging, call, pc, stamp, sent, bugcheck>>

\* AirUsbEvtEndpointPurge: the endpoint's entries leave both lists, unclaimed ...
PurgeDetach(e) ==
    /\ purge[e] = "asked"
    /\ purge' = [purge EXCEPT ![e] = "detached"]
    /\ purging' = purging \cup {e}
    /\ claimed' = claimed \cup ((Elements(pending) \cup exported) \cap On(e))
    /\ pending' = Without(pending, On(e))
    /\ exported' = exported \ On(e)
    /\ pendingCount' = (pendingCount + Wrap - (Len(pending) - Len(pending'))) % Wrap
    /\ outstanding' = (outstanding + Wrap - Cardinality(exported \cap On(e))) % Wrap
    /\ bugcheck' = (exported \cap done # {})
    /\ UNCHANGED <<session, reqState, kmdf, purges, call, pc, stamp, sent>>

\* ... are completed (CompleteClaimed), and the queue is purged: KMDF cancels what
\* it delivered.
PurgeQueue(e) ==
    /\ purge[e] = "detached" /\ claimed \cap On(e) = {}
    /\ purge' = [purge EXCEPT ![e] = "draining"]
    /\ GuestCancels((Delivered \cap On(e)) \ done)
    /\ UNCHANGED <<session, lists, done, purging, purges, call, pc, stamp, sent, bugcheck>>

\* WdfIoQueuePurgeSynchronously returns, UdecxUsbEndpointPurgeComplete.
PurgeComplete(e) ==
    /\ purge[e] = "draining" /\ Delivered \cap On(e) \subseteq done
    /\ purge' = [purge EXCEPT ![e] = "purged"]
    /\ UNCHANGED <<session, lists, kmdf, purging, purges, call, pc, stamp, sent, bugcheck>>

\* AirUsbEvtEndpointStart.
EndpointStart(e) ==
    /\ purge[e] = "purged" /\ bus = "live"
    /\ purge' = [purge EXCEPT ![e] = "open"]
    /\ purging' = purging \ {e}
    /\ UNCHANGED <<session, lists, kmdf, purges, call, pc, stamp, sent, bugcheck>>

-------------------------------------------------------------------------------
(* AirUsbPumpFetch, run by any thread *)

\* The work is taken first: the head of PendingWork ...
PumpTakeUrb ==
    /\ takers > 0
    /\ takers' = takers - 1
    /\ IF life = "Running" /\ pending # <<>>
       THEN /\ pending' = Tail(pending)
            /\ pendingCount' = Dec(pendingCount)
            /\ exported' = exported \cup {Head(pending)}
            /\ outstanding' = (outstanding + 1) % Wrap
            /\ reqState' = [reqState EXCEPT ![Head(pending)] = "Exported"]
            /\ giving' = giving \cup {Head(pending)}
            /\ UNCHANGED <<claimed, seekers>>
       ELSE /\ seekers' = seekers + 1
            /\ UNCHANGED <<lists, giving>>
    /\ UNCHANGED <<session, kmdf, endp, backing, fetches, fetchOpen, host, pc, stamp, sent,
                   bugcheck>>

\* ... or, with the lock taken again, a reset not yet sent.
PumpTakeReset ==
    /\ seekers > 0
    /\ seekers' = seekers - 1
    /\ \/ \E r \in Parked \ sent :
          /\ life = "Running"
          /\ sent' = sent \cup {r}
          /\ giving' = giving \cup {r}
       \/ /\ life # "Running" \/ Parked \subseteq sent
          /\ UNCHANGED <<giving, sent>>
    /\ UNCHANGED <<session, lists, kmdf, endp, takers, backing, fetches, fetchOpen, host, pc,
                   stamp, bugcheck>>

\* What a thread that holds x reads is gone: the URB completed, the reset freed.
Freed(x) == IF x \in Urbs THEN x \in done ELSE x \notin Parked

\* What the record written for x tells the host process: of a URB, what to do.
\* A reset's record has an opcode its codec does not know.
Given(x) == {x} \cap Urbs

\* Then a FETCH is retrieved for it and, if one is parked, the record written.
PumpGive(x) ==
    /\ x \in giving
    /\ giving' = giving \ {x}
    /\ IF fetches = 0
       THEN /\ backing' = backing \cup {x}
            /\ UNCHANGED <<takers, fetches, host, bugcheck>>
       ELSE /\ takers' = takers + 1
            /\ fetches' = fetches - 1
            /\ host' = host \cup Given(x)
            /\ bugcheck' = Freed(x)
            /\ UNCHANGED backing
    /\ UNCHANGED <<session, lists, kmdf, endp, seekers, fetchOpen, pc, stamp, sent>>

\* Nobody asks for work: a URB goes back to the head of the list, a reset is
\* again not sent.
PumpBack(x) ==
    /\ x \in backing
    /\ backing' = backing \ {x}
    /\ bugcheck' = Freed(x)
    /\ sent' = sent \ {x}
    /\ IF x \in Urbs /\ reqState[x] = "Exported"
       THEN /\ exported' = exported \ {x}
            /\ claimed' = claimed \ {x}
            /\ outstanding' = DecIfAny(outstanding)
            /\ reqState' = [reqState EXCEPT ![x] = "Queued"]
            /\ pending' = <<x>> \o pending
            /\ pendingCount' = (pendingCount + 1) % Wrap
       ELSE UNCHANGED lists
    /\ UNCHANGED <<session, kmdf, endp, takers, seekers, giving, fetches, fetchOpen, host, pc,
                   stamp>>

-------------------------------------------------------------------------------
(* Endpoint resets *)

\* AirUsbEvtEndpointReset: failed at once without a host, otherwise parked.
ResetArrive(r) ==
    /\ Comes(r) /\ bus = "live"
    /\ pc' = [pc EXCEPT ![r] = IF bound /\ life = "Running" THEN "admitted" ELSE "refused"]
    /\ UNCHANGED <<session, lists, kmdf, endp, call, stamp, sent, bugcheck>>

ResetPark(r) ==
    /\ pc[r] = "admitted"
    /\ pc' = [pc EXCEPT ![r] = "parked"]
    /\ takers' = takers + 1
    /\ UNCHANGED <<session, lists, kmdf, endp, seekers, giving, backing, fetches, fetchOpen,
                   host, stamp, sent, bugcheck>>

\* Mutant: the sweep skips what the host was already told of.
ExpiredUnsent(r) == r \in Parked \ sent

\* What the deadline of a reset covers: sent to the host or not.
Expired(r) == r \in Parked

\* AirUsbEvtSweep: a reset past its deadline fails.
EvtSweep(r) ==
    /\ Expired(r)
    /\ pc' = [pc EXCEPT ![r] = "failed"]
    /\ UNCHANGED <<session, lists, kmdf, endp, call, stamp, sent, bugcheck>>

-------------------------------------------------------------------------------
(* The control interface: one handle drives it, one request at a time *)

IoctlBind ==
    /\ sess < 2 * MaxBinds
    /\ bus # "plugging"
    /\ life = "Running" /\ ~bound
    /\ bound' = TRUE
    /\ sess' = sess + 1
    /\ host' = {}
    /\ UNCHANGED <<hostDev, life, dev, usbDevice, bus, teardown, closing, ending, lists,
                   kmdf, endp, takers, seekers, giving, backing, fetches, fetchOpen, pc,
                   stamp, sent, bugcheck>>

\* AirUsbCreateEndpoint: queues that are open, on endpoints not purging.
EndpointsCreated == purge' = [e \in Eps |-> "open"] /\ purging' = {}

\* UdecxUsbDevicePlugIn: without a free port it fails, and so does the request.
PortFree == bus = "empty"

\* AirUsbPlugIn: the device is on the bus before the driver has recorded it.
IoctlPlugIn ==
    /\ dev < 2 * MaxPlugs
    /\ bound /\ life = "Running" /\ ~usbDevice
    /\ PortFree
    /\ bus' = "plugging"
    /\ EndpointsCreated
    /\ UNCHANGED <<hostDev, life, bound, sess, dev, usbDevice, teardown, closing, ending,
                   lists, kmdf, purges, call, pc, stamp, sent, bugcheck>>

PlugInRecorded ==
    /\ bus = "plugging"
    /\ bus' = "live"
    /\ usbDevice' = TRUE
    /\ dev' = dev + 1
    /\ hostDev' = dev + 1
    /\ UNCHANGED <<life, bound, sess, teardown, closing, ending, lists, kmdf, endp,
                   call, pc, stamp, sent, bugcheck>>

\* Mutant: a teardown waits until the transfers are back.
TeardownMayBeginWhenIdle == life = "Running" /\ usbDevice /\ exported = {}

TeardownMayBegin == life = "Running" /\ usbDevice

\* AirUsbBeginTeardown.
BeginTeardown ==
    IF TeardownMayBegin
    THEN life' = "Stopping" /\ dev' = dev + 1 /\ teardown' = "queued"
    ELSE UNCHANGED <<life, dev, teardown>>

IoctlPlugOut ==
    /\ bus # "plugging"
    /\ bound /\ TeardownMayBegin
    /\ BeginTeardown
    /\ UNCHANGED <<hostDev, bound, sess, usbDevice, bus, closing, ending, lists, kmdf, endp,
                   call, pc, stamp, sent, bugcheck>>

IoctlFetch ==
    /\ bus # "plugging" /\ fetchOpen
    /\ bound /\ life = "Running" /\ fetches < MaxFetch /\ takers < MaxPumps
    /\ fetches' = fetches + 1
    /\ takers' = takers + 1
    /\ UNCHANGED <<session, lists, kmdf, endp, seekers, giving, backing, fetchOpen, host, pc,
                   stamp, sent, bugcheck>>

\* AirUsbHandleCompletion: claimed under the lock if the request is still exported
\* with the incarnations of the record; otherwise there is nothing to do.  The
\* host stamps what PLUG_IN and BIND told it.
IoctlComplete(u) ==
    /\ bus # "plugging"
    /\ bound /\ u \in host
    /\ host' = host \ {u}
    /\ IF u \in exported /\ stamp[u] = <<sess, hostDev>>
       THEN /\ exported' = exported \ {u}
            /\ outstanding' = Dec(outstanding)
            /\ reqState' = [reqState EXCEPT ![u] = "Completing"]
            /\ claimed' = claimed \cup {u}
       ELSE UNCHANGED <<exported, outstanding, reqState, claimed>>
    /\ bugcheck' = (u \in exported \cap done)
    /\ UNCHANGED <<session, pending, pendingCount, kmdf, endp, takers, seekers, giving, backing,
                   fetches, fetchOpen, pc, stamp, sent>>

\* AirUsbEvtFileCleanup: the host closed its handle, or died.  The controller is
\* free for the next one at once ...
FileCleanup ==
    /\ bound
    /\ bound' = FALSE
    /\ sess' = sess + 1
    /\ host' = {}
    /\ closing' = closing + 1
    /\ UNCHANGED <<hostDev, life, dev, usbDevice, bus, teardown, ending, lists, kmdf, endp,
                   takers, seekers, giving, backing, fetches, fetchOpen, pc, stamp, sent,
                   bugcheck>>

\* ... then the parked FETCHes are cancelled, whoever parked them ...
CleanupPurge ==
    /\ closing > 0
    /\ closing' = closing - 1
    /\ ending' = ending + 1
    /\ fetches' = 0
    /\ fetchOpen' = FALSE
    /\ UNCHANGED <<life, bound, sess, dev, hostDev, usbDevice, bus, teardown, lists, kmdf,
                   endp, takers, seekers, giving, backing, host, pc, stamp, sent, bugcheck>>

\* ... and the device goes, if there is one.
CleanupEnd ==
    /\ ending > 0
    /\ ending' = ending - 1
    /\ BeginTeardown
    /\ fetchOpen' = TRUE
    /\ UNCHANGED <<hostDev, bound, sess, usbDevice, bus, closing, lists, kmdf, endp,
                   takers, seekers, giving, backing, fetches, host, pc, stamp, sent, bugcheck>>

\* AirUsbEvtTeardownWork: the device and its requests are detached, resets fail ...
TeardownWork ==
    /\ teardown = "queued"
    /\ teardown' = "delete"
    /\ usbDevice' = FALSE
    /\ life' = IF life = "Stopping" THEN "Running" ELSE life
    /\ RetireAllLocked
    /\ pc' = [x \in Urbs \cup Resets |-> IF x \in Parked THEN "failed" ELSE pc[x]]
    /\ UNCHANGED <<hostDev, bound, sess, dev, bus, closing, ending, kmdf, endp, call, stamp,
                   sent>>

\* ... and UdecxUsbDevicePlugOutAndDelete purges the endpoints,
TeardownDelete ==
    /\ teardown = "delete"
    /\ teardown' = "idle"
    /\ bus' = "removing"
    /\ purge' = [e \in Eps |-> IF purge[e] = "open" THEN "asked" ELSE purge[e]]
    /\ UNCHANGED <<hostDev, life, bound, sess, dev, usbDevice, closing, ending, lists, kmdf,
                   purging, purges, call, pc, stamp, sent, bugcheck>>

\* after which the port is free.
Removed ==
    /\ bus = "removing" /\ \A e \in Eps : purge[e] = "purged"
    /\ bus' = "empty"
    /\ UNCHANGED <<hostDev, life, bound, sess, dev, usbDevice, teardown, closing, ending,
                   lists, kmdf, endp, call, pc, stamp, sent, bugcheck>>

-------------------------------------------------------------------------------
PumpStep(x) == PumpGive(x) \/ PumpBack(x)
UrbStep(u) == UrbLink(u) \/ UrbMark(u) \/ EvtRequestCancel(u) \/ CompleteClaimed(u)
ResetStep(r) == ResetPark(r) \/ EvtSweep(r)
EndpointStep(e) == PurgeDetach(e) \/ PurgeQueue(e) \/ PurgeComplete(e)
TeardownStep == TeardownWork \/ TeardownDelete \/ Removed
CleanupStep == CleanupPurge \/ CleanupEnd

Guest ==
    \/ \E u \in Urbs : UrbArrive(u) \/ GuestCancel(u)
    \/ \E r \in Resets : ResetArrive(r)
    \/ \E e \in Eps : PurgeAsked(e) \/ EndpointStart(e)
    \/ D0Exit

Host ==
    \/ IoctlBind \/ IoctlPlugIn \/ IoctlPlugOut \/ IoctlFetch \/ FileCleanup
    \/ \E u \in Urbs : IoctlComplete(u)

\* What the driver does once it was called, and the framework for it.
Driver ==
    \/ \E u \in Urbs : UrbStep(u)
    \/ \E r \in Resets : ResetStep(r)
    \/ PumpTakeUrb
    \/ PumpTakeReset
    \/ \E x \in Urbs \cup Resets : PumpStep(x)
    \/ \E e \in Eps : EndpointStep(e)
    \/ TeardownStep
    \/ CleanupStep
    \/ PlugInRecorded

Next == ~bugcheck /\ (Driver \/ Guest \/ Host)

Spec == Init /\ [][Next]_vars

\* While a callback, work item, timer or cancel routine can go on, one of them does;
\* what there is to do is bounded.  Nothing is asked of the host or of the guest.
Fairness == WF_vars(~bugcheck /\ Driver)

FairSpec == Spec /\ Fairness

-------------------------------------------------------------------------------
(* Properties *)

\* No transfer evaporates: until the guest has its answer, a URB is on a list,
\* in the hands of the callback that admits it, detached by whoever completes it,
\* or with its cancel routine (AirUsbRetireAllLocked, AirUsbPumpFetch,
\* AirUsbEvtRequestCancel), in every order of cancels, purges, power-downs,
\* completions and teardowns.
NothingEvaporates ==
    \A u \in Delivered \ done :
        \/ pc[u] = "admitted"
        \/ u \in Elements(pending) \cup exported \cup claimed
        \/ mark[u] = "cancelling"
        \/ bugcheck

\* Plugging out frees the guest, with nothing asked of any host: when the owner's
\* cleanup finds the device recorded, or PLUG_OUT has begun, every URB the driver
\* holds is completed, through the work item, the purges and the cancels that
\* race, and with the next owner at work meanwhile (AirUsbEvtFileCleanup,
\* AirUsbEvtTeardownWork).
PlugOutFreesGuest ==
    \A u \in Urbs :
        (u \in Delivered \ done /\ usbDevice /\ (ending > 0 \/ life = "Stopping"))
            ~> (u \in done \/ bugcheck)

\* A parked endpoint reset ends, whether the host was told of it or not
\* (AirUsbEvtSweep).
ResetsEnd == \A r \in Resets : (r \in Parked) ~> (r \notin Parked \/ bugcheck)

-------------------------------------------------------------------------------
(* What comments say, and the code does otherwise *)

\* airusb_sys.c 934-935 (a host process that dies becomes a plug-out promptly): a
\* URB of a session that is over is completed.
OwnerGoneFreesGuest ==
    \A u \in Urbs :
        (u \in Delivered \ done /\ stamp[u][1] # sess)
            ~> (u \in done \/ bugcheck)

\* airusb_sys.c 816-817 (a bound queue, refused honestly): a URB is refused for
\* the limit only while the driver holds that many.
RefusedHonestly ==
    [][\A u \in Urbs :
          UrbArrive(u) /\ AtLimit
              => Len(pending) + Cardinality(exported) >= MaxOutstanding]_vars

\* airusb_sys.c 839-841 (a URB that was cancelled before it could be marked is
\* completed here, and that is the only completion): nobody completed it before.
OnlyCompletion ==
    [][\A u \in Urbs : UrbMark(u) /\ u \in cancelled => u \notin done]_vars

===============================================================================
