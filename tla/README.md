# A verification project for AirUSB Hub

AirUSB Hub shares a USB device over the network: one machine (the *exporter*)
captures a device and drives it, another (the *importer*) presents it to its own
operating system as if it were plugged in there.  This directory models the parts
of `src/airusb` that decide who owns a device, what becomes of every transfer, and
what the machines, the drivers and the windows do when one of the others stops
answering.  `PROJECT.json` lists the components, runs, mutants, source map, findings,
hazards and theorems; this file explains them.

## 1. The system

### Exporting side

| Component | State it keeps | Operations |
|---|---|---|
| Lease authority (`session/LeaseAuthority`) | lease state Free / Leased / Quarantined, owner, device, attach id, epoch, recovery token, silence of the owner | mayClaim, grant, heard, quarantine, release, forceReclaim, tryRecover, silenceExpired |
| Exporter session (`session/ExporterSession`) | session state, device port, attach id; queues per endpoint, transfers in flight, reserved endpoints, the OUT being reassembled, verbs | pump: one record after another (ATTACH, DETACH, SUBMIT, DATA, CANCEL, EP_CLEAR_HALT, DEVICE_RESET, PING, LIST_DEVICES, GOODBYE), then collect, admit, collect, sweep deadlines, lease timer; close |
| Hub, sharing half (`control/HubState`) | share state, the one live peer, the pending pairing question, the lease authority | shareStart, shareStop, shareApprove, forceReclaim, pump (accept, handshake, serve) |
| Device source (`control/SimulatedDeviceSource`, exportd's `CapturedDeviceSource`) | captured devices | claim, release |
| Device port (`core/IAsyncUsbDevicePort`, `session/InlineAsyncPort`) | transfers the device works on | submit, cancel, clearHalt, poll, abortAll |

### Importing side

| Component | State it keeps | Operations |
|---|---|---|
| Data plane (`session/ImporterDataPlane`, `core/RequestTable`) | outstanding requests, replies being reassembled, verbs, id counters | submit, clearHalt, cancel, pump, sweepDeadlines, completeAll |
| Linux bridge (`platform/linux/VhciNetBridge`) | queued URBs, URB of each request and the reverse, URBs parked on verbs | poll: drain the kernel (CMD_SUBMIT, CMD_UNLINK), sweep, admit, pump the plane, sweep, admit, flush |
| Windows bridge (`platform/windows/UdecxBridge`, `UdecxDriverChannel`, `UdecxPresenter`) | queued and outstanding URBs, retired ids, FETCH and COMPLETE slots | present, poll (URB, CANCEL, CONFIGURE of the driver, admit, pump the plane), withdraw |
| Windows driver (`platform/windows/driver/airusb_sys.c`) | pending and exported URBs and their counts, parked resets, bound owner, incarnations, plugged device | URB arrival, cancellation, endpoint purge, reset and sweep, FETCH, COMPLETE, bind, plug in and out, owner's cleanup, teardown work, power down |
| Hub, importing half (`control/HubState`) | import state, attach, reconnect and ping timers | connect, approve, refresh, attach, verify, detach, disconnect, pump |
| Importer client, remote port (`session/ImporterClient`, `RemoteDevicePort`) | connection, attach id, request counter | one blocking call at a time |

### Shared by both

| Component | State it keeps | Operations |
|---|---|---|
| Secure session (`session/SecureSession`, `protocol/Noise`, `transport/RecordLayer`, `transport/NoiseCipher`, `session/PeerStore`) | handshake and greeting state, cipher generations and nonces, bytes not yet sent, pinned peers | begin, pump (handshake, finish, greeting), send and receive a record, rekey, drop |
| Control plane (`control/BrokerServer`, `BrokerClient`, `BrokerFacade`, `HttpServer`, `ControlApi`, `tools/airusb_hubd_main`, `tools/airusb_brokerd_main`) | the broker's one client and its buffers, the window's pending call, open tabs | accept, greet, take a frame, answer, push, drop; call, timeout; fetch, click, reload |
| Probes (`diag/BotProbe`, `diag/WriteProbe`) | tag counter, saved blocks, verdict | read and write sequences over a bulk-only device |

Segmentation, ep0 arbiter, watchdog constants, codecs and validation are used by
several of them.

### How they interact

On each machine one thread runs hub, sessions, bridge and plane, so there are no
data races there; what interleaves is the *environment*: records of the peer, reports
of the device, requests of the window, PDUs of the kernel, the clock, and the loss of
the transport, each between any two handlers.  The Windows driver is the exception:
its callbacks run on any number of threads and meet at one spin lock.  The hub owns
the lease authority, at most one exporter session and at most one importing client; a
session calls the authority for every record and owns the device port while it is
attached.  A presenter is either the remote port (for the probes) or a bridge, which
owns a plane; both send on the client's link.  Windows are processes of their own
which ask the broker, the process that has the hub, over a local socket.

### What is hard

* Two state machines, the lease and the session, change together or not at all, at
  a dozen places, some of them in the middle of a failed attach.
* The lease outlives the session on purpose; the capture outlives it too.
* A transfer has exactly one answer although its device, its deadline, a cancel and
  the end of the session compete for it; the device may still be working on it after
  it was answered.
* At the importer the same holds for a URB, against unlinks, replies that come late
  and in several records, and a kernel with no timeout of its own; in the Windows
  driver against threads that take a URB off a list under a lock and complete it
  without.
* Blocking calls on the hub's thread take the next record for their answer, and a
  call given up on is answered later all the same.
* Both ends greet, agree on limits and change keys at the same record, over sockets
  that may take half of it.
* Answers of a person may arrive for a question that is no longer the current one,
  through a window, a tab or a broker that was restarted meanwhile.

## 2. Modules

| Module | What it models |
|---|---|
| `ExclusiveOwnership` | abstract specification: a device passes between machines only through nobody, each time under a fresh attach id |
| `LeaseOps` | the methods of `LeaseAuthority` as operators on its state |
| `LeaseAuthority` | the authority alone, under any sequence of calls; tokens it handed out may be presented again by anybody |
| `SharingHub` | hub, exporter session, authority, device source and peer store composed; a session's transfers are one bit |
| `ExporterTransfers` | that bit opened up: queues, admission, the device, cancels, deadlines, endings |
| `DataPlaneOps` | the methods of `ImporterDataPlane` as operators on its state |
| `VhciImport` | the Linux bridge over the data plane, the link, and an exporter that answers every SUBMIT once |
| `UdecxImport` | the Windows bridge over the data plane, with presenter and driver channel |
| `UdecxDriver`, `MCUdecxDriver` | the Windows driver with its threads, the framework under it and any host process; the latter gives its URBs their endpoints for TLC |
| `ImportingHub` | the importing half of the hub, the client and the remote port, against an exporter |
| `SecureSession` | both ends of a session, from the first handshake message to rekeyed traffic |
| `ControlPlane` | pages, window processes, local socket and broker |
| `StorageProbe` | both probes, the port and a bulk-only device |
| `QueueOps` | taking elements out of the middle of a queue |
| `Ops_proofs` | what the operators of `LeaseOps` and `QueueOps` return and keep |
| `Sharing_proofs` | theorems of `LeaseAuthority` and `SharingHub` |
| `ControlAndProbe_proofs` | theorems of `ControlPlane` and `StorageProbe` |
| `SecureImport_proofs` | theorems of `ImportingHub` and `SecureSession` |
| `ExporterTransfers_proofs`, `VhciImport_proofs`, `UdecxImport_proofs`, `UdecxDriver_proofs` | theorems of the module they are named after |

`LeaseAuthority` and `SharingHub` both EXTEND `LeaseOps` and are shown to implement
`ExclusiveOwnership`.  `ExporterTransfers` and `SharingHub` meet in the bit `owed`:
`SharingHub` assumes that what is owed is eventually answered, `ExporterTransfers`
checks it.  `VhciImport` and `UdecxImport` EXTEND `DataPlaneOps` and take from
`ExporterTransfers` that a SUBMIT is answered exactly once.  `UdecxImport` is the
host process of `UdecxDriver`, whose own model allows any process in that place.
`ExporterTransfers`, `VhciImport`, `UdecxImport` and `UdecxDriver` EXTEND `QueueOps`.
`ImportingHub` takes the sharing side as `SharingHub` lets it be; `SharingHub`,
`ImportingHub` and `ControlPlane` take from `SecureSession` that an established
session is authenticated and agreed.  Where one module holds the theorems of two
components, the components' own names (`AuthoritySpec`, `ProbeInit`, ...) keep them
apart; nothing else connects them.

### Correspondence with the code

*LeaseOps.* One operator per method.  `lastHeardNs` is the owner's silence in ticks,
saturated at `LeaseExporter`, because only `silenceExpired` reads it.  `incarnation`
moves exactly with `leaseEpoch` and is not kept apart.  A token is the number of its
draw from the CSPRNG.

*SharingHub.* A step is one record handled by `ExporterSession::pump`, the tail of a
pump, or one request of the window, each followed to its end.  `handleAttach` is
five actions, one per place where it ends: attached, refused because the port cannot
idle, manifest not encodable, ATTACH_OK not sent, manifest not sent.  Every request
that is answered with a refusal is `RecvOther`: it changes nothing but tells the
authority that its sender was heard.  `DropPeer` is `shareDropPeer` with the
`close()` inside it.  `TracksClaims` is TRUE for the simulated source, which answers
Busy for a device it has captured, and FALSE for exportd's, which leaves that to the
lease; the runs use TRUE, the theorems hold for both.  A six digit number is drawn
from a set small enough that two sessions may show the same.  `PeerStore::pin` does
not fail after a verified handshake; pins made from the importing side are not in
the model.

*ExporterTransfers.* `Pump` is collect, admit, collect, sweep as one step; each stage
is an operator from the tables it reads to the tables it leaves.  The device is any
port that keeps the contract of `IAsyncUsbDevicePort`.  A transfer that returns more
than was asked for (an ERROR instead of a COMPLETE in `emitComplete`) breaks that
contract and is left out; so are request ids the peer uses twice.  A pump cut short
by a failing send shows as Busy verdicts followed by `End`.

*DataPlaneOps, VhciImport.* One operator per method, one action per PDU and per
record; `stage` keeps poll()'s order.  A request is its key (channel, request id).
Replies are framed as `emitTransfer` frames them, so the checks that reject malformed
ones are represented only by the one that a well-formed stream can reach: a DATA that
continues nothing.  CANCEL asks the exporter to hurry and releases it from nothing,
so it changes nothing here.  The kernel is told of a URB by its RET_SUBMIT, by the
RET_UNLINK with -ECONNRESET of its unlink, or, when it was parked on a verb (`early`),
by one with status 0 while the bridge still holds it.

*UdecxImport.* As `VhciImport`, with replies of one record.  The driver's records are
what it wrote into a FETCH slot; `tryReceive` reads them by slot number, and the order
in which slots were parked is kept, so records overtake each other as they do in the
code.  A completion that `send` does not take is remembered and no more, as in
`sendRecord`: `refused` when no slot is free, `failed` when the slot cannot be armed
or the request fails.

*UdecxDriver.* A step is one critical section of the driver's lock, or one call of
the framework; `pc` is where a dispatch thread is with its URB, `takers`, `seekers`,
`giving` and `backing` where a thread is in `AirUsbPumpFetch`, `closing` and `ending`
where a cleanup is in `AirUsbEvtFileCleanup`.  The queue of control requests is
sequential (`airusb_sys.c:1510`), so an IOCTL's ownership check and what follows it are
one step, except for PLUG_IN: its device is on the bus (`bus = "plugging"`) before it is
recorded, and URBs, cancellations and the owner's cleanup come in between while other
IOCTLs wait.  What KMDF does to a request that is marked, cancelled and unmarked is
external, modelled from how the driver uses it; so is the one port, without which
PLUG_IN fails.  Counters are ULONGs and wrap at `Wrap`.  A second completion of a
request, or a touch of one completed, sets `bugcheck` and ends the behaviour.

*ImportingHub.* `op` is the blocking call the thread is in, with what it does after
the answer; `down` is the stream of the exporter's answers, from which a call takes
the next one, whatever it is.  `importVerify` is the sequence of port calls the
probes make, any of which may be the last.  Ids count modulo `Ids`.  Each presented
device has a port of its own, whose transfers count from the start again, and `submit`
compares no more than the request id with the COMPLETE it reads; `mixed` remembers a
transfer that took the COMPLETE of another one, or of an earlier attach.

*SecureSession.* Messages are two units long and the socket takes one, so every write
is cut in two somewhere.  A handshake hash is the sequence of what was mixed in; a
message opens when hash, key generation and nonce agree.  IK is chosen when the
initiator has the responder's key pinned, and that key may have been replaced.

*ControlPlane.* A frame is an element of a sequence with room for `SocketRoom`; the
buffers `rx` and `tx` of the broker, its one client and the listening backlog are
kept.  Of the hub there is the pending question of each half, whether the importing
half is in a pairing (`dialling`) and who was paired, which is all a window can get
wrong.  Either half's question can be replaced while a click on it is on its way: a
machine leaves and another connects, `importConnect` disconnects first, and
`pumpImportPairing` connects again by itself and asks anew, of a machine that may have
been pinned meanwhile too.  ControlApi ignores the status of shareStop and
importDisconnect (`Unchecked`).

*StorageProbe.* One step per transfer (CBW, data, CSW); data are counted in half
blocks, so a cut or joined transfer shows in a length.  Commands without data are one
exchange.  What the device reports as done it has done.  `split` tells that
the layers beneath cut or joined a transfer, whether the probe noticed or not; data of a REQUEST SENSE that came
joined with the next transfer are remembered apart (`senseJoined`).  A probe starts from tag 0
whatever an earlier one left queued (`BotProbe.cpp:346`); `clean` remembers whether it
found the device in phase, and the properties are about probes that did.  Without that
they are false in the model, though only after six probes in a row, each failing one
command further on and leaving its answers behind: the seventh can pass on nothing but
the answers of the sixth.

## 3. Runs

| Run | Checks |
|---|---|
| `lease_authority` | tokens are single-use and bound to their owner (`TokenBinding`), attach ids never repeat, refinement of `ExclusiveOwnership` |
| `sharing_hub` | only the lease's owner drives the device, the capture outlives the session, a session admits and owes only under a live lease, only approved peers are pinned, a lease is freed only by a decision, refinement; and, with fairness, a silent peer's session stops admitting |
| `exporter_transfers` | one answer per request; one transfer per data endpoint on the device, no leaked endpoint, no control transfer beside another transfer while both are waited for, the credit (`SlotsAccounted`); order; and every transfer with a deadline is answered |
| `vhci_import` | one outcome per URB (but for the unlink of a parked CLEAR_HALT), bridge and plane agree on tables, reassembly and verbs, a URB gets its own reply; and every URB with a deadline is returned |
| `udecx_driver` | a URB is always in somebody's hands until the guest has its answer; when a plug-out finds the device recorded, every URB the driver holds is completed, with the next owner at work; a parked reset ends |
| `udecx_import` | at most one completion per URB and none forgotten that the channel would have taken, bridge and plane agree on the admission slot; and every URB with a deadline is answered |
| `secure_session` | an established end uses what both agreed, a session fails only for a cause outside it, neither end waits for ever |
| `importing_hub` | what is shown as attached is held, no transfer takes the COMPLETE of another one or of an earlier attach, every call but clearHalt ends, a pairing both accepted completes |
| `control_plane` | an answer is the answer to the window's own call, a machine is paired only for the question that was on screen, the broker always gets to where it owes its window nothing |
| `storage_probe` | a probe that starts in phase and passes went by its own statuses, over transfers that were not cut nor, REQUEST SENSE's apart, joined, and leaves the device in phase; "restored" is true block for block |
| `ack_ends_the_wait`, `every_call_ends` | refuted: see *Where the code and its words differ* |

### Bounds

* `lease_authority`, `sharing_hub`: 4 and 3 attach ids (`MaxAttachId`) and 3
  connections (`MaxConns`), enough for attach, loss, return, reclaim and attach by
  another machine with a question of the first still on a screen; one of the three
  peers is pinned from the start, and `LeaseExporter` = 2 ticks tells "silent for a
  while" from "silent too long".
* `exporter_transfers`: a control, an OUT and an interrupt IN endpoint, 3 requests and
  a credit of 2, so the credit is reached, a request waits behind a timed-out one,
  and one may idle without a deadline.
* `vhci_import`: a bulk and an interrupt endpoint, 2 URBs, the shipped admission depth
  1 and replies of up to 2 records: a URB given up, another in its place, and the
  first one's reply still coming.  Its safety part was also explored with 3 URBs on
  one endpoint (6 million states).
* `udecx_driver`: one URB or one reset in a behaviour (`MaxWork`), one endpoint with one
  purge, one device, one FETCH beyond what the URB pumps itself, and two owners, so that
  one binds while the cleanup of the other is under way.  The races are between threads
  about one URB, and each of them is in the run.  What takes several URBs or endpoints
  (the refusal at the limit, the counters) is left to the proof, which has any number of
  them, and to `RefusedHonestly` below.
* `udecx_import`: 2 URBs on two endpoints, 2 FETCH slots (so that order can change),
  1 COMPLETE slot (so that it runs out), 1 remembered retired id, 1 cancel and 1
  configure transaction.
* `secure_session`: every pair of offers out of too small, legal and largest, two
  major versions, a socket that takes half a message, rekeying after every record.
* `importing_hub`: 6 requests of the user, one deadline that passes although the
  exporter is only slow, one fault: enough for a call given up and the next one reading
  its answer, for a loss and a reconnection, and for a transfer given up, a detach, a
  second attach and a transfer with the same id.  Two faults were explored as well
  (2.2 million states).
* `control_plane`: two windows, one of another version and one of a foreign account,
  2 questions, so that one replaces another, and 4 starts, stops and requests.
* `storage_probe`: 2 blocks, multi-block transfers of 2, 2 read probes before or
  after the write probe.

The runs whose system may stop (the bridge is dead, the device withdrawn, the session
dropped, the user done) do not check deadlock.  Every property of a passing run has a
mutant, a plausible slip in the code, that TLC refutes.

### Fairness

Everywhere it is what an event loop does as long as its process runs.  `SharingHub`:
the hub's loop keeps pumping, the clock runs, an owed answer is given.
`ExporterTransfers`: the session is pumped also when the device reports nothing,
deadlines pass, and a port reports a transfer it accepted a cancel for; the device is
never assumed to finish anything.  `VhciImport`, `UdecxImport`: the loop calls poll(),
every poll() ends, deadlines pass; nothing is assumed of exporter, link or kernel.
`UdecxDriver`: one weak fairness of all the driver's own steps, its threads, work item,
timer and framework calls: while one of them can go on, one does.  The work of a
behaviour is bounded, so none can be kept waiting by the others; nothing is assumed of
the guest or the host process.  `SecureSession`: both ends pump,
and an owner drops a session that failed.  `ImportingHub`: the hub's loop runs,
deadlines pass, and an exporter that has not gone quiet answers.  `ControlPlane`: the
broker's loop runs, which assumes that the verbs of the hub return (`importing_hub`
checks that, but for clearHalt), and a window in a call reads.  `StorageProbe` has no
liveness.

### Where the code and its words differ

Two runs refute a sentence of the repository; `PROJECT.json` quotes each.

* `ack_ends_the_wait`: CTRL_ACK is sent on channel 0 and awaited on the endpoint's
  channel, so a CLEAR_HALT of the Linux bridge always waits for its deadline and
  fails.
* `every_call_ends`: `RemoteDevicePort::clearHalt` waits for its acknowledgement with
  no deadline, on the thread whose unbounded waits were said to be all gone.

Seven more sentences do not hold of the models.  Each is a formula at the end of its
module, and TLC refutes it within minutes when it is added to the component's
configuration, the temporal ones with its fairness (`RefusedHonestly` in an instance of its own: three
URBs on two endpoints, a limit of 2, `MaxWork` = 3, no FETCH, `Wrap` = 4, because a
counter goes wrong only at the expense of another endpoint's URB, and a wrapped one
must lie above the limit, as it does with 2^32).

* `Ep0RunsAlone` (`ExporterSession.h:40`: "ep0 admits only when nothing else is
  outstanding, and nothing else admits while ep0 is"; `ExporterSession.cpp:939`): a
  transfer that timed out and that the port refused to cancel is
  still on the device but no longer in `_inFlight`, so a control transfer is admitted
  beside it (and it beside a control transfer).  `SlotsAccounted` therefore speaks of
  transfers that are still waited for.
* `KernelToldOnce` (`docs/LINUX_IMPORTER_PLAN.md:682`: "Do not send a `RET_SUBMIT` for
  a seqnum the kernel does not hold"): the unlink of a CLEAR_HALT parked on its verb is
  answered as already completed (`VhciNetBridge.cpp:308`), which completes it in the
  kernel, and its RET_SUBMIT follows.  `ReturnedOnce` says that this is the only case.
* `OwnerGoneFreesGuest` (`airusb_sys.c:934`: "A host process that dies must become a
  plug-out promptly"): a host process that goes during PLUG_IN leaves a device
  with no owner, because its cleanup comes before the device is recorded; URBs that
  arrived before stay with the driver.  `PlugOutFreesGuest` is about every other case.
* `RefusedHonestly` (`airusb_sys.c:816`: "A bound queue, refused honestly"): a purge
  leaves the state of the URBs it detaches, so a
  cancellation counts one off again; the counters fall below what the lists hold, wrap, and
  then URBs are refused for a limit that is not reached.
* `OnlyCompletion` (`airusb_sys.c:839`: "unlinking and completing here is correct and is
  the only completion"): a URB is linked before it is marked cancelable.  Another thread may
  export it in between and the host complete it; if the guest cancelled it as well, the
  dispatch thread completes it again.  If the host has not completed it yet, it stays on
  the exported list and whoever finds it there completes it again.  Without the
  cancellation the request that is then marked is already gone.  The model stops at all
  of these (`bugcheck`).
* `BusyIsRetried` (`UdecxDriverChannel.cpp:365`: "Honest backpressure: the bridge queues
  and retries"): a completion refused because every COMPLETE slot is busy is not
  queued and not retried; the guest waits for that URB until the device is withdrawn.
  `OneOutcome` and `EventuallyAnswered` name these URBs as the exception (`Dropped`).
* `IntactMeansUncut` (`BotProbe.h:121`: "every data phase returned in exactly one
  transfer. False means the layer beneath split or coalesced a logical URB"): five
  bytes of sense data joined with their status fill what
  REQUEST SENSE offered; the read of the status fails, which `BotProbe` does not judge,
  and the probe passes with the boundaries reported intact.

The models also reach these, each a sequence of ordinary steps:

* `SharingHub`: hearing from the owner heals a quarantined lease although the session
  that speaks is a new one, attached to nothing (`LeaseAuthority.cpp:101` says it is
  the same one); or the session stays Orphaned and refuses every SUBMIT under a
  healed lease (`LeaseAuthority.h:139`: "a brief blip a non-event").
* `SharingHub`: a reclaim after the owner's session is gone frees the lease and leaves
  the capture, so later claims are refused as Busy (`HubState.h:216`).
* `VhciImport`: a reply in several records that comes after its URB was unlinked or
  timed out ends the session: the COMPLETE is dropped, its DATA is a malformed frame
  (`ImporterDataPlane.h:140`, `RequestTable.h:50`).
* `UdecxDriver`: a FETCH that arrives while a thread holds the only URB, having found
  no FETCH, parks behind it: both wait until the next FETCH or URB.
* `UdecxImport`: a completion can still follow the acknowledgement of its
  cancellation, when the slots are read in another order (`UdecxBridge.h:25`).
* `ImportingHub`: when giving back a device that could not be presented is not
  answered in time, the lease stays held with nothing using it
  (`HubState.cpp:647`: "Give it straight back rather than holding a lease nothing
  can use").
* `StorageProbe`: a save of length zero passes the check of its status, and the write
  probe then ends as passed with nothing restored (`airusb_net_main.cpp:404`: "It
  restores what it overwrote if it completes").

Met while reading and not part of a model: GOODBYE of an attached peer, and switching
sharing off, keep the capture (the plan and the notice say it is released); a session
dropped by a failed flush leaves its lease Leased with nobody to run the timer; a
machine that awaits approval has no timeout; `leaseEpoch` restarts at every release;
with a port that can idle and cannot abort, an idle interrupt transfer postpones the
lease timer for ever (the only port in the tree does not idle); `drainKernel` does
touch the network, without blocking, for CLEAR_HALT and CANCEL; the driver's record
envelope differs from `UdecxIpc`'s and its reset opcode is unknown to the bridge, so
its resets end by the sweep, and it never sends the bridge a CANCEL or CONFIGURE;
`importRefresh` and the pings may take a COMPLETE meant for a bridge that presents the
device; `detach` takes any reply for its own; a verb runs to its end though its window
gave up on it; a second window waits in the backlog instead of being refused
(`BrokerServer.h:9`); a pairing is kept in memory when saving it failed.

## 4. Proofs

All for arbitrary constants that satisfy the named assumptions of the modules,
which say no more than that bounds are naturals,
depths and credits are not zero, sets of endpoints are what USB allows.  Each rests on
one inductive invariant per component; TLC explored every one of them first, on
instances at least as large as the component's run.

* `Ops_proofs`, of leases: `LeaseOK`, the shape of a lease (types; an owner exactly while it
  is not free; ids below the counters), is kept by every method.  Both lease proofs
  cite these lemmas.
* `Sharing_proofs`, of the authority: `TypeCorrect`, `TokenBound`,
  `AttachIdsNeverReused`, `Refinement`.  The invariant `AuthorityInv` adds to `LeaseOK`
  that every token and attach id handed out lies below the counter it was drawn from
  (`Counted`): without that a fresh one might collide with one already out.
* `Sharing_proofs`, of the hub: `HubTypeCorrect`, `Exclusivity`,
  `CaptureOutlivesSession`, `AdmissionNeedsLease`, `OnlyApprovedPinned`, `NeverDecays`,
  `HubRefinesOwnership`.
  The invariant `HubInv` joins them, because none is inductive alone: that the
  session with the port is the owner's needs that a session without a lease has no
  port, that the capture is kept needs that the session's device is the lease's, and
  that a pinned peer was approved needs that the pending question is one that was
  asked of this session (`ShareOK`, `PairingOK`).
* `Ops_proofs`, of queues: `Without` is a sequence, holds exactly the elements that stay, and
  keeps their order.  `SelectSeq` is recursive and what it computes is out of the
  prover's reach; `Without` says the same by the rank of the positions that stay, so
  its lemmas follow from the cardinality of finite sets alone.  (One module for
  both kinds of operator, so the proofs about queues see the lease's constants and
  assumption as well; none uses them.)
* `ExporterTransfers_proofs`: `TransfersTyped`, `RequestsAnsweredOnce`,
  `SlotsAreAccounted`, `TransfersIssuedInOrder`, for any endpoints, credit and number
  of requests.  `ExporterInv` adds that no table knows a request that has not come
  (`KnownRequests`), that a request is in one table only (`TablesDisjoint`), that a
  queue holds its own endpoint's requests, oldest first and younger than what was
  issued there (`QueuesInOrder`), that an OUT being reassembled is the youngest request
  (`YoungestReassembled`), and that a data endpoint is reserved for what the device
  runs on it, answered or not (`Reserved`).  Answers are counted for the requests to
  come as well, or a new one could arrive with an answer.  That ep0 is a barrier is
  proved of the transfers still waited for, not of the device (`Ep0RunsAlone`).
* `VhciImport_proofs`: `UrbsReturnedOnce`, `BridgeAndPlaneAgree`,
  `RepliesReachTheirUrb`, for any admission depth and number of URBs.  `VhciInv` adds
  to them that the three places of a URB are disjoint (`HeldOnce`), that an id is
  never drawn twice and was spent on a URB that has left the queue (`IdsSpent`), and
  that a reply under way names a request of the past or the one it answers
  (`RepliesOwn`): this is what makes a late reply harmless.  `EarlyOnlyParked` says which URBs an
  unlink tells 0 while they are held: CLEAR_HALTs parked on a verb, and those only.
* `UdecxImport_proofs`: `EveryUrbHasOneOutcome`, `SlotsStayInStep`, for any number of
  FETCH slots, completion slots, URBs, remembered retirements and presentations.
  `UdecxInv` says that a URB is in one place, a slot not read yet, the queue or the
  wire (`OnePlace`), that it has no answer while it is there, and that the ring of
  retired ids holds only URBs that have had an outcome (`Answers`): so it does no harm
  that the ring forgets, nor that failAll and onCompletion skip what it remembers.
  The driver fills only slots it holds (`ChannelInv`), and ids are drawn once, as in
  `VhciImport_proofs` (`IdsSpent`, `TableDrawn`).
* `UdecxDriver_proofs`: `DriverInvHolds`, `NoTransferEvaporates`, for any number of
  endpoints, URBs, resets, owners, devices and FETCHes, where the run has one of most.
  `DriverInv` shows the accounting without the escape `bugcheck` that
  `NothingEvaporates` has: even on the way to a second completion no URB is forgotten.
  It needs that a URB is marked cancelable only after its dispatch thread has let go
  of it (`MarkedIsHanded`), so a cancellation finds it in a list or in somebody's hand.
* `SecureImport_proofs`, of the importing hub: `AttachedMeansHeld`, for any presenters and any number of
  requests, deadlines and losses.  Calls take the next record for their answer, so the
  proof cannot pair answers with requests; `ImportingInv` follows the *grant* instead.
  While a session lives the grant is on this side at most once: an ATTACH_OK not read
  yet (`GrantUnread`), the id `doAttach` keeps until the manifest comes
  (`GrantHalfTaken`), or the client's attach id (`GrantTaken`); and it is what the
  exporter holds.  A DETACH is the last thing said while its sender waits
  (`GivingBack`), so no attach behind it is granted before the old id is forgotten.
  `CompletionIsOwn` needs the same with one more thing to follow, whose COMPLETEs there
  are to read (`OwnInv`).  The exporter answers all it owes before it lets go of an
  attach, and the stream keeps the order, so a COMPLETE behind a grant is of the attach
  granted (`Follows`); everything in front of the grant, what a call given up on left
  included, has been read when the device is presented.  So while a device is attached
  every COMPLETE to come is of its attach, where request ids do not repeat.
* `SecureImport_proofs`, of the session: `SecureAgreed` and `SecureFailsForCause`, for any
  window, wire majors, offers, capabilities, rekey interval and number of records.  `AgreementInv` looks at a direction as one
  `Stream`: what its reader has buffered, what is on the wire and what its writer has not
  written yet.  A short write or a read of half a record moves units along it and changes
  nothing; it is a preamble until that is read and then whole records (`Framed`), so what
  an end takes for a greeting is one, and a greeting says what its writer holds now
  (`Says`).  The streams of an end that has failed or gone are left out, except that what
  it had sent may still be read.
  That no record is refused needs the records numbered (`CauseInv`): the n-th record an
  end seals is the handshake message of its turn under the hash of that turn, then the
  greeting, then data under the nonce and key generation its number tells; and the first
  record of the other end's stream is the one it has counted up to (`FlowInv`).  The two
  hashes agree as far as both ends have come, unless the initiator pinned a key that was
  replaced, and then the responder never reads its first message (`Hashes`).
* `ControlAndProbe_proofs`, of the control plane: `ControlInvariant`, `AnswersAreOwn`,
  `PairedOnlyOnScreen`, for any number of windows, questions, restarts and frames on the
  way.  `ControlInv` says where a call is, on the stream, in the broker's hands or run,
  and in one place only (`CallsOnce`): without it a call could be run twice.  The
  broker's buffers hold frames of the window it serves and of no other (`BrokerInv`),
  which is what a reconnection must not break, and an acceptance on its way, at any
  stage, names a question that was clicked.
* `ControlAndProbe_proofs`, of the probes: `ProbeInvariant`, `PassedInPhase`,
  `RestoredTruly`, for any number of blocks and probes.  `ProbeInv` says what the pipes
  hold at each point of a command while nothing was found amiss (`InStep`): at most one
  status is due, this command's, but for what a failed REQUEST SENSE leaves, which ends
  in a status the next command cannot take for its own (`Doomed`).  The write probe goes
  on after failures, so `PutBackInv` does not rest on that: a status with the tag of the
  restore exists only once the blocks are back, because tags only grow (`TagsKnown`).

### Only model-checked

* All liveness: fairness and ENABLED are out of the prover's reach.

## 5. Plan

1. `ExporterVerbs`: EP_CLEAR_HALT and DEVICE_RESET, whose one acknowledgement stands
   for several legs.
2. Exporter and importer in one model, across a detach and a second attach.
3. Segmentation and the ep0 arbiter: operators checked against reference definitions.
4. The macOS exporter's capture and release order with the disk guard and the agent.

## 6. Not modelled

* Cryptographic computation (symbolic in `SecureSession`); byte layouts and their
  validation (the boundary between a record and a fatal record); JSON, HTML and
  argument parsing; the operating systems' sockets and drivers beyond what a call may
  return.
* The exporter's verbs, the ep0 arbiter's table and shadow of the configuration, and
  the macOS exporter: under the plan's points 1, 3 and 4.
* The local Linux bridge, which answers each PDU before it reads the next.
* `CreditController`, `FrameScheduler` and `PairingGate`: only their unit tests call
  them.
* In the driver: a FETCH buffer too small for its record, failures to allocate, and
  the descriptors handed to UDE.
