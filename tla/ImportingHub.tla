------------------------------ MODULE ImportingHub ------------------------------
(***************************************************************************)
(* The importing half of control::HubState, with the session::ImporterClient *)
(* it calls and the presenter it hands a device to: the diagnostic         *)
(* session::RemoteDevicePort, or one that drives the device on its own     *)
(* (VhciPresenter, UdecxPresenter; their insides are VhciImport.tla and    *)
(* UdecxImport.tla).                                                       *)
(*                                                                         *)
(* One thread runs it all.  A call sends a request and then waits for THE  *)
(* NEXT RECORD, whatever it is, until a deadline; a request given up on is *)
(* still answered, and its answer is in the stream for the next reader.    *)
(* The exporting machine is what ExporterSession and the sharing half of   *)
(* the hub let it be: it answers in order, except that a transfer or a     *)
(* verb takes its time; it refuses an unpaired session; it ends the        *)
(* session in which its user accepts the pairing; and it may go quiet      *)
(* without closing.                                                        *)
(***************************************************************************)
EXTENDS Integers, Sequences, SequencesExt

CONSTANTS
    Presenters,   \* "Probe" (ProbePresenter), "Plane" (drives the device itself)
    Ids,          \* bound: request ids are counted modulo Ids
    MaxUser,      \* bound: requests of the user
    MaxLate,      \* bound: deadlines that pass while the exporter is only slow
    MaxFaults     \* bound: sessions lost and connections refused

ASSUME ImportingAssumption ==
    /\ Presenters \subseteq {"Probe", "Plane"}
    /\ Ids \in Nat /\ Ids > 1
    /\ {MaxUser, MaxLate, MaxFaults} \subseteq Nat

VARIABLES
    state,      \* _importState
    auto,       \* _importAuto
    pinned,     \* this end's user accepted: _importPinned, and the PeerStore entry
    client,     \* _client: session open, requests made, _attachId
    port,       \* what was presented: its kind, its attach id, its request
                \* counter, and the transfers of a plane
    op,         \* the call the thread is in
    up, down,   \* records on their way to and from the exporter
    exp,        \* the exporter's session: its trust, the attach it holds, the last id
                \* granted, the transfers and verbs it owes an answer
    accepted,   \* the exporter's user accepted this machine
    quiet,      \* the exporter has stopped answering
    user, late, faults,   \* bounded counters
    mixed       \* a transfer was finished by another's COMPLETE

hub   == <<state, auto, pinned, client, port, op>>
net   == <<up, down>>
peer  == <<exp, accepted, quiet>>
count == <<user, late, faults>>
vars  == <<hub, net, peer, count, mixed>>

NoOp     == [kind |-> "None"]
NoClient == [open |-> FALSE, rid |-> 0, attachId |-> 0]
NoPort   == [kind |-> "None", attachId |-> 0, rid |-> 0, out |-> {}]
NoSession == [open |-> FALSE, paired |-> FALSE, held |-> 0, last |-> 0, owed |-> {}]

Init ==
    /\ state = "Off" /\ auto = FALSE /\ pinned \in BOOLEAN
    /\ client = NoClient /\ port = NoPort /\ op = NoOp
    /\ up = <<>> /\ down = <<>>
    /\ exp = NoSession /\ accepted \in BOOLEAN /\ quiet = FALSE
    /\ user = 0 /\ late = 0 /\ faults = 0
    /\ mixed = FALSE

Idle == op = NoOp

-------------------------------------------------------------------------------
(* Calls *)

\* ImporterClient::call: a request with a fresh id, then the wait for a record.  A
\* detach with nothing attached is answered without a word.
Call(cl, kind, then) ==
    LET rid == (cl.rid + 1) % Ids
    IN  /\ client' = [cl EXCEPT !.rid = rid]
        /\ op' = [kind |-> kind, rid |-> rid, then |-> then]
        /\ up' = IF exp.open \/ ~client.open   \* a stream the exporter closed takes nothing
                 THEN Append(up, [type |-> kind, rid |-> rid, attachId |-> cl.attachId])
                 ELSE up

Returns(cl) == op' = NoOp /\ client' = cl /\ UNCHANGED up

\* importDropSession
DropsSession ==
    /\ client' = NoClient /\ port' = NoPort /\ op' = NoOp
    /\ up' = <<>>
    /\ exp' = [exp EXCEPT !.open = FALSE]

\* doAttach takes an ATTACH_OK whose status is Ok and whose attach id is not 0.
Granted(r) == r.type = "AttachOk" /\ r.id # 0

\* What a call makes of the record it is given.  Only ping and the port look whether
\* the answer is to their own request.
Verdict(kind, rid, r) ==
    CASE kind = "Ping"     -> IF r.type = "Pong" /\ r.rid = rid THEN "Ok" ELSE "Bad"
      [] kind = "List"     -> IF r.type = "List" THEN "Ok"
                              ELSE IF r.type = "NotPaired" THEN "NotPaired" ELSE "Bad"
      [] kind = "Attach"   -> IF Granted(r) THEN "Ok" ELSE "Bad"
      [] kind = "Manifest" -> IF r.type = "Manifest" THEN "Ok" ELSE "Bad"
      [] kind = "Detach"   -> "Ok"

-------------------------------------------------------------------------------
(* What the hub does with a call's result: Ok, NotPaired, Bad, Timeout or Lost *)

\* Mutant: only a ping that timed out counts as failed.
PingTimedOut(res) == res = "Timeout"

PingFailed(res) == res # "Ok"

\* pumpImportPairing: a failed ping drops the session, and the next tick reconnects;
\* otherwise, once this end has accepted, the list is asked for.
AfterTickPing(res) ==
    IF PingFailed(res)
    THEN DropsSession /\ state' = "Connecting" /\ UNCHANGED <<auto, pinned>>
    ELSE /\ IF state = "WaitingForPeer"
            THEN Call(client, "List", "TickList")
            ELSE Returns(client)
         /\ UNCHANGED <<state, auto, pinned, port, exp>>

AfterTickList(res) ==
    /\ state' = IF res = "Ok" THEN "Connected" ELSE state
    /\ Returns(client)
    /\ UNCHANGED <<auto, pinned, port, exp>>

\* importConnect to a machine this one has pinned.
AfterConnectList(res) ==
    /\ state' = IF res = "NotPaired" THEN "WaitingForPeer" ELSE "Connected"
    /\ auto' = (res = "NotPaired")
    /\ Returns(client)
    /\ UNCHANGED <<pinned, port, exp>>

\* importApprove
AfterApproveList(res) ==
    /\ state' = IF res = "Ok" THEN "Connected" ELSE "WaitingForPeer"
    /\ auto' = (res # "Ok")
    /\ Returns(client)
    /\ UNCHANGED <<pinned, port, exp>>

AfterUser(res) ==
    /\ Returns(client)
    /\ UNCHANGED <<state, auto, pinned, port, exp>>

\* doAttach's first half: the id is kept until the manifest has come.
AfterAttach(res, r) ==
    /\ IF res = "Ok"
       THEN op' = [kind |-> "Manifest", rid |-> op.rid, then |-> "Attach", id |-> r.id]
       ELSE op' = NoOp
    /\ UNCHANGED <<state, auto, pinned, client, port, exp, up>>

\* The manifest has come: the client is attached, and the presenter takes the device or
\* it is given straight back.
AfterManifest(res) ==
    LET cl == [client EXCEPT !.attachId = op.id]
    IN  IF res # "Ok"
        THEN Returns(client) /\ UNCHANGED <<state, auto, pinned, port, exp>>
        ELSE \/ /\ \E p \in Presenters :
                      port' = [NoPort EXCEPT !.kind = p, !.attachId = op.id]
                /\ state' = "Attached"
                /\ Returns(cl)
                /\ UNCHANGED <<auto, pinned, exp>>
             \/ /\ Call(cl, "Detach", "GiveBack")
                /\ UNCHANGED <<state, auto, pinned, port, exp>>

\* Mutant: a device no presenter took is given back, and called attached all the same.
AfterGiveBackAttached(res) ==
    /\ state' = "Attached"
    /\ Returns([client EXCEPT !.attachId = 0])
    /\ UNCHANGED <<auto, pinned, port, exp>>

\* detach(): nothing is attached any more, whatever became of the request.
AfterGiveBack(res) ==
    /\ Returns([client EXCEPT !.attachId = 0])
    /\ UNCHANGED <<state, auto, pinned, port, exp>>

\* importDetach ends with a refresh.
AfterDetach(res) ==
    /\ state' = "Connected"
    /\ Call([client EXCEPT !.attachId = 0], "List", "User")
    /\ UNCHANGED <<auto, pinned, port, exp>>

\* importDisconnect
AfterDisconnect(res) ==
    DropsSession /\ state' = "Off" /\ auto' = FALSE /\ pinned' = pinned

After(res, r) ==
    CASE op.then = "TickPing"   -> AfterTickPing(res)
      [] op.then = "TickList"   -> AfterTickList(res)
      [] op.then = "Connect"    -> AfterConnectList(res)
      [] op.then = "Approve"    -> AfterApproveList(res)
      [] op.then = "User"       -> AfterUser(res)
      [] op.then = "Attach"     -> IF op.kind = "Manifest" THEN AfterManifest(res)
                                   ELSE AfterAttach(res, r)
      [] op.then = "GiveBack"   -> AfterGiveBack(res)
      [] op.then = "Detach"     -> AfterDetach(res)
      [] op.then = "Disconnect" -> AfterDisconnect(res)

\* What is left to read once d is: a dropped session leaves nothing.
Unread(d) == down' = IF client'.open THEN d ELSE <<>>

\* A call reads the next record of the stream.
CallAnswered ==
    /\ ~Idle /\ op.then # "Port" /\ down # <<>>
    /\ After(Verdict(op.kind, op.rid, Head(down)), Head(down))
    /\ Unread(Tail(down))
    /\ UNCHANGED <<accepted, quiet, count, mixed>>

\* Mutant: the wait for the manifest is unbounded.
BoundedButManifest(kind) == kind \notin {"ClearHalt", "Manifest"}

\* Waits with a deadline of their own: all but clearHalt's.
Bounded(kind) == kind # "ClearHalt"

\* Its deadline passes with nothing to read.
CallExpires ==
    /\ ~Idle /\ op.then # "Port" /\ Bounded(op.kind) /\ down = <<>> /\ exp.open
    /\ quiet \/ late < MaxLate
    /\ late' = IF quiet THEN late ELSE late + 1
    /\ After("Timeout", NoOp)
    /\ Unread(down)
    /\ UNCHANGED <<accepted, quiet, user, faults, mixed>>

\* The stream has ended.
CallLost ==
    /\ ~Idle /\ op.then # "Port" /\ down = <<>> /\ ~exp.open
    /\ After("Lost", NoOp)
    /\ Unread(down)
    /\ UNCHANGED <<accepted, quiet, count, mixed>>

-------------------------------------------------------------------------------
(* What the user and the timer start *)

\* importOpen succeeds: a new session, in which the exporter's trust is what it is now.
Opened ==
    /\ exp' = [NoSession EXCEPT !.open = TRUE, !.paired = accepted, !.last = exp.last]
    /\ down' = <<>>

Asks == user < MaxUser /\ user' = user + 1

\* importConnect, from Off (a connected hub disconnects first): the peer is pinned, and
\* its devices are asked for, or its digits are shown.
Connect ==
    /\ Idle /\ state = "Off" /\ Asks /\ ~quiet
    /\ Opened
    /\ IF pinned
       THEN /\ Call([NoClient EXCEPT !.open = TRUE], "List", "Connect")
            /\ state' = "Connecting"
       ELSE /\ Returns([NoClient EXCEPT !.open = TRUE])
            /\ state' = "AwaitingApproval"
    /\ auto' = TRUE
    /\ UNCHANGED <<pinned, port, accepted, quiet, late, faults, mixed>>

\* importApprove with the ticket of the session on screen (any other is refused): the
\* peer is pinned and the session kept.
Approve ==
    /\ Idle /\ state = "AwaitingApproval" /\ client.open
    /\ pinned' = TRUE
    /\ Call(client, "List", "Approve")
    /\ UNCHANGED <<state, auto, port, down, peer, count, mixed>>

\* pumpImportPairing, once a second: reconnect, or ping.
Reconnect ==
    /\ Idle /\ auto /\ ~client.open /\ ~quiet
    /\ state \in {"AwaitingApproval", "WaitingForPeer", "Connecting"}
    /\ Opened
    /\ Returns([NoClient EXCEPT !.open = TRUE])
    /\ state' = IF pinned THEN "WaitingForPeer" ELSE "AwaitingApproval"
    /\ UNCHANGED <<auto, pinned, port, accepted, quiet, count, mixed>>

Tick ==
    /\ Idle /\ auto /\ client.open
    /\ state \in {"AwaitingApproval", "WaitingForPeer", "Connecting"}
    /\ Call(client, "Ping", "TickPing")
    /\ UNCHANGED <<state, auto, pinned, port, down, peer, count, mixed>>

\* importRefresh and importPing, in any state with a session, also while a presenter
\* drives the device over the same stream.
Refresh ==
    /\ Idle /\ client.open /\ Asks
    /\ \E kind \in {"List", "Ping"} : Call(client, kind, "User")
    /\ UNCHANGED <<state, auto, pinned, port, down, peer, late, faults, mixed>>

\* importAttach
Attach ==
    /\ Idle /\ client.open /\ state = "Connected" /\ Asks
    /\ Call(client, "Attach", "Attach")
    /\ UNCHANGED <<state, auto, pinned, port, down, peer, late, faults, mixed>>

\* importDetach withdraws the presenter first.
Detach ==
    /\ Idle /\ client.open /\ state = "Attached" /\ Asks
    /\ port' = NoPort
    /\ Call(client, "Detach", "Detach")
    /\ UNCHANGED <<state, auto, pinned, down, peer, late, faults, mixed>>

\* importDisconnect: an attached device is given back first.
Disconnect ==
    /\ Idle /\ state # "Off" /\ Asks
    /\ IF state = "Attached"
       THEN /\ port' = NoPort
            /\ Call(client, "Detach", "Disconnect")
            /\ UNCHANGED <<state, auto, pinned, down, exp>>
       ELSE AfterDisconnect("Ok") /\ down' = <<>>
    /\ UNCHANGED <<accepted, quiet, late, faults, mixed>>

-------------------------------------------------------------------------------
(* The presented device *)

\* RemoteDevicePort::submit and clearHalt, for the verify button.
PortCalls ==
    LET rid == (port.rid + 1) % Ids
    IN  /\ Idle /\ state = "Attached" /\ port.kind = "Probe" /\ Asks
        /\ \E kind \in {"Submit", "ClearHalt"} :
              /\ op' = [kind |-> kind, rid |-> rid, then |-> "Port"]
              /\ up' = Append(up, [type |-> kind, rid |-> rid, attachId |-> port.attachId])
        /\ port' = [port EXCEPT !.rid = rid]
        /\ UNCHANGED <<state, auto, pinned, client, down, peer, late, faults, mixed>>

\* Mutant: the next COMPLETE is taken to be this transfer's.
TakesAnyComplete(rid, r) == r.type = "Complete"

\* A submit finishes a transfer with a COMPLETE of its own request id only.
TakesAsOwn(rid, r) == r.type = "Complete" /\ r.rid = rid

\* The next record ends the port's call, in success or in failure.
PortAnswered ==
    /\ ~Idle /\ op.then = "Port" /\ down # <<>>
    /\ LET r == Head(down)
       IN  mixed' = (mixed \/ /\ op.kind = "Submit" /\ TakesAsOwn(op.rid, r)
                              /\ r.rid # op.rid \/ r.id # port.attachId)
    /\ op' = NoOp
    /\ down' = Tail(down)
    /\ UNCHANGED <<state, auto, pinned, client, port, up, peer, count>>

PortExpires ==
    /\ ~Idle /\ op.then = "Port" /\ Bounded(op.kind) /\ down = <<>> /\ exp.open
    /\ quiet \/ late < MaxLate
    /\ late' = IF quiet THEN late ELSE late + 1
    /\ op' = NoOp
    /\ UNCHANGED <<state, auto, pinned, client, port, net, peer, user, faults, mixed>>

PortLost ==
    /\ ~Idle /\ op.then = "Port" /\ down = <<>> /\ ~exp.open
    /\ op' = NoOp
    /\ UNCHANGED <<state, auto, pinned, client, port, net, peer, count, mixed>>

\* A presenter with a data plane sends a transfer.
PlaneSubmits ==
    LET rid == (port.rid + 1) % Ids
    IN  /\ Idle /\ state = "Attached" /\ port.kind = "Plane" /\ Asks
        /\ up' = Append(up, [type |-> "Submit", rid |-> rid, attachId |-> port.attachId])
        /\ port' = [port EXCEPT !.rid = rid, !.out = @ \cup {rid}]
        /\ UNCHANGED <<state, auto, pinned, client, op, down, peer, late, faults, mixed>>

\* Its pump reads whatever has come, and drops what is not a COMPLETE it waits for.
PlanePumps ==
    /\ Idle /\ state = "Attached" /\ port.kind = "Plane" /\ down # <<>>
    /\ port' = IF Head(down).type = "Complete"
               THEN [port EXCEPT !.out = @ \ {Head(down).rid}] ELSE port
    /\ down' = Tail(down)
    /\ UNCHANGED <<state, auto, pinned, client, op, up, peer, count, mixed>>

\* Its pump fails, because the stream has ended or the operating system let go of the
\* device: HubState::pump withdraws it, and detaches nothing.
PlaneFails ==
    /\ Idle /\ state = "Attached" /\ port.kind = "Plane"
    /\ \/ ~exp.open /\ UNCHANGED faults
       \/ faults < MaxFaults /\ faults' = faults + 1
    /\ port' = NoPort
    /\ state' = "Connected"
    /\ UNCHANGED <<auto, pinned, client, op, net, peer, user, late, mixed>>

-------------------------------------------------------------------------------
(* The exporter *)

Reply(type, m) == [type |-> type, rid |-> m.rid, id |-> 0]

\* emitComplete, onVerbDone: the answer to a transfer or a verb, under its attach id.
Owes(m) == [type |-> IF m.type = "Submit" THEN "Complete" ELSE "CtrlAck",
            rid |-> m.rid, id |-> m.attachId]

Answers(rs) == down' = down \o rs /\ UNCHANGED exp

\* handleAttach: a session has one device, which may be refused by its status.
HandleAttach(m) ==
    IF exp.held # 0 THEN Answers(<<Reply("Refused", m)>>)
    ELSE \/ Answers(<<Reply("AttachOk", m)>>)
         \/ LET id == exp.last + 1
            IN  /\ exp' = [exp EXCEPT !.held = id, !.last = id]
                /\ down' = down \o <<[Reply("AttachOk", m) EXCEPT !.id = id],
                                     Reply("Manifest", m)>>

\* handleDetach: what is owed is answered first.
HandleDetach(m) ==
    IF exp.held = 0 THEN Answers(<<Reply("Refused", m)>>)
    ELSE /\ exp' = [exp EXCEPT !.held = 0, !.owed = {}]
         /\ down' = down \o SetToSeq(exp.owed) \o <<Reply("DetachOk", m)>>

\* handleSubmit and handleClearHalt: one of another attach is dropped without a word.
HandleSubmit(m) ==
    IF exp.held = 0 THEN Answers(<<Reply("Refused", m)>>)
    ELSE IF m.attachId # exp.held THEN Answers(<<>>)
    ELSE exp' = [exp EXCEPT !.owed = @ \cup {Owes(m)}] /\ UNCHANGED down

\* The exporter takes the next request: ExporterSession::handle.
ExporterTakes ==
    LET m == Head(up)
    IN  /\ exp.open /\ ~quiet /\ up # <<>>
        /\ up' = Tail(up)
        /\ CASE m.type = "Ping" -> Answers(<<Reply("Pong", m)>>)
             [] m.type # "Ping" /\ ~exp.paired -> Answers(<<Reply("NotPaired", m)>>)
             [] m.type = "List" /\ exp.paired -> Answers(<<Reply("List", m)>>)
             [] m.type = "Attach" /\ exp.paired -> HandleAttach(m)
             [] m.type = "Detach" /\ exp.paired -> HandleDetach(m)
             [] m.type \in {"Submit", "ClearHalt"} /\ exp.paired -> HandleSubmit(m)
        /\ UNCHANGED <<hub, accepted, quiet, count, mixed>>

\* The device has finished a transfer or a verb.
ExporterFinishes ==
    /\ exp.open /\ ~quiet
    /\ \E r \in exp.owed :
          /\ exp' = [exp EXCEPT !.owed = @ \ {r}]
          /\ down' = Append(down, r)
    /\ UNCHANGED <<hub, up, accepted, quiet, count, mixed>>

\* shareApprove: the exporter pins this machine and ends the session.
ExporterAccepts ==
    /\ exp.open /\ ~exp.paired /\ ~accepted /\ ~quiet
    /\ accepted' = TRUE
    /\ exp' = [exp EXCEPT !.open = FALSE]
    /\ UNCHANGED <<hub, net, quiet, count, mixed>>

\* Records not delivered yet may be lost with the machine or the session.
Delivered == \E n \in 0..Len(down) : down' = SubSeq(down, 1, n)

\* The session is lost, or the exporter ends it.
SessionLost ==
    /\ exp.open /\ faults < MaxFaults
    /\ faults' = faults + 1
    /\ exp' = [exp EXCEPT !.open = FALSE]
    /\ Delivered
    /\ UNCHANGED <<hub, up, accepted, quiet, user, late, mixed>>

\* The exporter goes quiet without a FIN.
GoesQuiet ==
    /\ exp.open /\ ~quiet /\ faults < MaxFaults
    /\ faults' = faults + 1
    /\ quiet' = TRUE
    /\ Delivered
    /\ UNCHANGED <<hub, up, exp, accepted, user, late, mixed>>

HubSteps == CallAnswered \/ CallLost \/ PortAnswered \/ PortLost \/ Reconnect \/ Tick
Expires == CallExpires \/ PortExpires
Exporter == ExporterTakes \/ ExporterFinishes

Next ==
    \/ HubSteps \/ Expires \/ Exporter
    \/ Connect \/ Approve \/ Refresh \/ Attach \/ Detach \/ Disconnect
    \/ PortCalls \/ PlaneSubmits \/ PlanePumps \/ PlaneFails
    \/ ExporterAccepts \/ SessionLost \/ GoesQuiet

\* The hub's loop runs, deadlines pass on the continuous clock, and an exporter that is
\* not quiet answers.  Users need not do anything.
Fairness == WF_vars(HubSteps) /\ WF_vars(Expires) /\ WF_vars(Exporter)

Spec == Init /\ [][Next]_vars /\ Fairness

-------------------------------------------------------------------------------
(* Properties *)

\* What the window says is attached is attached: as long as the session lives, the
\* exporter holds the very attach the client and the presented device use, although
\* every answer may be read by another call than the one that asked (doAttach, detach).
AttachedIsHeld ==
    state = "Attached" /\ exp.open =>
        /\ client.attachId # 0
        /\ op.kind = "Detach" \/ (client.attachId = exp.held /\ port.attachId = exp.held)

\* A transfer of the diagnostic port is never finished by the COMPLETE of another: one
\* given up on earlier, or one of an earlier attach.  RemoteDevicePort::submit compares
\* only the request id, which every attach counts from the start again.
OwnCompletion == ~mixed

Waiting == ~Idle /\ op.kind # "ClearHalt"

\* Every call of the hub's thread but clearHalt ends, also against an exporter that has
\* gone quiet: an answer, a deadline or the end of the stream (ImporterClient::call,
\* doAttach, RemoteDevicePort::submit).
CallsEnd == []<>~Waiting

\* Pairing finishes by itself: once both users have accepted, whoever was first and
\* however often the session was torn down meanwhile, the hub gets out of waiting
\* (pumpImportPairing), unless the other machine has gone quiet.
PairingCompletes ==
    pinned /\ accepted /\ auto /\ state \in {"WaitingForPeer", "Connecting"}
        ~> state \notin {"WaitingForPeer", "Connecting"} \/ quiet

\* Every call of the hub's thread ends (ImporterClient.cpp, doAttach, of an unbounded
\* wait for the next record: "this was the one instance left").
EveryCallEnds == []<>Idle

===============================================================================
