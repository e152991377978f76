------------------------------ MODULE ControlPlane ------------------------------
(***************************************************************************)
(* The path of a click: a page in a browser, the HTTP server and control   *)
(* API of a window process (airusb-hubd), its BrokerClient, the local      *)
(* socket, and the BrokerServer in front of the one HubState of the        *)
(* privileged daemon (airusb-brokerd).                                     *)
(*                                                                         *)
(* Three kinds of process run concurrently.  A page polls the state every  *)
(* second and posts what a person clicks, with the pairing question that   *)
(* was on screen.  A window process serves one HTTP request at a time and  *)
(* blocks in one broker call at a time.  The broker daemon is one loop:    *)
(* BrokerServer::poll, then HubState::pump; inside poll a verb may take    *)
(* longer than a window is ready to wait.                                  *)
(*                                                                         *)
(* What the hub does is SharingHub and ImportingHub; of it this module     *)
(* keeps what a window can get wrong: the pairing question pending on each *)
(* side, whether the importing side is dialling a machine it has not       *)
(* pinned (which asks again with every connection), and who has been       *)
(* paired.  Frames are whole (a frame cut short by a close is discarded    *)
(* with its stream), and the nonce stands for the session's digits too:    *)
(* an answer is looked at only while a session waits for one, and then     *)
(* both are of that session.                                               *)
(***************************************************************************)
EXTENDS Integers, Sequences

CONSTANTS
    Windows,        \* window processes, each of which connects at most once
    Allowed,        \* those running as the uid the broker admits
    Skewed,         \* those of another version than the broker
    Peers,          \* machines on the network
    SocketRoom,     \* frames the local socket holds in one direction
    MaxConns,       \* HTTP connections a window keeps (kMaxConns)
    MaxQuestions,   \* bound: pairing questions ever asked
    MaxInputs       \* bound: starts and ends of windows, tabs and the broker,
                    \* and requests of pages

Nobody == "nobody"

ASSUME ControlAssumption ==
    /\ Nobody \notin Windows
    /\ Allowed \subseteq Windows /\ Skewed \subseteq Windows
    /\ {SocketRoom, MaxConns} \subseteq Nat \ {0}
    /\ {MaxQuestions, MaxInputs} \subseteq Nat

Sides == {"share", "import"}

\* The bodies a page can post; "other" stands for the verbs that neither ask
\* nor answer a question (refresh, attach, detach, verify, ping, reclaim).
\* ControlApi ignores the status of the Unchecked ones.
Verbs == {"shareStart", "shareStop", "importConnect", "importDisconnect", "other"}
Unchecked == {"shareStop", "importDisconnect"}

NoQuestion == [nonce |-> 0, fp |-> "none"]
Question   == [nonce : 1..MaxQuestions, fp : Peers] \cup {NoQuestion}
NoDoc      == [s \in Sides |-> NoQuestion]

Approvals == [verb : {"approve"}, side : Sides, said : Question, accept : BOOLEAN]

VARIABLES
    \* the broker daemon
    up, phase, client, greeted, rx, tx, work, backlog,
    \* the hub behind it
    sharing, dialling, question, minted, pins, saved,
    \* the sockets and the window processes
    chan, win, http,
    \* the pages
    page,
    \* what happened: how many calls the broker ran for a window, whose answers
    \* the window took as its own, the questions a person accepted on screen
    ran, answers, clicks,
    inputs          \* how many inputs there have been

brokerVars == <<up, phase, client, greeted, rx, tx, work, backlog>>
hubVars    == <<sharing, dialling, question, minted, pins, saved>>
pageVars   == <<page, clicks>>
vars == <<brokerVars, hubVars, pageVars, chan, win, http, ran, answers, inputs>>

Init ==
    /\ up = TRUE /\ phase = "poll" /\ client = Nobody /\ greeted = FALSE
    /\ rx = <<>> /\ tx = <<>> /\ work = <<>> /\ backlog = <<>>
    /\ sharing \in BOOLEAN /\ dialling = FALSE /\ question = NoDoc /\ minted = 0
    /\ pins = {} /\ saved = {} /\ inputs = 0
    /\ chan = [w \in Windows |-> [up |-> <<>>, down |-> <<>>, here |-> FALSE, there |-> FALSE]]
    /\ win = [w \in Windows |-> [pc |-> "off", tag |-> 0, verb |-> "state", step |-> "verb"]]
    /\ http = [w \in Windows |-> <<>>]
    /\ page = [w \in Windows |-> [shown |-> NoDoc, busy |-> FALSE]]
    /\ ran = [w \in Windows |-> 0] /\ answers = [w \in Windows |-> {}] /\ clicks = {}

Input == inputs < MaxInputs /\ inputs' = inputs + 1

---------------------------------------------------------------------------
(* The local socket.  chan[w].here: the window's end is open; .there: the  *)
(* broker's end is.                                                        *)

\* The frames of s that fit behind what is already on the way.
Fitting(down, s) == SubSeq(s, 1, IF Len(s) < SocketRoom - Len(down)
                                 THEN Len(s) ELSE SocketRoom - Len(down))

\* A mutant: end of file reported as "nothing yet".
EndOfStreamUnseen(w) == FALSE

\* Whether the broker's read loop comes to the end of the stream: the window's
\* end is closed, whatever it sent before.
EndOfStream(w) == ~chan[w].here

---------------------------------------------------------------------------
(* BrokerServer.                                                           *)

\* A mutant: the buffers outlive the connection they belong to.
Kept(buffer) == buffer

\* dropClient(): the connection goes, and everything buffered for it.
Emptied(buffer) == <<>>

DropClient ==
    /\ chan' = [chan EXCEPT ![client].there = FALSE]
    /\ client' = Nobody /\ greeted' = FALSE
    /\ rx' = Emptied(rx) /\ tx' = Emptied(tx)

\* poll() with no window attached takes the first in the backlog, or refuses it
\* if the kernel says it is another user.  (A poll that finds nothing to do is a
\* step that changes nothing, and is left out here and below.)
Accept ==
    /\ up /\ phase = "poll" /\ client = Nobody
    /\ backlog # <<>> /\ backlog' = Tail(backlog)
    /\ \/ /\ Head(backlog) \notin Allowed
          /\ chan' = [chan EXCEPT ![Head(backlog)].there = FALSE]
          /\ UNCHANGED client
       \/ /\ Head(backlog) \in Allowed
          /\ client' = Head(backlog) /\ UNCHANGED chan
    /\ UNCHANGED <<up, phase, greeted, rx, tx, work, hubVars, win, http, pageVars, ran, answers, inputs>>

\* The answers left over from last time go first, and then whatever the window
\* sent is read.  A read that ends the stream drops the window with the frames
\* it read: what nobody waits for any more is not run.
FlushAndRead ==
    /\ up /\ phase = "poll" /\ client # Nobody
    /\ EndOfStream(client) \/ chan[client].up # <<>> \/ tx # <<>>
    /\ IF EndOfStream(client)
       THEN DropClient /\ UNCHANGED phase
       ELSE LET out == Fitting(chan[client].down, tx)
            IN /\ chan' = [chan EXCEPT ![client].down = @ \o out, ![client].up = <<>>]
               /\ tx' = SubSeq(tx, Len(out) + 1, Len(tx))
               /\ rx' = rx \o chan[client].up
               /\ phase' = "handle"
               /\ UNCHANGED <<client, greeted>>
    /\ UNCHANGED <<up, work, backlog, hubVars, win, http, pageVars, ran, answers, inputs>>

\* handleFrame() begins on the next complete frame; it may take a while.
TakeFrame ==
    /\ up /\ phase = "handle"
    /\ rx # <<>> /\ work' = <<Head(rx)>> /\ rx' = Tail(rx) /\ phase' = "work"
    /\ UNCHANGED <<up, client, greeted, tx, backlog, hubVars, chan, win, http, pageVars, ran, answers, inputs>>

\* Op::Attach is the only request answered before the versions agreed.
MayRun(f) == greeted \/ f.op = "attach"

\* encodeFrame() of the answer, with the request's tag.  Every answer of a verb
\* carries the whole state; a refusal carries none.
Answer(f, ok, doc) == [from |-> f.from, tag |-> f.tag, op |-> f.op, ok |-> ok, doc |-> doc]

Reply(f, ok, doc) ==
    /\ tx' = Append(tx, Answer(f, ok, doc))
    /\ ran' = [ran EXCEPT ![f.from] = @ + 1]

\* A mutant: the machine is compared, and not the session.
SameMachine(have, said) == have # NoQuestion /\ said.fp = have.fp

\* checkApproval(): the nonce, the fingerprint and the digits of the answer
\* against the question pending now.
SameQuestion(have, said) == have # NoQuestion /\ said = have

NotAsking(s) == [question EXCEPT ![s] = NoQuestion]

\* shareApprove(), importApprove(): a refusal drops the machine; an acceptance
\* pins it and saves the pins if the file can be written.  The sharing side then
\* drops the session, for the machine to come back; the importing side keeps it.
\* Neither asks any longer.
Approve(f) ==
    LET s == f.req.side
        q == question[s]
    IN \/ /\ ~SameQuestion(q, f.req.said)
          /\ Reply(f, FALSE, question)
          /\ UNCHANGED hubVars
       \/ /\ SameQuestion(q, f.req.said)
          /\ question' = NotAsking(s)
          /\ dialling' = (dialling /\ s # "import")
          /\ IF f.req.accept
             THEN /\ pins' = pins \cup {q}
                  /\ \E written \in BOOLEAN : saved' = IF written THEN pins' ELSE saved
             ELSE UNCHANGED <<pins, saved>>
          /\ Reply(f, TRUE, question')
          /\ UNCHANGED <<sharing, minted>>

\* A question about machine p: the ticket is minted with it.
Asks(s, p) ==
    /\ minted < MaxQuestions
    /\ minted' = minted + 1
    /\ question' = [question EXCEPT ![s] = [nonce |-> minted + 1, fp |-> p]]

Paired(p) == \E q \in pins : q.fp = p

\* shareStart() while sharing is refused; otherwise it listens, unless there is
\* nothing to share or the port is taken.
ShareStart(f) ==
    /\ \/ ~sharing /\ sharing' = TRUE /\ Reply(f, TRUE, question)
       \/ UNCHANGED sharing /\ Reply(f, FALSE, question)
    /\ UNCHANGED <<dialling, question, minted>>

\* importConnect() disconnects first.  Then the connection fails; or a machine not
\* paired yet is asked about; or one that is paired lists its devices or not.
ImportConnect(f) ==
    /\ \/ /\ question' = NotAsking("import") /\ dialling' = FALSE
          /\ Reply(f, FALSE, question') /\ UNCHANGED minted
       \/ /\ \E p \in Peers : ~Paired(p) /\ Asks("import", p)
          /\ dialling' = TRUE
          /\ Reply(f, TRUE, question')
       \/ /\ \E p \in Peers : Paired(p)
          /\ question' = NotAsking("import") /\ dialling' = FALSE
          /\ Reply(f, TRUE, question') /\ UNCHANGED minted
    /\ UNCHANGED sharing

\* The verbs that do not answer a question.  Of the "other" ones forceReclaim()
\* drops the machine on the sharing side.
RunVerb(f) ==
    \/ /\ f.req.verb \in {"state", "other"}
       /\ Reply(f, TRUE, question) /\ UNCHANGED <<sharing, dialling, question, minted>>
    \/ /\ f.req.verb = "other"
       /\ Reply(f, FALSE, question) /\ UNCHANGED <<sharing, dialling, question, minted>>
    \/ /\ f.req.verb = "other"
       /\ question' = NotAsking("share")
       /\ Reply(f, TRUE, question') /\ UNCHANGED <<sharing, dialling, minted>>
    \/ f.req.verb = "shareStart" /\ ShareStart(f)
    \/ /\ f.req.verb = "shareStop"
       /\ sharing' = FALSE
       /\ question' = NotAsking("share")
       /\ Reply(f, TRUE, question') /\ UNCHANGED <<dialling, minted>>
    \/ f.req.verb = "importConnect" /\ ImportConnect(f)
    \/ /\ f.req.verb = "importDisconnect"
       /\ question' = NotAsking("import") /\ dialling' = FALSE
       /\ Reply(f, TRUE, question') /\ UNCHANGED <<sharing, minted>>

\* handleFrame() ends.
FinishFrame ==
    /\ up /\ phase = "work" /\ phase' = "handle" /\ work' = <<>>
    /\ LET f == work[1]
       IN \/ /\ ~MayRun(f)
             /\ Reply(f, FALSE, NoDoc)
             /\ UNCHANGED <<greeted, hubVars>>
          \/ /\ f.op = "attach"
             /\ greeted' = (greeted \/ f.from \notin Skewed)
             /\ Reply(f, f.from \notin Skewed, NoDoc)
             /\ UNCHANGED hubVars
          \/ /\ MayRun(f) /\ f.op = "verb" /\ f.req.verb = "approve"
             /\ Approve(f) /\ UNCHANGED greeted
          \/ /\ MayRun(f) /\ f.op = "verb" /\ f.req.verb # "approve"
             /\ RunVerb(f) /\ UNCHANGED <<greeted, pins, saved>>
    /\ UNCHANGED <<up, client, rx, backlog, chan, win, http, pageVars, answers, inputs>>

\* The last part of poll(): what those answers produced.  A write to a window
\* that is gone drops it.
Push ==
    /\ up /\ phase = "handle" /\ rx = <<>> /\ phase' = "poll"
    /\ IF tx # <<>> /\ ~chan[client].here
       THEN DropClient
       ELSE LET out == Fitting(chan[client].down, tx)
            IN /\ chan' = [chan EXCEPT ![client].down = @ \o out]
               /\ tx' = SubSeq(tx, Len(out) + 1, Len(tx))
               /\ UNCHANGED <<client, greeted, rx>>
    /\ UNCHANGED <<up, work, backlog, hubVars, win, http, pageVars, ran, answers, inputs>>

\* HubState::pump(), between two polls.  On the sharing side a machine that is not
\* paired connects, or the session somebody is being asked about ends.
PumpShare ==
    /\ \/ /\ sharing /\ question["share"] = NoQuestion
          /\ \E p \in Peers : ~Paired(p) /\ Asks("share", p)
       \/ /\ question["share"] # NoQuestion
          /\ question' = NotAsking("share") /\ UNCHANGED minted

\* On the importing side pumpImportPairing() finds the session gone; a second later
\* it connects again by itself, and asks anew about the machine it finds, paired
\* meanwhile or not.
PumpImportPairing ==
    /\ dialling
    /\ \/ /\ question["import"] # NoQuestion
          /\ question' = NotAsking("import") /\ UNCHANGED minted
       \/ /\ question["import"] = NoQuestion
          /\ \E p \in Peers : Asks("import", p)

Pump ==
    /\ up /\ phase = "poll"
    /\ PumpShare \/ PumpImportPairing
    /\ UNCHANGED <<brokerVars, sharing, dialling, pins, saved,
                   chan, win, http, pageVars, ran, answers, inputs>>

\* The daemon stops, by a signal or a crash: the sessions and their questions,
\* the connections and whatever was not written down are gone.
BrokerStops ==
    /\ up /\ Input
    /\ up' = FALSE
    /\ client' = Nobody /\ greeted' = FALSE
    /\ rx' = <<>> /\ tx' = <<>> /\ work' = <<>> /\ backlog' = <<>>
    /\ question' = NoDoc /\ dialling' = FALSE
    /\ chan' = [w \in Windows |-> [chan[w] EXCEPT !.there = FALSE]]
    /\ phase' = "poll"
    /\ UNCHANGED <<sharing, minted, pins, saved, win, http, pageVars, ran, answers>>

\* main() again: the pins come from the file, the stale socket is unlinked and
\* bound anew, and sharing starts if it was asked for and can.
BrokerStarts ==
    /\ ~up /\ up' = TRUE
    /\ pins' = saved /\ sharing' \in BOOLEAN
    /\ UNCHANGED <<phase, client, greeted, rx, tx, work, backlog, dialling, question, minted, saved,
                   chan, win, http, pageVars, ran, answers, inputs>>

---------------------------------------------------------------------------
(* The window process: BrokerClient under the control API.                 *)

\* call(): a fresh tag, the frame, and the wait for the answer with that tag.
Frame(w, op, req) == [from |-> w, tag |-> win[w].tag + 1, op |-> op, req |-> req]

\* main() opens the broker once, before it serves anything; without a broker
\* the window runs its own diagnostic half and never looks again.
Open(w) ==
    /\ win[w].pc = "off" /\ Input
    /\ IF up
       THEN /\ win' = [win EXCEPT ![w] = [@ EXCEPT !.pc = "opening", !.tag = 1]]
            /\ chan' = [chan EXCEPT ![w] = [up |-> <<Frame(w, "attach", [verb |-> "state"])>>,
                                            down |-> <<>>, here |-> TRUE, there |-> TRUE]]
            /\ backlog' = Append(backlog, w)
       ELSE /\ win' = [win EXCEPT ![w].pc = "standalone"]
            /\ UNCHANGED <<chan, backlog>>
    /\ UNCHANGED <<up, phase, client, greeted, rx, tx, work, hubVars, http, pageVars, ran, answers>>

\* The stream ends for the window: its end is closed, for good.
Closed(w) == [chan EXCEPT ![w].here = FALSE, ![w].down = <<>>]

\* Without a broker a verb is an error, and the state is a document that says so;
\* it is also what follows a verb whose status is ignored.
WhenLost(verb, s) == IF s = "state" \/ verb \in Unchecked THEN <<NoDoc>> ELSE <<>>

\* The response to a request reaches the page: a document is rendered, an error
\* (no document) leaves what is on screen, and an action is over.  A page that
\* has hung up gets nothing.
Respond(w, verb, doc) ==
    page' = IF verb = "hungUp" THEN page
            ELSE [page EXCEPT ![w] = [shown |-> IF doc = <<>> THEN @.shown ELSE doc[1],
                                      busy  |-> @.busy /\ verb = "state"]]

\* BrokerClient::call() puts a request on the stream, as step s of serving verb;
\* a stream whose other end is gone is closed instead, and never reopened.
Call(w, verb, s, req) ==
    IF chan[w].there
    THEN /\ chan' = [chan EXCEPT ![w].up = Append(@, Frame(w, "verb", req)),
                                ![w].down = IF win[w].pc = "calling" THEN Tail(@) ELSE @]
         /\ win' = [win EXCEPT ![w] = [pc |-> "calling", tag |-> @.tag + 1,
                                      verb |-> verb, step |-> s]]
         /\ UNCHANGED page
    ELSE /\ chan' = Closed(w)
         /\ win' = [win EXCEPT ![w].pc = "lost"]
         /\ Respond(w, verb, WhenLost(verb, s))

\* HttpServer::poll() hands the next complete request to ControlApi::handle().
Serve(w) ==
    /\ win[w].pc = "idle" /\ http[w] # <<>>
    /\ http' = [http EXCEPT ![w] = Tail(@)]
    /\ LET r == Head(http[w])
       IN Call(w, r.verb, IF r.verb = "state" THEN "state" ELSE "verb", r)
    /\ UNCHANGED <<brokerVars, hubVars, clicks, ran, answers, inputs>>

\* A window that lost its broker goes on serving its page, saying so.
ServeLost(w) ==
    /\ win[w].pc = "lost" /\ http[w] # <<>>
    /\ http' = [http EXCEPT ![w] = Tail(@)]
    /\ LET r == Head(http[w])
       IN Respond(w, r.verb, WhenLost(r.verb, IF r.verb = "state" THEN "state" ELSE "verb"))
    /\ UNCHANGED <<brokerVars, hubVars, clicks, chan, win, ran, answers, inputs>>

\* Whether a frame read is the answer to the call being made.
IsOurs(w, a) == a.tag = win[w].tag

\* open() has its answer: the window serves pages, or gives the broker up.
Opened(w, a) ==
    /\ win[w].pc = "opening" /\ UNCHANGED page
    /\ IF a.ok
       THEN /\ chan' = [chan EXCEPT ![w].down = Tail(@)]
            /\ win' = [win EXCEPT ![w].pc = "idle"]
       ELSE /\ chan' = Closed(w)
            /\ win' = [win EXCEPT ![w].pc = "standalone"]

\* call() has its answer.  A verb that failed is reported as an error; after any
\* other ControlApi fetches the state, which becomes the response.
Failed(w, a) == ~a.ok /\ win[w].verb \notin Unchecked

Answered(w, a) ==
    /\ win[w].pc = "calling"
    /\ \/ /\ win[w].step = "state" \/ Failed(w, a)
          /\ win' = [win EXCEPT ![w].pc = "idle"]
          /\ chan' = [chan EXCEPT ![w].down = Tail(@)]
          /\ Respond(w, win[w].verb, IF a.ok THEN <<a.doc>> ELSE <<>>)
       \/ /\ win[w].step = "verb" /\ ~Failed(w, a)
          /\ Call(w, win[w].verb, "state", [verb |-> "state"])

\* readFrame(): the answer to an older call is skipped, this call's is taken.
ReadFrame(w) ==
    /\ win[w].pc \in {"opening", "calling"} /\ chan[w].down # <<>>
    /\ LET a == Head(chan[w].down)
       IN \/ /\ ~IsOurs(w, a)
             /\ chan' = [chan EXCEPT ![w].down = Tail(@)]
             /\ UNCHANGED <<win, page, answers>>
          \/ /\ IsOurs(w, a)
             /\ answers' = [answers EXCEPT ![w] = @ \cup {a.from}]
             /\ Opened(w, a) \/ Answered(w, a)
    /\ UNCHANGED <<brokerVars, hubVars, clicks, http, ran, inputs>>

\* call() gives up: the broker's end is closed and all it sent has been read, or
\* kCallTimeoutMs passed.  Either way the stream is closed: an answer that comes
\* late finds nobody.
GiveUp(w) ==
    /\ win[w].pc \in {"opening", "calling"}
    /\ chan' = Closed(w)
    /\ win' = [win EXCEPT ![w].pc = IF @ = "opening" THEN "standalone" ELSE "lost"]
    /\ IF win[w].pc = "opening" THEN UNCHANGED page
       ELSE Respond(w, win[w].verb, WhenLost(win[w].verb, win[w].step))
    /\ UNCHANGED <<brokerVars, hubVars, clicks, http, ran, answers, inputs>>

BrokerGone(w) == ~chan[w].there /\ chan[w].down = <<>> /\ GiveUp(w)
CallTimesOut(w) == chan[w].there /\ GiveUp(w)

\* The window process ends, between calls or killed in the middle of one.
WindowExits(w) ==
    /\ win[w].pc \in {"opening", "idle", "calling", "lost"} /\ Input
    /\ win' = [win EXCEPT ![w].pc = "exited"]
    /\ chan' = Closed(w)
    /\ http' = [http EXCEPT ![w] = <<>>]
    /\ page' = [page EXCEPT ![w] = [shown |-> NoDoc, busy |-> FALSE]]
    /\ UNCHANGED <<brokerVars, hubVars, clicks, ran, answers>>

---------------------------------------------------------------------------
(* The page.                                                               *)

Serving(w) == win[w].pc \in {"idle", "calling", "lost"}

\* fetch(): a connection the server keeps, or closes at once when it has as
\* many as it will keep.
Fetch(w, req) == http' = [http EXCEPT ![w] = IF Len(@) < MaxConns THEN Append(@, req) ELSE @]

\* The one-second poll, skipped while an action is in flight.
PagePolls(w) ==
    /\ Serving(w) /\ ~page[w].busy /\ Len(http[w]) < MaxConns /\ Input
    /\ Fetch(w, [verb |-> "state"])
    /\ UNCHANGED <<brokerVars, hubVars, pageVars, chan, win, ran, answers>>

\* act(): one action at a time.
PageActs(w, req) ==
    /\ Serving(w) /\ ~page[w].busy /\ Input
    /\ Fetch(w, req)
    /\ page' = [page EXCEPT ![w].busy = Len(http[w]) < MaxConns]
    /\ UNCHANGED <<brokerVars, hubVars, chan, win, ran, answers>>

\* What approval() sends: the question of the last state rendered.
OnScreen(w, s) == page[w].shown[s]

PersonAnswers(w, s, accept) ==
    /\ OnScreen(w, s) # NoQuestion
    /\ PageActs(w, [verb |-> "approve", side |-> s, said |-> OnScreen(w, s), accept |-> accept])
    /\ clicks' = IF accept THEN clicks \cup {OnScreen(w, s)} ELSE clicks

PersonClicks(w, verb) == PageActs(w, [verb |-> verb]) /\ UNCHANGED clicks

\* The tab is closed or reloaded: its connections hang up, and a request the
\* server had not taken is not served.
TabReloads(w) ==
    /\ Serving(w) /\ page[w] # [shown |-> NoDoc, busy |-> FALSE] /\ Input
    /\ page' = [page EXCEPT ![w] = [shown |-> NoDoc, busy |-> FALSE]]
    /\ win' = [win EXCEPT ![w].verb = "hungUp"]
    /\ http' = [http EXCEPT ![w] = <<>>]
    /\ UNCHANGED <<brokerVars, hubVars, clicks, chan, ran, answers>>

---------------------------------------------------------------------------
Poll == Accept \/ FlushAndRead \/ TakeFrame \/ FinishFrame \/ Push

Reads(w) == ReadFrame(w) \/ BrokerGone(w)

Window(w) ==
    \/ Open(w) \/ Serve(w) \/ ServeLost(w)
    \/ ReadFrame(w) \/ BrokerGone(w) \/ CallTimesOut(w) \/ WindowExits(w)

Page(w) ==
    \/ PagePolls(w)
    \/ \E s \in Sides, accept \in BOOLEAN : PersonAnswers(w, s, accept)
    \/ \E verb \in Verbs : PersonClicks(w, verb)
    \/ TabReloads(w)

Next ==
    \/ Poll \/ Pump \/ BrokerStops \/ BrokerStarts
    \/ \E w \in Windows : Window(w) \/ Page(w)

\* The daemon's loop turns (which assumes the verbs themselves end), and a
\* window in a call reads.  No deadline is assumed to fire.
Fairness == WF_vars(Poll) /\ \A w \in Windows : WF_vars(Reads(w))

Spec == Init /\ [][Next]_vars /\ Fairness

---------------------------------------------------------------------------
(* Properties.                                                             *)

\* The person is told the outcome of what they did: the answer a window takes
\* for a call is the broker's answer to that window's own call of that number,
\* whoever was connected before, and no call is run twice.
AnswerIsOwn ==
    \A w \in Windows :
        answers[w] \subseteq {w} /\ ran[w] <= win[w].tag

\* A machine is paired only for a question that a person accepted with that
\* very question on screen: not for the one that replaced it while the click was
\* on its way, because another machine came, the same one came back, the importing
\* side connected again by itself or a person told it to, and not across a restart.
PairedWasOnScreen == pins \cup saved \subseteq clicks

\* The broker owes its window something: an answer, or to notice it has gone.
OwesItsWindow ==
    /\ client # Nobody
    /\ ~chan[client].here \/ win[client].pc \in {"opening", "calling"}

\* A window that is gone does not keep the broker from the next one, and a
\* window the broker has accepted is answered without a deadline having to fire:
\* the loop always gets to a point where it owes its window nothing.
WindowIsServed == []<>~OwesItsWindow

=============================================================================
