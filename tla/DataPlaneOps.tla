----------------------------- MODULE DataPlaneOps -----------------------------
(***************************************************************************)
(* The methods of session::ImporterDataPlane                               *)
(* (session/ImporterDataPlane.cpp, over core/RequestTable.cpp) as          *)
(* operators on the plane's state.  The bridge of an operating system      *)
(* calls them from its own handlers; VhciImport.tla composes them into the *)
(* Linux importer.                                                         *)
(*                                                                         *)
(* A request or verb is its key, the pair (channel, request id).  The      *)
(* peer's replies are well formed, as emitTransfer makes them, and of this *)
(* attach, so a key stands for the identity fields COMPLETE echoes;        *)
(* partial is _pendingReply and the open transfers of _reasm, which every  *)
(* method changes together.  Deadlines belong to the composing module,     *)
(* which says which keys have expired.                                     *)
(***************************************************************************)
EXTENDS Naturals, FiniteSets

CONSTANTS
    Endpoints,     \* endpoint addresses, ep0 among them
    Slot,          \* Config::attachSlot
    MaxInFlight,   \* Config::maxInFlight
    MaxUrbs        \* bound: transfers and verbs of one behaviour

ASSUME DataPlaneAssumption ==
    /\ Endpoints \subseteq 0..255
    /\ Slot \in 1..15
    /\ MaxInFlight \in Nat \ {0}
    /\ MaxUrbs \in Nat

ChannelFor(e) == 256 * Slot + e

ChannelSession == 0

Ids == 1..MaxUrbs

Keys == {ChannelFor(e) : e \in Endpoints} \X Ids

NoKey == <<ChannelSession, 0>>

Plane ==
    [ table    : SUBSET Keys,             \* RequestTable::_byKey
      nextId   : [Endpoints -> Nat],      \* RequestTable::_nextId, by endpoint
      partial  : SUBSET Keys,             \* _pendingReply and _reasm
      verbs    : SUBSET Keys,             \* _verbs
      nextVerb : Nat ]                    \* _nextVerbId

InitPlane ==
    [ table    |-> {},
      nextId   |-> [e \in Endpoints |-> 1],
      partial  |-> {},
      verbs    |-> {},
      nextVerb |-> 1 ]

CanAdmit(p) == Cardinality(p.table) < MaxInFlight

-------------------------------------------------------------------------------
(* What the bridge asks for *)

RequestKey(p, e) == <<ChannelFor(e), p.nextId[e]>>

\* Mutant: the next request on the endpoint gets the same id.
SubmittedReusingIds(p, e) ==
    [p EXCEPT !.table = @ \cup {RequestKey(p, e)}]

\* A submit whose records all went out.
Submitted(p, e) ==
    [p EXCEPT !.table = @ \cup {RequestKey(p, e)}, !.nextId[e] = @ + 1]

\* One whose records did not: the request is retired, its id is spent.
SubmitFailed(p, e) == [p EXCEPT !.nextId[e] = @ + 1]

VerbKey(p, e) == <<ChannelFor(e), p.nextVerb>>

HaltSent(p, e) ==
    [p EXCEPT !.verbs = @ \cup {VerbKey(p, e)}, !.nextVerb = @ + 1]

HaltFailed(p) == [p EXCEPT !.nextVerb = @ + 1]

Cancelled(p, k) ==
    [p EXCEPT !.table = @ \ {k}, !.partial = @ \ {k}]

-------------------------------------------------------------------------------
(* What the peer's records do: COMPLETE, DATA, CTRL_ACK, ERROR *)

\* What pump() makes of a record.  A COMPLETE nobody waits for is dropped; a DATA
\* that continues no reply in progress is MalformedFrame; an ERROR is fatal.
Verdict(p, r) ==
    CASE r.type = "Complete" -> IF r.key \notin p.table THEN "Drop"
                                ELSE IF r.more THEN "Keep" ELSE "Deliver"
      [] r.type = "Data"     -> IF r.key \notin p.partial THEN "Fatal"
                                ELSE IF r.more THEN "Keep"
                                ELSE IF r.key \in p.table THEN "Deliver" ELSE "Drop"
      [] r.type = "CtrlAck"  -> IF r.key \in p.verbs THEN "Verb" ELSE "Drop"
      [] r.type = "Error"    -> "Fatal"

\* The plane after a record that got this verdict.
Handled(p, r, verdict) ==
    CASE verdict = "Deliver" -> [p EXCEPT !.table = @ \ {r.key}, !.partial = @ \ {r.key}]
      [] verdict = "Keep"    -> [p EXCEPT !.partial = @ \cup {r.key}]
      [] verdict = "Verb"    -> [p EXCEPT !.verbs = @ \ {r.key}]
      [] verdict = "Drop"    -> IF r.type = "Data" /\ ~r.more
                                THEN [p EXCEPT !.partial = @ \ {r.key}] ELSE p
      [] verdict = "Fatal"   -> p

-------------------------------------------------------------------------------
(* Deadlines and teardown *)

\* Mutant: a reply that has begun to arrive is left to arrive.
ExpiredSkipsPartial(p, T, V) ==
    [p EXCEPT !.table = @ \ (T \ p.partial), !.verbs = @ \ V]

\* sweepDeadlines, with the requests and the verbs whose deadline has passed.
Expired(p, T, V) ==
    [p EXCEPT !.table = @ \ T, !.partial = @ \ T, !.verbs = @ \ V]

\* completeAll.
Drained(p) == [p EXCEPT !.table = {}, !.partial = {}, !.verbs = {}]

===============================================================================
