--------------------------- MODULE UdecxDriver_proofs ---------------------------
(***************************************************************************)
(* airusb.sys, for any number of endpoints, URBs, resets, hosts and        *)
(* pumping threads: no transfer of the guest evaporates.                   *)
(*                                                                         *)
(* NothingEvaporates is not inductive by itself.  A URB whose only trace   *)
(* is its running cancel routine must not be marked anew, which is so      *)
(* because only a URB that was handed over (pc) is marked.                 *)
(***************************************************************************)
EXTENDS UdecxDriver, Ops_proofs

Shape ==
    /\ pending \in Seq(Urbs)
    /\ pc \in [Urbs \cup Resets ->
                 {"new", "refused", "admitted", "linked", "handed", "parked", "failed"}]
    /\ mark \in [Urbs -> {"no", "yes", "cancelling", "off"}]

\* Where a URB may be while the guest waits for it, with the machine up or not.
OnAList == Elements(pending) \cup exported \cup claimed

Accounted ==
    \A u \in Delivered \ done :
        pc[u] = "admitted" \/ u \in OnAList \/ mark[u] = "cancelling"

\* KMDF runs the cancel routine of a URB only after its handler has marked it.
MarkedIsHanded == \A u \in Urbs : pc[u] = "handed" \/ mark[u] \in {"no", "off"}

DriverInv == Shape /\ Accounted /\ MarkedIsHanded

-------------------------------------------------------------------------------
(* What most steps do *)

\* A step that moves entries between the lists, or touches none, loses no URB.
LEMMA ListsMoved ==
    ASSUME DriverInv, pending' \in Seq(Urbs), UNCHANGED <<pc, mark>>,
           done \subseteq done', OnAList \subseteq OnAList' \cup done'
    PROVE  DriverInv'
<1>1. Delivered' = Delivered /\ Delivered \subseteq Urbs
  BY DEF Delivered
<1>2. Accounted'
  BY <1>1 DEF DriverInv, Accounted
<1> QED
  BY <1>2 DEF DriverInv, Shape, MarkedIsHanded

\* Nor does one that touches no list, whatever becomes of resets.
LEMMA ListsAlone ==
    ASSUME DriverInv, UNCHANGED <<pending, exported, claimed, done, mark>>,
           pc' \in [Urbs \cup Resets ->
                 {"new", "refused", "admitted", "linked", "handed", "parked", "failed"}],
           \A u \in Urbs : pc'[u] = pc[u]
    PROVE  DriverInv'
<1>1. Delivered' = Delivered /\ Delivered \subseteq Urbs /\ OnAList' = OnAList
  BY DEF Delivered, OnAList
<1>2. Accounted'
  BY <1>1 DEF DriverInv, Accounted
<1> QED
  BY <1>2 DEF DriverInv, Shape, MarkedIsHanded

\* An entry taken off whatever list it is on.
LEMMA UnlinkLeaves ==
    ASSUME Shape, NEW u \in Urbs, Unlink(u)
    PROVE  pending' \in Seq(Urbs) /\ OnAList' = OnAList \ {u}
<1>1. /\ pending' = Without(pending, {u}) /\ exported' = exported \ {u}
      /\ claimed' = claimed \ {u} /\ pending \in Seq(Urbs)
  BY DEF Unlink, Shape
<1>2. pending' \in Seq(Urbs) /\ Elements(pending') = Elements(pending) \ {u}
  BY <1>1, WithoutIs
<1> QED
  BY <1>1, <1>2 DEF OnAList

\* AirUsbRetireAllLocked claims every entry of both lists.
LEMMA RetireAllClaims ==
    ASSUME RetireAllLocked
    PROVE  pending' \in Seq(Urbs) /\ OnAList' = OnAList
<1>1. /\ claimed' = claimed \cup Elements(pending) \cup exported
      /\ pending' = <<>> /\ exported' = {}
  BY DEF RetireAllLocked, DetachedByRetire
<1>2. pending' \in Seq(Urbs) /\ Elements(pending') = {}
  <2>1. <<>> \in Seq(Urbs)
    OBVIOUS
  <2> QED
    BY <2>1, <1>1, ElementsOf
<1> QED
  BY <1>1, <1>2 DEF OnAList

-------------------------------------------------------------------------------
(* The guest's URBs *)

\* EvtIoInternalDeviceControl up to the id.
LEMMA UrbArriveInv == ASSUME DriverInv, NEW u \in Urbs, UrbArrive(u) PROVE DriverInv'
<1>1. /\ UNCHANGED <<lists, kmdf>> /\ pc[u] = "new"
      /\ \/ pc' = [pc EXCEPT ![u] = "refused"]
         \/ pc' = [pc EXCEPT ![u] = "admitted"]
  BY Zenon DEF UrbArrive, Comes
<1>2. Shape /\ UNCHANGED <<pending, exported, claimed, mark, done>> /\ OnAList' = OnAList
  BY <1>1 DEF DriverInv, lists, kmdf, OnAList
<1>3. /\ pc' \in [Urbs \cup Resets ->
                 {"new", "refused", "admitted", "linked", "handed", "parked", "failed"}]
      /\ pc'[u] \in {"refused", "admitted"} /\ \A w \in Urbs \ {u} : pc'[w] = pc[w]
  BY <1>1, <1>2 DEF Shape
<1>4. mark[u] \in {"no", "off"}
  BY <1>1 DEF DriverInv, MarkedIsHanded
<1>5. Accounted'
  BY <1>2, <1>3 DEF DriverInv, Accounted, Delivered
<1>6. MarkedIsHanded'
  BY <1>2, <1>3, <1>4 DEF DriverInv, MarkedIsHanded
<1> QED
  BY <1>2, <1>3, <1>5, <1>6 DEF DriverInv, Shape

\* On the list before it is marked.
LEMMA UrbLinkInv == ASSUME DriverInv, NEW u \in Urbs, UrbLink(u) PROVE DriverInv'
<1>1. /\ pc[u] = "admitted" /\ pc' = [pc EXCEPT ![u] = "linked"]
      /\ pending' = Append(pending, u) /\ UNCHANGED <<exported, claimed, mark, done>>
  BY DEF UrbLink, kmdf
<1>2. Shape
  BY DEF DriverInv
<1>3. pending' \in Seq(Urbs) /\ Elements(pending') = Elements(pending) \cup {u}
  BY <1>1, <1>2, AppendIs DEF Shape
<1>4. OnAList' = OnAList \cup {u}
  BY <1>1, <1>3 DEF OnAList
<1>5. /\ pc' \in [Urbs \cup Resets ->
                 {"new", "refused", "admitted", "linked", "handed", "parked", "failed"}]
      /\ pc'[u] = "linked" /\ \A w \in Urbs \ {u} : pc'[w] = pc[w]
  BY <1>1, <1>2 DEF Shape
<1>6. mark[u] \in {"no", "off"}
  BY <1>1 DEF DriverInv, MarkedIsHanded
<1>7. Accounted'
  BY <1>1, <1>4, <1>5 DEF DriverInv, Accounted, Delivered
<1>8. MarkedIsHanded'
  BY <1>1, <1>5, <1>6 DEF DriverInv, MarkedIsHanded
<1> QED
  BY <1>1, <1>2, <1>3, <1>5, <1>7, <1>8 DEF DriverInv, Shape

\* Marked cancelable, or completed here if the guest was first.
LEMMA UrbMarkInv == ASSUME DriverInv, NEW u \in Urbs, UrbMark(u) PROVE DriverInv'
<1>1. pc[u] = "linked" /\ pc' = [pc EXCEPT ![u] = "handed"]
  BY DEF UrbMark
<1>2. \/ Unlink(u) /\ done' = done \cup {u} /\ UNCHANGED mark
      \/ UNCHANGED lists /\ done' = done \cup {u} /\ UNCHANGED mark
      \/ UNCHANGED lists /\ mark' = [mark EXCEPT ![u] = "yes"] /\ UNCHANGED done
  BY DEF UrbMark, Complete
<1>3. Shape /\ mark[u] \in {"no", "off"} /\ u \in Delivered
  BY <1>1 DEF DriverInv, MarkedIsHanded, Delivered
<1>4. /\ pc' \in [Urbs \cup Resets ->
                 {"new", "refused", "admitted", "linked", "handed", "parked", "failed"}]
      /\ pc'[u] = "handed" /\ \A w \in Urbs \ {u} : pc'[w] = pc[w]
  BY <1>1, <1>3 DEF Shape
<1>5. CASE Unlink(u) /\ done' = done \cup {u} /\ UNCHANGED mark
  <2>1. pending' \in Seq(Urbs) /\ OnAList' = OnAList \ {u}
    BY <1>3, <1>5, UnlinkLeaves
  <2>2. Accounted' /\ MarkedIsHanded'
    BY <2>1, <1>4, <1>5 DEF DriverInv, Accounted, MarkedIsHanded, Delivered
  <2> QED
    BY <2>1, <2>2, <1>3, <1>4, <1>5 DEF DriverInv, Shape
<1>6. CASE UNCHANGED lists /\ done' = done \cup {u} /\ UNCHANGED mark
  <2>1. UNCHANGED pending /\ OnAList' = OnAList
    BY <1>6 DEF lists, OnAList
  <2>2. Accounted' /\ MarkedIsHanded'
    BY <2>1, <1>4, <1>6 DEF DriverInv, Accounted, MarkedIsHanded, Delivered
  <2> QED
    BY <2>1, <2>2, <1>3, <1>4, <1>6 DEF DriverInv, Shape
<1>7. CASE UNCHANGED lists /\ mark' = [mark EXCEPT ![u] = "yes"] /\ UNCHANGED done
  <2>1. UNCHANGED pending /\ OnAList' = OnAList
    BY <1>7 DEF lists, OnAList
  <2>2. /\ mark' \in [Urbs -> {"no", "yes", "cancelling", "off"}]
        /\ \A w \in Urbs \ {u} : mark'[w] = mark[w]
    BY <1>3, <1>7 DEF Shape
  <2>3. Accounted'
    BY <2>1, <2>2, <1>1, <1>3, <1>4, <1>7 DEF DriverInv, Accounted, Delivered
  <2>4. MarkedIsHanded'
    BY <2>2, <1>4 DEF DriverInv, MarkedIsHanded
  <2> QED
    BY <2>1, <2>2, <2>3, <2>4, <1>3, <1>4 DEF DriverInv, Shape
<1> QED
  BY <1>2, <1>5, <1>6, <1>7

\* KMDF calls the cancel routine of the marked ones, and remembers the others.
LEMMA GuestCancelsInv ==
    ASSUME DriverInv, NEW S \in SUBSET Urbs, GuestCancels(S), UNCHANGED <<lists, done, pc>>
    PROVE  DriverInv'
<1>1. mark' = [u \in Urbs |-> IF u \in S /\ mark[u] = "yes" THEN "cancelling" ELSE mark[u]]
  BY DEF GuestCancels
<1>2. Shape
  BY DEF DriverInv
<1>3. /\ mark' \in [Urbs -> {"no", "yes", "cancelling", "off"}]
      /\ \A u \in Urbs : /\ mark[u] \in {"no", "off"} => mark'[u] = mark[u]
                         /\ mark[u] = "cancelling" => mark'[u] = "cancelling"
  BY <1>1, <1>2 DEF Shape
<1>4. OnAList' = OnAList /\ Delivered' = Delivered /\ UNCHANGED pending
  BY DEF lists, OnAList, Delivered
<1>5. Accounted' /\ MarkedIsHanded'
  BY <1>3, <1>4 DEF DriverInv, Accounted, MarkedIsHanded, Delivered
<1> QED
  BY <1>2, <1>3, <1>4, <1>5 DEF DriverInv, Shape

\* A guest that gives up on one URB, or a purge that cancels those of its endpoint.
LEMMA CancelsInv ==
    ASSUME DriverInv,
           (\E u \in Urbs : GuestCancel(u)) \/ (\E e \in Eps : PurgeQueue(e))
    PROVE  DriverInv'
<1>1. \E S \in SUBSET Urbs : GuestCancels(S) /\ UNCHANGED <<lists, done, pc>>
  <2>1. CASE \E u \in Urbs : GuestCancel(u)
    <3>1. PICK u \in Urbs : GuestCancel(u)
      BY <2>1
    <3>2. GuestCancels({u}) /\ UNCHANGED <<lists, done, pc>> /\ {u} \in SUBSET Urbs
      BY <3>1 DEF GuestCancel
    <3> QED
      BY <3>2, Zenon
  <2>2. CASE \E e \in Eps : PurgeQueue(e)
    <3>1. PICK e \in Eps : PurgeQueue(e)
      BY <2>2
    <3>2. /\ GuestCancels((Delivered \cap On(e)) \ done) /\ UNCHANGED <<lists, done, pc>>
          /\ (Delivered \cap On(e)) \ done \in SUBSET Urbs
      BY <3>1 DEF PurgeQueue, Delivered
    <3> QED
      BY <3>2, Zenon
  <2> QED
    BY <2>1, <2>2
<1> QED
  BY <1>1, GuestCancelsInv

\* The cancel routine completes what it owns.
LEMMA EvtRequestCancelInv ==
    ASSUME DriverInv, NEW u \in Urbs, EvtRequestCancel(u)
    PROVE  DriverInv'
<1>1. /\ mark' = [mark EXCEPT ![u] = "off"] /\ done' = done \cup {u}
      /\ Unlink(u) \/ UNCHANGED <<pending, exported, claimed>>
      /\ UNCHANGED pc
  BY DEF EvtRequestCancel
<1>2. Shape
  BY DEF DriverInv
<1>3. pending' \in Seq(Urbs) /\ OnAList \ {u} \subseteq OnAList'
  <2>1. CASE Unlink(u)
    BY <2>1, <1>2, UnlinkLeaves
  <2>2. CASE UNCHANGED <<pending, exported, claimed>>
    BY <2>2, <1>2 DEF Shape, OnAList
  <2> QED
    BY <2>1, <2>2, <1>1
<1>4. /\ mark' \in [Urbs -> {"no", "yes", "cancelling", "off"}]
      /\ mark'[u] = "off" /\ \A w \in Urbs \ {u} : mark'[w] = mark[w]
  BY <1>1, <1>2 DEF Shape
<1>5. Accounted' /\ MarkedIsHanded'
  BY <1>1, <1>3, <1>4 DEF DriverInv, Accounted, MarkedIsHanded, Delivered
<1> QED
  BY <1>1, <1>2, <1>3, <1>4, <1>5 DEF DriverInv, Shape

\* A claimed entry is completed, or left to the cancel routine that owns it.
LEMMA CompleteClaimedInv ==
    ASSUME DriverInv, NEW u \in Urbs, CompleteClaimed(u)
    PROVE  DriverInv'
<1>1. /\ claimed' = claimed \ {u}
      /\ \/ mark[u] = "cancelling" /\ UNCHANGED <<mark, done>>
         \/ mark' = [mark EXCEPT ![u] = "off"] /\ done' = done \cup {u}
      /\ UNCHANGED <<pending, exported, pc>>
  BY DEF CompleteClaimed, Complete
<1>2. Shape /\ OnAList \ {u} \subseteq OnAList'
  BY <1>1 DEF DriverInv, OnAList
<1>3. /\ mark' \in [Urbs -> {"no", "yes", "cancelling", "off"}]
      /\ \A w \in Urbs \ {u} : mark'[w] = mark[w]
      /\ \/ mark'[u] = "cancelling" /\ mark[u] = "cancelling" /\ done' = done
         \/ mark'[u] = "off" /\ done' = done \cup {u}
  BY <1>1, <1>2 DEF Shape
<1>4. Accounted' /\ MarkedIsHanded'
  BY <1>1, <1>2, <1>3 DEF DriverInv, Accounted, MarkedIsHanded, Delivered
<1> QED
  BY <1>1, <1>2, <1>3, <1>4 DEF DriverInv, Shape

-------------------------------------------------------------------------------
(* Lists *)

\* AirUsbEvtDeviceD0Exit.
LEMMA D0ExitInv == ASSUME DriverInv, D0Exit PROVE DriverInv'
<1>1. RetireAllLocked /\ UNCHANGED <<pc, mark, done>>
  BY Zenon DEF D0Exit, kmdf
<1>2. pending' \in Seq(Urbs) /\ OnAList' = OnAList
  BY <1>1, RetireAllClaims
<1> QED
  BY <1>1, <1>2, ListsMoved

\* AirUsbEvtTeardownWork: every entry is claimed, every reset fails.
LEMMA TeardownWorkInv == ASSUME DriverInv, TeardownWork PROVE DriverInv'
<1>1. /\ RetireAllLocked /\ UNCHANGED <<mark, done>>
      /\ pc' = [x \in Urbs \cup Resets |-> IF x \in Parked THEN "failed" ELSE pc[x]]
  BY Zenon DEF TeardownWork, kmdf
<1>2. pending' \in Seq(Urbs) /\ OnAList' = OnAList
  BY <1>1, RetireAllClaims
<1>3. Shape /\ \A u \in Urbs : u \notin Parked
  BY UdecxDriverAssumption DEF DriverInv, Parked
<1>4. /\ pc' \in [Urbs \cup Resets ->
                 {"new", "refused", "admitted", "linked", "handed", "parked", "failed"}]
      /\ \A u \in Urbs : pc'[u] = pc[u]
  BY <1>1, <1>3 DEF Shape
<1>5. Accounted' /\ MarkedIsHanded'
  BY <1>1, <1>2, <1>4 DEF DriverInv, Accounted, MarkedIsHanded, Delivered
<1> QED
  BY <1>1, <1>2, <1>3, <1>4, <1>5 DEF DriverInv, Shape

\* AirUsbEvtEndpointPurge detaches the endpoint's entries, and no others.
LEMMA PurgeDetachInv == ASSUME DriverInv, NEW e \in Eps, PurgeDetach(e) PROVE DriverInv'
<1>1. /\ claimed' = claimed \cup ((Elements(pending) \cup exported) \cap On(e))
      /\ pending' = Without(pending, On(e)) /\ exported' = exported \ On(e)
      /\ UNCHANGED <<pc, mark, done>>
  BY DEF PurgeDetach, kmdf
<1>2. pending \in Seq(Urbs)
  BY DEF DriverInv, Shape
<1>3. pending' \in Seq(Urbs) /\ Elements(pending') = Elements(pending) \ On(e)
  BY <1>1, <1>2, WithoutIs
<1>4. OnAList' = OnAList
  BY <1>1, <1>3 DEF OnAList
<1> QED
  BY <1>1, <1>3, <1>4, ListsMoved

\* A pumping thread takes the head of the list, or finds it empty.
LEMMA PumpTakeUrbInv == ASSUME DriverInv, PumpTakeUrb PROVE DriverInv'
<1>1. /\ UNCHANGED <<pc, mark, done>>
      /\ \/ /\ pending # <<>> /\ pending' = Tail(pending)
            /\ exported' = exported \cup {Head(pending)} /\ UNCHANGED claimed
         \/ UNCHANGED <<pending, exported, claimed>>
  BY DEF PumpTakeUrb, kmdf, lists
<1>2. pending \in Seq(Urbs)
  BY DEF DriverInv, Shape
<1>3. CASE /\ pending # <<>> /\ pending' = Tail(pending)
           /\ exported' = exported \cup {Head(pending)} /\ UNCHANGED claimed
  <2>1. PICK h : h = Head(pending)
    OBVIOUS
  <2>2. pending' \in Seq(Urbs) /\ Elements(pending) = Elements(pending') \cup {h}
    BY <2>1, <1>2, <1>3, TailIs
  <2>3. OnAList' = OnAList
    BY <2>1, <2>2, <1>3 DEF OnAList
  <2> QED
    BY <2>2, <2>3, <1>1, ListsMoved
<1>4. CASE UNCHANGED <<pending, exported, claimed>>
  <2>1. OnAList' = OnAList
    BY <1>4 DEF OnAList
  <2> QED
    BY <2>1, <1>1, <1>2, <1>4, ListsMoved
<1> QED
  BY <1>1, <1>3, <1>4

\* Put back at the head of the list, from wherever a purge has moved it meanwhile.
LEMMA PumpBackInv ==
    ASSUME DriverInv, NEW x \in Urbs \cup Resets, PumpBack(x)
    PROVE  DriverInv'
<1>1. /\ UNCHANGED <<pc, mark, done>>
      /\ \/ /\ x \in Urbs /\ exported' = exported \ {x} /\ claimed' = claimed \ {x}
            /\ pending' = <<x>> \o pending
         \/ UNCHANGED <<pending, exported, claimed>>
  BY DEF PumpBack, kmdf, lists
<1>2. pending \in Seq(Urbs)
  BY DEF DriverInv, Shape
<1>3. CASE /\ x \in Urbs /\ exported' = exported \ {x} /\ claimed' = claimed \ {x}
           /\ pending' = <<x>> \o pending
  <2>1. PICK front : front = <<x>>
    OBVIOUS
  <2>2. front \in Seq(Urbs) /\ Elements(front) = {x} /\ pending' = front \o pending
    BY <2>1, <1>3 DEF Elements
  <2>3. pending' \in Seq(Urbs) /\ Elements(pending') = {x} \cup Elements(pending)
    BY <2>2, <1>2, ConcatIs
  <2>4. OnAList \subseteq OnAList'
    BY <2>3, <1>3 DEF OnAList
  <2> QED
    BY <2>3, <2>4, <1>1, ListsMoved
<1>4. CASE UNCHANGED <<pending, exported, claimed>>
  <2>1. OnAList' = OnAList
    BY <1>4 DEF OnAList
  <2> QED
    BY <2>1, <1>1, <1>2, <1>4, ListsMoved
<1> QED
  BY <1>1, <1>3, <1>4

\* AirUsbHandleCompletion claims the entry, or finds nothing to do.
LEMMA IoctlCompleteInv ==
    ASSUME DriverInv, NEW u \in Urbs, IoctlComplete(u)
    PROVE  DriverInv'
<1>1. /\ UNCHANGED <<pending, pc, mark, done>>
      /\ \/ exported' = exported \ {u} /\ claimed' = claimed \cup {u}
         \/ UNCHANGED <<exported, claimed>>
  BY DEF IoctlComplete, kmdf
<1>2. pending' \in Seq(Urbs) /\ OnAList \subseteq OnAList'
  BY <1>1 DEF DriverInv, Shape, OnAList
<1> QED
  BY <1>1, <1>2, ListsMoved

-------------------------------------------------------------------------------
(* The rest *)

\* Endpoint resets: their handlers and their deadline touch no URB.
LEMMA ResetsInv ==
    ASSUME DriverInv, NEW r \in Resets, ResetArrive(r) \/ ResetPark(r) \/ EvtSweep(r)
    PROVE  DriverInv'
<1>1. /\ UNCHANGED <<pending, exported, claimed, done, mark>>
      /\ \E to \in {"admitted", "refused", "parked", "failed"} : pc' = [pc EXCEPT ![r] = to]
  BY DEF ResetArrive, ResetPark, EvtSweep, kmdf, lists
<1>2. /\ pc' \in [Urbs \cup Resets ->
                 {"new", "refused", "admitted", "linked", "handed", "parked", "failed"}]
      /\ \A u \in Urbs : pc'[u] = pc[u]
  BY <1>1, UdecxDriverAssumption DEF DriverInv, Shape
<1> QED
  BY <1>1, <1>2, ListsAlone

\* Steps about the session, the bus, the endpoints' gates and the inverted call.
Elsewhere ==
    \/ \E e \in Eps : PurgeAsked(e) \/ PurgeComplete(e) \/ EndpointStart(e)
    \/ IoctlBind \/ IoctlPlugIn \/ IoctlPlugOut \/ IoctlFetch \/ FileCleanup
    \/ CleanupPurge \/ CleanupEnd
    \/ TeardownDelete \/ Removed \/ PlugInRecorded
    \/ PumpTakeReset \/ (\E x \in Urbs \cup Resets : PumpGive(x))

LEMMA ElsewhereInv == ASSUME DriverInv, Elsewhere PROVE DriverInv'
<1>1. UNCHANGED <<lists, kmdf, pc>>
  BY Zenon DEF Elsewhere, PurgeAsked, PurgeComplete, EndpointStart, IoctlBind, IoctlPlugIn,
     IoctlPlugOut, IoctlFetch, FileCleanup, CleanupPurge, CleanupEnd, TeardownDelete,
     Removed, PlugInRecorded, PumpTakeReset, PumpGive
<1>2. UNCHANGED <<pending, exported, claimed, done, mark>>
  BY <1>1 DEF lists, kmdf
<1> QED
  BY <1>1, <1>2, ListsAlone DEF DriverInv, Shape

-------------------------------------------------------------------------------
(* The specification *)

LEMMA DriverInvInit == Init => DriverInv
<1> SUFFICES ASSUME Init PROVE DriverInv
  OBVIOUS
<1>1. Shape
  BY DEF Init, Shape
<1>2. Accounted /\ MarkedIsHanded
  BY DEF Init, Accounted, MarkedIsHanded, Delivered
<1> QED
  BY <1>1, <1>2 DEF DriverInv

LEMMA DriverInvNext == DriverInv /\ [Next]_vars => DriverInv'
<1> SUFFICES ASSUME DriverInv, [Next]_vars PROVE DriverInv'
  OBVIOUS
<1>1. CASE UNCHANGED vars
  <2>1. UNCHANGED <<pending, exported, claimed, done, mark, pc>>
    BY <1>1 DEF vars, kmdf, lists
  <2> QED
    BY <2>1, ListsAlone DEF DriverInv, Shape
<1>2. CASE \E u \in Urbs : UrbArrive(u)
  BY <1>2, UrbArriveInv
<1>3. CASE \E u \in Urbs : UrbLink(u)
  BY <1>3, UrbLinkInv
<1>4. CASE \E u \in Urbs : UrbMark(u)
  BY <1>4, UrbMarkInv
<1>5. CASE (\E u \in Urbs : GuestCancel(u)) \/ (\E e \in Eps : PurgeQueue(e))
  BY <1>5, CancelsInv
<1>6. CASE \E u \in Urbs : EvtRequestCancel(u)
  BY <1>6, EvtRequestCancelInv
<1>7. CASE \E u \in Urbs : CompleteClaimed(u)
  BY <1>7, CompleteClaimedInv
<1>8. CASE \E u \in Urbs : IoctlComplete(u)
  BY <1>8, IoctlCompleteInv
<1>9. CASE D0Exit
  BY <1>9, D0ExitInv
<1>10. CASE \E e \in Eps : PurgeDetach(e)
  BY <1>10, PurgeDetachInv
<1>11. CASE PumpTakeUrb
  BY <1>11, PumpTakeUrbInv
<1>12. CASE \E x \in Urbs \cup Resets : PumpBack(x)
  BY <1>12, PumpBackInv
<1>13. CASE \E r \in Resets : ResetArrive(r) \/ ResetPark(r) \/ EvtSweep(r)
  BY <1>13, ResetsInv
<1>14. CASE TeardownWork
  BY <1>14, TeardownWorkInv
<1>15. CASE Elsewhere
  BY <1>15, ElsewhereInv
<1> QED
  BY <1>1, <1>2, <1>3, <1>4, <1>5, <1>6, <1>7, <1>8, <1>9, <1>10, <1>11, <1>12, <1>13,
     <1>14, <1>15, Zenon
     DEF Next, Driver, UrbStep, ResetStep, PumpStep, EndpointStep, TeardownStep, CleanupStep, Guest,
         Host, Elsewhere

\* DriverInv is inductive: it holds in every state of airusb.sys, for any number of
\* endpoints, URBs, hosts that come and go, and threads in AirUsbPumpFetch.
THEOREM DriverInvHolds == Spec => []DriverInv
<1>1. Init => DriverInv
  BY DriverInvInit
<1>2. DriverInv /\ [Next]_vars => DriverInv'
  BY DriverInvNext
<1> QED
  BY <1>1, <1>2, PTL DEF Spec

\* No transfer evaporates: until the guest has its answer a URB is on a list, with the
\* callback that admits it, claimed, or with its cancel routine, however cancels, purges,
\* power-downs, completions and teardowns interleave.
THEOREM NoTransferEvaporates == Spec => []NothingEvaporates
<1>1. DriverInv => NothingEvaporates
  BY DEF DriverInv, Accounted, OnAList, NothingEvaporates
<1> QED
  BY <1>1, DriverInvHolds, PTL

===============================================================================
