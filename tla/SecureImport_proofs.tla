--------------------------- MODULE SecureImport_proofs ---------------------------
(***************************************************************************)
(* The importing half and the session it runs over, which share neither    *)
(* state nor constants.                                                    *)
(*                                                                         *)
(* ImportingHub: what the window says is attached is attached, for every   *)
(* presenter, any number of requests, deadlines and faults.  A call takes  *)
(* the next record for its answer, whoever asked for it, so the argument   *)
(* cannot follow requests.  It follows the grant: while a session lives    *)
(* there is at most one of it on this side, be it an ATTACH_OK not read    *)
(* yet, the id doAttach keeps while it waits for the manifest, or the      *)
(* client's attach id, and it is the attach the exporter holds.  A new one *)
(* is made only after a DETACH was taken, a DETACH is sent only by a       *)
(* client that has the grant, and nothing is sent behind it until the      *)
(* client has forgotten the id.  That a transfer takes no COMPLETE but its *)
(* own follows from the same and from the order of the stream: a COMPLETE  *)
(* behind a grant is of the attach granted, and what was in front of the   *)
(* grant has been read.                                                    *)
(*                                                                         *)
(* SecureSession: what an established end works with was agreed.  The      *)
(* argument is about the two byte streams: what an end has sealed and the  *)
(* other has not taken, be it unwritten, on the wire or read in part, is a *)
(* preamble not read yet and then whole records, and a greeting among them *)
(* says what its writer holds now.  That a session fails only for a cause  *)
(* outside it needs the records numbered: the n-th record that an end      *)
(* seals is a handshake message under the hash of its turn, the greeting,  *)
(* or data sealed with the nonce that its number tells, and the other end  *)
(* is waiting for exactly that number.                                     *)
(***************************************************************************)
EXTENDS ImportingHub, SecureSession, FiniteSetTheorems, SequenceTheorems, TLAPS

-------------------------------------------------------------------------------
(* The importing hub: the inductive invariant *)

Requests ==
    [type : {"Ping", "List", "Attach", "Detach", "Submit", "ClearHalt"},
     rid : Nat, attachId : Nat]

Replies ==
    [type : {"Pong", "NotPaired", "List", "Refused", "AttachOk", "Manifest", "DetachOk",
             "Complete", "CtrlAck"},
     rid : Nat, id : Nat]

Grants == {r \in Replies : Granted(r)}
Detaches == {m \in Requests : m.type = "Detach"}

Calls ==
    {NoOp}
    \cup [kind : {"Ping"}, rid : Nat, then : {"TickPing", "User"}]
    \cup [kind : {"List"}, rid : Nat, then : {"TickList", "Connect", "Approve", "User"}]
    \cup [kind : {"Attach"}, rid : Nat, then : {"Attach"}]
    \cup [kind : {"Manifest"}, rid : Nat, then : {"Attach"}, id : Nat]
    \cup [kind : {"Detach"}, rid : Nat, then : {"GiveBack", "Detach", "Disconnect"}]
    \cup [kind : {"Submit", "ClearHalt"}, rid : Nat, then : {"Port"}]

HubTyped ==
    /\ client \in [open : BOOLEAN, rid : Nat, attachId : Nat]
    /\ port \in [kind : {"None"} \cup Presenters, attachId : Nat, rid : Nat, out : SUBSET Nat]
    /\ op \in Calls

PeerTyped ==
    /\ exp \in [open : BOOLEAN, paired : BOOLEAN, held : Nat, last : Nat, owed : SUBSET Replies]
    /\ accepted \in BOOLEAN
    /\ exp.held # 0 => exp.paired
    /\ IsFiniteSet(exp.owed)
    /\ exp.owed \cap Grants = {}

NetTyped == up \in Seq(Requests) /\ down \in Seq(Replies)

\* The positions of a stream that hold a record of X, and the records found there.
At(s, X) == {i \in 1..Len(s) : s[i] \in X}

Found(s, X) == {s[i] : i \in At(s, X)}

AtMostOne(s, X) == \A i, j \in At(s, X) : i = j

EndsWith(s, X) == s # <<>> /\ s[Len(s)] \in X

\* The grant, and where on this side it is.
GrantUnread ==
    /\ AtMostOne(down, Grants)
    /\ \A r \in Found(down, Grants) : r.id = exp.held
    /\ Found(down, Grants) # {} =>
          client.attachId = 0 /\ op.kind # "Manifest" /\ Found(up, Detaches) = {}

GrantHalfTaken ==
    op.kind = "Manifest" =>
        /\ op.id = exp.held /\ op.id # 0
        /\ client.attachId = 0 /\ Found(up, Detaches) = {}

GrantTaken ==
    client.attachId # 0 /\ op.kind # "Detach" =>
        client.attachId = exp.held /\ Found(up, Detaches) = {}

\* A DETACH under way: the last thing said while its sender waits, and nothing is
\* behind it when the exporter has taken it.
GivingBack ==
    /\ AtMostOne(up, Detaches)
    /\ Found(up, Detaches) # {} => exp.held # 0
    /\ op.kind = "Detach" =>
          /\ client.attachId # 0
          /\ \/ up = <<>> /\ exp.held = 0
             \/ EndsWith(up, Detaches)
          /\ op.then = "GiveBack" => state # "Attached"

Presented ==
    state = "Attached" =>
        client.attachId # 0 /\ (op.kind = "Detach" \/ port.attachId = client.attachId)

SessionInv ==
    exp.open =>
        /\ client.open
        /\ GrantUnread /\ GrantHalfTaken /\ GrantTaken /\ GivingBack /\ Presented

\* A hub with no session has nothing under way.
NoSessionInv ==
    /\ state = "Off" => ~client.open
    /\ ~client.open => op = NoOp /\ state # "Attached" /\ up = <<>> /\ ~exp.open

\* The inductive invariant.
ImportingInv ==
    /\ HubTyped /\ PeerTyped /\ NetTyped
    /\ SessionInv /\ NoSessionInv

-------------------------------------------------------------------------------
(* Records found in a stream *)

LEMMA FoundNone ==
    ASSUME NEW X
    PROVE  Found(<<>>, X) = {} /\ AtMostOne(<<>>, X)
  BY DEF Found, At, AtMostOne

\* The reader takes the head.
LEMMA FoundTail ==
    ASSUME NEW S, NEW s \in Seq(S), NEW X, s # <<>>
    PROVE  /\ Head(s) \in S /\ Tail(s) \in Seq(S)
           /\ Head(s) \in X => Head(s) \in Found(s, X)
           /\ Found(Tail(s), X) \subseteq Found(s, X)
           /\ AtMostOne(s, X) => AtMostOne(Tail(s), X)
           /\ AtMostOne(s, X) /\ Head(s) \in X => Found(Tail(s), X) = {}
           /\ EndsWith(s, X) /\ Head(s) \notin X => EndsWith(Tail(s), X)
           /\ EndsWith(s, X) /\ Head(s) \in X /\ AtMostOne(s, X) => Tail(s) = <<>>
<1>1. /\ Len(s) \in Nat /\ Len(s) # 0 /\ Head(s) = s[1] /\ Head(s) \in S
      /\ Tail(s) \in Seq(S) /\ Len(Tail(s)) = Len(s) - 1
      /\ \A i \in 1..(Len(s) - 1) : Tail(s)[i] = s[i + 1]
  OBVIOUS
<1>2. 1 \in 1..Len(s) /\ Len(s) \in 1..Len(s)
  BY <1>1
<1>0. Tail(s) = <<>> <=> Len(Tail(s)) = 0
  <2>1. PICK t \in Seq(S) : t = Tail(s)
    BY <1>1
  <2>2. t = <<>> <=> Len(t) = 0
    OBVIOUS
  <2> QED
    BY <2>1, <2>2
<1>3. ASSUME NEW i \in At(Tail(s), X)
      PROVE  i \in Nat /\ i # 0 /\ i + 1 \in At(s, X) /\ Tail(s)[i] = s[i + 1]
  <2>1. i \in 1..(Len(s) - 1) /\ Tail(s)[i] \in X
    BY <1>1, <1>3 DEF At
  <2>2. i + 1 \in 1..Len(s)
    BY <2>1, <1>1
  <2> QED
    BY <2>1, <2>2, <1>1 DEF At
<1>4. Head(s) \in X => 1 \in At(s, X) /\ Head(s) \in Found(s, X)
  BY <1>1, <1>2 DEF At, Found
<1>5. Found(Tail(s), X) \subseteq Found(s, X)
  BY <1>3 DEF Found
<1>6. AtMostOne(s, X) => AtMostOne(Tail(s), X)
  BY <1>3 DEF AtMostOne
<1>7. ASSUME AtMostOne(s, X), Head(s) \in X PROVE At(Tail(s), X) = {}
  <2> SUFFICES ASSUME NEW i \in At(Tail(s), X) PROVE FALSE
    OBVIOUS
  <2>1. i + 1 = 1
    BY <1>3, <1>4, <1>7 DEF AtMostOne
  <2> QED
    BY <2>1, <1>3
<1>8. ASSUME EndsWith(s, X), Head(s) \notin X PROVE EndsWith(Tail(s), X)
  <2>1. Len(s) # 1
    BY <1>1, <1>8 DEF EndsWith
  <2>2. Len(s) - 1 \in 1..(Len(s) - 1) /\ Tail(s)[Len(s) - 1] = s[Len(s)]
    BY <2>1, <1>1
  <2>3. Tail(s) # <<>>
    BY <2>1, <1>0, <1>1
  <2> QED
    BY <2>2, <2>3, <1>1, <1>8 DEF EndsWith
<1>9. ASSUME EndsWith(s, X), Head(s) \in X, AtMostOne(s, X) PROVE Tail(s) = <<>>
  <2>1. Len(s) \in At(s, X)
    BY <1>2, <1>9 DEF EndsWith, At
  <2>2. Len(s) = 1
    BY <2>1, <1>4, <1>9 DEF AtMostOne
  <2> QED
    BY <2>2, <1>0, <1>1
<1> QED
  BY <1>1, <1>4, <1>5, <1>6, <1>7, <1>8, <1>9 DEF Found

\* The writer adds records behind those that are there.
LEMMA FoundConcat ==
    ASSUME NEW S, NEW s \in Seq(S), NEW t \in Seq(S), NEW X
    PROVE  /\ s \o t \in Seq(S)
           /\ Found(s \o t, X) = Found(s, X) \cup Found(t, X)
           /\ AtMostOne(s, X) /\ Found(t, X) = {} => AtMostOne(s \o t, X)
           /\ Found(s, X) = {} /\ AtMostOne(t, X) => AtMostOne(s \o t, X)
<1>1. /\ Len(s) \in Nat /\ Len(t) \in Nat
      /\ s \o t \in Seq(S) /\ Len(s \o t) = Len(s) + Len(t)
      /\ \A i \in 1..(Len(s) + Len(t)) :
            (s \o t)[i] = IF i <= Len(s) THEN s[i] ELSE t[i - Len(s)]
  OBVIOUS
<1>2. ASSUME NEW i \in At(s \o t, X)
      PROVE  \/ i \in At(s, X) /\ (s \o t)[i] = s[i]
             \/ i - Len(s) \in At(t, X) /\ (s \o t)[i] = t[i - Len(s)] /\ i \in Nat
  <2>1. i \in 1..(Len(s) + Len(t)) /\ (s \o t)[i] \in X
    BY <1>1 DEF At
  <2>2. CASE i <= Len(s)
    BY <2>1, <2>2, <1>1 DEF At
  <2>3. CASE ~(i <= Len(s))
    <3>1. i - Len(s) \in 1..Len(t) /\ (s \o t)[i] = t[i - Len(s)]
      BY <2>1, <2>3, <1>1
    <3> QED
      BY <3>1, <2>1 DEF At
  <2> QED
    BY <2>2, <2>3
<1>3. ASSUME NEW i \in At(s, X) PROVE i \in At(s \o t, X) /\ (s \o t)[i] = s[i]
  <2>1. i \in 1..Len(s) /\ s[i] \in X
    BY DEF At
  <2>2. i \in 1..(Len(s) + Len(t)) /\ (s \o t)[i] = s[i]
    BY <2>1, <1>1
  <2> QED
    BY <2>1, <2>2, <1>1 DEF At
<1>4. ASSUME NEW i \in At(t, X)
      PROVE  i + Len(s) \in At(s \o t, X) /\ (s \o t)[i + Len(s)] = t[i]
  <2>1. i \in 1..Len(t) /\ t[i] \in X
    BY DEF At
  <2>2. i + Len(s) \in 1..(Len(s) + Len(t)) /\ (s \o t)[i + Len(s)] = t[i]
    BY <2>1, <1>1
  <2> QED
    BY <2>1, <2>2, <1>1 DEF At
<1>5. Found(s \o t, X) \subseteq Found(s, X) \cup Found(t, X)
  BY <1>2 DEF Found
<1>6. Found(s, X) \subseteq Found(s \o t, X)
  BY <1>3 DEF Found
<1>7. Found(t, X) \subseteq Found(s \o t, X)
  BY <1>4 DEF Found
<1>8. ASSUME AtMostOne(s, X), Found(t, X) = {} PROVE AtMostOne(s \o t, X)
  <2>1. At(t, X) = {}
    BY <1>8 DEF Found
  <2> QED
    BY <2>1, <1>2, <1>8 DEF AtMostOne
<1>9. ASSUME AtMostOne(t, X), Found(s, X) = {} PROVE AtMostOne(s \o t, X)
  <2>1. At(s, X) = {}
    BY <1>9 DEF Found
  <2> SUFFICES ASSUME NEW i \in At(s \o t, X), NEW j \in At(s \o t, X) PROVE i = j
    BY DEF AtMostOne
  <2>2. i \in Nat /\ j \in Nat /\ i - Len(s) = j - Len(s)
    BY <2>1, <1>2, <1>9 DEF AtMostOne
  <2> QED
    BY <2>2, <1>1
<1> QED
  BY <1>1, <1>5, <1>6, <1>7, <1>8, <1>9

LEMMA FoundOne ==
    ASSUME NEW S, NEW x \in S, NEW X
    PROVE  /\ <<x>> \in Seq(S) /\ Found(<<x>>, X) = {x} \cap X
           /\ AtMostOne(<<x>>, X)
<1>1. <<x>> \in Seq(S) /\ Len(<<x>>) = 1 /\ <<x>>[1] = x
  OBVIOUS
<1>2. \A i \in 1..1 : i = 1
  OBVIOUS
<1> QED
  BY <1>1, <1>2 DEF Found, At, AtMostOne

LEMMA FoundAppend ==
    ASSUME NEW S, NEW s \in Seq(S), NEW x \in S, NEW X
    PROVE  /\ Append(s, x) \in Seq(S)
           /\ Found(Append(s, x), X) = Found(s, X) \cup ({x} \cap X)
           /\ AtMostOne(s, X) /\ x \notin X => AtMostOne(Append(s, x), X)
           /\ Found(s, X) = {} => AtMostOne(Append(s, x), X)
           /\ x \in X => EndsWith(Append(s, x), X)
<1>1. Append(s, x) = s \o <<x>>
  OBVIOUS
<1>2. <<x>> \in Seq(S) /\ Found(<<x>>, X) = {x} \cap X /\ AtMostOne(<<x>>, X)
  BY FoundOne
<1>3. Append(s, x) # <<>> /\ Append(s, x)[Len(Append(s, x))] = x
  OBVIOUS
<1>4. PICK t \in Seq(S) : t = <<x>>
  BY <1>2
<1>5. /\ s \o t \in Seq(S)
      /\ Found(s \o t, X) = Found(s, X) \cup Found(t, X)
      /\ AtMostOne(s, X) /\ Found(t, X) = {} => AtMostOne(s \o t, X)
      /\ Found(s, X) = {} /\ AtMostOne(t, X) => AtMostOne(s \o t, X)
  BY FoundConcat
<1> QED
  BY <1>1, <1>2, <1>3, <1>4, <1>5 DEF EndsWith

LEMMA FoundPair ==
    ASSUME NEW S, NEW X, NEW x \in S \cap X, NEW y \in S \ X
    PROVE  /\ <<x, y>> \in Seq(S) /\ Found(<<x, y>>, X) = {x}
           /\ AtMostOne(<<x, y>>, X)
<1>1. <<x, y>> \in Seq(S) /\ Len(<<x, y>>) = 2 /\ <<x, y>>[1] = x /\ <<x, y>>[2] = y
  OBVIOUS
<1>2. \A i \in 1..2 : i = 1 \/ i = 2
  OBVIOUS
<1>3. At(<<x, y>>, X) = {1}
  BY <1>1, <1>2 DEF At
<1> QED
  BY <1>1, <1>3 DEF Found, AtMostOne

LEMMA FoundLast ==
    ASSUME NEW S, NEW s \in Seq(S), NEW X, EndsWith(s, X)
    PROVE  Found(s, X) # {}
<1>1. Len(s) \in 1..Len(s)
  BY DEF EndsWith
<1>2. Len(s) \in At(s, X)
  BY <1>1 DEF EndsWith, At
<1> QED
  BY <1>2 DEF Found

\* A stream cut short.
LEMMA FoundPrefix ==
    ASSUME NEW S, NEW s \in Seq(S), NEW X, NEW n \in 0..Len(s)
    PROVE  /\ SubSeq(s, 1, n) \in Seq(S)
           /\ Found(SubSeq(s, 1, n), X) \subseteq Found(s, X)
           /\ AtMostOne(s, X) => AtMostOne(SubSeq(s, 1, n), X)
<1>1. /\ Len(s) \in Nat /\ n \in Nat /\ n <= Len(s)
      /\ \A i \in 1..n : i \in 1..Len(s)
  OBVIOUS
<1>2. /\ SubSeq(s, 1, n) \in Seq(S) /\ Len(SubSeq(s, 1, n)) = n
      /\ \A i \in 1..n : SubSeq(s, 1, n)[i] = s[i]
  BY <1>1
<1>3. \A i \in At(SubSeq(s, 1, n), X) : i \in At(s, X) /\ SubSeq(s, 1, n)[i] = s[i]
  BY <1>1, <1>2 DEF At
<1> QED
  BY <1>2, <1>3 DEF Found, AtMostOne

\* What a DETACH flushes, in some order.
LEMMA FoundFlushed ==
    ASSUME NEW S, NEW T \in SUBSET S, IsFiniteSet(T), NEW X, T \cap X = {}
    PROVE  SetToSeq(T) \in Seq(S) /\ Found(SetToSeq(T), X) = {}
<1>1. PICK n \in Nat : n = Cardinality(T)
  BY FS_CardinalityType
<1>2. PICK f : f \in Bijection(1..n, T)
  BY <1>1, FS_CardinalityType DEF ExistsBijection
<1>3. f \in [1..n -> T] /\ IsInjective(f)
  BY <1>2 DEF Bijection, Injection, IsInjective
<1>4. SetToSeq(T) \in [1..n -> T]
  BY <1>1, <1>3 DEF SetToSeq
<1>5. SetToSeq(T) \in Seq(T) /\ SetToSeq(T) \in Seq(S)
  BY <1>1, <1>4
<1>6. Len(SetToSeq(T)) \in Nat /\ \A i \in 1..Len(SetToSeq(T)) : SetToSeq(T)[i] \in T
  BY <1>5
<1> QED
  BY <1>5, <1>6 DEF Found, At

-------------------------------------------------------------------------------
(* Steps of this side *)

\* A call is known by what follows it.
LEMMA CallsAre ==
    ASSUME NEW o \in Calls
    PROVE  /\ o = NoOp <=> o.kind = "None"
           /\ o # NoOp => /\ o.kind = "Detach" <=> o.then \in {"GiveBack", "Detach", "Disconnect"}
                          /\ o.then = "Attach" <=> o.kind \in {"Attach", "Manifest"}
                          /\ o.then = "Port" <=> o.kind \in {"Submit", "ClearHalt"}
                          /\ o.then = "TickPing" => o.kind = "Ping"
                          /\ o.then \in {"TickPing", "TickList", "Connect", "Approve", "User",
                                         "Attach", "GiveBack", "Detach", "Disconnect", "Port"}
           /\ o # NoOp => o.rid \in Nat
           /\ o.kind = "Manifest" => o.id \in Nat
  BY DEF Calls, NoOp

LEMMA NextRid == ASSUME NEW n \in Nat PROVE (n + 1) % Ids \in Nat
<1>1. Ids \in Nat /\ Ids > 0
  BY ImportingAssumption
<1> QED
  BY <1>1

LEMMA NoneTyped ==
    /\ NoClient \in [open : BOOLEAN, rid : Nat, attachId : Nat]
    /\ NoClient.open = FALSE /\ NoClient.attachId = 0
    /\ NoPort \in [kind : {"None"} \cup Presenters, attachId : Nat, rid : Nat, out : SUBSET Nat]
    /\ NoOp \in Calls /\ NoOp.kind = "None"
    /\ NoSession \in [open : BOOLEAN, paired : BOOLEAN, held : Nat, last : Nat,
                      owed : SUBSET Replies]
  BY DEF NoClient, NoPort, NoOp, Calls, NoSession

LEMMA ImportingInvInit == Init => ImportingInv
<1> SUFFICES ASSUME Init PROVE ImportingInv
  OBVIOUS
<1>1. HubTyped
  BY NoneTyped DEF Init, HubTyped
<1>2. PeerTyped
  <2>1. exp.owed = {} /\ exp.held = 0
    BY DEF Init, NoSession
  <2> QED
    BY <2>1, NoneTyped, FS_EmptySet DEF Init, PeerTyped
<1>3. NetTyped
  BY DEF Init, NetTyped
<1>4. ~exp.open /\ ~client.open /\ up = <<>> /\ op = NoOp /\ state # "Attached"
  BY NoneTyped DEF Init, NoSession
<1> QED
  BY <1>1, <1>2, <1>3, <1>4 DEF ImportingInv, SessionInv, NoSessionInv

\* No record is added to what there is to read.
ReadOn ==
    /\ down' \in Seq(Replies)
    /\ Found(down', Grants) \subseteq Found(down, Grants)
    /\ AtMostOne(down, Grants) => AtMostOne(down', Grants)

LEMMA ReadOnIs ==
    ASSUME NetTyped, down' = down \/ (down # <<>> /\ down' = Tail(down)) \/ Delivered
    PROVE  ReadOn
<1>1. CASE down' = down
  BY <1>1 DEF ReadOn, NetTyped
<1>2. CASE down # <<>> /\ down' = Tail(down)
  <2>1. PICK d \in Seq(Replies) : d = down
    BY DEF NetTyped
  <2> QED
    BY <1>2, <2>1, FoundTail DEF ReadOn
<1>3. CASE Delivered
  <2>1. PICK d \in Seq(Replies) : d = down
    BY DEF NetTyped
  <2>2. PICK n \in 0..Len(d) : down' = SubSeq(d, 1, n)
    BY <1>3, <2>1 DEF Delivered
  <2> QED
    BY <2>1, <2>2, FoundPrefix DEF ReadOn
<1> QED
  BY <1>1, <1>2, <1>3

\* What is said in between leaves the DETACH under way alone.
LEMMA SaidIs ==
    ASSUME NetTyped, up' = up \/ \E m \in Requests \ Detaches : up' = Append(up, m)
    PROVE  /\ up' \in Seq(Requests) /\ Found(up', Detaches) = Found(up, Detaches)
           /\ AtMostOne(up, Detaches) => AtMostOne(up', Detaches)
<1>1. CASE up' = up
  BY <1>1 DEF NetTyped
<1>2. CASE \E m \in Requests \ Detaches : up' = Append(up, m)
  <2>1. PICK u \in Seq(Requests) : u = up
    BY DEF NetTyped
  <2>2. PICK m \in Requests \ Detaches : up' = Append(u, m)
    BY <1>2, <2>1
  <2>3. /\ Append(u, m) \in Seq(Requests)
        /\ Found(Append(u, m), Detaches) = Found(u, Detaches) \cup ({m} \cap Detaches)
        /\ AtMostOne(u, Detaches) /\ m \notin Detaches => AtMostOne(Append(u, m), Detaches)
    BY FoundAppend
  <2> QED
    BY <2>1, <2>2, <2>3
<1> QED
  BY <1>1, <1>2

\* A step that reads, says or finishes anything but an attach or a detach.
LEMMA StepInv ==
    ASSUME ImportingInv, ReadOn,
           op.kind # "Detach", op' \in Calls, op'.kind \notin {"Detach", "Manifest"},
           client.open \/ op' = NoOp,
           client' \in [open : BOOLEAN, rid : Nat, attachId : Nat],
           client'.open = client.open, client'.attachId = client.attachId,
           port' \in [kind : {"None"} \cup Presenters, attachId : Nat, rid : Nat,
                      out : SUBSET Nat],
           state' = "Attached" => state = "Attached" /\ port'.attachId = port.attachId,
           state' = "Off" => state = "Off",
           \/ up' = up
           \/ client.open /\ \E m \in Requests \ Detaches : up' = Append(up, m),
           exp' = exp, accepted' = accepted
    PROVE  ImportingInv'
<1> USE DEF ImportingInv
<1>1. HubTyped'
  BY DEF HubTyped
<1>2. PeerTyped'
  BY DEF PeerTyped
<1>4. up' \in Seq(Requests) /\ Found(up', Detaches) = Found(up, Detaches)
      /\ (AtMostOne(up, Detaches) => AtMostOne(up', Detaches))
  BY SaidIs
<1>5. NetTyped'
  BY <1>4 DEF NetTyped, ReadOn
<1>6. NoSessionInv'
  BY DEF NoSessionInv, HubTyped, PeerTyped
<1>7. ASSUME exp.open PROVE (client.open /\ GrantUnread /\ GrantHalfTaken /\ GrantTaken
                             /\ GivingBack /\ Presented)'
  <2>0. client.open /\ GrantUnread /\ GrantHalfTaken /\ GrantTaken /\ GivingBack /\ Presented
    BY <1>7 DEF SessionInv
  <2>1. GrantUnread'
    BY <2>0, <1>4 DEF GrantUnread, ReadOn
  <2>2. GrantHalfTaken'
    BY DEF GrantHalfTaken
  <2>3. GrantTaken'
    BY <2>0, <1>4 DEF GrantTaken
  <2>4. GivingBack'
    BY <2>0, <1>4 DEF GivingBack
  <2>5. Presented'
    BY <2>0 DEF Presented
  <2> QED
    BY <2>0, <2>1, <2>2, <2>3, <2>4, <2>5
<1>8. SessionInv'
  BY <1>7 DEF SessionInv
<1> QED
  BY <1>1, <1>2, <1>5, <1>6, <1>8

\* The end of a session, on either side, takes all obligations with it.
LEMMA EndedInv ==
    ASSUME ImportingInv, HubTyped', NetTyped',
           exp' = [exp EXCEPT !.open = FALSE], accepted' \in BOOLEAN,
           \/ up' = <<>> /\ op' = NoOp /\ state' # "Attached" /\ ~client'.open
           \/ UNCHANGED <<state, client, op, up>>
    PROVE  ImportingInv'
<1> USE DEF ImportingInv
<1>1. PeerTyped'
  <2>1. exp'.owed = exp.owed /\ exp'.held = exp.held /\ exp'.paired = exp.paired
    BY DEF PeerTyped
  <2> QED
    BY <2>1 DEF PeerTyped
<1>2. ~exp'.open
  BY DEF PeerTyped
<1> QED
  BY <1>1, <1>2 DEF SessionInv, NoSessionInv

-------------------------------------------------------------------------------
(* Calls and what follows them *)

\* ImporterClient::call says one request.
LEMMA CallIs ==
    ASSUME NEW cl \in [open : BOOLEAN, rid : Nat, attachId : Nat],
           NEW kind \in {"Ping", "List", "Attach", "Detach"}, NEW then, Call(cl, kind, then)
    PROVE  /\ client' \in [open : BOOLEAN, rid : Nat, attachId : Nat]
           /\ client'.open = cl.open /\ client'.attachId = cl.attachId
           /\ \E rid \in Nat : op' = [kind |-> kind, rid |-> rid, then |-> then]
           /\ \/ up' = up /\ ~exp.open
              \/ \E m \in Requests : m.type = kind /\ up' = Append(up, m)
<1>1. PICK rid \in Nat : rid = (cl.rid + 1) % Ids
  BY NextRid
<1>2. /\ client' = [cl EXCEPT !.rid = rid]
      /\ op' = [kind |-> kind, rid |-> rid, then |-> then]
      /\ up' = IF exp.open \/ ~client.open
               THEN Append(up, [type |-> kind, rid |-> rid, attachId |-> cl.attachId]) ELSE up
  BY <1>1 DEF Call
<1>3. [type |-> kind, rid |-> rid, attachId |-> cl.attachId] \in Requests
  BY DEF Requests
<1> QED
  BY <1>2, <1>3

\* A call that is neither an attach nor a detach, or a return, in a session that stays.
LEMMA CallStepInv ==
    ASSUME ImportingInv, ReadOn, client.open, op.kind # "Detach",
           NEW kind \in {"Ping", "List", "Attach"}, NEW then,
           \A rid \in Nat : [kind |-> kind, rid |-> rid, then |-> then] \in Calls,
           Call(client, kind, then),
           port' = port, exp' = exp, accepted' = accepted,
           state' \in {"Attached", "Off"} => state' = state
    PROVE  ImportingInv'
<1>1. client \in [open : BOOLEAN, rid : Nat, attachId : Nat]
      /\ port \in [kind : {"None"} \cup Presenters, attachId : Nat, rid : Nat, out : SUBSET Nat]
  BY DEF ImportingInv, HubTyped
<1>2. /\ client' \in [open : BOOLEAN, rid : Nat, attachId : Nat]
      /\ client'.open = client.open /\ client'.attachId = client.attachId
      /\ \E rid \in Nat : op' = [kind |-> kind, rid |-> rid, then |-> then]
      /\ \/ up' = up
         \/ \E m \in Requests : m.type = kind /\ up' = Append(up, m)
  BY <1>1, CallIs, ZenonT(60)
<1>3. op' \in Calls /\ op'.kind \notin {"Detach", "Manifest"}
  BY <1>2
<1>4. \/ up' = up
      \/ client.open /\ \E m \in Requests \ Detaches : up' = Append(up, m)
  BY <1>2 DEF Detaches
<1> QED
  BY <1>1, <1>2, <1>3, <1>4, StepInv

LEMMA ReturnInv ==
    ASSUME ImportingInv, ReadOn, op.kind # "Detach", op' = NoOp, client' = client,
           port' = port, up' = up, exp' = exp, accepted' = accepted,
           state' \in {"Attached", "Off"} => state' = state
    PROVE  ImportingInv'
<1>1. client \in [open : BOOLEAN, rid : Nat, attachId : Nat]
      /\ port \in [kind : {"None"} \cup Presenters, attachId : Nat, rid : Nat, out : SUBSET Nat]
  BY DEF ImportingInv, HubTyped
<1> QED
  BY <1>1, NoneTyped, StepInv

\* importDropSession.
LEMMA DropInv ==
    ASSUME ImportingInv, DropsSession, down' = <<>>, state' # "Attached",
           accepted' = accepted
    PROVE  ImportingInv'
<1>1. HubTyped'
  BY NoneTyped DEF DropsSession, HubTyped
<1>2. NetTyped'
  BY DEF DropsSession, NetTyped
<1> QED
  BY <1>1, <1>2, NoneTyped, EndedInv DEF DropsSession, ImportingInv, PeerTyped

\* doAttach has read the grant, and waits for the manifest.
LEMMA GrantReadInv ==
    ASSUME ImportingInv, op.kind = "Attach", down # <<>>, Head(down) \in Grants,
           AfterAttach("Ok", Head(down)), down' = Tail(down), accepted' = accepted
    PROVE  ImportingInv'
<1> USE DEF ImportingInv
<1>0. PICK d \in Seq(Replies) : d = down
  BY DEF NetTyped
<1>1. /\ Head(d) \in Replies /\ Head(d) \in Found(d, Grants)
      /\ Tail(d) \in Seq(Replies)
      /\ AtMostOne(d, Grants) => Found(Tail(d), Grants) = {} /\ AtMostOne(Tail(d), Grants)
  BY <1>0, FoundTail
<1>2. /\ op' = [kind |-> "Manifest", rid |-> op.rid, then |-> "Attach", id |-> Head(d).id]
      /\ UNCHANGED <<state, client, port, exp, up>>
  BY <1>0 DEF AfterAttach
<1>3. op.rid \in Nat /\ op # NoOp
  BY CallsAre, NoneTyped DEF HubTyped
<1>4. op' \in Calls /\ op'.kind = "Manifest" /\ op'.id = Head(d).id
  <2>1. Head(d).id \in Nat
    BY <1>1 DEF Replies
  <2> QED
    BY <1>2, <1>3, <2>1 DEF Calls
<1>5. HubTyped' /\ PeerTyped'
  BY <1>2, <1>4 DEF HubTyped, PeerTyped
<1>6. NetTyped'
  BY <1>0, <1>1, <1>2 DEF NetTyped
<1>7. NoSessionInv'
  BY <1>2, <1>3 DEF NoSessionInv
<1>8. ASSUME exp.open PROVE (client.open /\ GrantUnread /\ GrantHalfTaken /\ GrantTaken
                             /\ GivingBack /\ Presented)'
  <2>0. client.open /\ GrantUnread /\ GrantHalfTaken /\ GrantTaken /\ GivingBack /\ Presented
    BY <1>8 DEF SessionInv
  <2>1. Found(down', Grants) = {} /\ AtMostOne(down', Grants)
    BY <2>0, <1>0, <1>1 DEF GrantUnread
  <2>2. /\ client.attachId = 0 /\ Found(up, Detaches) = {}
        /\ Head(d).id = exp.held
    BY <2>0, <1>0, <1>1 DEF GrantUnread
  <2>3. Head(d).id # 0
    BY <1>0 DEF Grants, Granted
  <2>4. GrantUnread'
    BY <2>1 DEF GrantUnread
  <2>5. GrantHalfTaken'
    BY <2>2, <2>3, <1>2, <1>4 DEF GrantHalfTaken
  <2>6. GrantTaken'
    BY <2>2, <1>2 DEF GrantTaken
  <2>7. GivingBack'
    BY <2>0, <1>2, <1>4 DEF GivingBack
  <2>8. Presented'
    BY <2>0, <2>2, <1>2 DEF Presented
  <2> QED
    BY <2>0, <2>4, <2>5, <2>6, <2>7, <2>8, <1>2
<1>9. SessionInv'
  BY <1>8, <1>2 DEF SessionInv
<1> QED
  BY <1>5, <1>6, <1>7, <1>9

\* The manifest has come and a presenter took the device.
LEMMA PresentedInv ==
    ASSUME ImportingInv, op.kind = "Manifest", ReadOn,
           NEW p \in Presenters, port' = [NoPort EXCEPT !.kind = p, !.attachId = op.id],
           state' = "Attached", op' = NoOp, client' = [client EXCEPT !.attachId = op.id],
           up' = up, exp' = exp, accepted' = accepted
    PROVE  ImportingInv'
<1> USE DEF ImportingInv
<1>1. op.id \in Nat /\ op # NoOp
  BY CallsAre, NoneTyped DEF HubTyped
<1>2. /\ client' \in [open : BOOLEAN, rid : Nat, attachId : Nat]
      /\ client'.open = client.open /\ client'.attachId = op.id
  BY <1>1 DEF HubTyped
<1>3. /\ port' \in [kind : {"None"} \cup Presenters, attachId : Nat, rid : Nat, out : SUBSET Nat]
      /\ port'.attachId = op.id
  BY <1>1 DEF NoPort
<1>4. HubTyped' /\ PeerTyped' /\ NetTyped'
  BY <1>2, <1>3, NoneTyped DEF HubTyped, PeerTyped, NetTyped, ReadOn
<1>5. client.open
  BY <1>1 DEF NoSessionInv
<1>6. NoSessionInv'
  BY <1>2, <1>5 DEF NoSessionInv
<1>7. ASSUME exp.open PROVE (client.open /\ GrantUnread /\ GrantHalfTaken /\ GrantTaken
                             /\ GivingBack /\ Presented)'
  <2>0. client.open /\ GrantUnread /\ GrantHalfTaken /\ GrantTaken /\ GivingBack /\ Presented
    BY <1>7 DEF SessionInv
  <2>1. /\ op.id = exp.held /\ op.id # 0 /\ Found(up, Detaches) = {}
        /\ Found(down, Grants) = {}
    BY <2>0 DEF GrantHalfTaken, GrantUnread
  <2>2. op'.kind = "None"
    BY NoneTyped
  <2>3. GrantUnread'
    BY <2>0, <2>1 DEF GrantUnread, ReadOn
  <2>4. GrantHalfTaken' /\ GrantTaken'
    BY <2>1, <2>2, <1>2 DEF GrantHalfTaken, GrantTaken
  <2>5. GivingBack'
    BY <2>0, <2>2 DEF GivingBack
  <2>6. Presented'
    BY <2>1, <1>2, <1>3 DEF Presented
  <2> QED
    BY <2>0, <2>3, <2>4, <2>5, <2>6, <1>2
<1>8. SessionInv'
  BY <1>7 DEF SessionInv
<1> QED
  BY <1>4, <1>6, <1>8

\* A DETACH is sent, by a client that holds the grant: the attached one, or the one
\* whose presenters all declined.
LEMMA DetachSentInv ==
    ASSUME ImportingInv, ReadOn, client.open,
           NEW cl \in [open : BOOLEAN, rid : Nat, attachId : Nat],
           cl.open = client.open,
           \/ op.kind = "Manifest" /\ cl.attachId = op.id
           \/ op = NoOp /\ cl.attachId = client.attachId /\ state = "Attached",
           NEW then \in {"GiveBack", "Detach", "Disconnect"},
           then = "GiveBack" => op.kind = "Manifest",
           Call(cl, "Detach", then), state' = state, exp' = exp, accepted' = accepted,
           port' \in [kind : {"None"} \cup Presenters, attachId : Nat, rid : Nat,
                      out : SUBSET Nat]
    PROVE  ImportingInv'
<1> USE DEF ImportingInv
<1>1. /\ client' \in [open : BOOLEAN, rid : Nat, attachId : Nat]
      /\ client'.open = client.open /\ client'.attachId = cl.attachId
      /\ \E rid \in Nat : op' = [kind |-> "Detach", rid |-> rid, then |-> then]
      /\ \/ up' = up /\ ~exp.open
         \/ \E m \in Requests : m.type = "Detach" /\ up' = Append(up, m)
  BY CallIs, ZenonT(60)
<1>2. op' \in Calls /\ op'.kind = "Detach" /\ op'.then = then
  BY <1>1 DEF Calls
<1>3. HubTyped' /\ PeerTyped'
  BY <1>1, <1>2 DEF HubTyped, PeerTyped
<1>4. PICK u \in Seq(Requests) : u = up
  BY DEF NetTyped
<1>5. CASE up' = up /\ ~exp.open
  <2>1. NetTyped'
    BY <1>5 DEF NetTyped, ReadOn
  <2>2. SessionInv'
    BY <1>5 DEF SessionInv
  <2> QED
    BY <2>1, <2>2, <1>1, <1>3 DEF NoSessionInv
<1>6. CASE \E m \in Requests : m.type = "Detach" /\ up' = Append(up, m)
  <2>1. PICK m \in Requests : m.type = "Detach" /\ up' = Append(u, m)
    BY <1>6, <1>4
  <2>2. m \in Detaches
    BY <2>1 DEF Detaches
  <2>3. /\ Append(u, m) \in Seq(Requests)
        /\ Found(u, Detaches) = {} => AtMostOne(Append(u, m), Detaches)
        /\ EndsWith(Append(u, m), Detaches)
    BY <2>2, FoundAppend
  <2>4. NetTyped'
    BY <2>1, <2>3 DEF NetTyped, ReadOn
  <2>5. NoSessionInv'
    BY <1>1 DEF NoSessionInv
  <2>6. ASSUME exp.open PROVE (client.open /\ GrantUnread /\ GrantHalfTaken /\ GrantTaken
                               /\ GivingBack /\ Presented)'
    <3>0. client.open /\ GrantUnread /\ GrantHalfTaken /\ GrantTaken /\ GivingBack /\ Presented
      BY <2>6 DEF SessionInv
    <3>1. /\ cl.attachId # 0 /\ exp.held = cl.attachId /\ Found(up, Detaches) = {}
          /\ Found(down, Grants) = {}
      BY <3>0, NoneTyped DEF GrantHalfTaken, GrantTaken, GrantUnread, Presented
    <3>2. GrantUnread'
      BY <3>0, <3>1 DEF GrantUnread, ReadOn
    <3>3. GrantHalfTaken' /\ GrantTaken'
      BY <1>2 DEF GrantHalfTaken, GrantTaken
    <3>4. then = "GiveBack" => state # "Attached"
      BY <3>0 DEF GrantHalfTaken, Presented
    <3>5. GivingBack'
      BY <3>1, <3>4, <1>1, <1>2, <1>4, <2>1, <2>3 DEF GivingBack
    <3>6. Presented'
      BY <3>1, <1>1, <1>2 DEF Presented
    <3> QED
      BY <3>0, <3>2, <3>3, <3>5, <3>6, <1>1
  <2>7. SessionInv'
    BY <2>6 DEF SessionInv
  <2> QED
    BY <1>3, <2>4, <2>5, <2>7
<1> QED
  BY <1>1, <1>5, <1>6

\* detach() is over, answered or not: the id is forgotten.
LEMMA DetachOverInv ==
    ASSUME ImportingInv, ReadOn, op.kind = "Detach",
           NEW cl, cl = [client EXCEPT !.attachId = 0],
           \/ op' = NoOp /\ client' = cl /\ up' = up
           \/ Call(cl, "List", "User"),
           state' \notin {"Attached", "Off"} \/ (op.then = "GiveBack" /\ state' = state),
           port' = port, exp' = exp, accepted' = accepted
    PROVE  ImportingInv'
<1> USE DEF ImportingInv
<1>1. /\ cl \in [open : BOOLEAN, rid : Nat, attachId : Nat]
      /\ cl.open = client.open /\ cl.attachId = 0
  BY DEF HubTyped
<1>2. op # NoOp
  BY NoneTyped
<1>3. client.open
  BY <1>2 DEF NoSessionInv
<1>4. /\ client' \in [open : BOOLEAN, rid : Nat, attachId : Nat]
      /\ client'.open = client.open /\ client'.attachId = 0
      /\ op' \in Calls /\ op'.kind \notin {"Detach", "Manifest"}
      /\ up' = up \/ \E m \in Requests \ Detaches : up' = Append(up, m)
  <2>1. CASE op' = NoOp /\ client' = cl /\ up' = up
    BY <2>1, <1>1, NoneTyped
  <2>2. CASE Call(cl, "List", "User")
    <3>1. /\ client' \in [open : BOOLEAN, rid : Nat, attachId : Nat]
          /\ client'.open = cl.open /\ client'.attachId = cl.attachId
          /\ \E rid \in Nat : op' = [kind |-> "List", rid |-> rid, then |-> "User"]
          /\ \/ up' = up
             \/ \E m \in Requests : m.type = "List" /\ up' = Append(up, m)
      BY <2>2, <1>1, CallIs
    <3>2. op' \in Calls /\ op'.kind \notin {"Detach", "Manifest"}
      BY <3>1 DEF Calls
    <3> QED
      BY <3>1, <3>2, <1>1 DEF Detaches
  <2> QED
    BY <2>1, <2>2
<1>6. up' \in Seq(Requests) /\ Found(up', Detaches) = Found(up, Detaches)
      /\ (AtMostOne(up, Detaches) => AtMostOne(up', Detaches))
  BY <1>4, SaidIs
<1>7. HubTyped' /\ PeerTyped' /\ NetTyped'
  BY <1>4, <1>6 DEF HubTyped, PeerTyped, NetTyped, ReadOn
<1>8. NoSessionInv'
  BY <1>3, <1>4 DEF NoSessionInv
<1>9. ASSUME exp.open PROVE (client.open /\ GrantUnread /\ GrantHalfTaken /\ GrantTaken
                             /\ GivingBack /\ Presented)'
  <2>0. client.open /\ GrantUnread /\ GrantHalfTaken /\ GrantTaken /\ GivingBack /\ Presented
    BY <1>9 DEF SessionInv
  <2>1. client.attachId # 0 /\ Found(down, Grants) = {}
    BY <2>0 DEF GivingBack, GrantUnread
  <2>2. GrantUnread'
    BY <2>0, <2>1 DEF GrantUnread, ReadOn
  <2>3. GrantHalfTaken' /\ GrantTaken'
    BY <1>4 DEF GrantHalfTaken, GrantTaken
  <2>4. GivingBack'
    BY <2>0, <1>4, <1>6 DEF GivingBack
  <2>5. Presented'
    BY <2>0 DEF Presented, GivingBack
  <2> QED
    BY <2>0, <2>2, <2>3, <2>4, <2>5, <1>4
<1>10. SessionInv'
  BY <1>9 DEF SessionInv
<1> QED
  BY <1>7, <1>8, <1>10

\* What a call's end does, whatever record or none was taken for its answer.
LEMMA AfterInv ==
    ASSUME ImportingInv, ~Idle, op.then # "Port",
           NEW res, NEW r, NEW d,
           \/ d = down
           \/ down # <<>> /\ d = Tail(down),
           op.kind = "Attach" /\ res = "Ok" =>
               down # <<>> /\ d = Tail(down) /\ r = Head(down) /\ r \in Grants,
           After(res, r), Unread(d), accepted' = accepted
    PROVE  ImportingInv'
<1>1. op \in Calls /\ op # NoOp /\ client.open /\ NetTyped
  BY DEF ImportingInv, HubTyped, Idle, NoSessionInv
<1>2. client'.open => ReadOn /\ down' = d
  BY <1>1, ReadOnIs DEF Unread
<1>3. CASE DropsSession /\ state' # "Attached"
  <2>1. down' = <<>>
    BY <1>3, NoneTyped DEF DropsSession, Unread
  <2> QED
    BY <1>3, <2>1, DropInv
<1>4. CASE op.then = "TickPing"
  <2>1. AfterTickPing(res) /\ op.kind = "Ping"
    BY <1>1, <1>4, CallsAre DEF After
  <2>2. CASE PingFailed(res)
    BY <1>3, <2>1, <2>2 DEF AfterTickPing
  <2>3. CASE ~PingFailed(res) /\ state = "WaitingForPeer"
    <3>1. Call(client, "List", "TickList") /\ UNCHANGED <<state, port, exp>>
      BY <2>1, <2>3 DEF AfterTickPing
    <3>2. \A rid \in Nat : [kind |-> "List", rid |-> rid, then |-> "TickList"] \in Calls
      BY DEF Calls
    <3>3. client'.open = client.open
      BY <3>1, CallIs DEF ImportingInv, HubTyped
    <3> QED
      BY <3>1, <3>2, <3>3, <2>1, <1>1, <1>2, CallStepInv
  <2>4. CASE ~PingFailed(res) /\ state # "WaitingForPeer"
    BY <2>1, <2>4, <1>1, <1>2, ReturnInv DEF AfterTickPing, Returns
  <2> QED
    BY <2>2, <2>3, <2>4
<1>5. CASE op.then \in {"TickList", "Connect", "Approve", "User"}
  <2>1. op.kind # "Detach"
    BY <1>1, <1>5, CallsAre
  <2>2. AfterTickList(res) \/ AfterConnectList(res) \/ AfterApproveList(res) \/ AfterUser(res)
    BY <1>5 DEF After
  <2>3. /\ op' = NoOp /\ client' = client /\ up' = up /\ port' = port /\ exp' = exp
        /\ state' \in {"Attached", "Off"} => state' = state
    BY <2>2 DEF AfterTickList, AfterConnectList, AfterApproveList, AfterUser, Returns
  <2> QED
    BY <2>1, <2>3, <1>1, <1>2, ReturnInv
<1>6. CASE op.then = "Attach" /\ op.kind # "Manifest"
  <2>1. op.kind = "Attach" /\ AfterAttach(res, r)
    BY <1>1, <1>6, CallsAre DEF After
  <2>2. CASE res = "Ok"
    <3>1. client' = client
      BY <2>1 DEF AfterAttach
    <3> QED
      BY <2>1, <2>2, <3>1, <1>1, <1>2, GrantReadInv
  <2>3. CASE res # "Ok"
    BY <2>1, <2>3, <1>1, <1>2, ReturnInv DEF AfterAttach
  <2> QED
    BY <2>2, <2>3
<1>7. CASE op.then = "Attach" /\ op.kind = "Manifest"
  <2>1. AfterManifest(res)
    BY <1>7 DEF After
  <2>2. op.id \in Nat
    BY <1>1, <1>7, CallsAre
  <2>3. PICK cl : cl = [client EXCEPT !.attachId = op.id]
    OBVIOUS
  <2>4. /\ cl \in [open : BOOLEAN, rid : Nat, attachId : Nat]
        /\ cl.open = client.open /\ cl.attachId = op.id
    BY <2>2, <2>3 DEF ImportingInv, HubTyped
  <2>5. CASE res # "Ok"
    BY <2>1, <2>5, <1>1, <1>2, <1>7, ReturnInv DEF AfterManifest, Returns
  <2>6. CASE /\ \E p \in Presenters :
                  port' = [NoPort EXCEPT !.kind = p, !.attachId = op.id]
             /\ state' = "Attached" /\ Returns(cl) /\ exp' = exp
    BY <2>3, <2>4, <2>6, <1>1, <1>2, <1>7, PresentedInv DEF Returns
  <2>7. CASE Call(cl, "Detach", "GiveBack") /\ UNCHANGED <<state, port, exp>>
    <3>1. client'.open = client.open
      BY <2>4, <2>7, CallIs
    <3>2. port \in [kind : {"None"} \cup Presenters, attachId : Nat, rid : Nat, out : SUBSET Nat]
      BY DEF ImportingInv, HubTyped
    <3> QED
      BY <3>1, <3>2, <2>4, <2>7, <1>1, <1>2, <1>7, DetachSentInv
  <2> QED
    BY <2>1, <2>3, <2>5, <2>6, <2>7 DEF AfterManifest
<1>8. CASE op.then \in {"GiveBack", "Detach"}
  <2>1. op.kind = "Detach"
    BY <1>1, <1>8, CallsAre
  <2>2. PICK cl : cl = [client EXCEPT !.attachId = 0]
    OBVIOUS
  <2>3. cl \in [open : BOOLEAN, rid : Nat, attachId : Nat] /\ cl.open = client.open
    BY <2>2 DEF ImportingInv, HubTyped
  <2>4. /\ \/ op' = NoOp /\ client' = cl /\ up' = up
           \/ Call(cl, "List", "User")
        /\ state' \notin {"Attached", "Off"} \/ (op.then = "GiveBack" /\ state' = state)
        /\ port' = port /\ exp' = exp
    BY <1>8, <2>2 DEF After, AfterGiveBack, AfterDetach, Returns
  <2>5. client'.open = client.open
    BY <2>3, <2>4, CallIs
  <2> QED
    BY <2>1, <2>2, <2>4, <2>5, <1>1, <1>2, DetachOverInv
<1>9. CASE op.then = "Disconnect"
  BY <1>3, <1>9 DEF After, AfterDisconnect
<1> QED
  BY <1>1, <1>4, <1>5, <1>6, <1>7, <1>8, <1>9, CallsAre

LEMMA CallEndsInv ==
    ASSUME ImportingInv, CallAnswered \/ CallExpires \/ CallLost PROVE ImportingInv'
<1>1. NetTyped /\ op \in Calls
  BY DEF ImportingInv, HubTyped
<1>2. CASE CallAnswered
  <2>1. PICK res, r : res = Verdict(op.kind, op.rid, Head(down)) /\ r = Head(down)
    OBVIOUS
  <2>2. /\ ~Idle /\ op.then # "Port" /\ down # <<>>
        /\ After(res, r) /\ Unread(Tail(down)) /\ accepted' = accepted
    BY <1>2, <2>1 DEF CallAnswered
  <2>3. r \in Replies
    BY <1>1, <2>1, <2>2 DEF NetTyped
  <2>4. op.kind = "Attach" /\ res = "Ok" => r \in Grants
    BY <2>1, <2>3 DEF Verdict, Grants
  <2> QED
    BY <2>1, <2>2, <2>4, AfterInv
<1>3. CASE CallExpires
  <2>1. ~Idle /\ op.then # "Port" /\ After("Timeout", NoOp) /\ Unread(down)
        /\ accepted' = accepted
    BY <1>3 DEF CallExpires
  <2> QED
    BY <2>1, AfterInv
<1>4. CASE CallLost
  <2>1. ~Idle /\ op.then # "Port" /\ After("Lost", NoOp) /\ Unread(down)
        /\ accepted' = accepted
    BY <1>4 DEF CallLost
  <2> QED
    BY <2>1, AfterInv
<1> QED
  BY <1>2, <1>3, <1>4

-------------------------------------------------------------------------------
(* A session begins *)

LEMMA OpenedInv ==
    ASSUME ImportingInv, ~client.open, Opened, accepted' = accepted, port' = port,
           client' \in [open : BOOLEAN, rid : Nat, attachId : Nat],
           client'.open, client'.attachId = 0, state' \notin {"Attached", "Off"},
           op' \in Calls, op'.kind \notin {"Detach", "Manifest"},
           up' = up \/ \E m \in Requests \ Detaches : up' = Append(up, m)
    PROVE  ImportingInv'
<1> USE DEF ImportingInv
<1>1. up = <<>>
  BY DEF NoSessionInv
<1>2. Found(up, Detaches) = {} /\ AtMostOne(up, Detaches)
  BY <1>1, FoundNone
<1>3. /\ up' \in Seq(Requests) /\ Found(up', Detaches) = {}
      /\ AtMostOne(up', Detaches)
  BY <1>2, SaidIs
<1>4. /\ exp' = [open |-> TRUE, paired |-> accepted, held |-> 0, last |-> exp.last,
                 owed |-> {}]
      /\ down' = <<>>
  BY DEF Opened, NoSession
<1>5. Found(down', Grants) = {} /\ AtMostOne(down', Grants)
  BY <1>4, FoundNone
<1>6. HubTyped'
  BY DEF HubTyped
<1>7. PeerTyped'
  <2>1. exp'.owed = {} /\ IsFiniteSet({}) /\ exp'.held = 0
    BY <1>4, FS_EmptySet
  <2> QED
    BY <2>1, <1>4 DEF PeerTyped
<1>8. NetTyped'
  BY <1>3, <1>4 DEF NetTyped
<1>9. (GrantUnread /\ GrantHalfTaken /\ GrantTaken /\ GivingBack /\ Presented)'
  BY <1>3, <1>5 DEF GrantUnread, GrantHalfTaken, GrantTaken, GivingBack, Presented
<1> QED
  BY <1>6, <1>7, <1>8, <1>9 DEF SessionInv, NoSessionInv

\* Off means disconnected.
LEMMA ConnectInv == ASSUME ImportingInv, Connect \/ Reconnect PROVE ImportingInv'
<1>0. ~client.open
  BY DEF Connect, Reconnect, ImportingInv, NoSessionInv
<1>1. PICK cl : cl = [NoClient EXCEPT !.open = TRUE]
  OBVIOUS
<1>2. cl \in [open : BOOLEAN, rid : Nat, attachId : Nat] /\ cl.open = TRUE /\ cl.attachId = 0
  BY <1>1 DEF NoClient
<1>3. CASE Connect /\ pinned
  <2>1. Opened /\ Call(cl, "List", "Connect") /\ state' = "Connecting"
        /\ UNCHANGED <<port, accepted>>
    BY <1>1, <1>3 DEF Connect
  <2>2. /\ client' \in [open : BOOLEAN, rid : Nat, attachId : Nat]
        /\ client'.open = cl.open /\ client'.attachId = cl.attachId
        /\ \E rid \in Nat : op' = [kind |-> "List", rid |-> rid, then |-> "Connect"]
        /\ \/ up' = up
           \/ \E m \in Requests : m.type = "List" /\ up' = Append(up, m)
    BY <2>1, <1>2, CallIs
  <2>3. op' \in Calls /\ op'.kind \notin {"Detach", "Manifest"}
    BY <2>2 DEF Calls
  <2>4. up' = up \/ \E m \in Requests \ Detaches : up' = Append(up, m)
    BY <2>2 DEF Detaches
  <2> QED
    BY <2>1, <2>2, <2>3, <2>4, <1>0, <1>2, OpenedInv
<1>4. CASE Reconnect \/ (Connect /\ ~pinned)
  <2>1. Opened /\ Returns(cl) /\ state' \notin {"Attached", "Off"} /\ UNCHANGED <<port, accepted>>
    BY <1>1, <1>4 DEF Connect, Reconnect
  <2> QED
    BY <2>1, <1>0, <1>2, NoneTyped, OpenedInv DEF Returns
<1> QED
  BY <1>3, <1>4

-------------------------------------------------------------------------------
(* The exporter *)

LEMMA WrittenIs ==
    ASSUME NetTyped, NEW rs \in Seq(Replies), down' = down \o rs
    PROVE  /\ down' \in Seq(Replies)
           /\ Found(down', Grants) = Found(down, Grants) \cup Found(rs, Grants)
           /\ AtMostOne(down, Grants) /\ Found(rs, Grants) = {} => AtMostOne(down', Grants)
           /\ Found(down, Grants) = {} /\ AtMostOne(rs, Grants) => AtMostOne(down', Grants)
<1>1. PICK d \in Seq(Replies) : d = down
  BY DEF NetTyped
<1>3. /\ d \o rs \in Seq(Replies)
      /\ Found(d \o rs, Grants) = Found(d, Grants) \cup Found(rs, Grants)
      /\ AtMostOne(d, Grants) /\ Found(rs, Grants) = {} => AtMostOne(d \o rs, Grants)
      /\ Found(d, Grants) = {} /\ AtMostOne(rs, Grants) => AtMostOne(d \o rs, Grants)
  BY FoundConcat
<1> QED
  BY <1>1, <1>3

\* It answers a request that changes nothing it holds: no grant, no detach.
LEMMA AnswersInv ==
    ASSUME ImportingInv, exp.open, NEW rs \in Seq(Replies), Found(rs, Grants) = {},
           down' = down \o rs,
           up' = up \/ (up # <<>> /\ up' = Tail(up) /\ Head(up) \notin Detaches),
           exp' \in [open : BOOLEAN, paired : BOOLEAN, held : Nat, last : Nat,
                     owed : SUBSET Replies],
           IsFiniteSet(exp'.owed), exp'.owed \cap Grants = {},
           exp'.open = exp.open, exp'.held = exp.held, exp'.paired = exp.paired,
           UNCHANGED <<hub, accepted>>
    PROVE  ImportingInv'
<1> USE DEF ImportingInv
<1>0. client.open /\ GrantUnread /\ GrantHalfTaken /\ GrantTaken /\ GivingBack /\ Presented
  BY DEF SessionInv
<1>1. UNCHANGED <<state, client, port, op>>
  BY DEF hub
<1>2. PICK d \in Seq(Replies), u \in Seq(Requests) : d = down /\ u = up
  BY DEF NetTyped
<1>3. /\ down' \in Seq(Replies) /\ Found(down', Grants) = Found(down, Grants)
      /\ AtMostOne(down, Grants) => AtMostOne(down', Grants)
  BY WrittenIs
<1>4. /\ up' \in Seq(Requests) /\ Found(up', Detaches) \subseteq Found(up, Detaches)
      /\ AtMostOne(up, Detaches) => AtMostOne(up', Detaches)
      /\ EndsWith(up, Detaches) => EndsWith(up', Detaches)
      /\ up = <<>> => up' = <<>>
  <2>1. CASE up' = up
    BY <2>1 DEF NetTyped
  <2>2. CASE u # <<>> /\ up' = Tail(u) /\ Head(u) \notin Detaches
    BY <2>2, <1>2, FoundTail
  <2> QED
    BY <2>1, <2>2, <1>2
<1>5. HubTyped' /\ PeerTyped' /\ NetTyped'
  BY <1>1, <1>2, <1>3, <1>4 DEF HubTyped, PeerTyped, NetTyped
<1>6. GrantUnread'
  BY <1>0, <1>1, <1>2, <1>3, <1>4 DEF GrantUnread
<1>7. GrantHalfTaken' /\ GrantTaken'
  BY <1>0, <1>1, <1>4 DEF GrantHalfTaken, GrantTaken
<1>8. GivingBack'
  BY <1>0, <1>1, <1>4 DEF GivingBack
<1>9. Presented'
  BY <1>0, <1>1 DEF Presented
<1> QED
  BY <1>0, <1>1, <1>5, <1>6, <1>7, <1>8, <1>9 DEF SessionInv, NoSessionInv

\* It grants an attach: nothing was held, so no other grant is about.
LEMMA GrantsInv ==
    ASSUME ImportingInv, exp.open, exp.paired, exp.held = 0, up # <<>>, up' = Tail(up),
           Head(up) \notin Detaches,
           NEW id, id = exp.last + 1, NEW g \in Grants, g.id = id,
           NEW n \in Replies \ Grants,
           exp' = [exp EXCEPT !.held = id, !.last = id],
           down' = down \o <<g, n>>,
           UNCHANGED <<hub, accepted>>
    PROVE  ImportingInv'
<1> USE DEF ImportingInv
<1>0. client.open /\ GrantUnread /\ GrantHalfTaken /\ GrantTaken /\ GivingBack /\ Presented
  BY DEF SessionInv
<1>1. UNCHANGED <<state, client, port, op>>
  BY DEF hub
<1>2. PICK d \in Seq(Replies), u \in Seq(Requests) : d = down /\ u = up
  BY DEF NetTyped
<1>3. id \in Nat /\ id # 0
  BY DEF PeerTyped
<1>4. /\ exp' \in [open : BOOLEAN, paired : BOOLEAN, held : Nat, last : Nat,
                   owed : SUBSET Replies]
      /\ exp'.owed = exp.owed /\ exp'.open = exp.open /\ exp'.held = id
      /\ exp'.paired = exp.paired
  BY <1>3 DEF PeerTyped
<1>5. op.kind \notin {"Detach", "Manifest"} /\ client.attachId = 0 /\ Found(up, Detaches) = {}
  <2>1. Found(up, Detaches) = {}
    BY <1>0 DEF GivingBack
  <2>2. op.kind # "Manifest"
    BY <1>0 DEF GrantHalfTaken
  <2>3. ~EndsWith(up, Detaches)
    BY <2>1, <1>2, FoundLast
  <2>4. op.kind # "Detach"
    BY <1>0, <2>3 DEF GivingBack
  <2> QED
    BY <1>0, <2>1, <2>2, <2>4 DEF GrantTaken
<1>6. Found(d, Grants) = {}
  <2>1. \A r \in Found(d, Grants) : r \in Grants /\ r.id = 0
    BY <1>0, <1>2 DEF GrantUnread, Found, At
  <2> QED
    BY <2>1 DEF Grants, Granted
<1>7. g \in Replies \cap Grants
  BY DEF Grants
<1>8. PICK both \in Seq(Replies) :
         both = <<g, n>> /\ Found(both, Grants) = {g} /\ AtMostOne(both, Grants)
  <2>1. /\ <<g, n>> \in Seq(Replies) /\ Found(<<g, n>>, Grants) = {g}
        /\ AtMostOne(<<g, n>>, Grants)
    BY <1>7, FoundPair
  <2> QED
    BY <2>1
<1>9. down' = down \o both
  BY <1>8
<1>12. /\ down' \in Seq(Replies) /\ Found(down', Grants) = {g} /\ AtMostOne(down', Grants)
  BY <1>2, <1>6, <1>8, <1>9, WrittenIs
<1>13. /\ up' \in Seq(Requests) /\ Found(up', Detaches) = {} /\ AtMostOne(up', Detaches)
  <2>1. /\ Tail(u) \in Seq(Requests) /\ Found(Tail(u), Detaches) \subseteq Found(u, Detaches)
        /\ AtMostOne(u, Detaches) => AtMostOne(Tail(u), Detaches)
    BY <1>2, FoundTail
  <2> QED
    BY <2>1, <1>0, <1>2, <1>5 DEF GivingBack
<1>14. HubTyped' /\ PeerTyped' /\ NetTyped'
  BY <1>1, <1>4, <1>12, <1>13 DEF HubTyped, PeerTyped, NetTyped
<1>15. GrantUnread'
  BY <1>1, <1>4, <1>5, <1>12, <1>13 DEF GrantUnread
<1>16. GrantHalfTaken' /\ GrantTaken' /\ GivingBack'
  BY <1>1, <1>5, <1>13 DEF GrantHalfTaken, GrantTaken, GivingBack
<1>17. Presented'
  BY <1>0, <1>1 DEF Presented
<1> QED
  BY <1>0, <1>1, <1>4, <1>14, <1>15, <1>16, <1>17 DEF SessionInv, NoSessionInv

\* It takes a DETACH: the client that sent it waits and has said nothing since, or has
\* forgotten the id.
LEMMA ReleasesInv ==
    ASSUME ImportingInv, exp.open, up # <<>>, up' = Tail(up), Head(up) \in Detaches,
           NEW rs \in Seq(Replies), Found(rs, Grants) = {}, down' = down \o rs,
           exp' = [exp EXCEPT !.held = 0, !.owed = {}],
           UNCHANGED <<hub, accepted>>
    PROVE  ImportingInv'
<1> USE DEF ImportingInv
<1>0. client.open /\ GrantUnread /\ GrantHalfTaken /\ GrantTaken /\ GivingBack /\ Presented
  BY DEF SessionInv
<1>1. UNCHANGED <<state, client, port, op>>
  BY DEF hub
<1>2. PICK d \in Seq(Replies), u \in Seq(Requests) : d = down /\ u = up
  BY DEF NetTyped
<1>3. /\ exp' \in [open : BOOLEAN, paired : BOOLEAN, held : Nat, last : Nat,
                   owed : SUBSET Replies]
      /\ exp'.owed = {} /\ exp'.open = exp.open /\ exp'.held = 0
  BY DEF PeerTyped
<1>4. /\ Tail(u) \in Seq(Requests) /\ Head(u) \in Found(u, Detaches)
      /\ AtMostOne(u, Detaches) => Found(Tail(u), Detaches) = {}
      /\ AtMostOne(u, Detaches) => AtMostOne(Tail(u), Detaches)
      /\ EndsWith(u, Detaches) /\ AtMostOne(u, Detaches) => Tail(u) = <<>>
  BY <1>2, FoundTail
<1>5. up' \in Seq(Requests) /\ Found(up', Detaches) = {} /\ AtMostOne(up', Detaches)
  BY <1>0, <1>2, <1>4 DEF GivingBack
<1>6. /\ op.kind # "Manifest" /\ Found(d, Grants) = {}
      /\ client.attachId # 0 => op.kind = "Detach"
      /\ op.kind = "Detach" => up' = <<>>
  <2>1. op.kind # "Manifest" /\ Found(d, Grants) = {}
    BY <1>0, <1>2, <1>4 DEF GrantHalfTaken, GrantUnread
  <2>2. client.attachId # 0 => op.kind = "Detach"
    BY <1>0, <1>2, <1>4 DEF GrantTaken
  <2>3. op.kind = "Detach" => up' = <<>>
    BY <1>0, <1>2, <1>4 DEF GivingBack
  <2> QED
    BY <2>1, <2>2, <2>3
<1>7. down' \in Seq(Replies) /\ Found(down', Grants) = {} /\ AtMostOne(down', Grants)
  BY <1>0, <1>2, <1>6, WrittenIs DEF GrantUnread
<1>8. PeerTyped'
  BY <1>3, FS_EmptySet DEF PeerTyped
<1>9. HubTyped' /\ NetTyped'
  BY <1>1, <1>5, <1>7 DEF HubTyped, NetTyped
<1>10. GrantUnread' /\ GrantHalfTaken' /\ GrantTaken'
  BY <1>1, <1>6, <1>7 DEF GrantUnread, GrantHalfTaken, GrantTaken
<1>11. GivingBack'
  BY <1>0, <1>1, <1>3, <1>5, <1>6 DEF GivingBack
<1>12. Presented'
  BY <1>0, <1>1 DEF Presented
<1> QED
  BY <1>0, <1>1, <1>3, <1>8, <1>9, <1>10, <1>11, <1>12 DEF SessionInv, NoSessionInv

\* A reply that is not to an attach grants nothing.
LEMMA ReplyIs ==
    ASSUME NEW m \in Requests,
           NEW type \in {"Pong", "NotPaired", "List", "Refused", "AttachOk", "Manifest",
                         "DetachOk", "Complete", "CtrlAck"}
    PROVE  /\ Reply(type, m) \in Replies \ Grants
           /\ <<Reply(type, m)>> \in Seq(Replies) /\ Found(<<Reply(type, m)>>, Grants) = {}
<1>1. Reply(type, m) \in Replies \ Grants
  BY DEF Reply, Replies, Requests, Grants, Granted
<1>2. PICK r \in Replies \ Grants : r = Reply(type, m)
  BY <1>1
<1>3. <<r>> \in Seq(Replies) /\ Found(<<r>>, Grants) = {r} \cap Grants
  BY FoundOne
<1> QED
  BY <1>1, <1>2, <1>3

LEMMA ExporterTakesInv == ASSUME ImportingInv, ExporterTakes PROVE ImportingInv'
<1> DEFINE Exps == [open : BOOLEAN, paired : BOOLEAN, held : Nat, last : Nat,
                    owed : SUBSET Replies]
<1>1. /\ exp \in Exps /\ IsFiniteSet(exp.owed) /\ exp.owed \cap Grants = {}
      /\ exp.owed \subseteq Replies
  BY DEF ImportingInv, PeerTyped
<1>2. /\ exp.open /\ up # <<>> /\ up' = Tail(up) /\ UNCHANGED <<hub, accepted>>
  BY DEF ExporterTakes
<1>3. PICK m \in Requests : m = Head(up)
  BY <1>2 DEF ImportingInv, NetTyped
<1>4. m \in Detaches <=> m.type = "Detach"
  BY DEF Detaches
<1>5. m.type = "Detach" => exp.held # 0 /\ exp.paired
  <2>1. ASSUME m \in Detaches PROVE Found(up, Detaches) # {}
    <3>1. PICK u \in Seq(Requests) : u = up
      BY DEF ImportingInv, NetTyped
    <3> QED
      BY <2>1, <3>1, <1>2, <1>3, FoundTail
  <2> QED
    BY <2>1, <1>2, <1>4 DEF ImportingInv, SessionInv, GivingBack, PeerTyped
<1>6. ASSUME NEW rs \in Seq(Replies), Found(rs, Grants) = {}, down' = down \o rs,
             exp' = exp, m.type # "Detach"
      PROVE  ImportingInv'
  BY <1>1, <1>2, <1>3, <1>4, <1>6, AnswersInv
<1>7. ASSUME NEW type \in {"Pong", "NotPaired", "List", "Refused", "AttachOk"},
             down' = down \o <<Reply(type, m)>>, exp' = exp, m.type # "Detach"
      PROVE  ImportingInv'
  BY <1>6, <1>7, ReplyIs
<1>8. CASE m.type = "Ping"
  <2>1. down' = down \o <<Reply("Pong", m)>> /\ exp' = exp
    BY <1>3, <1>8 DEF ExporterTakes, Answers
  <2> QED
    BY <2>1, <1>7, <1>8
<1>9. CASE m.type # "Ping" /\ ~exp.paired
  <2>1. down' = down \o <<Reply("NotPaired", m)>> /\ exp' = exp
    BY <1>3, <1>9 DEF ExporterTakes, Answers
  <2> QED
    BY <2>1, <1>5, <1>7, <1>9
<1>10. CASE m.type = "List" /\ exp.paired
  <2>1. down' = down \o <<Reply("List", m)>> /\ exp' = exp
    BY <1>3, <1>10 DEF ExporterTakes, Answers
  <2> QED
    BY <2>1, <1>7, <1>10
<1>11. CASE m.type = "Attach" /\ exp.paired
  <2>1. \/ \E type \in {"Refused", "AttachOk"} :
              down' = down \o <<Reply(type, m)>> /\ exp' = exp
        \/ /\ exp.held = 0
           /\ exp' = [exp EXCEPT !.held = exp.last + 1, !.last = exp.last + 1]
           /\ down' = down \o <<[Reply("AttachOk", m) EXCEPT !.id = exp.last + 1],
                                Reply("Manifest", m)>>
    BY <1>3, <1>11 DEF ExporterTakes, Answers, HandleAttach
  <2>2. CASE \E type \in {"Refused", "AttachOk"} :
                down' = down \o <<Reply(type, m)>> /\ exp' = exp
    BY <2>2, <1>7, <1>11
  <2>3. CASE /\ exp.held = 0
             /\ exp' = [exp EXCEPT !.held = exp.last + 1, !.last = exp.last + 1]
             /\ down' = down \o <<[Reply("AttachOk", m) EXCEPT !.id = exp.last + 1],
                                  Reply("Manifest", m)>>
    <3>1. PICK id \in Nat : id = exp.last + 1 /\ id # 0
      BY <1>1
    <3>2. PICK g : g = [Reply("AttachOk", m) EXCEPT !.id = id]
      OBVIOUS
    <3>3. g \in Grants /\ g.id = id
      BY <3>1, <3>2 DEF Grants, Granted, Reply, Replies, Requests
    <3>4. PICK n \in Replies \ Grants : n = Reply("Manifest", m)
      BY ReplyIs
    <3>5. /\ exp' = [exp EXCEPT !.held = id, !.last = id] /\ down' = down \o <<g, n>>
      BY <2>3, <3>1, <3>2, <3>4
    <3> QED
      BY <3>1, <3>3, <3>5, <2>3, <1>2, <1>3, <1>4, <1>11, GrantsInv
  <2> QED
    BY <2>1, <2>2, <2>3
<1>12. CASE m.type = "Detach" /\ exp.paired
  <2>1. /\ exp' = [exp EXCEPT !.held = 0, !.owed = {}]
        /\ down' = down \o SetToSeq(exp.owed) \o <<Reply("DetachOk", m)>>
    BY <1>3, <1>5, <1>12 DEF ExporterTakes, HandleDetach
  <2>2. PICK T \in SUBSET Replies : T = exp.owed
    BY <1>1
  <2>3. SetToSeq(T) \in Seq(Replies) /\ Found(SetToSeq(T), Grants) = {}
    BY <2>2, <1>1, FoundFlushed
  <2>4. PICK s \in Seq(Replies) : s = SetToSeq(T) /\ Found(s, Grants) = {}
    BY <2>3
  <2>5. PICK t \in Seq(Replies) : t = <<Reply("DetachOk", m)>> /\ Found(t, Grants) = {}
    BY ReplyIs
  <2>6. s \o t \in Seq(Replies) /\ Found(s \o t, Grants) = Found(s, Grants) \cup Found(t, Grants)
    BY FoundConcat
  <2>7. PICK d \in Seq(Replies) : d = down
    BY DEF ImportingInv, NetTyped
  <2>8. d \o s \o t = d \o (s \o t)
    OBVIOUS
  <2>9. PICK rs \in Seq(Replies) : rs = s \o t /\ Found(rs, Grants) = {}
    BY <2>4, <2>5, <2>6
  <2>10. down' = down \o rs
    BY <2>1, <2>2, <2>4, <2>5, <2>7, <2>8, <2>9
  <2> QED
    BY <2>1, <2>9, <2>10, <1>2, <1>3, <1>4, <1>12, ReleasesInv
<1>13. CASE m.type \in {"Submit", "ClearHalt"} /\ exp.paired
  <2>1. PICK r \in Replies \ Grants : r = Owes(m)
    <3>1. Owes(m) \in Replies \ Grants
      BY DEF Owes, Replies, Requests, Grants, Granted
    <3> QED
      BY <3>1
  <2>2. \/ down' = down \o <<Reply("Refused", m)>> /\ exp' = exp
        \/ down' = down \o <<>> /\ exp' = exp
        \/ exp' = [exp EXCEPT !.owed = @ \cup {r}] /\ down' = down
    BY <2>1, <1>3, <1>13 DEF ExporterTakes, Answers, HandleSubmit
  <2>3. CASE down' = down \o <<Reply("Refused", m)>> /\ exp' = exp
    BY <2>3, <1>7, <1>13
  <2>4. <<>> \in Seq(Replies) /\ Found(<<>>, Grants) = {}
    BY FoundNone
  <2>5. CASE down' = down \o <<>> /\ exp' = exp
    BY <2>4, <2>5, <1>6, <1>13
  <2>6. CASE exp' = [exp EXCEPT !.owed = @ \cup {r}] /\ down' = down
    <3>1. down' = down \o <<>>
      BY <2>6 DEF ImportingInv, NetTyped
    <3>2. PICK T \in SUBSET Replies : T = exp.owed
      BY <1>1
    <3>3. IsFiniteSet(T \cup {r})
      BY <3>2, <1>1, FS_AddElement
    <3>4. /\ exp' \in Exps /\ exp'.owed = T \cup {r} /\ exp'.open = exp.open
          /\ exp'.held = exp.held /\ exp'.paired = exp.paired
      BY <2>6, <3>2, <1>1
    <3>5. IsFiniteSet(exp'.owed) /\ exp'.owed \cap Grants = {}
      BY <3>2, <3>3, <3>4, <1>1
    <3>6. Head(up) \notin Detaches
      BY <1>3, <1>4, <1>13
    <3> QED
      BY <3>1, <3>4, <3>5, <3>6, <2>4, <1>2, AnswersInv
  <2> QED
    BY <2>2, <2>3, <2>5, <2>6
<1> QED
  BY <1>1, <1>8, <1>9, <1>10, <1>11, <1>12, <1>13 DEF Requests

LEMMA ExporterFinishesInv == ASSUME ImportingInv, ExporterFinishes PROVE ImportingInv'
<1> DEFINE Exps == [open : BOOLEAN, paired : BOOLEAN, held : Nat, last : Nat,
                    owed : SUBSET Replies]
<1>1. /\ exp \in Exps /\ IsFiniteSet(exp.owed) /\ exp.owed \cap Grants = {}
  BY DEF ImportingInv, PeerTyped
<1>2. PICK r \in exp.owed : exp' = [exp EXCEPT !.owed = @ \ {r}] /\ down' = Append(down, r)
  BY DEF ExporterFinishes
<1>3. PICK x \in Replies : x = r /\ x \notin Grants
  BY <1>1
<1>4. <<x>> \in Seq(Replies) /\ Found(<<x>>, Grants) = {x} \cap Grants
  BY FoundOne
<1>5. PICK rs \in Seq(Replies) : rs = <<x>> /\ Found(rs, Grants) = {}
  BY <1>3, <1>4
<1>6. down' = down \o rs
  <2>1. PICK d \in Seq(Replies) : d = down
    BY DEF ImportingInv, NetTyped
  <2> QED
    BY <2>1, <1>2, <1>3, <1>5
<1>7. PICK T \in SUBSET Replies : T = exp.owed
  BY <1>1
<1>8. IsFiniteSet(T \ {x})
  BY <1>1, <1>7, FS_RemoveElement
<1>9. /\ exp' \in Exps /\ exp'.owed = T \ {x} /\ exp'.open = exp.open
      /\ exp'.held = exp.held /\ exp'.paired = exp.paired
  BY <1>1, <1>2, <1>3, <1>7
<1>10. IsFiniteSet(exp'.owed) /\ exp'.owed \cap Grants = {}
  BY <1>1, <1>7, <1>8, <1>9
<1>11. exp.open /\ up' = up /\ UNCHANGED <<hub, accepted>>
  BY DEF ExporterFinishes
<1> QED
  BY <1>5, <1>6, <1>9, <1>10, <1>11, AnswersInv

\* The session ends, or the exporter stops answering; what was not delivered is lost.
LEMMA LossInv ==
    ASSUME ImportingInv, ExporterAccepts \/ SessionLost \/ GoesQuiet PROVE ImportingInv'
<1>1. HubTyped /\ NetTyped /\ PeerTyped
  BY DEF ImportingInv
<1>2. UNCHANGED <<state, client, port, op, up>>
  BY DEF ExporterAccepts, SessionLost, GoesQuiet, hub, net
<1>3. ReadOn
  BY <1>1, ReadOnIs DEF ExporterAccepts, SessionLost, GoesQuiet, net
<1>4. HubTyped' /\ NetTyped'
  BY <1>1, <1>2, <1>3 DEF HubTyped, NetTyped, ReadOn
<1>5. CASE ExporterAccepts \/ SessionLost
  <2>1. exp' = [exp EXCEPT !.open = FALSE] /\ accepted' \in BOOLEAN
    BY <1>1, <1>5 DEF ExporterAccepts, SessionLost, PeerTyped
  <2> QED
    BY <2>1, <1>2, <1>4, EndedInv
<1>6. CASE GoesQuiet
  <2>1. UNCHANGED <<exp, accepted>>
    BY <1>6 DEF GoesQuiet
  <2>2. PeerTyped' /\ NoSessionInv'
    BY <2>1, <1>2 DEF ImportingInv, PeerTyped, NoSessionInv
  <2>3. ASSUME exp.open PROVE (client.open /\ GrantUnread /\ GrantHalfTaken /\ GrantTaken
                               /\ GivingBack /\ Presented)'
    BY <2>1, <2>3, <1>2, <1>3 DEF ImportingInv, SessionInv, GrantUnread, GrantHalfTaken,
                                  GrantTaken, GivingBack, Presented, ReadOn
  <2> QED
    BY <2>1, <2>2, <2>3, <1>4 DEF ImportingInv, SessionInv
<1> QED
  BY <1>5, <1>6

-------------------------------------------------------------------------------
(* What the user, the timer and the presented device start *)

LEMMA StartsInv ==
    ASSUME ImportingInv, Approve \/ Tick \/ Refresh \/ Attach PROVE ImportingInv'
<1>1. op = NoOp /\ op.kind = "None" /\ client.open /\ NetTyped
  BY NoneTyped DEF Approve, Tick, Refresh, Attach, Idle, ImportingInv
<1>2. down' = down /\ UNCHANGED <<state, port, exp, accepted>>
  BY DEF Approve, Tick, Refresh, Attach, peer
<1>3. ReadOn
  BY <1>1, <1>2, ReadOnIs
<1>4. PICK kind \in {"Ping", "List", "Attach"}, then \in {"TickPing", "User", "Approve", "Attach"} :
         /\ Call(client, kind, then)
         /\ \/ kind = "Ping" /\ then \in {"TickPing", "User"}
            \/ kind = "List" /\ then \in {"Approve", "User"}
            \/ kind = "Attach" /\ then = "Attach"
  BY DEF Approve, Tick, Refresh, Attach
<1>5. \A rid \in Nat : [kind |-> kind, rid |-> rid, then |-> then] \in Calls
  BY <1>4 DEF Calls
<1> QED
  BY <1>1, <1>2, <1>3, <1>4, <1>5, CallStepInv

LEMMA GivesUpInv == ASSUME ImportingInv, Detach \/ Disconnect PROVE ImportingInv'
<1>1. HubTyped /\ NetTyped
  BY DEF ImportingInv
<1>2. op = NoOp
  BY DEF Detach, Disconnect, Idle
<1>3. CASE state = "Attached"
  <2>1. client.open
    BY <1>3 DEF ImportingInv, NoSessionInv
  <2>2. PICK then \in {"Detach", "Disconnect"} : Call(client, "Detach", then)
    BY <1>3 DEF Detach, Disconnect
  <2>3. port' = NoPort /\ down' = down /\ UNCHANGED <<state, exp, accepted>>
    BY <1>3 DEF Detach, Disconnect, peer
  <2>4. ReadOn
    BY <1>1, <2>3, ReadOnIs
  <2> QED
    BY <1>1, <1>2, <1>3, <2>1, <2>2, <2>3, <2>4, NoneTyped, DetachSentInv,
       ZenonT(60) DEF HubTyped
<1>4. CASE state # "Attached"
  <2>1. DropsSession /\ state' = "Off" /\ down' = <<>> /\ accepted' = accepted
    BY <1>4 DEF Detach, Disconnect, AfterDisconnect
  <2> QED
    BY <2>1, DropInv
<1> QED
  BY <1>3, <1>4

LEMMA PortInv ==
    ASSUME ImportingInv,
           PortCalls \/ PortAnswered \/ PortExpires \/ PortLost
             \/ PlaneSubmits \/ PlanePumps \/ PlaneFails
    PROVE  ImportingInv'
<1> DEFINE Ports == [kind : {"None"} \cup Presenters, attachId : Nat, rid : Nat,
                     out : SUBSET Nat]
<1>1. /\ NetTyped /\ op \in Calls /\ port \in Ports
      /\ client \in [open : BOOLEAN, rid : Nat, attachId : Nat]
  BY DEF ImportingInv, HubTyped
<1>2. op.kind # "Detach"
  BY <1>1, CallsAre, NoneTyped DEF PortCalls, PortAnswered, PortExpires, PortLost, PlaneSubmits,
       PlanePumps, PlaneFails, Idle
<1>3. client' = client /\ exp' = exp /\ accepted' = accepted
  BY DEF PortCalls, PortAnswered, PortExpires, PortLost, PlaneSubmits, PlanePumps, PlaneFails,
         peer
<1>4. ReadOn
  BY <1>1, ReadOnIs DEF PortCalls, PortAnswered, PortExpires, PortLost, PlaneSubmits,
       PlanePumps, PlaneFails, net
<1>5. CASE PortAnswered \/ PortExpires \/ PortLost
  <2>1. op' = NoOp /\ UNCHANGED <<state, port, up>>
    BY <1>5 DEF PortAnswered, PortExpires, PortLost, net
  <2> QED
    BY <2>1, <1>1, <1>2, <1>3, <1>4, ReturnInv
<1>6. CASE PortCalls \/ PlaneSubmits
  <2>1. client.open /\ state' = state
    BY <1>6 DEF PortCalls, PlaneSubmits, ImportingInv, NoSessionInv
  <2>2. PICK rid \in Nat : rid = (port.rid + 1) % Ids
    BY <1>1, NextRid
  <2>3. PICK kind \in {"Submit", "ClearHalt"} :
           /\ op' \in {[kind |-> kind, rid |-> rid, then |-> "Port"], op}
           /\ up' = Append(up, [type |-> kind, rid |-> rid, attachId |-> port.attachId])
    BY <1>6, <2>2 DEF PortCalls, PlaneSubmits
  <2>4. op' \in Calls /\ op'.kind \notin {"Detach", "Manifest"}
    <3>1. [kind |-> kind, rid |-> rid, then |-> "Port"] \in Calls
      BY DEF Calls
    <3>2. op = NoOp
      BY <1>6 DEF PortCalls, PlaneSubmits, Idle
    <3> QED
      BY <3>1, <3>2, <2>3, NoneTyped
  <2>5. [type |-> kind, rid |-> rid, attachId |-> port.attachId] \in Requests \ Detaches
    BY <1>1 DEF Requests, Detaches
  <2>6. port' \in Ports /\ port'.attachId = port.attachId
    <3>1. \/ port' = [port EXCEPT !.rid = rid]
          \/ port' = [port EXCEPT !.rid = rid, !.out = @ \cup {rid}]
      BY <1>6, <2>2 DEF PortCalls, PlaneSubmits
    <3>2. CASE port' = [port EXCEPT !.rid = rid]
      BY <3>2, <1>1
    <3>3. CASE port' = [port EXCEPT !.rid = rid, !.out = @ \cup {rid}]
      <4>1. PICK out \in SUBSET Nat : out = port.out \cup {rid}
        BY <1>1
      <4>2. port' = [port EXCEPT !.rid = rid, !.out = out]
        BY <3>3, <4>1, <1>1
      <4> QED
        BY <4>2, <1>1
    <3> QED
      BY <3>1, <3>2, <3>3
  <2> QED
    BY <2>1, <2>3, <2>4, <2>5, <2>6, <1>1, <1>2, <1>3, <1>4, StepInv
<1>7. CASE PlanePumps \/ PlaneFails
  <2>1. op = NoOp /\ op' = NoOp /\ up' = up
    BY <1>7 DEF PlanePumps, PlaneFails, Idle, net
  <2>2. /\ port' \in Ports
        /\ state' = "Attached" => state = "Attached" /\ port'.attachId = port.attachId
        /\ state' = "Off" => state = "Off"
    BY <1>1, <1>7, NoneTyped, SMTT(30) DEF PlanePumps, PlaneFails
  <2> QED
    BY <2>1, <2>2, <1>1, <1>2, <1>3, <1>4, NoneTyped, StepInv
<1> QED
  BY <1>5, <1>6, <1>7

-------------------------------------------------------------------------------
(* Whose COMPLETEs there are to read *)

Completes == {r \in Replies : r.type = "Complete"}

\* Every COMPLETE in s is of the attach a.
OnlyOf(s, a) == \A r \in Found(s, Completes) : r.id = a

\* A COMPLETE behind a grant is of the attach granted: the exporter answers whatever it
\* owes before it lets go of an attach, and the stream keeps the order.
Follows(s) ==
    \A i, j \in 1..Len(s) :
        i < j /\ s[i] \in Grants /\ s[j] \in Completes => s[j].id = s[i].id

\* A call on the way to a presented device, or giving back one that was not taken.
Attaching(o) ==
    o.kind \in {"Attach", "Manifest"} \/ (o.kind = "Detach" /\ o.then = "GiveBack")

OwnInv ==
    /\ ~mixed
    /\ \A r \in exp.owed : r.id = exp.held /\ exp.held # 0
    /\ Follows(down)
    /\ op.kind = "Manifest" => OnlyOf(down, op.id)
    /\ state = "Attached" /\ op.kind # "Detach" => OnlyOf(down, port.attachId)
    /\ Attaching(op) => state # "Attached"
    /\ op.kind = "Submit" => state = "Attached"

LEMMA FollowsConcat ==
    ASSUME NEW s \in Seq(Replies), NEW t \in Seq(Replies), Follows(s), Follows(t),
           \A g \in Found(s, Grants), c \in Found(t, Completes) : c.id = g.id
    PROVE  Follows(s \o t)
<1>1. PICK m \in Nat, n \in Nat : m = Len(s) /\ n = Len(t)
  OBVIOUS
<1>2. PICK u \in Seq(Replies) : u = s \o t
  <2>1. s \o t \in Seq(Replies)
    BY FoundConcat
  <2> QED
    BY <2>1
<1>3. /\ Len(u) = m + n
      /\ \A i \in 1..m : u[i] = s[i]
      /\ \A i \in 1..m + n : i > m => i - m \in 1..n /\ u[i] = t[i - m]
  BY <1>1, <1>2
<1>4. SUFFICES ASSUME NEW i \in 1..m + n, NEW j \in 1..m + n, i < j, u[i] \in Grants,
                      u[j] \in Completes
               PROVE  u[j].id = u[i].id
  BY <1>2, <1>3 DEF Follows
<1>5. CASE j <= m
  <2>1. i \in 1..m /\ j \in 1..m
    BY <1>4, <1>5
  <2> QED
    BY <2>1, <1>1, <1>3, <1>4 DEF Follows
<1>6. CASE i <= m /\ j > m
  <2>1. i \in 1..m /\ j - m \in 1..n
    BY <1>3, <1>6
  <2>2. s[i] \in Found(s, Grants) /\ t[j - m] \in Found(t, Completes)
    BY <2>1, <1>1, <1>3, <1>4, <1>6 DEF Found, At
  <2> QED
    BY <2>1, <2>2, <1>3, <1>6
<1>7. CASE i > m
  <2>1. i - m \in 1..n /\ j - m \in 1..n /\ i - m < j - m /\ j > m
    BY <1>3, <1>4, <1>7
  <2>2. u[i] = t[i - m] /\ u[j] = t[j - m]
    BY <2>1, <1>3, <1>7
  <2> QED
    BY <2>1, <2>2, <1>1, <1>4 DEF Follows
<1> QED
  BY <1>4, <1>5, <1>6, <1>7

LEMMA FollowsTail ==
    ASSUME NEW s \in Seq(Replies), s # <<>>, Follows(s)
    PROVE  /\ Follows(Tail(s))
           /\ Head(s) \in Grants => OnlyOf(Tail(s), Head(s).id)
<1>1. PICK m \in Nat : m + 1 = Len(s)
  <2>1. Len(s) \in Nat /\ Len(s) # 0
    OBVIOUS
  <2> QED
    BY <2>1
<1>2. PICK t \in Seq(Replies) : t = Tail(s)
  <2>1. Tail(s) \in Seq(Replies)
    BY FoundTail
  <2> QED
    BY <2>1
<1>3. Len(t) = m /\ Head(s) = s[1] /\ \A i \in 1..m : t[i] = s[i + 1] /\ i + 1 \in 1..m + 1
  BY <1>1, <1>2
<1>4. Follows(t)
  <2>1. SUFFICES ASSUME NEW i \in 1..m, NEW j \in 1..m, i < j, t[i] \in Grants,
                        t[j] \in Completes
                 PROVE  t[j].id = t[i].id
    BY <1>3 DEF Follows
  <2>2. i + 1 \in 1..m + 1 /\ j + 1 \in 1..m + 1 /\ i + 1 < j + 1
    BY <2>1
  <2>3. PICK k \in 1..m + 1, l \in 1..m + 1 : k = i + 1 /\ l = j + 1 /\ k < l
    BY <2>2
  <2>4. t[i] = s[k] /\ t[j] = s[l]
    BY <2>3, <1>3
  <2> QED
    BY <2>1, <2>3, <2>4, <1>1 DEF Follows
<1>5. ASSUME s[1] \in Grants, NEW i \in 1..m, t[i] \in Completes PROVE t[i].id = s[1].id
  <2>1. 1 \in 1..m + 1 /\ i + 1 \in 1..m + 1 /\ 1 < i + 1
    OBVIOUS
  <2> QED
    BY <2>1, <1>1, <1>3, <1>5 DEF Follows
<1> QED
  BY <1>2, <1>3, <1>4, <1>5 DEF OnlyOf, Found, At

LEMMA FollowsPrefix ==
    ASSUME NEW s \in Seq(Replies), NEW n \in 0..Len(s), Follows(s)
    PROVE  Follows(SubSeq(s, 1, n))
<1>1. /\ Len(s) \in Nat /\ n \in Nat /\ n <= Len(s)
      /\ \A i \in 1..n : i \in 1..Len(s)
  OBVIOUS
<1>2. /\ Len(SubSeq(s, 1, n)) = n
      /\ \A i \in 1..n : SubSeq(s, 1, n)[i] = s[i]
  BY <1>1
<1> QED
  BY <1>1, <1>2 DEF Follows

\* Reading, and losing what was not delivered.
LEMMA ReadIs ==
    ASSUME NetTyped, Follows(down),
           \/ down' = down \/ down' = <<>>
           \/ down # <<>> /\ down' = Tail(down)
           \/ Delivered
    PROVE  Follows(down') /\ \A a : OnlyOf(down, a) => OnlyOf(down', a)
<1>0. PICK d \in Seq(Replies) : d = down
  BY DEF NetTyped
<1>1. CASE down' = down
  BY <1>1
<1>2. CASE down' = <<>>
  BY <1>2, FoundNone DEF Follows, OnlyOf
<1>3. CASE down # <<>> /\ down' = Tail(down)
  <2>1. Found(Tail(d), Completes) \subseteq Found(d, Completes)
    BY <1>0, <1>3, FoundTail
  <2> QED
    BY <2>1, <1>0, <1>3, FollowsTail DEF OnlyOf
<1>4. CASE Delivered
  <2>1. PICK n \in 0..Len(d) : down' = SubSeq(d, 1, n)
    BY <1>0, <1>4 DEF Delivered
  <2>2. Found(SubSeq(d, 1, n), Completes) \subseteq Found(d, Completes)
    BY FoundPrefix
  <2> QED
    BY <2>1, <2>2, <1>0, FollowsPrefix DEF OnlyOf
<1> QED
  BY <1>1, <1>2, <1>3, <1>4

\* A step that adds nothing to read and presents no device.
LEMMA OwnRead ==
    ASSUME NetTyped, OwnInv, ~mixed',
           \/ down' = down \/ down' = <<>>
           \/ down # <<>> /\ down' = Tail(down)
           \/ Delivered,
           exp'.owed = {} \/ (exp'.owed = exp.owed /\ exp'.held = exp.held),
           op'.kind = "Manifest" => op' = op,
           state' = "Attached" => /\ state = "Attached" /\ port'.attachId = port.attachId
                                  /\ op.kind = "Detach" => op'.kind = "Detach",
           Attaching(op') => state' # "Attached",
           op'.kind = "Submit" => state' = "Attached"
    PROVE  OwnInv'
<1>1. Follows(down') /\ \A a : OnlyOf(down, a) => OnlyOf(down', a)
  BY ReadIs DEF OwnInv
<1>2. \A r \in exp'.owed : r.id = exp'.held /\ exp'.held # 0
  BY DEF OwnInv
<1> QED
  BY <1>1, <1>2, ZenonT(60) DEF OwnInv, Follows, OnlyOf, Attaching

\* A step in which the exporter answers: rs is all of the attach it held, or has no
\* COMPLETE at all.
LEMMA OwnWritten ==
    ASSUME ImportingInv, OwnInv, exp.open, UNCHANGED <<hub, mixed>>,
           NEW rs \in Seq(Replies), down' = down \o rs, Follows(rs),
           OnlyOf(rs, exp.held),
           \A r \in exp'.owed : r.id = exp'.held /\ exp'.held # 0
    PROVE  OwnInv'
<1>1. PICK d \in Seq(Replies) : d = down
  BY DEF ImportingInv, NetTyped
<1>2. \A g \in Found(d, Grants), c \in Found(rs, Completes) : c.id = g.id
  BY <1>1 DEF ImportingInv, SessionInv, GrantUnread, OnlyOf
<1>3. Follows(down')
  BY <1>1, <1>2, FollowsConcat DEF OwnInv
<1>4. Found(d \o rs, Completes) = Found(d, Completes) \cup Found(rs, Completes)
  BY FoundConcat
<1>5. OnlyOf(down, exp.held) => OnlyOf(down', exp.held)
  BY <1>1, <1>4 DEF OnlyOf
<1>6. op' = op /\ state' = state /\ port' = port /\ mixed' = mixed
  BY DEF hub
<1>7. op.kind = "Manifest" => op.id = exp.held
  BY DEF ImportingInv, SessionInv, GrantHalfTaken
<1>8. state = "Attached" /\ op.kind # "Detach" => port.attachId = exp.held
  BY DEF ImportingInv, SessionInv, Presented, GrantTaken
<1>9. op'.kind = "Manifest" => OnlyOf(down', op'.id)
  BY <1>5, <1>6, <1>7 DEF OwnInv
<1>10. state' = "Attached" /\ op'.kind # "Detach" => OnlyOf(down', port'.attachId)
  BY <1>5, <1>6, <1>8 DEF OwnInv
<1> QED
  BY <1>3, <1>6, <1>9, <1>10 DEF OwnInv, Follows, OnlyOf, Attaching

\* Records that are not COMPLETEs.
LEMMA PlainIs ==
    ASSUME NEW rs \in Seq(Replies), Found(rs, Completes) = {}
    PROVE  Follows(rs) /\ \A a : OnlyOf(rs, a)
  BY DEF Follows, OnlyOf, Found, At

LEMMA OwnFinishes == ASSUME ImportingInv, OwnInv, ExporterFinishes PROVE OwnInv'
<1>1. /\ exp.owed \subseteq Replies /\ exp.owed \cap Grants = {}
      /\ exp \in [open : BOOLEAN, paired : BOOLEAN, held : Nat, last : Nat, owed : SUBSET Replies]
  BY DEF ImportingInv, PeerTyped
<1>2. PICK r \in exp.owed : exp' = [exp EXCEPT !.owed = @ \ {r}] /\ down' = Append(down, r)
  BY DEF ExporterFinishes
<1>3. PICK x \in Replies : x = r /\ x.id = exp.held /\ x \notin Grants
  BY <1>1 DEF OwnInv
<1>4. PICK rs \in Seq(Replies) : rs = <<x>>
  BY FoundOne
<1>5. Follows(rs) /\ OnlyOf(rs, exp.held)
  <2>1. Len(rs) = 1 /\ rs[1] = x
    BY <1>4
  <2>2. \A i, j \in 1..Len(rs) : ~(i < j)
    BY <2>1
  <2>3. Found(rs, Completes) \subseteq {x}
    BY <1>4, FoundOne
  <2> QED
    BY <2>2, <2>3, <1>3 DEF Follows, OnlyOf
<1>6. down' = down \o rs
  <2>1. PICK d \in Seq(Replies) : d = down
    BY DEF ImportingInv, NetTyped
  <2> QED
    BY <2>1, <1>2, <1>3, <1>4
<1>7. exp'.owed \subseteq exp.owed /\ exp'.held = exp.held
  BY <1>1, <1>2
<1>8. \A y \in exp'.owed : y.id = exp'.held /\ exp'.held # 0
  BY <1>7 DEF OwnInv
<1>9. exp.open /\ UNCHANGED <<hub, mixed>>
  BY DEF ExporterFinishes
<1> QED
  BY <1>5, <1>6, <1>8, <1>9, OwnWritten

LEMMA OwnTakes == ASSUME ImportingInv, OwnInv, ExporterTakes PROVE OwnInv'
<1>1. /\ exp \in [open : BOOLEAN, paired : BOOLEAN, held : Nat, last : Nat, owed : SUBSET Replies]
      /\ IsFiniteSet(exp.owed) /\ exp.owed \subseteq Replies
      /\ \A r \in exp.owed : r.id = exp.held /\ exp.held # 0
  BY DEF ImportingInv, PeerTyped, OwnInv
<1>2. exp.open /\ up # <<>> /\ UNCHANGED <<hub, mixed>>
  BY DEF ExporterTakes
<1>3. PICK m \in Requests : m = Head(up)
  BY <1>2 DEF ImportingInv, NetTyped
<1>4. PICK d \in Seq(Replies) : d = down
  BY DEF ImportingInv, NetTyped
<1>5. ASSUME NEW rs \in Seq(Replies), Found(rs, Completes) = {}, down' = down \o rs,
             \A r \in exp'.owed : r.id = exp'.held /\ exp'.held # 0
      PROVE  OwnInv'
  BY <1>2, <1>5, PlainIs, OwnWritten
<1>6. ASSUME NEW type \in {"Pong", "NotPaired", "List", "Refused", "AttachOk"},
             down' = down \o <<Reply(type, m)>>, exp' = exp
      PROVE  OwnInv'
  <2>1. PICK x \in Replies : x = Reply(type, m)
    BY ReplyIs
  <2>2. x \notin Completes
    BY <2>1 DEF Reply, Completes
  <2>3. <<x>> \in Seq(Replies) /\ Found(<<x>>, Completes) = {}
    BY <2>2, FoundOne
  <2> QED
    BY <2>1, <2>3, <1>1, <1>5, <1>6
<1>7. CASE m.type = "Ping" \/ ~exp.paired \/ m.type = "List"
  <2>1. \E type \in {"Pong", "NotPaired", "List"} :
           down' = down \o <<Reply(type, m)>> /\ exp' = exp
    BY <1>3, <1>7 DEF ExporterTakes, Answers
  <2> QED
    BY <2>1, <1>6
<1>8. CASE m.type = "Attach" /\ exp.paired
  <2>1. \/ \E type \in {"Refused", "AttachOk"} :
              down' = down \o <<Reply(type, m)>> /\ exp' = exp
        \/ /\ exp.held = 0
           /\ exp' = [exp EXCEPT !.held = exp.last + 1, !.last = exp.last + 1]
           /\ down' = down \o <<[Reply("AttachOk", m) EXCEPT !.id = exp.last + 1],
                                Reply("Manifest", m)>>
    BY <1>3, <1>8 DEF ExporterTakes, Answers, HandleAttach
  <2>2. CASE /\ exp.held = 0
             /\ exp' = [exp EXCEPT !.held = exp.last + 1, !.last = exp.last + 1]
             /\ down' = down \o <<[Reply("AttachOk", m) EXCEPT !.id = exp.last + 1],
                                  Reply("Manifest", m)>>
    <3>1. PICK id \in Nat : id = exp.last + 1
      BY <1>1
    <3>2. PICK g \in Replies : g = [Reply("AttachOk", m) EXCEPT !.id = id] /\ g \notin Completes
      <4>1. [Reply("AttachOk", m) EXCEPT !.id = id] \in Replies \ Completes
        BY DEF Reply, Replies, Requests, Completes
      <4> QED
        BY <4>1
    <3>3. PICK n \in Replies : n = Reply("Manifest", m) /\ n \notin Completes
      <4>1. Reply("Manifest", m) \in Replies \ Completes
        BY DEF Reply, Replies, Requests, Completes
      <4> QED
        BY <4>1
    <3>4. PICK rs \in Seq(Replies) : rs = <<g, n>>
      <4>1. <<g, n>> \in Seq(Replies)
        OBVIOUS
      <4> QED
        BY <4>1
    <3>5. Len(rs) = 2 /\ rs[1] = g /\ rs[2] = n
      BY <3>4
    <3>6. Found(rs, Completes) = {}
      BY <3>2, <3>3, <3>5 DEF Found, At
    <3>7. exp'.owed = {}
      BY <1>1, <2>2
    <3> QED
      BY <3>1, <3>2, <3>3, <3>4, <3>6, <3>7, <2>2, <1>5
  <2> QED
    BY <2>1, <2>2, <1>6
<1>9. CASE m.type = "Detach" /\ exp.paired
  <2>1. \/ down' = down \o <<Reply("Refused", m)>> /\ exp' = exp
        \/ /\ exp' = [exp EXCEPT !.held = 0, !.owed = {}]
           /\ down' = down \o SetToSeq(exp.owed) \o <<Reply("DetachOk", m)>>
    BY <1>3, <1>9 DEF ExporterTakes, Answers, HandleDetach
  <2>2. CASE /\ exp' = [exp EXCEPT !.held = 0, !.owed = {}]
             /\ down' = down \o SetToSeq(exp.owed) \o <<Reply("DetachOk", m)>>
    <3>1. PICK T \in SUBSET Replies : T = exp.owed
      BY <1>1
    <3>2. /\ T \cap Grants = {} /\ T \cap {r \in Replies : r.id # exp.held} = {}
          /\ IsFiniteSet(T)
      BY <3>1, <1>1 DEF ImportingInv, PeerTyped
    <3>3. /\ SetToSeq(T) \in Seq(Replies) /\ Found(SetToSeq(T), Grants) = {}
          /\ Found(SetToSeq(T), {r \in Replies : r.id # exp.held}) = {}
      BY <3>2, FoundFlushed
    <3>4. PICK s \in Seq(Replies) :
             /\ s = SetToSeq(T) /\ Found(s, Grants) = {}
             /\ Found(s, {r \in Replies : r.id # exp.held}) = {}
      BY <3>3
    <3>5. PICK x \in Replies : x = Reply("DetachOk", m) /\ x \notin Grants /\ x \notin Completes
      <4>1. Reply("DetachOk", m) \in (Replies \ Grants) \ Completes
        BY DEF Reply, Replies, Requests, Completes, Grants, Granted
      <4> QED
        BY <4>1
    <3>6. PICK t \in Seq(Replies) :
             t = <<x>> /\ Found(t, Grants) = {} /\ Found(t, Completes) = {}
      <4>1. /\ <<x>> \in Seq(Replies) /\ Found(<<x>>, Grants) = {x} \cap Grants
            /\ Found(<<x>>, Completes) = {x} \cap Completes
        BY FoundOne
      <4> QED
        BY <4>1, <3>5
    <3>7. PICK rs \in Seq(Replies) :
             /\ rs = s \o t /\ Found(rs, Grants) = {}
             /\ Found(rs, Completes) = Found(s, Completes)
      <4>1. /\ s \o t \in Seq(Replies)
            /\ Found(s \o t, Grants) = Found(s, Grants) \cup Found(t, Grants)
            /\ Found(s \o t, Completes) = Found(s, Completes) \cup Found(t, Completes)
        BY FoundConcat
      <4> QED
        BY <4>1, <3>4, <3>6
    <3>8. OnlyOf(rs, exp.held)
      <4>1. \A r \in Found(s, Completes) :
                r \in Replies /\ (r.id # exp.held =>
                                      r \in Found(s, {y \in Replies : y.id # exp.held}))
        BY DEF Found, At, Completes
      <4> QED
        BY <4>1, <3>4, <3>7 DEF OnlyOf
    <3>9. Follows(rs)
      <4>1. \A i \in 1..Len(rs) : rs[i] \in Grants => rs[i] \in Found(rs, Grants)
        BY DEF Found, At
      <4> QED
        BY <4>1, <3>7 DEF Follows
    <3>10. down' = down \o rs
      <4>1. d \o s \o t = d \o (s \o t)
        OBVIOUS
      <4> QED
        BY <4>1, <1>4, <2>2, <3>1, <3>4, <3>5, <3>6, <3>7
    <3>11. exp'.owed = {}
      BY <1>1, <2>2
    <3> QED
      BY <3>8, <3>9, <3>10, <3>11, <1>2, OwnWritten
  <2> QED
    BY <2>1, <2>2, <1>6
<1>10. CASE m.type \in {"Submit", "ClearHalt"} /\ exp.paired
  <2>1. \/ down' = down \o <<Reply("Refused", m)>> /\ exp' = exp
        \/ down' = down \o <<>> /\ exp' = exp
        \/ /\ exp' = [exp EXCEPT !.owed = @ \cup {Owes(m)}] /\ down' = down
           /\ exp.held # 0 /\ m.attachId = exp.held
    BY <1>3, <1>10 DEF ExporterTakes, Answers, HandleSubmit
  <2>2. <<>> \in Seq(Replies) /\ Found(<<>>, Completes) = {} /\ d \o <<>> = d
    BY FoundNone
  <2>3. CASE down' = down \o <<>> /\ exp' = exp
    BY <2>2, <2>3, <1>1, <1>5
  <2>4. CASE /\ exp' = [exp EXCEPT !.owed = @ \cup {Owes(m)}] /\ down' = down
             /\ exp.held # 0 /\ m.attachId = exp.held
    <3>1. PICK x : x = Owes(m)
      OBVIOUS
    <3>2. x.id = exp.held
      BY <2>4, <3>1 DEF Owes
    <3>3. exp'.owed = exp.owed \cup {x} /\ exp'.held = exp.held
      BY <2>4, <3>1, <1>1
    <3>4. \A r \in exp'.owed : r.id = exp'.held /\ exp'.held # 0
      BY <3>2, <3>3, <2>4, <1>1
    <3> QED
      BY <3>4, <2>2, <2>4, <1>4, <1>5
  <2> QED
    BY <2>1, <2>3, <2>4, <1>6
<1> QED
  BY <1>7, <1>8, <1>9, <1>10 DEF Requests

LEMMA OwnLoss ==
    ASSUME ImportingInv, OwnInv, ExporterAccepts \/ SessionLost \/ GoesQuiet PROVE OwnInv'
<1>1. /\ exp \in [open : BOOLEAN, paired : BOOLEAN, held : Nat, last : Nat, owed : SUBSET Replies]
      /\ NetTyped /\ ~mixed
  BY DEF ImportingInv, PeerTyped, OwnInv
<1>2. UNCHANGED <<state, port, op>> /\ mixed' = mixed /\ (down' = down \/ Delivered)
  BY DEF ExporterAccepts, SessionLost, GoesQuiet, hub, net
<1>3. exp'.owed = exp.owed /\ exp'.held = exp.held
  BY <1>1 DEF ExporterAccepts, SessionLost, GoesQuiet
<1>4. /\ Attaching(op') => state' # "Attached"
      /\ op'.kind = "Submit" => state' = "Attached"
  BY <1>2 DEF OwnInv, Attaching
<1> QED
  BY <1>1, <1>2, <1>3, <1>4, OwnRead

LEMMA OwnConnects == ASSUME ImportingInv, OwnInv, Connect \/ Reconnect PROVE OwnInv'
<1>1. Opened /\ mixed' = mixed /\ state' # "Attached"
  BY DEF Connect, Reconnect
<1>2. exp'.owed = {} /\ down' = <<>>
  BY <1>1 DEF Opened, NoSession
<1>3. op'.kind \in {"None", "List"}
  BY DEF Connect, Reconnect, Call, Returns, NoOp
<1> QED
  BY <1>1, <1>2, <1>3, OwnRead DEF ImportingInv, OwnInv, Attaching

LEMMA OwnStarts ==
    ASSUME ImportingInv, OwnInv,
           Approve \/ Tick \/ Refresh \/ Attach \/ Detach \/ Disconnect
    PROVE  OwnInv'
<1>1. /\ op = NoOp /\ op.kind = "None" /\ NetTyped /\ ~mixed
      /\ exp \in [open : BOOLEAN, paired : BOOLEAN, held : Nat, last : Nat, owed : SUBSET Replies]
  BY NoneTyped DEF Approve, Tick, Refresh, Attach, Detach, Disconnect, Idle, ImportingInv,
                   PeerTyped, OwnInv
<1>2. mixed' = mixed
  BY DEF Approve, Tick, Refresh, Attach, Detach, Disconnect
<1>3. CASE Approve \/ Tick \/ Refresh \/ Attach
  <2>1. /\ op'.kind \in {"List", "Ping", "Attach"} /\ UNCHANGED <<state, port, down, exp>>
        /\ op'.kind = "Attach" => state = "Connected"
    BY <1>3 DEF Approve, Tick, Refresh, Attach, Call, peer
  <2> QED
    BY <2>1, <1>1, <1>2, OwnRead DEF Attaching
<1>4. CASE (Detach \/ Disconnect) /\ state = "Attached"
  <2>1. /\ op'.kind = "Detach" /\ op'.then \in {"Detach", "Disconnect"}
        /\ UNCHANGED <<down, exp>>
    BY <1>4 DEF Detach, Disconnect, Call, peer
  <2>2. ~Attaching(op')
    BY <2>1 DEF Attaching
  <2>3. Follows(down')
    BY <2>1 DEF OwnInv
  <2>4. \A r \in exp'.owed : r.id = exp'.held /\ exp'.held # 0
    BY <2>1 DEF OwnInv
  <2> QED
    BY <2>1, <2>2, <2>3, <2>4, <1>1, <1>2 DEF OwnInv, Follows, OnlyOf, Attaching
<1>5. CASE Disconnect /\ state # "Attached"
  <2>1. DropsSession /\ state' = "Off" /\ down' = <<>>
    BY <1>5 DEF Disconnect, AfterDisconnect
  <2>2. op'.kind = "None" /\ exp'.owed = exp.owed /\ exp'.held = exp.held
    BY <2>1, <1>1, NoneTyped DEF DropsSession
  <2> QED
    BY <2>1, <2>2, <1>1, <1>2, OwnRead DEF Attaching
<1> QED
  BY <1>3, <1>4, <1>5 DEF Detach

\* What submit takes for its own is its own.
LEMMA OwnPort ==
    ASSUME ImportingInv, OwnInv,
           PortCalls \/ PortAnswered \/ PortExpires \/ PortLost
             \/ PlaneSubmits \/ PlanePumps \/ PlaneFails
    PROVE  OwnInv'
<1>1. NetTyped /\ op \in Calls /\ HubTyped /\ ~mixed
  BY DEF ImportingInv, HubTyped, OwnInv
<1>2. exp' = exp /\ op.kind # "Detach"
  BY <1>1, CallsAre, NoneTyped DEF PortCalls, PortAnswered, PortExpires, PortLost, PlaneSubmits,
       PlanePumps, PlaneFails, Idle, peer
<1>3. down' = down \/ (down # <<>> /\ down' = Tail(down))
  BY DEF PortCalls, PortAnswered, PortExpires, PortLost, PlaneSubmits, PlanePumps, PlaneFails, net
<1>4. op'.kind \in {"None", "Submit", "ClearHalt"}
  BY NoneTyped DEF PortCalls, PortAnswered, PortExpires, PortLost, PlaneSubmits, PlanePumps,
       PlaneFails, Idle
<1>5. state' = "Attached" => state = "Attached" /\ port'.attachId = port.attachId
  BY <1>1 DEF PortCalls, PortAnswered, PortExpires, PortLost, PlaneSubmits, PlanePumps,
       PlaneFails, HubTyped
<1>6. op'.kind = "Submit" => state' = "Attached"
  BY NoneTyped DEF PortCalls, PortAnswered, PortExpires, PortLost, PlaneSubmits, PlanePumps,
       PlaneFails, Idle
<1>7. ~mixed'
  <2>1. CASE PortAnswered /\ op.kind = "Submit" /\ TakesAsOwn(op.rid, Head(down))
    <3>1. PICK d \in Seq(Replies) : d = down /\ d # <<>>
      BY <1>1, <2>1 DEF NetTyped, PortAnswered
    <3>2. Head(d) \in Replies /\ Head(d).type = "Complete" /\ Head(d).rid = op.rid
      BY <2>1, <3>1 DEF TakesAsOwn
    <3>3. Head(d) \in Found(d, Completes)
      BY <3>1, <3>2, FoundTail DEF Completes
    <3>4. state = "Attached"
      BY <2>1 DEF OwnInv
    <3>5. Head(d).id = port.attachId
      BY <3>1, <3>3, <3>4, <1>2 DEF OwnInv, OnlyOf
    <3> QED
      BY <2>1, <3>1, <3>2, <3>5, <1>1 DEF PortAnswered
  <2>2. CASE ~(PortAnswered /\ op.kind = "Submit" /\ TakesAsOwn(op.rid, Head(down)))
    BY <2>2, <1>1 DEF PortCalls, PortAnswered, PortExpires, PortLost, PlaneSubmits, PlanePumps,
                      PlaneFails
  <2> QED
    BY <2>1, <2>2
<1> QED
  BY <1>1, <1>2, <1>3, <1>4, <1>5, <1>6, <1>7, OwnRead DEF Attaching

\* A call that grants nothing and presents nothing.
LEMMA AfterIs ==
    ASSUME ImportingInv, ~Idle, op.then # "Port", NEW res, NEW r, After(res, r),
           ~(op.kind = "Attach" /\ res = "Ok"),
           ~(op.kind = "Manifest" /\ state' = "Attached" /\ op' = NoOp)
    PROVE  /\ op'.kind \in {"None", "List", "Detach"}
           /\ op'.kind = "Detach" => op.kind = "Manifest" /\ state' = state
           /\ state' = "Attached" =>
                 /\ state = "Attached" /\ port' = port
                 /\ op.kind = "Detach" => op.then = "GiveBack"
           /\ exp'.owed = exp.owed /\ exp'.held = exp.held
<1>1. /\ op \in Calls /\ op # NoOp
      /\ exp \in [open : BOOLEAN, paired : BOOLEAN, held : Nat, last : Nat, owed : SUBSET Replies]
  BY DEF ImportingInv, HubTyped, Idle, PeerTyped
<1>0. /\ \A cl : Returns(cl) => op'.kind = "None"
      /\ \A cl, then : Call(cl, "List", then) => op'.kind = "List"
      /\ \A cl, then : Call(cl, "Detach", then) => op'.kind = "Detach"
  BY NoneTyped DEF Returns, Call
<1>2. CASE DropsSession /\ state' # "Attached"
  BY <1>1, <1>2, NoneTyped DEF DropsSession
<1>3. CASE op.then \in {"TickPing", "TickList", "Connect", "Approve", "User"}
  <2>1. op.kind # "Detach"
    BY <1>1, <1>3, CallsAre
  <2>2. \/ DropsSession /\ state' # "Attached"
        \/ /\ op'.kind \in {"None", "List"} /\ port' = port /\ exp' = exp
           /\ state' = "Attached" => state' = state
    <3>1. \/ AfterTickPing(res) \/ AfterTickList(res) \/ AfterConnectList(res)
          \/ AfterApproveList(res) \/ AfterUser(res)
      BY <1>3 DEF After
    <3>2. CASE AfterTickPing(res)
      BY <3>2, <1>0 DEF AfterTickPing
    <3>3. CASE AfterTickList(res) \/ AfterConnectList(res) \/ AfterApproveList(res)
               \/ AfterUser(res)
      BY <3>3, <1>0 DEF AfterTickList, AfterConnectList, AfterApproveList, AfterUser
    <3> QED
      BY <3>1, <3>2, <3>3
  <2> QED
    BY <2>1, <2>2, <1>2
<1>4. CASE op.then = "Attach" /\ op.kind # "Manifest"
  <2>1. op.kind = "Attach" /\ AfterAttach(res, r)
    BY <1>1, <1>4, CallsAre DEF After
  <2> QED
    BY <2>1, NoneTyped DEF AfterAttach
<1>5. CASE op.then = "Attach" /\ op.kind = "Manifest"
  <2>1. AfterManifest(res)
    BY <1>5 DEF After
  <2>2. /\ op'.kind \in {"None", "Detach"} /\ port' = port /\ exp' = exp /\ state' = state
    <3>1. CASE res # "Ok"
      BY <2>1, <3>1, <1>0 DEF AfterManifest
    <3>2. CASE res = "Ok"
      <4>1. \/ state' = "Attached" /\ \E cl : Returns(cl)
            \/ /\ \E cl : Call(cl, "Detach", "GiveBack")
               /\ UNCHANGED <<state, port, exp>>
        BY <2>1, <3>2 DEF AfterManifest
      <4>2. ~(state' = "Attached" /\ \E cl : Returns(cl))
        BY <1>5 DEF Returns
      <4> QED
        BY <4>1, <4>2, <1>0
    <3> QED
      BY <3>1, <3>2
  <2> QED
    BY <2>2, <1>5
<1>6. CASE op.then \in {"GiveBack", "Detach"}
  <2>1. op.kind = "Detach"
    BY <1>1, <1>6, CallsAre
  <2>2. /\ op'.kind \in {"None", "List"} /\ port' = port /\ exp' = exp
        /\ state' = "Attached" => op.then = "GiveBack" /\ state' = state
    BY <1>0, <1>6 DEF After, AfterGiveBack, AfterDetach
  <2> QED
    BY <2>1, <2>2
<1>7. CASE op.then = "Disconnect"
  BY <1>2, <1>7 DEF After, AfterDisconnect
<1> QED
  BY <1>1, <1>3, <1>4, <1>5, <1>6, <1>7, CallsAre

LEMMA OwnCallEnds ==
    ASSUME ImportingInv, OwnInv, CallAnswered \/ CallExpires \/ CallLost PROVE OwnInv'
<1>1. /\ NetTyped /\ op \in Calls /\ op # NoOp /\ op.then # "Port" /\ ~mixed'
      /\ exp \in [open : BOOLEAN, paired : BOOLEAN, held : Nat, last : Nat, owed : SUBSET Replies]
  BY DEF ImportingInv, HubTyped, PeerTyped, OwnInv, CallAnswered, CallExpires, CallLost, Idle
<1>2. PICK res, r, d :
         /\ After(res, r) /\ Unread(d)
         /\ d = down \/ (down # <<>> /\ d = Tail(down))
         /\ op.kind = "Attach" /\ res = "Ok" =>
               /\ down # <<>> /\ d = Tail(down) /\ r = Head(down) /\ Granted(r)
  <2>1. CASE CallAnswered
    <3>1. PICK res, r : res = Verdict(op.kind, op.rid, Head(down)) /\ r = Head(down)
      OBVIOUS
    <3>2. op.kind = "Attach" /\ res = "Ok" => Granted(r)
      BY <3>1 DEF Verdict
    <3>3. down # <<>> /\ After(res, r) /\ Unread(Tail(down))
      BY <2>1, <3>1 DEF CallAnswered
    <3> QED
      BY <3>1, <3>2, <3>3
  <2>2. CASE CallExpires
    BY <2>2 DEF CallExpires
  <2>3. CASE CallLost
    BY <2>3 DEF CallLost
  <2> QED
    BY <2>1, <2>2, <2>3
<1>3. down' \in {d, <<>>}
  BY <1>2 DEF Unread
<1>4. down' = down \/ down' = <<>> \/ (down # <<>> /\ down' = Tail(down))
  BY <1>2, <1>3
<1>5. Follows(down') /\ \A a : OnlyOf(down, a) => OnlyOf(down', a)
  BY <1>1, <1>4, ReadIs DEF OwnInv
<1>6. CASE op.kind = "Attach" /\ res = "Ok"
  <2>1. op.then = "Attach" /\ op.kind # "Manifest"
    BY <1>1, <1>6, CallsAre
  <2>2. /\ op'.kind = "Manifest" /\ op'.id = r.id /\ UNCHANGED <<state, exp>>
    BY <2>1, <1>2, <1>6 DEF After, AfterAttach
  <2>3. PICK s \in Seq(Replies) : s = down
    BY <1>1 DEF NetTyped
  <2>4. OnlyOf(Tail(s), r.id)
    <3>1. s # <<>> /\ r = Head(s) /\ Granted(r)
      BY <2>3, <1>2, <1>6
    <3>2. r \in Grants
      BY <3>1 DEF Grants
    <3> QED
      BY <3>1, <3>2, <2>3, FollowsTail DEF OwnInv
  <2>5. OnlyOf(<<>>, r.id)
    BY FoundNone DEF OnlyOf
  <2>6. OnlyOf(down', op'.id)
    BY <2>2, <2>3, <2>4, <2>5, <1>2, <1>3, <1>6
  <2>7. state' # "Attached"
    BY <2>2, <1>6 DEF OwnInv, Attaching
  <2>8. \A y \in exp'.owed : y.id = exp'.held /\ exp'.held # 0
    BY <2>2 DEF OwnInv
  <2> QED
    BY <2>2, <2>6, <2>7, <2>8, <1>1, <1>5 DEF OwnInv, Follows, OnlyOf, Attaching
<1>7. CASE op.kind = "Manifest" /\ state' = "Attached" /\ op' = NoOp
  <2>1. op.then = "Attach" /\ state # "Attached"
    BY <1>1, <1>7, CallsAre DEF OwnInv, Attaching
  <2>2. AfterManifest(res)
    BY <2>1, <1>2, <1>7 DEF After
  <2>3. PICK p \in Presenters :
           port' = [NoPort EXCEPT !.kind = p, !.attachId = op.id] /\ exp' = exp
    BY <2>1, <2>2, <1>7 DEF AfterManifest
  <2>4. port'.attachId = op.id
    BY <2>3 DEF NoPort
  <2>5. OnlyOf(down', port'.attachId)
    BY <2>4, <1>5, <1>7 DEF OwnInv
  <2>6. \A y \in exp'.owed : y.id = exp'.held /\ exp'.held # 0
    BY <2>3 DEF OwnInv
  <2>7. op'.kind = "None" /\ ~Attaching(op')
    BY <1>7, NoneTyped DEF Attaching
  <2> QED
    BY <2>5, <2>6, <2>7, <1>1, <1>5 DEF OwnInv, Follows, OnlyOf, Attaching
<1>8. CASE /\ ~(op.kind = "Attach" /\ res = "Ok")
           /\ ~(op.kind = "Manifest" /\ state' = "Attached" /\ op' = NoOp)
  <2>1. /\ op'.kind \in {"None", "List", "Detach"}
        /\ op'.kind = "Detach" => op.kind = "Manifest" /\ state' = state
        /\ state' = "Attached" =>
              /\ state = "Attached" /\ port' = port
              /\ op.kind = "Detach" => op.then = "GiveBack"
        /\ exp'.owed = exp.owed /\ exp'.held = exp.held
    BY <1>1, <1>2, <1>8, AfterIs DEF Idle
  <2>2. state = "Attached" => ~Attaching(op)
    BY DEF OwnInv
  <2>3. Attaching(op') => state' # "Attached"
    BY <2>1, <2>2 DEF Attaching
  <2>4. state' = "Attached" => op.kind # "Detach"
    BY <2>1, <2>2 DEF Attaching
  <2> QED
    BY <2>1, <2>3, <2>4, <1>1, <1>4, OwnRead
<1> QED
  BY <1>6, <1>7, <1>8

-------------------------------------------------------------------------------
(* The theorems *)

LEMMA StutterInv == ASSUME ImportingInv, UNCHANGED vars PROVE ImportingInv'
  BY DEF vars, hub, net, peer, ImportingInv, HubTyped, PeerTyped, NetTyped, SessionInv,
         NoSessionInv, GrantUnread, GrantHalfTaken, GrantTaken, GivingBack, Presented

LEMMA ImportingInvNext == ImportingInv /\ [Next]_vars => ImportingInv'
<1> SUFFICES ASSUME ImportingInv, [Next]_vars PROVE ImportingInv'
  OBVIOUS
<1> QED
  BY CallEndsInv, ConnectInv, ExporterTakesInv, ExporterFinishesInv, LossInv, StartsInv,
     GivesUpInv, PortInv, StutterInv DEF Next, HubSteps, Expires, Exporter

\* The grant is on this side at most once, and it is what the exporter holds: invariant
\* for every presenter and every bound (doAttach, detach, ExporterSession::handle).
THEOREM ImportingInvHolds == Spec => []ImportingInv
<1>1. Init => ImportingInv
  BY ImportingInvInit
<1>2. ImportingInv /\ [Next]_vars => ImportingInv'
  BY ImportingInvNext
<1> QED
  BY <1>1, <1>2, PTL DEF Spec

\* What the window says is attached is what the exporter holds, as long as the session
\* lives, whichever call reads which answer (HubState, ImporterClient::doAttach, detach).
THEOREM AttachedMeansHeld == Spec => []AttachedIsHeld
<1>1. ImportingInv => AttachedIsHeld
  BY DEF ImportingInv, SessionInv, Presented, GrantTaken, AttachedIsHeld
<1> QED
  BY <1>1, ImportingInvHolds, PTL

LEMMA OwnInvNext == ImportingInv /\ OwnInv /\ [Next]_vars => OwnInv'
<1> SUFFICES ASSUME ImportingInv, OwnInv, [Next]_vars PROVE OwnInv'
  OBVIOUS
<1>1. CASE UNCHANGED vars
  BY <1>1 DEF vars, hub, net, peer, OwnInv, Follows, OnlyOf, Attaching
<1> QED
  BY <1>1, OwnCallEnds, OwnConnects, OwnTakes, OwnFinishes, OwnLoss, OwnStarts, OwnPort
     DEF Next, HubSteps, Expires, Exporter

\* RemoteDevicePort::submit finishes a transfer with that transfer's COMPLETE only, also
\* when one of an earlier attach, counted from the same first id, was given up on and is
\* answered later: for any number of attaches, transfers and deadlines in a session.
THEOREM CompletionIsOwn == Spec => []OwnCompletion
<1>1. Init => OwnInv
  BY FoundNone, NoneTyped
     DEF Init, NoSession, OwnInv, Follows, OnlyOf, Attaching
<1>2. ImportingInv /\ OwnInv /\ [Next]_vars => OwnInv'
  BY OwnInvNext
<1>3. OwnInv => OwnCompletion
  BY DEF OwnInv, OwnCompletion
<1> QED
  BY <1>1, <1>2, <1>3, ImportingInvHolds, PTL DEF Spec

-------------------------------------------------------------------------------
(* The secure session: the inductive invariant *)

Fields == {"state", "looping", "pattern", "msgIndex", "hash", "peer", "trust", "helloSent",
           "greet", "negotiated", "cipher", "maxRecord", "sealed", "opened", "data", "tx",
           "rx", "why"}

\* What a record u of the end s says of s, if it is a greeting.
Says(s, u) ==
    /\ s = "I" /\ u.body.type = "Hello" =>
          /\ sess["I"].helloSent
          /\ u.body.session = sess["I"].hash /\ u.body.offer = cfg["I"].offer
    /\ s = "R" /\ u.body.type = "HelloOk" =>
          /\ sess["R"].greet = "Sent"
          /\ u.body.session = sess["R"].hash /\ u.body.offer = sess["R"].negotiated

\* All that s has sealed and the other end has not taken yet, wherever it is.
Unwritten(s) == IF s \in closed THEN <<>> ELSE sess[s].tx

Stream(s) == sess[Other(s)].rx \o (pipe[s] \o Unwritten(s))

Unmet(s) == sess[s].state \in {"Idle", "AwaitingPreamble"}

\* The preamble of s heads the stream until the other end has read it.
Skew(s) == IF sess[s].state # "Idle" /\ Unmet(Other(s)) THEN 1 ELSE 0

\* Every second unit is the head of a record.
Framed(q, s, k) == \A i \in 1..Len(q) : i % 2 # k => Says(s, q[i])

Reads(s) == sess[s].state # "Failed" /\ s \notin closed
Writes(s) == sess[s].state \notin {"Idle", "Failed"} /\ s \notin closed

StreamInv(s) ==
    Reads(Other(s)) => /\ Framed(Stream(s), s, Skew(s))
                       /\ Writes(s) => Len(Stream(s)) % 2 = Skew(s)

\* Sequences of something.
Shape ==
    /\ DOMAIN sess = Ends /\ DOMAIN pipe = Ends
    /\ \A s \in Ends : DOMAIN sess[s] = Fields
    /\ \E S : \A s \in Ends : sess[s].tx \in Seq(S) /\ sess[s].rx \in Seq(S) /\ pipe[s] \in Seq(S)
    /\ \A s \in Ends : Len(pipe[s]) <= Window

Early(s) ==
    /\ sess[s].state = "Idle" =>
          pipe[s] = <<>> /\ sess[Other(s)].state \in {"Idle", "AwaitingPreamble", "Failed"}
    /\ Unmet(s) => sess[s].rx = <<>> /\ sess[s].tx = <<>>

Greeted ==
    LET agreed == Agreed(cfg["R"].offer, cfg["I"].offer)
    IN  /\ sess["I"].helloSent =>
              sess["I"].state \notin {"Idle", "AwaitingPreamble", "Handshaking"}
        /\ sess["R"].greet # "No" =>
              /\ sess["R"].state \notin {"Idle", "AwaitingPreamble", "Handshaking"}
              /\ sess["R"].negotiated = agreed /\ sess["R"].hash = sess["I"].hash
              /\ sess["I"].helloSent
        /\ sess["I"].greet = "No" /\ sess["I"].negotiated \in {agreed, NoOffer}
        /\ \A s \in Ends : sess[s].state = "Established" =>
              /\ sess[s].negotiated = agreed /\ sess[s].maxRecord = agreed.rec
              /\ sess["R"].greet = "Sent"

AgreementInv == Shape /\ Greeted /\ \A s \in Ends : Early(s) /\ StreamInv(s)

-------------------------------------------------------------------------------
(* Sequences *)

\* Every second unit of q is in G.
Heads(q, k, G) == \A i \in 1..Len(q) : i % 2 # k => q[i] \in G

LEMMA SeqOfMore ==
    ASSUME NEW S, NEW x, NEW q \in Seq(S)
    PROVE  q \in Seq(S \cup {x})
  OBVIOUS

LEMMA LenIs ==
    ASSUME NEW S, NEW q \in Seq(S)
    PROVE  Len(q) \in Nat /\ (q = <<>> <=> Len(q) = 0)
  OBVIOUS

LEMMA JoinIs ==
    ASSUME NEW S, NEW a \in Seq(S), NEW b \in Seq(S)
    PROVE  /\ a \o b \in Seq(S) /\ Len(a \o b) = Len(a) + Len(b)
           /\ \A i \in 1..Len(a) : (a \o b)[i] = a[i]
           /\ \A i \in 1..Len(b) : (a \o b)[Len(a) + i] = b[i]
  OBVIOUS

LEMMA CutAndJoin ==
    ASSUME NEW S, NEW q \in Seq(S), NEW n \in Nat, n <= Len(q)
    PROVE  /\ SubSeq(q, 1, n) \in Seq(S) /\ SubSeq(q, n + 1, Len(q)) \in Seq(S)
           /\ Len(SubSeq(q, 1, n)) = n
           /\ SubSeq(q, 1, n) \o SubSeq(q, n + 1, Len(q)) = q
<1>1. PICK m \in Nat : m = Len(q)
  BY LenIs
<1>2. n <= m /\ \A i \in 1..m : q[i] \in S
  BY <1>1, ElementOfSeq
<1>3. SubSeq(q, 1, n) \in Seq(S) /\ Len(SubSeq(q, 1, n)) = IF 1 <= n THEN n - 1 + 1 ELSE 0
  <2>1. \A i \in 1..n : q[i] \in S
    BY <1>2
  <2> QED
    BY <2>1, SubSeqProperties
<1>4. SubSeq(q, n + 1, m) \in Seq(S)
  <2>1. \A i \in n + 1..m : q[i] \in S
    BY <1>2
  <2> QED
    BY <2>1, SubSeqProperties
<1>5. SubSeq(q, 1, n) \o SubSeq(q, n + 1, m) = SubSeq(q, 1, m)
  <2>1. 1 \in 1..m + 1 /\ n \in 1 - 1..m /\ m \in n..m
    BY <1>2
  <2> QED
    BY <1>1, <2>1, ConcatAdjacentSubSeq
<1>6. SubSeq(q, 1, m) = q
  BY <1>1, SubSeqFull
<1>7. (IF 1 <= n THEN n - 1 + 1 ELSE 0) = n
  OBVIOUS
<1>8. Len(SubSeq(q, 1, n)) = n
  BY <1>3
<1> QED
  BY <1>1, <1>3, <1>4, <1>5, <1>6, <1>8, Zenon

\* Two, and three, in a row.
Pair(a, b) == a \o b
Row(a, b, c) == a \o (b \o c)

LEMMA Regroup ==
    ASSUME NEW S, NEW a \in Seq(S), NEW b \in Seq(S), NEW c \in Seq(S)
    PROVE  Pair(a, Pair(b, c)) = Pair(Pair(a, b), c) /\ Pair(a, b) \in Seq(S)
<1>1. (a \o b) \o c = a \o (b \o c)
  BY ConcatAssociative
<1>2. a \o b \in Seq(S)
  BY ConcatProperties
<1> QED
  BY <1>1, <1>2 DEF Pair

\* What is put after the third is put after the row.
LEMMA RowGrows ==
    ASSUME NEW S, NEW a \in Seq(S), NEW b \in Seq(S), NEW c \in Seq(S), NEW d \in Seq(S)
    PROVE  Row(a, b, Pair(c, d)) = Pair(Row(a, b, c), d)
<1>1. PICK x \in Seq(S) : x = Pair(b, c) /\ Pair(b, Pair(c, d)) = Pair(x, d)
  BY Regroup
<1>2. Pair(a, Pair(x, d)) = Pair(Pair(a, x), d)
  BY Regroup
<1>3. Row(a, b, Pair(c, d)) = Pair(a, Pair(b, Pair(c, d)))
      /\ Row(a, b, c) = Pair(a, x)
  BY <1>1 DEF Row, Pair
<1> QED
  BY <1>1, <1>2, <1>3

\* Two more units, a record and its second half.
LEMMA HeadsLonger ==
    ASSUME NEW S, NEW q \in Seq(S), NEW G, NEW k \in {0, 1}, Heads(q, k, G),
           Len(q) % 2 = k, NEW u \in S, NEW v \in S, u \in G
    PROVE  Heads(q \o <<u, v>>, k, G) /\ Len(q \o <<u, v>>) % 2 = k
<1>1. PICK m \in Nat : m = Len(q)
  OBVIOUS
<1>2. PICK t : t = q \o <<u, v>>
  OBVIOUS
<1>3. /\ Len(t) = m + 2 /\ t[m + 1] = u /\ t[m + 2] = v
      /\ \A i \in 1..m : t[i] = q[i]
  BY <1>1, <1>2
<1>4. (m + 2) % 2 = k /\ (m + 1) % 2 # k
  BY <1>1
<1>5. ASSUME NEW i \in 1..m + 2, i % 2 # k PROVE t[i] \in G
  <2>1. i \in 1..m \/ i = m + 1
    BY <1>4, <1>5
  <2>2. CASE i \in 1..m
    BY <2>2, <1>1, <1>3, <1>5 DEF Heads
  <2> QED
    BY <2>1, <2>2, <1>3
<1> QED
  BY <1>2, <1>3, <1>4, <1>5 DEF Heads

\* c is what is left of b once a record is taken from its front, z following.
Clips(S, b, z, c) ==
    /\ c \in Seq(S) /\ c \o z \in Seq(S) /\ b \o z \in Seq(S)
    /\ Len(b \o z) = Len(c \o z) + 2 /\ (b \o z)[1] = b[1]
    /\ \A i \in 1..Len(c \o z) : (c \o z)[i] = (b \o z)[i + 2]

LEMMA ClipIs ==
    ASSUME NEW S, NEW b \in Seq(S), NEW z \in Seq(S), Len(b) > 1
    PROVE  Clips(S, b, z, SubSeq(b, 3, Len(b)))
<1>1. PICK m \in Nat : m + 2 = Len(b)
  <2>1. Len(b) \in Nat
    OBVIOUS
  <2>2. Len(b) - 2 \in Nat
    BY <2>1
  <2> QED
    BY <2>1, <2>2
<1>2. PICK n \in Nat : n = Len(z)
  OBVIOUS
<1>3. PICK c \in Seq(S) : c = SubSeq(b, 3, Len(b)) /\ Len(c) = m /\ \A i \in 1..m : c[i] = b[i + 2]
  <2>1. \A i \in 3..m + 2 : b[i] \in S
    BY <1>1, ElementOfSeq
  <2>2. /\ SubSeq(b, 3, m + 2) \in Seq(S)
        /\ Len(SubSeq(b, 3, m + 2)) = IF 3 <= m + 2 THEN (m + 2) - 3 + 1 ELSE 0
        /\ \A i \in 1..(m + 2) - 3 + 1 : SubSeq(b, 3, m + 2)[i] = b[3 + i - 1]
    BY <2>1, SubSeqProperties
  <2>3. \A i \in 1..m : i \in 1..(m + 2) - 3 + 1 /\ 3 + i - 1 = i + 2
    OBVIOUS
  <2>4. (IF 3 <= m + 2 THEN (m + 2) - 3 + 1 ELSE 0) = m
    OBVIOUS
  <2> QED
    BY <1>1, <2>2, <2>3, <2>4
<1>4. Len(c) = m /\ \A i \in 1..m : c[i] = b[i + 2]
  BY <1>3
<1>5. PICK q \in Seq(S) :
         /\ q = b \o z /\ Len(q) = (m + 2) + n
         /\ \A i \in 1..m + 2 : q[i] = b[i]
         /\ \A i \in 1..n : q[(m + 2) + i] = z[i]
  <2>1. PICK t \in Seq(S) :
           /\ t = b \o z /\ Len(t) = Len(b) + Len(z)
           /\ \A i \in 1..Len(b) : t[i] = b[i]
           /\ \A i \in 1..Len(z) : t[Len(b) + i] = z[i]
    <3>1. /\ b \o z \in Seq(S) /\ Len(b \o z) = Len(b) + Len(z)
          /\ \A i \in 1..Len(b) : (b \o z)[i] = b[i]
          /\ \A i \in 1..Len(z) : (b \o z)[Len(b) + i] = z[i]
      BY JoinIs
    <3> QED
      BY <3>1, Zenon
  <2> QED
    BY <1>1, <1>2, <2>1
<1>6. PICK t \in Seq(S) :
         /\ t = c \o z /\ Len(t) = m + n
         /\ \A i \in 1..m : t[i] = c[i]
         /\ \A i \in 1..n : t[m + i] = z[i]
  <2>1. PICK r \in Seq(S) :
           /\ r = c \o z /\ Len(r) = Len(c) + Len(z)
           /\ \A i \in 1..Len(c) : r[i] = c[i]
           /\ \A i \in 1..Len(z) : r[Len(c) + i] = z[i]
    <3>1. /\ c \o z \in Seq(S) /\ Len(c \o z) = Len(c) + Len(z)
          /\ \A i \in 1..Len(c) : (c \o z)[i] = c[i]
          /\ \A i \in 1..Len(z) : (c \o z)[Len(c) + i] = z[i]
      BY JoinIs
    <3> QED
      BY <3>1, Zenon
  <2> QED
    BY <1>2, <1>4, <2>1
<1>9. ASSUME NEW i \in 1..m + n PROVE t[i] = q[i + 2]
  <2>1. CASE i <= m
    BY <2>1, <1>4, <1>5, <1>6
  <2>2. CASE i > m
    <3>1. PICK j \in 1..n : i = m + j /\ i + 2 = (m + 2) + j
      <4>1. i - m \in 1..n /\ i = m + (i - m) /\ i + 2 = (m + 2) + (i - m)
        BY <2>2
      <4> QED
        BY <4>1
    <3> QED
      BY <3>1, <1>5, <1>6
  <2> QED
    BY <2>1, <2>2
<1>10. q[1] = b[1]
  <2>1. 1 \in 1..m + 2
    OBVIOUS
  <2> QED
    BY <2>1, <1>5
<1>11. Len(q) = Len(t) + 2 /\ \A i \in 1..Len(t) : t[i] = q[i + 2]
  <2>1. Len(q) = m + 2 + n /\ Len(t) = m + n
    BY <1>5, <1>6
  <2>2. Len(q) = Len(t) + 2
    BY <2>1
  <2>3. \A i \in 1..Len(t) : t[i] = q[i + 2]
    BY <2>1, <1>9
  <2> QED
    BY <2>2, <2>3
<1>12. t = c \o z /\ q = b \o z /\ c = SubSeq(b, 3, Len(b)) /\ c \in Seq(S)
       /\ t \in Seq(S) /\ q \in Seq(S)
  BY <1>3, <1>5, <1>6
<1> QED
  BY <1>10, <1>11, <1>12, Zenon DEF Clips

\* A record is taken from the front.
LEMMA HeadsShorter ==
    ASSUME NEW S, NEW b \in Seq(S), NEW z \in Seq(S), NEW G, Heads(b \o z, 0, G), Len(b) > 1
    PROVE  /\ SubSeq(b, 3, Len(b)) \in Seq(S) /\ b[1] \in G
           /\ Heads(SubSeq(b, 3, Len(b)) \o z, 0, G)
           /\ Len(b \o z) % 2 = 0 => Len(SubSeq(b, 3, Len(b)) \o z) % 2 = 0
<1>1. PICK c : c = SubSeq(b, 3, Len(b))
  OBVIOUS
<1>2. Clips(S, b, z, c)
  BY <1>1, ClipIs
<1>3. PICK q, t : q = b \o z /\ t = c \o z
  OBVIOUS
<1>4. /\ c \in Seq(S) /\ q \in Seq(S) /\ t \in Seq(S) /\ Len(q) = Len(t) + 2 /\ q[1] = b[1]
      /\ \A i \in 1..Len(t) : t[i] = q[i + 2]
  BY <1>2, <1>3, Zenon DEF Clips
<1>5. PICK l \in Nat : l = Len(t) /\ Len(q) = l + 2
  BY <1>4, LenIs
<1>6. \A i \in 1..l + 2 : i % 2 # 0 => q[i] \in G
  BY <1>3, <1>5 DEF Heads
<1>7. ASSUME NEW i \in 1..l, i % 2 # 0 PROVE t[i] \in G
  <2>1. i + 2 \in 1..l + 2 /\ (i + 2) % 2 # 0
    BY <1>7
  <2> QED
    BY <2>1, <1>4, <1>5, <1>6
<1>8. b[1] \in G
  <2>1. 1 \in 1..l + 2 /\ 1 % 2 # 0
    OBVIOUS
  <2> QED
    BY <2>1, <1>4, <1>6
<1>9. (l + 2) % 2 = 0 => l % 2 = 0
  OBVIOUS
<1>10. Heads(t, 0, G) /\ (Len(q) % 2 = 0 => Len(t) % 2 = 0)
  BY <1>5, <1>7, <1>9 DEF Heads
<1> QED
  BY <1>1, <1>3, <1>4, <1>8, <1>10, Zenon

LEMMA HeadsPrefix ==
    ASSUME NEW S, NEW a \in Seq(S), NEW b \in Seq(S), NEW G, NEW k, Heads(a \o b, k, G)
    PROVE  Heads(a, k, G)
<1>1. PICK m \in Nat, n \in Nat : m = Len(a) /\ n = Len(b)
  OBVIOUS
<1>2. Len(a \o b) = m + n /\ \A i \in 1..m : (a \o b)[i] = a[i] /\ i \in 1..m + n
  BY <1>1
<1> QED
  BY <1>1, <1>2 DEF Heads

\* The preamble is read.
LEMMA HeadsTail ==
    ASSUME NEW S, NEW q \in Seq(S), q # <<>>, NEW G, Heads(q, 1, G)
    PROVE  Heads(Tail(q), 0, G) /\ (Len(q) % 2 = 1 => Len(Tail(q)) % 2 = 0)
<1>1. PICK m \in Nat : m + 1 = Len(q)
  <2>1. Len(q) \in Nat /\ Len(q) # 0
    OBVIOUS
  <2> QED
    BY <2>1
<1>2. Len(Tail(q)) = m /\ \A i \in 1..m : Tail(q)[i] = q[i + 1] /\ i + 1 \in 1..m + 1
  BY <1>1
<1>3. \A i \in 1..m : i % 2 # 0 => (i + 1) % 2 # 1
  OBVIOUS
<1>4. (m + 1) % 2 = 1 => m % 2 = 0
  OBVIOUS
<1> QED
  BY <1>1, <1>2, <1>3, <1>4 DEF Heads

\* The first unit of a is the first of all that z follows.
Leads(S, a, z) ==
    /\ Tail(a) \in Seq(S) /\ Tail(a) \o z = Tail(a \o z)
    /\ a \o z \in Seq(S) /\ a \o z # <<>>

LEMMA TailOfJoin ==
    ASSUME NEW S, NEW a \in Seq(S), NEW z \in Seq(S), a # <<>>
    PROVE  Leads(S, a, z)
<1>1. PICK c \in Seq(S), m \in Nat :
         /\ c = Tail(a) /\ Len(a) = m + 1 /\ Len(c) = m /\ \A i \in 1..m : c[i] = a[i + 1]
  <2>1. PICK m \in Nat : m + 1 = Len(a)
    <3>1. Len(a) \in Nat /\ Len(a) # 0
      OBVIOUS
    <3> QED
      BY <3>1
  <2>2. Tail(a) \in Seq(S) /\ Len(Tail(a)) = m /\ \A i \in 1..m : Tail(a)[i] = a[i + 1]
    BY <2>1
  <2> QED
    BY <2>1, <2>2, Zenon
<1>2. PICK n \in Nat : n = Len(z)
  OBVIOUS
<1>3. PICK q \in Seq(S) :
         /\ q = a \o z /\ Len(q) = (m + 1) + n
         /\ \A i \in 1..m + 1 : q[i] = a[i]
         /\ \A i \in 1..n : q[(m + 1) + i] = z[i]
  <2>1. /\ a \o z \in Seq(S) /\ Len(a \o z) = Len(a) + Len(z)
        /\ \A i \in 1..Len(a) : (a \o z)[i] = a[i]
        /\ \A i \in 1..Len(z) : (a \o z)[Len(a) + i] = z[i]
    BY JoinIs
  <2>2. PICK q \in Seq(S) :
           /\ q = a \o z /\ Len(q) = Len(a) + Len(z)
           /\ \A i \in 1..Len(a) : q[i] = a[i]
           /\ \A i \in 1..Len(z) : q[Len(a) + i] = z[i]
    BY <2>1, Zenon
  <2>3. m + 1 = Len(a) /\ n = Len(z)
    BY <1>1, <1>2
  <2> QED
    BY <2>2, <2>3
<1>4. PICK t \in Seq(S) :
         /\ t = c \o z /\ Len(t) = m + n
         /\ \A i \in 1..m : t[i] = c[i]
         /\ \A i \in 1..n : t[m + i] = z[i]
  <2>1. /\ c \o z \in Seq(S) /\ Len(c \o z) = Len(c) + Len(z)
        /\ \A i \in 1..Len(c) : (c \o z)[i] = c[i]
        /\ \A i \in 1..Len(z) : (c \o z)[Len(c) + i] = z[i]
    BY JoinIs
  <2>2. PICK t \in Seq(S) :
           /\ t = c \o z /\ Len(t) = Len(c) + Len(z)
           /\ \A i \in 1..Len(c) : t[i] = c[i]
           /\ \A i \in 1..Len(z) : t[Len(c) + i] = z[i]
    BY <2>1, Zenon
  <2> QED
    BY <1>1, <1>2, <2>2
<1>5. q # <<>>
  BY <1>3
<1>6. PICK r \in Seq(S) : r = Tail(q) /\ Len(r) = m + n /\ \A i \in 1..m + n : r[i] = q[i + 1]
  <2>1. Tail(q) \in Seq(S) /\ Len(Tail(q)) = m + n /\ \A i \in 1..m + n : Tail(q)[i] = q[i + 1]
    BY <1>3, <1>5
  <2> QED
    BY <2>1, Zenon
<1>7. ASSUME NEW i \in 1..m + n PROVE t[i] = r[i]
  <2>1. CASE i <= m
    BY <2>1, <1>1, <1>3, <1>4, <1>6
  <2>2. CASE i > m
    <3>1. PICK j \in 1..n : i = m + j /\ i + 1 = (m + 1) + j
      <4>1. i - m \in 1..n /\ i = m + (i - m) /\ i + 1 = (m + 1) + (i - m)
        BY <2>2
      <4> QED
        BY <4>1
    <3> QED
      BY <3>1, <1>3, <1>4, <1>6
  <2> QED
    BY <2>1, <2>2
<1>8. t = r
  BY <1>4, <1>6, <1>7, SeqEqual
<1> QED
  BY <1>1, <1>3, <1>4, <1>5, <1>6, <1>8, Zenon DEF Leads

-------------------------------------------------------------------------------
(* What the operators on a session return *)

\* The words that both ends compare.
SameWords(m, n) ==
    n.helloSent = m.helloSent /\ n.greet = m.greet /\ n.negotiated = m.negotiated
    /\ n.hash = m.hash

SameWire(m, n) == n.rx = m.rx /\ n.tx = m.tx

\* How far the handshake and the cipher have come.
SameCore(m, n) ==
    n.pattern = m.pattern /\ n.msgIndex = m.msgIndex /\ n.peer = m.peer
    /\ n.cipher = m.cipher

SameCount(m, n) == n.sealed = m.sealed /\ n.opened = m.opened

LEMMA FailedIs ==
    ASSUME NEW m, DOMAIN m = Fields, NEW why, NEW n, n = Failed(m, why)
    PROVE  /\ DOMAIN n = Fields /\ SameWords(m, n) /\ SameWire(m, n)
           /\ SameCore(m, n) /\ SameCount(m, n)
           /\ n.maxRecord = m.maxRecord /\ n.why = why
           /\ n.state = IF m.state = "Established" THEN "Established" ELSE "Failed"
  BY DEF Fields, Failed, SameWords, SameWire, SameCore, SameCount

\* The session n has taken the record at the head of b, m being what it was.
Takes(m, b, n) ==
    /\ DOMAIN n = Fields /\ SameWords(m, n)
    /\ n.rx = SubSeq(b, 3, Len(b)) /\ n.tx = m.tx
    /\ n.maxRecord = m.maxRecord /\ n.state = m.state
    /\ SameCore(m, n) /\ n.why = m.why /\ n.sealed = m.sealed
    /\ n.opened = IF m.cipher THEN m.opened + 1 ELSE m.opened

LEMMA ReceivedIs ==
    ASSUME NEW m, DOMAIN m = Fields, NEW b, NEW n, n = Received(m, b)
    PROVE  Takes(m, b, n)
  BY DEF Fields, Received, SameWords, SameCore, Takes

LEMMA AppliedIs ==
    ASSUME NEW m, DOMAIN m = Fields, NEW n, n = Applied(m), m.state = "Greeting"
    PROVE  /\ DOMAIN n = Fields /\ SameWords(m, n) /\ SameWire(m, n)
           /\ SameCore(m, n) /\ SameCount(m, n)
           /\ \/ /\ n.state = "Established" /\ n.maxRecord = m.negotiated.rec
                 /\ n.why = m.why /\ Legal(m.negotiated.rec)
              \/ n.state = "Failed" /\ n.why = "Size" /\ ~Legal(m.negotiated.rec)
<1>1. CASE Legal(m.negotiated.rec)
  BY <1>1 DEF Fields, Applied, SameWords, SameWire, SameCore, SameCount
<1>2. CASE ~Legal(m.negotiated.rec)
  BY <1>2, FailedIs DEF Applied
<1> QED
  BY <1>1, <1>2

\* u is r, sealed by the session m.
IsOf(m, r, u) ==
    /\ u.body = r /\ u.cipher = m.cipher
    /\ u.nonce = m.sealed /\ u.generation = m.sealed \div RekeyInterval

\* The session n has the record r to send, after all that m had.
Holds(m, r, n) ==
    /\ DOMAIN n = Fields /\ SameWords(m, n)
    /\ n.maxRecord = m.maxRecord /\ n.state = m.state /\ n.rx = m.rx
    /\ SameCore(m, n) /\ n.why = m.why /\ n.opened = m.opened
    /\ n.sealed = IF m.cipher THEN m.sealed + 1 ELSE m.sealed
    /\ \E u : IsOf(m, r, u) /\ n.tx = m.tx \o <<u, Rest>>

LEMMA SealedIs ==
    ASSUME NEW m, DOMAIN m = Fields, NEW r, NEW n, n = Sealed(m, r)
    PROVE  Holds(m, r, n)
<1>1. PICK u : u = [body |-> r, cipher |-> m.cipher, nonce |-> m.sealed,
                    generation |-> m.sealed \div RekeyInterval]
  OBVIOUS
<1>2. IsOf(m, r, u)
  BY <1>1 DEF IsOf
<1>3. n = [m EXCEPT !.sealed = IF m.cipher THEN m.sealed + 1 ELSE m.sealed,
                    !.tx = m.tx \o <<u, Rest>>]
  BY <1>1 DEF Sealed
<1> QED
  BY <1>2, <1>3 DEF Fields, SameWords, SameCore, Holds

LEMMA OthersAre ==
    ASSUME NEW s \in Ends
    PROVE  Other(s) \in Ends /\ Other(s) # s /\ Other(Other(s)) = s /\ Ends = {s, Other(s)}
  BY DEF Ends, Other

LEMMA BecomesIs ==
    ASSUME Shape, NEW s \in Ends, NEW n, DOMAIN n = Fields, sess' = [sess EXCEPT ![s] = n]
    PROVE  /\ DOMAIN sess' = Ends /\ \A e \in Ends : DOMAIN sess'[e] = Fields
           /\ sess'[s] = n /\ sess'[Other(s)] = sess[Other(s)]
  BY OthersAre DEF Shape

-------------------------------------------------------------------------------
(* What was said stays true *)

Fore == {"Idle", "AwaitingPreamble", "Handshaking"}
Live == {"Handshaking", "Greeting", "Established"}

Keeps ==
    /\ cfg' = cfg
    /\ sess["I"].helloSent =>
          sess'["I"].helloSent /\ sess'["I"].hash = sess["I"].hash
    /\ sess["R"].greet = "Sent" =>
          /\ sess'["R"].greet = "Sent" /\ sess'["R"].hash = sess["R"].hash
          /\ sess'["R"].negotiated = sess["R"].negotiated

LEMMA SaysKept ==
    ASSUME Keeps, NEW s, NEW u, Says(s, u)
    PROVE  Says(s, u)'
  BY DEF Keeps, Says

\* A step of the session m to n that is not one of the greeting's.
Minor(m, n) ==
    /\ n.helloSent = m.helloSent /\ n.greet = m.greet /\ n.negotiated = m.negotiated
    /\ m.state \notin Fore => n.hash = m.hash
    /\ n.state \in Fore => m.state \in Fore
    /\ n.state = "Established" => m.state = "Established" /\ n.maxRecord = m.maxRecord

LEMMA MinorKeeps ==
    ASSUME Shape, Greeted, NEW s \in Ends, NEW n, DOMAIN n = Fields,
           sess' = [sess EXCEPT ![s] = n], cfg' = cfg, Minor(sess[s], n)
    PROVE  Greeted' /\ Keeps
<1>1. sess'[s] = n /\ sess'[Other(s)] = sess[Other(s)]
  BY BecomesIs
<1>2. CASE s = "I"
  <2>1. sess'["I"] = n /\ sess'["R"] = sess["R"]
    BY <1>1, <1>2 DEF Other
  <2>2. Minor(sess["I"], n)
    BY <1>2
  <2> QED
    BY <2>1, <2>2 DEF Minor, Greeted, Keeps, Fore, Ends
<1>3. CASE s = "R"
  <2>1. sess'["R"] = n /\ sess'["I"] = sess["I"]
    BY <1>1, <1>3 DEF Other
  <2>2. Minor(sess["R"], n)
    BY <1>3
  <2> QED
    BY <2>1, <2>2 DEF Minor, Greeted, Keeps, Fore, Ends
<1> QED
  BY <1>2, <1>3 DEF Ends

LEMMA StillKeeps ==
    ASSUME Greeted, UNCHANGED <<cfg, sess>>
    PROVE  Greeted' /\ Keeps
  BY DEF Greeted, Keeps

-------------------------------------------------------------------------------
(* The two streams *)

\* Everything of the two streams is a sequence over S.
Units(S) ==
    \A s \in Ends : sess[s].tx \in Seq(S) /\ sess[s].rx \in Seq(S) /\ pipe[s] \in Seq(S)

LEMMA StreamTyped ==
    ASSUME NEW S, Units(S), NEW s \in Ends
    PROVE  /\ Unwritten(s) \in Seq(S) /\ pipe[s] \o Unwritten(s) \in Seq(S)
           /\ Stream(s) \in Seq(S)
<1>1. Unwritten(s) \in Seq(S)
  BY EmptySeq DEF Units, Unwritten
<1>2. pipe[s] \o Unwritten(s) \in Seq(S)
  BY <1>1, ConcatProperties DEF Units
<1>3. sess[Other(s)].rx \in Seq(S)
  BY OthersAre DEF Units
<1> QED
  BY <1>1, <1>2, <1>3, ConcatProperties DEF Stream

\* A step after which the stream of s is q.
LEMMA StreamIs ==
    ASSUME NEW S, NEW q \in Seq(S), NEW s \in Ends, q = Stream(s)', NEW k, k = Skew(s)',
           NEW G, G = {u \in S : Says(s, u)'},
           Reads(Other(s))' => Heads(q, k, G) /\ (Writes(s)' => Len(q) % 2 = k)
    PROVE  StreamInv(s)'
<1>1. \A i \in 1..Len(q) : q[i] \in S
  BY ElementOfSeq
<1>2. Heads(q, k, G) => \A i \in 1..Len(q) : i % 2 # k => Says(s, q[i])'
  BY <1>1 DEF Heads
<1>3. Heads(q, k, G) => Framed(q, s, k)'
  BY <1>2 DEF Framed
<1> QED
  BY <1>3 DEF StreamInv, Framed

\* What was framed is framed by what is said after the step.
LEMMA StreamWas ==
    ASSUME NEW S, NEW q \in Seq(S), NEW s \in Ends, q = Stream(s), NEW k, k = Skew(s),
           NEW G, G = {u \in S : Says(s, u)'}, Keeps, StreamInv(s), Reads(Other(s))
    PROVE  Heads(q, k, G) /\ (Writes(s) => Len(q) % 2 = k)
<1>1. ASSUME NEW i \in 1..Len(q), i % 2 # k PROVE q[i] \in G
  <2>1. q[i] \in S
    BY ElementOfSeq
  <2>2. Says(s, q[i])
    BY <1>1 DEF StreamInv, Framed
  <2> QED
    BY <2>1, <2>2, SaysKept
<1> QED
  BY <1>1 DEF StreamInv, Heads

\* A step of an end whose handshake has begun, seen from the two streams.
LEMMA SkewsAre ==
    ASSUME NEW s \in Ends, sess[s].state \in Live, s \notin closed,
           sess'[s].state \in Live \cup {"Failed"}, sess'[Other(s)] = sess[Other(s)],
           closed' = closed
    PROVE  /\ Skew(s)' = Skew(s) /\ Skew(s) \in {0, 1}
           /\ Skew(Other(s))' = 0 /\ Skew(Other(s)) = 0
           /\ Reads(s) /\ Writes(s)
           /\ Reads(Other(s))' = Reads(Other(s)) /\ Writes(Other(s))' = Writes(Other(s))
<1>1. Other(Other(s)) = s
  BY OthersAre
<1>2. ~Unmet(s) /\ ~Unmet(s)' /\ Unmet(Other(s))' = Unmet(Other(s))
  BY DEF Unmet, Live
<1>3. sess[s].state # "Idle" /\ sess'[s].state # "Idle" /\ sess[s].state # "Failed"
  BY DEF Live
<1> QED
  BY <1>1, <1>2, <1>3 DEF Skew, Reads, Writes

LEMMA OwnStreamSame ==
    ASSUME NEW S, Units(S), NEW s \in Ends, sess[s].state \in Live, s \notin closed,
           sess'[s].state \in Live \cup {"Failed"}, sess'[Other(s)] = sess[Other(s)],
           closed' = closed, Keeps, StreamInv(s), Stream(s)' = Stream(s)
    PROVE  StreamInv(s)'
<1>1. PICK q \in Seq(S) : q = Stream(s)
  BY StreamTyped
<1>2. PICK k : k = Skew(s)
  OBVIOUS
<1>3. PICK G : G = {u \in S : Says(s, u)'}
  OBVIOUS
<1>4. k = Skew(s)' /\ Reads(Other(s))' = Reads(Other(s)) /\ Writes(s)
  BY <1>2, SkewsAre
<1>5. Reads(Other(s)) => Heads(q, k, G) /\ Len(q) % 2 = k
  BY <1>1, <1>2, <1>3, <1>4, StreamWas
<1> QED
  BY <1>1, <1>3, <1>4, <1>5, StreamIs

LEMMA OwnStreamGrows ==
    ASSUME NEW S, Units(S), NEW s \in Ends, sess[s].state \in Live, s \notin closed,
           sess'[s].state \in Live \cup {"Failed"}, sess'[Other(s)] = sess[Other(s)],
           closed' = closed, Keeps, StreamInv(s), NEW u \in S, NEW v \in S, Says(s, u)',
           Stream(s)' = Stream(s) \o <<u, v>>
    PROVE  StreamInv(s)'
<1>1. PICK q \in Seq(S) : q = Stream(s)
  BY StreamTyped
<1>2. PICK k \in {0, 1} : k = Skew(s)
  BY SkewsAre
<1>3. PICK G : G = {x \in S : Says(s, x)'}
  OBVIOUS
<1>4. k = Skew(s)' /\ Reads(Other(s))' = Reads(Other(s)) /\ Writes(s)
  BY <1>2, SkewsAre
<1>5. Reads(Other(s)) => Heads(q, k, G) /\ Len(q) % 2 = k
  BY <1>1, <1>2, <1>3, <1>4, StreamWas
<1>6. PICK t \in Seq(S) : t = q \o <<u, v>>
  <2>1. <<u, v>> \in Seq(S)
    OBVIOUS
  <2>2. q \o <<u, v>> \in Seq(S)
    BY <2>1, ConcatProperties
  <2> QED
    BY <2>2
<1>7. u \in G
  BY <1>3
<1>8. Reads(Other(s)) => Heads(t, k, G) /\ Len(t) % 2 = k
  BY <1>5, <1>6, <1>7, HeadsLonger
<1>9. t = Stream(s)'
  BY <1>1, <1>6
<1> QED
  BY <1>3, <1>4, <1>8, <1>9, StreamIs

LEMMA PeerStreamSame ==
    ASSUME NEW S, Units(S), NEW s \in Ends, sess[s].state \in Live, s \notin closed,
           sess'[s].state \in Live \cup {"Failed"}, sess'[Other(s)] = sess[Other(s)],
           closed' = closed, Keeps, StreamInv(Other(s)), Stream(Other(s))' = Stream(Other(s))
    PROVE  StreamInv(Other(s))'
<1>1. PICK o \in Ends : o = Other(s) /\ Other(o) = s
  BY OthersAre
<1>2. PICK q \in Seq(S) : q = Stream(o)
  BY StreamTyped
<1>3. PICK G : G = {u \in S : Says(o, u)'}
  OBVIOUS
<1>4. 0 = Skew(o)' /\ 0 = Skew(o) /\ Reads(s) /\ Writes(o)' = Writes(o)
  BY <1>1, SkewsAre
<1>5. Heads(q, 0, G) /\ (Writes(o) => Len(q) % 2 = 0)
  BY <1>1, <1>2, <1>3, <1>4, StreamWas
<1>6. q = Stream(o)'
  BY <1>1, <1>2
<1> QED
  BY <1>1, <1>3, <1>4, <1>5, <1>6, StreamIs

LEMMA PeerStreamTaken ==
    ASSUME NEW S, Units(S), NEW s \in Ends, sess[s].state \in Live, s \notin closed,
           sess'[s].state \in Live \cup {"Failed"}, sess'[Other(s)] = sess[Other(s)],
           closed' = closed, Keeps, StreamInv(Other(s)),
           NEW b \in Seq(S), NEW z \in Seq(S), Len(b) > 1,
           Stream(Other(s)) = b \o z, Stream(Other(s))' = SubSeq(b, 3, Len(b)) \o z
    PROVE  StreamInv(Other(s))'
<1>1. PICK o \in Ends : o = Other(s) /\ Other(o) = s
  BY OthersAre
<1>2. PICK q \in Seq(S) : q = Stream(o) /\ q = b \o z
  BY <1>1, StreamTyped
<1>3. PICK G : G = {u \in S : Says(o, u)'}
  OBVIOUS
<1>4. 0 = Skew(o)' /\ 0 = Skew(o) /\ Reads(s) /\ Writes(o)' = Writes(o)
  BY <1>1, SkewsAre
<1>5. Heads(q, 0, G) /\ (Writes(o) => Len(q) % 2 = 0)
  BY <1>1, <1>2, <1>3, <1>4, StreamWas
<1>6. /\ SubSeq(b, 3, Len(b)) \in Seq(S)
      /\ Heads(SubSeq(b, 3, Len(b)) \o z, 0, G)
      /\ Len(b \o z) % 2 = 0 => Len(SubSeq(b, 3, Len(b)) \o z) % 2 = 0
  BY <1>2, <1>5, HeadsShorter
<1>7. PICK t \in Seq(S) : t = SubSeq(b, 3, Len(b)) \o z
  BY <1>6, ConcatProperties
<1>8. Heads(t, 0, G) /\ (Writes(o) => Len(t) % 2 = 0)
  BY <1>2, <1>5, <1>6, <1>7
<1>9. t = Stream(o)'
  BY <1>1, <1>7
<1> QED
  BY <1>1, <1>3, <1>4, <1>8, <1>9, StreamIs

\* The record at the head of what s reads says what Says has it say.
LEMMA HeadSays ==
    ASSUME NEW S, Units(S), NEW s \in Ends, sess[s].state \in Live, s \notin closed,
           StreamInv(Other(s)), NEW b \in Seq(S), NEW z \in Seq(S), Len(b) > 1,
           Stream(Other(s)) = b \o z
    PROVE  Says(Other(s), b[1])
<1>1. PICK o \in Ends : o = Other(s) /\ Other(o) = s
  BY OthersAre
<1>2. 0 = Skew(o) /\ Reads(s)
  BY <1>1 DEF Skew, Reads, Unmet, Live
<1>3. Framed(b \o z, o, 0)
  BY <1>1, <1>2 DEF StreamInv
<1>4. PICK G : G = {u \in S : Says(o, u)}
  OBVIOUS
<1>5. PICK q \in Seq(S) : q = b \o z
  BY ConcatProperties
<1>6. Heads(q, 0, G)
  BY <1>3, <1>4, <1>5, ElementOfSeq DEF Framed, Heads
<1>7. b[1] \in G
  BY <1>5, <1>6, HeadsShorter
<1> QED
  BY <1>1, <1>4, <1>7

\* Such a step keeps the invariant once its parts are kept.
LEMMA LiveStep ==
    ASSUME AgreementInv, NEW s \in Ends, NEW n, DOMAIN n = Fields,
           sess' = [sess EXCEPT ![s] = n], sess[s].state \in Live,
           n.state \in Live \cup {"Failed"}, NEW T, Units(T)',
           DOMAIN pipe' = Ends, \A e \in Ends : Len(pipe'[e]) <= Window,
           Greeted', StreamInv(s)', StreamInv(Other(s))'
    PROVE  AgreementInv'
<1>1. /\ DOMAIN sess' = Ends /\ \A e \in Ends : DOMAIN sess'[e] = Fields
      /\ sess'[s] = n /\ sess'[Other(s)] = sess[Other(s)]
  BY BecomesIs DEF AgreementInv
<1>2. Shape'
  <2>1. \E S : \A e \in Ends :
           sess'[e].tx \in Seq(S) /\ sess'[e].rx \in Seq(S) /\ pipe'[e] \in Seq(S)
    BY DEF Units
  <2> QED
    BY <1>1, <2>1 DEF Shape
<1>3. Early(s)'
  BY <1>1 DEF Early, Unmet, Live
<1>4. Early(Other(s))'
  <2>1. Early(Other(s)) /\ Other(Other(s)) = s
    BY OthersAre DEF AgreementInv
  <2>2. sess[Other(s)].state # "Idle"
    BY <2>1 DEF Early, Live
  <2> QED
    BY <1>1, <2>1, <2>2 DEF Early, Unmet
<1> QED
  BY <1>2, <1>3, <1>4, OthersAre DEF AgreementInv

-------------------------------------------------------------------------------
(* Writing *)

\* The session of s has become n, a flush of q having been tried on the session m.
Pushed(S, s, m, q, n) ==
    /\ DOMAIN n = Fields /\ sess' = [sess EXCEPT ![s] = n]
    /\ SameWords(m, n) /\ n.maxRecord = m.maxRecord /\ n.rx = m.rx
    /\ n.state = m.state \/ (n.state = "Failed" /\ m.state # "Established")
    /\ SameCore(m, n) /\ SameCount(m, n)
    /\ n.why = m.why \/ (n.why = "Lost" /\ Other(s) \in closed)
    /\ n.tx \in Seq(S) /\ pipe'[s] \in Seq(S)
    /\ DOMAIN pipe' = Ends /\ pipe'[Other(s)] = pipe[Other(s)] /\ Len(pipe'[s]) <= Window
    /\ Other(s) \in closed \/ pipe'[s] \o n.tx = pipe[s] \o q

LEMMA TakenIs ==
    ASSUME NEW S, NEW a \in Seq(S), NEW q \in Seq(S), NEW s \in Ends, a = pipe[s],
           Len(a) <= Window
    PROVE  Taken(s, q) \in Nat /\ Taken(s, q) <= Len(q) /\ Len(a) + Taken(s, q) <= Window
<1>1. PICK k \in Nat, l \in Nat, w \in Nat : k = Len(a) /\ l = Len(q) /\ w = Window
  BY LenIs, SecureAssumption
<1>2. Taken(s, q) = IF w - k < l THEN w - k ELSE l
  BY <1>1 DEF Taken, Smaller
<1>3. PICK t : t = Taken(s, q)
  OBVIOUS
<1>4. k <= w
  BY <1>1
<1>5. t \in Nat /\ t <= l /\ k + t <= w
  <2>1. CASE w - k < l
    BY <2>1, <1>2, <1>3, <1>4
  <2>2. CASE ~(w - k < l)
    BY <2>2, <1>2, <1>3, <1>4
  <2> QED
    BY <2>1, <2>2
<1> QED
  BY <1>1, <1>3, <1>5

LEMMA SendsIs ==
    ASSUME NEW S, Shape, Units(S), NEW s \in Ends, NEW m, DOMAIN m = Fields, m.tx \in Seq(S),
           NEW q \in Seq(S), Sends(s, m, q)
    PROVE  \E n : Pushed(S, s, m, q, n)
<1>1. CASE q # <<>> /\ Other(s) \in closed
  <2>1. PICK n : n = Failed(m, "Lost")
    OBVIOUS
  <2>2. sess' = [sess EXCEPT ![s] = n] /\ pipe' = pipe
    BY <1>1, <2>1 DEF Sends
  <2>3. /\ DOMAIN n = Fields /\ SameWords(m, n) /\ SameWire(m, n)
        /\ SameCore(m, n) /\ SameCount(m, n)
        /\ n.maxRecord = m.maxRecord /\ n.why = "Lost"
        /\ n.state = IF m.state = "Established" THEN "Established" ELSE "Failed"
    BY <2>1, FailedIs
  <2>4. n.tx \in Seq(S) /\ pipe[s] \in Seq(S) /\ DOMAIN pipe = Ends /\ Len(pipe[s]) <= Window
    BY <2>3 DEF SameWire, Units, Shape
  <2>5. Pushed(S, s, m, q, n)
    BY <1>1, <2>2, <2>3, <2>4 DEF Pushed, SameWire
  <2> QED
    BY <2>5
<1>2. CASE ~(q # <<>> /\ Other(s) \in closed)
  <2>1. PICK a \in Seq(S) : a = pipe[s] /\ Len(a) <= Window
    BY DEF Units, Shape
  <2>2. PICK k \in Nat : k = Taken(s, q) /\ k <= Len(q) /\ Len(a) + k <= Window
    BY <2>1, TakenIs
  <2>3. PICK c \in Seq(S), d \in Seq(S) :
           c = SubSeq(q, 1, k) /\ d = SubSeq(q, k + 1, Len(q)) /\ Len(c) = k /\ c \o d = q
    <3>1. /\ SubSeq(q, 1, k) \in Seq(S) /\ SubSeq(q, k + 1, Len(q)) \in Seq(S)
          /\ Len(SubSeq(q, 1, k)) = k
          /\ SubSeq(q, 1, k) \o SubSeq(q, k + 1, Len(q)) = q
      BY <2>2, CutAndJoin
    <3> QED
      BY <3>1, Zenon
  <2>4. PICK n : n = [m EXCEPT !.tx = d]
    OBVIOUS
  <2>5. sess' = [sess EXCEPT ![s] = n] /\ pipe' = [pipe EXCEPT ![s] = a \o c]
    BY <1>2, <2>1, <2>2, <2>3, <2>4 DEF Sends
  <2>6. DOMAIN n = Fields /\ SameWords(m, n) /\ n.maxRecord = m.maxRecord /\ n.rx = m.rx
        /\ n.state = m.state /\ n.tx = d /\ SameCore(m, n) /\ SameCount(m, n)
        /\ n.why = m.why
    BY <2>4 DEF Fields, SameWords, SameCore, SameCount
  <2>7. a \o c \in Seq(S) /\ Len(a \o c) = Len(a) + Len(c)
    BY ConcatProperties
  <2>8. (a \o c) \o d = a \o (c \o d)
    BY ConcatAssociative
  <2>9. DOMAIN pipe' = Ends /\ pipe'[s] = a \o c /\ pipe'[Other(s)] = pipe[Other(s)]
    BY <2>5, OthersAre DEF Shape
  <2>10. Len(a \o c) <= Window
    BY <2>2, <2>3, <2>7
  <2>11. pipe'[s] \o n.tx = pipe[s] \o q
    BY <2>1, <2>3, <2>6, <2>8, <2>9
  <2>12. Pushed(S, s, m, q, n)
    BY <2>5, <2>6, <2>7, <2>9, <2>10, <2>11 DEF Pushed
  <2> QED
    BY <2>12
<1> QED
  BY <1>1, <1>2

\* The end s has done so after a step of its own to m.
Writing(S, s, m, q, n) ==
    /\ AgreementInv /\ Units(S) /\ s \in Ends /\ s \notin closed /\ closed' = closed
    /\ sess[s].state \in Live /\ m.state \in Live /\ m.rx = sess[s].rx
    /\ Pushed(S, s, m, q, n)

\* The parts of the invariant that every write keeps.
LEMMA PushedParts ==
    ASSUME NEW S, NEW s \in Ends, NEW m, NEW q, NEW n, Writing(S, s, m, q, n)
    PROVE  /\ Units(S)' /\ \A e \in Ends : Len(pipe'[e]) <= Window
           /\ Stream(Other(s))' = Stream(Other(s))
           /\ sess'[s] = n /\ sess'[Other(s)] = sess[Other(s)]
<1> USE DEF Writing
<1>1. sess'[s] = n /\ sess'[Other(s)] = sess[Other(s)]
  BY BecomesIs DEF AgreementInv, Pushed
<1>2. PICK o \in Ends : o = Other(s) /\ Other(o) = s /\ Ends = {s, o}
  BY OthersAre
<1>3. Units(S)'
  BY <1>1, <1>2 DEF Units, Pushed
<1>4. \A e \in Ends : Len(pipe'[e]) <= Window
  BY <1>2 DEF AgreementInv, Shape, Pushed
<1>5. Stream(o)' = Stream(o)
  <2>1. sess'[s].rx = sess[s].rx /\ pipe'[o] = pipe[o]
    BY <1>1, <1>2 DEF Pushed
  <2>2. Unwritten(o)' = Unwritten(o)
    BY <1>1, <1>2 DEF Unwritten
  <2> QED
    BY <1>2, <2>1, <2>2 DEF Stream
<1> QED
  BY <1>1, <1>2, <1>3, <1>4, <1>5

\* What it has been joined with.
LEMMA PushedStream ==
    ASSUME NEW S, NEW s \in Ends, NEW m, NEW q, NEW n, Writing(S, s, m, q, n),
           Other(s) \notin closed, NEW a, a = sess[Other(s)].rx, NEW b, b = pipe[s]
    PROVE  Stream(s)' = Row(a, b, q)
<1>1. sess'[s] = n /\ sess'[Other(s)] = sess[Other(s)]
  BY PushedParts
<1>2. Unwritten(s)' = n.tx
  BY <1>1 DEF Unwritten, Writing
<1>3. pipe'[s] \o n.tx = b \o q
  BY DEF Writing, Pushed
<1> QED
  BY <1>1, <1>2, <1>3 DEF Stream, Row

\* All but the stream of s.
LEMMA WriteStep ==
    ASSUME NEW S, NEW s \in Ends, NEW m, NEW q, NEW n, Writing(S, s, m, q, n), Greeted', Keeps,
           StreamInv(s)'
    PROVE  AgreementInv'
<1>2. /\ Units(S)' /\ \A e \in Ends : Len(pipe'[e]) <= Window
      /\ Stream(Other(s))' = Stream(Other(s))
      /\ sess'[s] = n /\ sess'[Other(s)] = sess[Other(s)]
  BY PushedParts
<1>3. n.state \in Live \cup {"Failed"} /\ sess'[s].state \in Live \cup {"Failed"}
  BY <1>2 DEF Pushed, Writing
<1>4. StreamInv(Other(s))
  BY OthersAre DEF AgreementInv, Writing
<1>5. StreamInv(Other(s))'
  BY <1>2, <1>3, <1>4, PeerStreamSame DEF Writing
<1>7. DOMAIN n = Fields /\ sess' = [sess EXCEPT ![s] = n] /\ DOMAIN pipe' = Ends
  BY DEF Pushed, Writing
<1> QED
  BY <1>2, <1>3, <1>5, <1>7, LiveStep DEF Writing

\* What s had is pushed on.
LEMMA FlushStream ==
    ASSUME NEW S, NEW s \in Ends, NEW m, NEW q, NEW n, Writing(S, s, m, q, n), q = sess[s].tx,
           Other(s) \notin closed
    PROVE  Stream(s)' = Stream(s)
<1>1. PICK a, b : a = sess[Other(s)].rx /\ b = pipe[s]
  OBVIOUS
<1>2. Stream(s)' = Row(a, b, q)
  BY <1>1, PushedStream
<1> QED
  BY <1>1, <1>2 DEF Stream, Unwritten, Row, Writing

LEMMA FlushStep ==
    ASSUME NEW S, NEW s \in Ends, NEW m, NEW q, NEW n, Writing(S, s, m, q, n), q = sess[s].tx,
           Greeted', Keeps
    PROVE  AgreementInv'
<1>1. CASE Other(s) \in closed
  <2>1. StreamInv(s)'
    BY <1>1 DEF StreamInv, Reads, Writing
  <2> QED
    BY <2>1, WriteStep
<1>2. CASE Other(s) \notin closed
  <2>1. sess'[s] = n /\ sess'[Other(s)] = sess[Other(s)]
    BY PushedParts
  <2>2. Stream(s)' = Stream(s)
    BY <1>2, FlushStream
  <2>3. sess'[s].state \in Live \cup {"Failed"}
    BY <2>1 DEF Pushed, Writing
  <2>4. StreamInv(s)
    BY DEF AgreementInv, Writing
  <2>5. StreamInv(s)'
    BY <2>1, <2>2, <2>3, <2>4, OwnStreamSame DEF Writing
  <2> QED
    BY <2>5, WriteStep
<1> QED
  BY <1>1, <1>2

\* A record of s, with its second half, is on what it pushes.
Adds(s, u, v, q) == q = Pair(sess[s].tx, <<u, v>>)

LEMMA RecordStream ==
    ASSUME NEW S, NEW s \in Ends, NEW m, NEW q, NEW n, Writing(S, s, m, q, n),
           NEW u \in S, NEW v \in S, Adds(s, u, v, q), Other(s) \notin closed
    PROVE  Stream(s)' = Pair(Stream(s), <<u, v>>)
<1>1. PICK a \in Seq(S), b \in Seq(S), c \in Seq(S) :
         a = sess[Other(s)].rx /\ b = pipe[s] /\ c = sess[s].tx
  BY OthersAre DEF Units, Writing
<1>2. PICK d \in Seq(S) : d = <<u, v>>
  <2>1. <<u, v>> \in Seq(S)
    OBVIOUS
  <2> QED
    BY <2>1
<1>3. q = Pair(c, d)
  BY <1>1, <1>2 DEF Adds
<1>4. PICK r : r = Row(a, b, c)
  OBVIOUS
<1>5. Row(a, b, q) = Pair(r, d)
  BY <1>3, <1>4, RowGrows
<1>6. Stream(s) = r
  BY <1>1, <1>4 DEF Stream, Unwritten, Row, Writing
<1>7. Stream(s)' = Row(a, b, q)
  BY <1>1, PushedStream
<1> QED
  BY <1>2, <1>5, <1>6, <1>7

LEMMA RecordStep ==
    ASSUME NEW S, NEW s \in Ends, NEW m, NEW q, NEW n, Writing(S, s, m, q, n),
           NEW u \in S, NEW v \in S, Adds(s, u, v, q), Says(s, u)', Greeted', Keeps
    PROVE  AgreementInv'
<1>1. CASE Other(s) \in closed
  <2>1. StreamInv(s)'
    BY <1>1 DEF StreamInv, Reads, Writing
  <2> QED
    BY <2>1, WriteStep
<1>2. CASE Other(s) \notin closed
  <2>1. sess'[s] = n /\ sess'[Other(s)] = sess[Other(s)]
    BY PushedParts
  <2>2. Stream(s)' = Stream(s) \o <<u, v>>
    BY <1>2, RecordStream DEF Pair
  <2>3. sess'[s].state \in Live \cup {"Failed"}
    BY <2>1 DEF Pushed, Writing
  <2>4. StreamInv(s)
    BY DEF AgreementInv, Writing
  <2>5. StreamInv(s)'
    BY <2>1, <2>2, <2>3, <2>4, OwnStreamGrows DEF Writing
  <2> QED
    BY <2>5, WriteStep
<1> QED
  BY <1>1, <1>2

\* Neither the pipes nor the buffers change.
LEMMA QuietStep ==
    ASSUME NEW S, AgreementInv, Units(S), NEW s \in Ends, s \notin closed, closed' = closed,
           sess[s].state \in Live, NEW n, DOMAIN n = Fields, sess' = [sess EXCEPT ![s] = n],
           n.state \in Live \cup {"Failed"}, SameWire(sess[s], n), pipe' = pipe,
           Greeted', Keeps
    PROVE  AgreementInv'
<1>1. sess'[s] = n /\ sess'[Other(s)] = sess[Other(s)]
  BY BecomesIs DEF AgreementInv
<1>2. PICK o \in Ends : o = Other(s) /\ Other(o) = s /\ Ends = {s, o}
  BY OthersAre
<1>3. Units(S)'
  BY <1>1, <1>2 DEF Units, SameWire
<1>4. DOMAIN pipe' = Ends /\ \A e \in Ends : Len(pipe'[e]) <= Window
  BY DEF AgreementInv, Shape
<1>5. Stream(s)' = Stream(s)
  BY <1>1, <1>2 DEF Stream, Unwritten, SameWire
<1>6. Stream(o)' = Stream(o)
  <2>1. sess'[s].rx = sess[s].rx
    BY <1>1 DEF SameWire
  <2>2. Unwritten(o)' = Unwritten(o)
    BY <1>1, <1>2 DEF Unwritten
  <2> QED
    BY <1>2, <2>1, <2>2 DEF Stream
<1>7. StreamInv(s) /\ StreamInv(Other(s))
  BY OthersAre DEF AgreementInv
<1>8. StreamInv(s)'
  BY <1>1, <1>5, <1>7, OwnStreamSame
<1>9. StreamInv(Other(s))'
  BY <1>1, <1>2, <1>6, <1>7, PeerStreamSame
<1> QED
  BY <1>3, <1>4, <1>8, <1>9, LiveStep

-------------------------------------------------------------------------------
(* Reading *)

\* What s has to read splits into what receiveRecord looks at and the rest.
Split(S, s, b, z) ==
    /\ b = Buffered(s) /\ b \in Seq(S) /\ z \in Seq(S)
    /\ Stream(Other(s)) = b \o z
    /\ z = IF Len(sess[s].rx) > 1 THEN pipe[Other(s)] \o Unwritten(Other(s))
           ELSE Unwritten(Other(s))

LEMMA SplitIs ==
    ASSUME NEW S, Units(S), NEW s \in Ends
    PROVE  \E b, z : Split(S, s, b, z)
<1>1. PICK o \in Ends : o = Other(s) /\ Other(o) = s
  BY OthersAre
<1>2. PICK x \in Seq(S), y \in Seq(S), w \in Seq(S) :
         x = sess[s].rx /\ y = pipe[o] /\ w = Unwritten(o)
  BY StreamTyped DEF Units
<1>3. x \o y \in Seq(S) /\ y \o w \in Seq(S) /\ (x \o y) \o w = x \o (y \o w)
  BY ConcatProperties, ConcatAssociative
<1>4. Stream(o) = x \o (y \o w)
  BY <1>1, <1>2 DEF Stream
<1>5. CASE Len(x) > 1
  <2>1. Split(S, s, x, y \o w)
    BY <1>1, <1>2, <1>3, <1>4, <1>5 DEF Split, Buffered
  <2> QED
    BY <2>1
<1>6. CASE ~(Len(x) > 1)
  <2>1. Split(S, s, x \o y, w)
    BY <1>1, <1>2, <1>3, <1>4, <1>6 DEF Split, Buffered
  <2> QED
    BY <2>1
<1> QED
  BY <1>5, <1>6

\* Why a receiveRecord that finds b does not hand a record on.
Refused(s, b, n) ==
    \/ n.why = sess[s].why
    \/ n.why = "Lost" /\ Other(s) \in closed
    \/ n.why = "TooBig" /\ b # <<>> /\ b[1].body.len > Limit(s)
    \/ n.why = "AuthFailed" /\ Len(b) > 1 /\ ~Opens(sess[s], b[1])

\* The session of s has become n by a receiveRecord that hands m on.
Pulled(s, m, b, n) ==
    /\ DOMAIN n = Fields /\ sess' = [sess EXCEPT ![s] = n]
    /\ \/ Len(b) > 1 /\ n = m
       \/ /\ SameWords(sess[s], n) /\ n.maxRecord = sess[s].maxRecord
          /\ n.rx = b /\ n.tx = sess[s].tx
          /\ n.state = sess[s].state \/ (n.state = "Failed" /\ sess[s].state # "Established")
          /\ SameCore(sess[s], n) /\ SameCount(sess[s], n) /\ Refused(s, b, n)

LEMMA ReceivesIs ==
    ASSUME NEW S, Shape, NEW s \in Ends, NEW m, DOMAIN m = Fields, Receives(s, m),
           NEW b \in Seq(S), b = Buffered(s)
    PROVE  \E n : Pulled(s, m, b, n)
<1>1. PICK o : o = Outcome(s, b)
  OBVIOUS
<1>2. PICK y : y = [sess[s] EXCEPT !.rx = b]
  OBVIOUS
<1>3. DOMAIN y = Fields /\ SameWords(sess[s], y) /\ y.rx = b /\ y.tx = sess[s].tx
      /\ y.maxRecord = sess[s].maxRecord /\ y.state = sess[s].state
      /\ SameCore(sess[s], y) /\ SameCount(sess[s], y)
  BY <1>2 DEF Shape, Fields, SameWords, SameCore, SameCount
<1>4. CASE o = "Record"
  <2>1. sess' = [sess EXCEPT ![s] = m]
    BY <1>1, <1>4 DEF Receives
  <2>2. b # <<>> /\ Len(b) # 1
    BY <1>1, <1>4 DEF Outcome
  <2>3. Len(b) > 1
    BY <2>2, LenIs
  <2>4. Pulled(s, m, b, m)
    BY <2>1, <2>3 DEF Pulled
  <2> QED
    BY <2>4
<1>5. CASE o = "Nothing"
  <2>1. PICK n : n = [sess[s] EXCEPT !.rx = b, !.looping = FALSE]
    OBVIOUS
  <2>2. sess' = [sess EXCEPT ![s] = n]
    BY <1>1, <1>5, <2>1 DEF Receives
  <2>3. DOMAIN n = Fields /\ SameWords(sess[s], n) /\ n.rx = b /\ n.tx = sess[s].tx
        /\ n.maxRecord = sess[s].maxRecord /\ n.state = sess[s].state
        /\ SameCore(sess[s], n) /\ SameCount(sess[s], n) /\ n.why = sess[s].why
    BY <2>1 DEF Shape, Fields, SameWords, SameCore, SameCount
  <2>4. Pulled(s, m, b, n)
    BY <2>2, <2>3 DEF Pulled, Refused
  <2> QED
    BY <2>4
<1>6. CASE o # "Record" /\ o # "Nothing"
  <2>1. PICK n : n = Failed(y, o)
    OBVIOUS
  <2>2. sess' = [sess EXCEPT ![s] = n]
    BY <1>1, <1>2, <1>6, <2>1 DEF Receives
  <2>3. /\ DOMAIN n = Fields /\ SameWords(y, n) /\ SameWire(y, n)
        /\ SameCore(y, n) /\ SameCount(y, n)
        /\ n.maxRecord = y.maxRecord /\ n.why = o
        /\ n.state = IF y.state = "Established" THEN "Established" ELSE "Failed"
    BY <1>3, <2>1, FailedIs
  <2>4. Refused(s, b, n)
    <3>1. \/ o = "Lost" /\ Other(s) \in closed
          \/ o = "TooBig" /\ b # <<>> /\ b[1].body.len > Limit(s)
          \/ o = "AuthFailed" /\ b # <<>> /\ Len(b) # 1 /\ ~Opens(sess[s], b[1])
      BY <1>1, <1>6 DEF Outcome
    <3>2. b # <<>> /\ Len(b) # 1 => Len(b) > 1
      BY LenIs
    <3> QED
      BY <2>3, <3>1, <3>2 DEF Refused
  <2>5. Pulled(s, m, b, n)
    BY <1>3, <2>2, <2>3, <2>4 DEF Pulled, SameWords, SameWire, SameCore, SameCount
  <2> QED
    BY <2>5
<1> QED
  BY <1>4, <1>5, <1>6

LEMMA SeqGrows ==
    ASSUME NEW T, NEW S, T \subseteq S, NEW q \in Seq(T)
    PROVE  q \in Seq(S)
  OBVIOUS

\* The end s has read, and the session that a record leaves is m.
Reading(S, s, m, b, z, n) ==
    /\ AgreementInv /\ Units(S) /\ s \in Ends /\ s \notin closed /\ closed' = closed
    /\ sess[s].state \in Live /\ m.state \in Live \cup {"Failed"}
    /\ m.tx = sess[s].tx /\ m.rx = SubSeq(b, 3, Len(b))
    /\ Split(S, s, b, z) /\ Pulled(s, m, b, n)
    /\ pipe' = [pipe EXCEPT ![Other(s)] = IF Len(sess[s].rx) > 1 THEN @ ELSE <<>>]

LEMMA PulledParts ==
    ASSUME NEW S, NEW s \in Ends, NEW m, NEW b, NEW z, NEW n, Reading(S, s, m, b, z, n)
    PROVE  /\ sess'[s] = n /\ sess'[Other(s)] = sess[Other(s)] /\ DOMAIN n = Fields
           /\ n.tx = sess[s].tx /\ n.rx \in Seq(S) /\ n.state \in Live \cup {"Failed"}
           /\ n.rx = b \/ (Len(b) > 1 /\ n.rx = SubSeq(b, 3, Len(b)))
           /\ DOMAIN pipe' = Ends /\ pipe'[s] = pipe[s] /\ pipe'[Other(s)] \in Seq(S)
           /\ Len(pipe'[Other(s)]) <= Window
           /\ z = Pair(pipe'[Other(s)], Unwritten(Other(s)))
<1>1. PICK o \in Ends : o = Other(s) /\ Other(o) = s /\ o # s
  BY OthersAre
<1>2. sess'[s] = n /\ sess'[o] = sess[o] /\ DOMAIN n = Fields
  BY <1>1, BecomesIs DEF AgreementInv, Pulled, Reading
<1>3. n.tx = sess[s].tx /\ n.state \in Live \cup {"Failed"}
      /\ (n.rx = b \/ (Len(b) > 1 /\ n.rx = SubSeq(b, 3, Len(b))))
  BY DEF Reading, Pulled
<1>4. n.rx \in Seq(S)
  <2>1. PICK c \in Seq(S) : c = b
    BY DEF Reading, Split
  <2>2. PICK l \in Nat : l = Len(c)
    BY LenIs
  <2>3. \A i \in 3..l : c[i] \in S
    BY <2>2, ElementOfSeq
  <2>4. SubSeq(c, 3, l) \in Seq(S)
    BY <2>3, SubSeqProperties
  <2> QED
    BY <1>3, <2>1, <2>2, <2>4
<1>5. DOMAIN pipe = Ends /\ pipe[o] \in Seq(S) /\ Len(pipe[o]) <= Window
  BY <1>1 DEF Reading, AgreementInv, Shape, Units
<1>6. DOMAIN pipe' = Ends /\ pipe'[s] = pipe[s]
      /\ pipe'[o] = IF Len(sess[s].rx) > 1 THEN pipe[o] ELSE <<>>
  BY <1>1, <1>5 DEF Reading
<1>7. <<>> \in Seq(S) /\ Len(<<>>) <= Window
  BY EmptySeq, SecureAssumption
<1>8. z = Pair(pipe'[o], Unwritten(o))
  <2>1. Unwritten(o) \in Seq(S)
    BY <1>1, StreamTyped DEF Reading
  <2>2. <<>> \o Unwritten(o) = Unwritten(o)
    BY <2>1, ConcatEmptySeq
  <2> QED
    BY <1>1, <1>6, <2>2 DEF Reading, Split, Pair
<1> QED
  BY <1>1, <1>2, <1>3, <1>4, <1>5, <1>6, <1>7, <1>8

LEMMA ReadStreams ==
    ASSUME NEW S, NEW s \in Ends, NEW m, NEW b, NEW z, NEW n, Reading(S, s, m, b, z, n)
    PROVE  /\ Stream(s)' = Stream(s)
           /\ Stream(Other(s))' = Pair(n.rx, z) /\ Stream(Other(s)) = Pair(b, z)
           /\ Units(S)' /\ \A e \in Ends : Len(pipe'[e]) <= Window
<1>1. PICK o \in Ends : o = Other(s) /\ Other(o) = s /\ Ends = {s, o} /\ o # s
  BY OthersAre
<1>2. /\ sess'[s] = n /\ sess'[o] = sess[o] /\ DOMAIN n = Fields
      /\ n.tx = sess[s].tx /\ n.rx \in Seq(S)
      /\ DOMAIN pipe' = Ends /\ pipe'[s] = pipe[s] /\ pipe'[o] \in Seq(S)
      /\ Len(pipe'[o]) <= Window
      /\ z = Pair(pipe'[o], Unwritten(o))
  <2>1. /\ sess'[s] = n /\ sess'[Other(s)] = sess[Other(s)] /\ DOMAIN n = Fields
        /\ n.tx = sess[s].tx /\ n.rx \in Seq(S)
        /\ DOMAIN pipe' = Ends /\ pipe'[s] = pipe[s] /\ pipe'[Other(s)] \in Seq(S)
        /\ Len(pipe'[Other(s)]) <= Window
        /\ z = Pair(pipe'[Other(s)], Unwritten(Other(s)))
    BY PulledParts
  <2> QED
    BY <1>1, <2>1
<1>3. Units(S)' /\ \A e \in Ends : Len(pipe'[e]) <= Window
  BY <1>1, <1>2 DEF Reading, Units, AgreementInv, Shape
<1>4. Stream(s)' = Stream(s)
  BY <1>1, <1>2 DEF Stream, Unwritten, Reading
<1>5. Stream(o)' = Pair(n.rx, z) /\ Stream(o) = Pair(b, z)
  <2>1. Unwritten(o)' = Unwritten(o)
    BY <1>1, <1>2 DEF Unwritten, Reading
  <2> QED
    BY <1>1, <1>2, <2>1 DEF Stream, Pair, Reading, Split
<1> QED
  BY <1>1, <1>3, <1>4, <1>5

LEMMA ReadStep ==
    ASSUME NEW S, NEW s \in Ends, NEW m, NEW b, NEW z, NEW n, Reading(S, s, m, b, z, n),
           Greeted', Keeps
    PROVE  AgreementInv'
<1>1. PICK o \in Ends : o = Other(s) /\ Other(o) = s /\ Ends = {s, o} /\ o # s
  BY OthersAre
<1>2. /\ sess'[s] = n /\ sess'[o] = sess[o] /\ DOMAIN n = Fields
      /\ n.state \in Live \cup {"Failed"} /\ DOMAIN pipe' = Ends
      /\ n.rx = b \/ (Len(b) > 1 /\ n.rx = SubSeq(b, 3, Len(b)))
  <2>1. /\ sess'[s] = n /\ sess'[Other(s)] = sess[Other(s)] /\ DOMAIN n = Fields
        /\ n.tx = sess[s].tx /\ n.rx \in Seq(S) /\ n.state \in Live \cup {"Failed"}
        /\ n.rx = b \/ (Len(b) > 1 /\ n.rx = SubSeq(b, 3, Len(b)))
        /\ DOMAIN pipe' = Ends /\ pipe'[s] = pipe[s] /\ pipe'[Other(s)] \in Seq(S)
        /\ Len(pipe'[Other(s)]) <= Window
        /\ z = Pair(pipe'[Other(s)], Unwritten(Other(s)))
    BY PulledParts
  <2> QED
    BY <1>1, <2>1
<1>3. /\ Units(S)' /\ \A e \in Ends : Len(pipe'[e]) <= Window
      /\ Stream(s)' = Stream(s) /\ Stream(o)' = Pair(n.rx, z) /\ Stream(o) = Pair(b, z)
  BY <1>1, ReadStreams
<1>6. StreamInv(s) /\ StreamInv(o)
  BY <1>1 DEF AgreementInv, Reading
<1>7. StreamInv(s)'
  BY <1>1, <1>2, <1>3, <1>6, OwnStreamSame DEF Reading
<1>8. StreamInv(o)'
  <2>1. CASE n.rx = b
    <3>1. Stream(o)' = Stream(o)
      BY <1>3, <2>1
    <3> QED
      BY <1>1, <1>2, <1>6, <3>1, PeerStreamSame DEF Reading
  <2>2. CASE Len(b) > 1 /\ n.rx = SubSeq(b, 3, Len(b))
    <3>1. b \in Seq(S) /\ z \in Seq(S)
      BY DEF Reading, Split
    <3>2. Stream(o) = b \o z /\ Stream(o)' = SubSeq(b, 3, Len(b)) \o z
      BY <1>3, <2>2 DEF Pair
    <3> QED
      BY <1>1, <1>2, <1>6, <2>2, <3>1, <3>2, PeerStreamTaken DEF Reading
  <2> QED
    BY <1>2, <2>1, <2>2
<1> QED
  BY <1>1, <1>2, <1>3, <1>7, <1>8, LiveStep DEF Reading, Pulled

-------------------------------------------------------------------------------
(* What every step that sends, and every step that reads, has in common *)

\* The session of s has become n, which is m but for its buffers or its failure.
Turns(s, m, n) ==
    /\ DOMAIN n = Fields /\ sess' = [sess EXCEPT ![s] = n]
    /\ SameWords(m, n) /\ n.maxRecord = m.maxRecord
    /\ n.state = m.state \/ (n.state = "Failed" /\ m.state # "Established")

LEMMA MinorTurn ==
    ASSUME AgreementInv, cfg' = cfg, NEW s \in Ends, NEW m, NEW n, Turns(s, m, n),
           Minor(sess[s], m)
    PROVE  Greeted' /\ Keeps
<1>1. Minor(sess[s], n)
  BY DEF Minor, Turns, SameWords, Fore
<1> QED
  BY <1>1, MinorKeeps DEF AgreementInv, Turns

\* A flush, of a session that is otherwise m.
LEMMA FlushIs ==
    ASSUME AgreementInv, NEW s \in Ends, s \notin closed, closed' = closed,
           sess[s].state \in Live, NEW m, DOMAIN m = Fields, m.state = sess[s].state,
           SameWire(sess[s], m), NEW q, q = sess[s].tx, Sends(s, m, q)
    PROVE  \E S, n : Writing(S, s, m, q, n)
<1>1. PICK S : Units(S)
  BY DEF AgreementInv, Shape, Units
<1>2. m.tx \in Seq(S) /\ q \in Seq(S) /\ Shape
  BY <1>1 DEF Units, SameWire, AgreementInv
<1>3. PICK n : Pushed(S, s, m, q, n)
  BY <1>1, <1>2, SendsIs
<1>4. Writing(S, s, m, q, n)
  BY <1>1, <1>3 DEF Writing, SameWire
<1> QED
  BY <1>4

LEMMA Flushes ==
    ASSUME AgreementInv, NEW s \in Ends, s \notin closed, closed' = closed, cfg' = cfg,
           sess[s].state \in Live, NEW m, DOMAIN m = Fields, m.state = sess[s].state,
           SameWire(sess[s], m), Minor(sess[s], m), NEW q, q = sess[s].tx, Sends(s, m, q)
    PROVE  AgreementInv'
<1>1. PICK S, n : Writing(S, s, m, q, n)
  BY FlushIs
<1>2. Turns(s, m, n)
  BY <1>1 DEF Turns, Pushed, Writing
<1>3. Greeted' /\ Keeps
  BY <1>2, MinorTurn
<1> QED
  BY <1>1, <1>3, FlushStep

\* A record r, of a session that is otherwise m.
Recorded(S, s, m, r, k, q, n, u) ==
    /\ Writing(S, s, k, q, n) /\ Holds(m, r, k) /\ IsOf(m, r, u)
    /\ u \in S /\ Rest \in S /\ Adds(s, u, Rest, q)

LEMMA RecordIs ==
    ASSUME AgreementInv, NEW s \in Ends, s \notin closed, closed' = closed,
           sess[s].state \in Live, NEW m, DOMAIN m = Fields, m.state = sess[s].state,
           SameWire(sess[s], m), NEW r, SendRecord(s, m, r)
    PROVE  \E S, k, q, n, u : Recorded(S, s, m, r, k, q, n, u)
<1>1. PICK T : Units(T)
  BY DEF AgreementInv, Shape, Units
<1>2. PICK k : k = Sealed(m, r)
  OBVIOUS
<1>3. Holds(m, r, k)
  BY <1>2, SealedIs
<1>4. PICK u : IsOf(m, r, u) /\ k.tx = m.tx \o <<u, Rest>>
  BY <1>3, Zenon DEF Holds
<1>5. PICK S : S = T \cup {u, Rest}
  OBVIOUS
<1>6. Units(S) /\ u \in S /\ Rest \in S
  BY <1>1, <1>5, SeqGrows DEF Units
<1>7. PICK q : q = k.tx
  OBVIOUS
<1>8. q \in Seq(S) /\ Adds(s, u, Rest, q)
  <2>1. sess[s].tx \in Seq(S) /\ <<u, Rest>> \in Seq(S)
    BY <1>6 DEF Units
  <2>2. q = sess[s].tx \o <<u, Rest>>
    BY <1>4, <1>7 DEF SameWire
  <2> QED
    BY <2>1, <2>2, ConcatProperties DEF Adds, Pair
<1>9. Sends(s, k, q)
  BY <1>2, <1>7 DEF SendRecord
<1>10. Shape /\ k.tx \in Seq(S) /\ DOMAIN k = Fields /\ k.rx = m.rx /\ k.state = m.state
  BY <1>3, <1>7, <1>8 DEF AgreementInv, Holds
<1>11. PICK n : Pushed(S, s, k, q, n)
  BY <1>6, <1>8, <1>9, <1>10, SendsIs
<1>12. Writing(S, s, k, q, n)
  BY <1>6, <1>10, <1>11 DEF Writing, SameWire
<1>13. Recorded(S, s, m, r, k, q, n, u)
  BY <1>3, <1>4, <1>6, <1>8, <1>12 DEF Recorded
<1> QED
  BY <1>13

LEMMA Records ==
    ASSUME AgreementInv, NEW s \in Ends, s \notin closed, closed' = closed,
           sess[s].state \in Live, NEW m, DOMAIN m = Fields, m.state = sess[s].state,
           SameWire(sess[s], m), NEW r, SendRecord(s, m, r),
           \A n : Turns(s, m, n) => Greeted' /\ Keeps,
           \A n, u : Turns(s, m, n) /\ u.body = r => Says(s, u)'
    PROVE  AgreementInv'
<1>1. PICK S, k, q, n, u : Recorded(S, s, m, r, k, q, n, u)
  BY RecordIs
<1>2. Turns(s, m, n)
  BY <1>1 DEF Recorded, Writing, Holds, Turns, Pushed, SameWords
<1>3. Greeted' /\ Keeps /\ Says(s, u)'
  BY <1>1, <1>2 DEF Recorded, IsOf
<1>4. Writing(S, s, k, q, n) /\ u \in S /\ Rest \in S /\ Adds(s, u, Rest, q)
  BY <1>1 DEF Recorded
<1> QED
  BY <1>3, <1>4, RecordStep

\* A read, the session that a record leaves being m.
LEMMA PullIs ==
    ASSUME AgreementInv, NEW s \in Ends, s \notin closed, closed' = closed,
           sess[s].state \in Live, NEW b, b = Buffered(s),
           NEW m, DOMAIN m = Fields, m.state \in Live \cup {"Failed"},
           m.tx = sess[s].tx, m.rx = SubSeq(b, 3, Len(b)), Receives(s, m)
    PROVE  \E S, z, n : Reading(S, s, m, b, z, n)
<1>1. PICK S : Units(S)
  BY DEF AgreementInv, Shape, Units
<1>2. PICK z : Split(S, s, b, z)
  BY <1>1, SplitIs DEF Split
<1>3. b \in Seq(S) /\ Shape
  BY <1>2 DEF Split, AgreementInv
<1>4. PICK n : Pulled(s, m, b, n)
  BY <1>3, ReceivesIs
<1>5. pipe' = [pipe EXCEPT ![Other(s)] = IF Len(sess[s].rx) > 1 THEN @ ELSE <<>>]
  BY DEF Receives
<1>6. Reading(S, s, m, b, z, n)
  BY <1>1, <1>2, <1>4, <1>5 DEF Reading
<1> QED
  BY <1>6

\* If it is a record that s has read, the other end says so of itself.
LEMMA ReadSays ==
    ASSUME NEW S, NEW s \in Ends, NEW m, NEW b, NEW z, NEW n, Reading(S, s, m, b, z, n),
           Len(b) > 1
    PROVE  Says(Other(s), b[1])
<1>1. b \in Seq(S) /\ z \in Seq(S) /\ Stream(Other(s)) = b \o z
  BY DEF Split, Reading
<1>2. StreamInv(Other(s))
  BY OthersAre DEF AgreementInv, Reading
<1> QED
  BY <1>1, <1>2, HeadSays DEF Reading

LEMMA Pulls ==
    ASSUME AgreementInv, NEW s \in Ends, s \notin closed, closed' = closed, cfg' = cfg,
           sess[s].state \in Live, NEW b, b = Buffered(s),
           NEW m, DOMAIN m = Fields, m.state \in Live \cup {"Failed"},
           m.tx = sess[s].tx, m.rx = SubSeq(b, 3, Len(b)), Receives(s, m),
           /\ Says(Other(s), b[1]) /\ sess' = [sess EXCEPT ![s] = m]
           => Greeted' /\ Keeps
    PROVE  AgreementInv'
<1>1. PICK S, z, n : Reading(S, s, m, b, z, n)
  BY PullIs
<1>2. Greeted' /\ Keeps
  <2>1. CASE Len(b) > 1 /\ n = m
    <3>1. Says(Other(s), b[1])
      BY <1>1, <2>1, ReadSays
    <3> QED
      BY <1>1, <2>1, <3>1 DEF Pulled, Reading
  <2>2. CASE ~(Len(b) > 1 /\ n = m)
    <3>1. Minor(sess[s], n)
      BY <1>1, <2>2 DEF Reading, Pulled, Minor, SameWords, Fore
    <3> QED
      BY <1>1, <3>1, MinorKeeps DEF Reading, Pulled, AgreementInv
  <2> QED
    BY <2>1, <2>2
<1> QED
  BY <1>1, <1>2, ReadStep

-------------------------------------------------------------------------------
(* The steps of a pump, and of the layers above *)

LEMMA PumpBeginsKeeps ==
    ASSUME AgreementInv, NEW s \in Ends, PumpBegins(s)
    PROVE  AgreementInv'
<1>1. PICK m : m = [sess[s] EXCEPT !.looping = TRUE]
  OBVIOUS
<1>2. DOMAIN sess = Ends /\ DOMAIN sess[s] = Fields
  BY DEF AgreementInv, Shape
<1>3. /\ DOMAIN m = Fields /\ m.state = sess[s].state /\ SameWire(sess[s], m)
      /\ SameWords(sess[s], m) /\ m.maxRecord = sess[s].maxRecord
  BY <1>1, <1>2 DEF Fields, SameWire, SameWords
<1>4. Minor(sess[s], m)
  BY <1>3 DEF Minor, SameWords
<1>5. sess[s].state \in Live /\ s \notin closed /\ closed' = closed /\ cfg' = cfg
  BY DEF PumpBegins, Live
<1>6. CASE sess[s].tx = <<>>
  <2>1. sess' = [sess EXCEPT ![s] = m] /\ pipe' = pipe
    BY <1>1, <1>2, <1>6 DEF PumpBegins, ToFlush
  <2>2. Greeted' /\ Keeps
    BY <1>3, <1>4, <1>5, <2>1, MinorKeeps DEF AgreementInv
  <2>3. PICK S : Units(S)
    BY DEF AgreementInv, Shape, Units
  <2>4. m.state \in Live \cup {"Failed"}
    BY <1>3, <1>5
  <2> QED
    BY <1>3, <1>5, <2>1, <2>2, <2>3, <2>4, QuietStep
<1>7. CASE sess[s].tx # <<>>
  <2>1. Sends(s, m, sess[s].tx)
    BY <1>1, <1>7 DEF PumpBegins, ToFlush
  <2> QED
    BY <1>3, <1>4, <1>5, <2>1, Flushes
<1> QED
  BY <1>6, <1>7

LEMMA SendMessageKeeps ==
    ASSUME AgreementInv, NEW s \in Ends, SendMessage(s)
    PROVE  AgreementInv'
<1>1. PICK m : m = [sess[s] EXCEPT !.msgIndex = @ + 1, !.hash = Append(@, sess[s].msgIndex)]
  OBVIOUS
<1>2. PICK r : r = [type |-> "Handshake", len |-> Floor, hash |-> sess[s].hash]
  OBVIOUS
<1>3. sess[s].state = "Handshaking" /\ s \notin closed /\ closed' = closed /\ cfg' = cfg
      /\ SendRecord(s, m, r)
  BY <1>1, <1>2 DEF SendMessage, InLoop
<1>4. DOMAIN sess[s] = Fields
  BY DEF AgreementInv, Shape
<1>5. /\ DOMAIN m = Fields /\ m.state = sess[s].state /\ SameWire(sess[s], m)
      /\ m.helloSent = sess[s].helloSent /\ m.greet = sess[s].greet
      /\ m.negotiated = sess[s].negotiated
  BY <1>1, <1>4 DEF Fields, SameWire
<1>6. Minor(sess[s], m)
  BY <1>3, <1>5 DEF Minor, Fore
<1>7. \A n : Turns(s, m, n) => Greeted' /\ Keeps
  BY <1>3, <1>6, MinorTurn
<1>8. r.type = "Handshake"
  BY <1>2
<1>9. \A n, u : Turns(s, m, n) /\ u.body = r => Says(s, u)'
  BY <1>8 DEF Says
<1>10. sess[s].state \in Live
  BY <1>3 DEF Live
<1> QED
  BY <1>3, <1>5, <1>7, <1>9, <1>10, Records

LEMMA SendDataKeeps ==
    ASSUME AgreementInv, NEW s \in Ends, SendData(s)
    PROVE  AgreementInv'
<1>1. PICK m : m = [sess[s] EXCEPT !.data = @ + 1]
  OBVIOUS
<1>2. PICK l : SendRecord(s, m, [type |-> "Data", len |-> l])
  BY <1>1 DEF SendData
<1>3. PICK r : r = [type |-> "Data", len |-> l]
  OBVIOUS
<1>4. sess[s].state = "Established" /\ s \notin closed /\ closed' = closed /\ cfg' = cfg
      /\ SendRecord(s, m, r)
  BY <1>2, <1>3 DEF SendData, Usable
<1>5. DOMAIN sess[s] = Fields
  BY DEF AgreementInv, Shape
<1>6. /\ DOMAIN m = Fields /\ m.state = sess[s].state /\ SameWire(sess[s], m)
      /\ SameWords(sess[s], m) /\ m.maxRecord = sess[s].maxRecord
  BY <1>1, <1>5 DEF Fields, SameWire, SameWords
<1>7. Minor(sess[s], m)
  BY <1>6 DEF Minor, SameWords
<1>8. \A n : Turns(s, m, n) => Greeted' /\ Keeps
  BY <1>4, <1>7, MinorTurn
<1>9. r.type = "Data"
  BY <1>3
<1>10. \A n, u : Turns(s, m, n) /\ u.body = r => Says(s, u)'
  BY <1>9 DEF Says
<1>11. sess[s].state \in Live
  BY <1>4 DEF Live
<1> QED
  BY <1>4, <1>6, <1>8, <1>10, <1>11, Records

LEMMA FlushDataKeeps ==
    ASSUME AgreementInv, NEW s \in Ends, FlushData(s)
    PROVE  AgreementInv'
<1>1. sess[s].state \in Live /\ s \notin closed /\ closed' = closed /\ cfg' = cfg
      /\ Sends(s, sess[s], sess[s].tx)
  BY DEF FlushData, Usable, Live
<1>2. PICK m, q : m = sess[s] /\ q = sess[s].tx
  OBVIOUS
<1>3. DOMAIN m = Fields /\ m.state = sess[s].state /\ SameWire(sess[s], m)
      /\ Minor(sess[s], m) /\ Sends(s, m, q)
  BY <1>1, <1>2 DEF AgreementInv, Shape, SameWire, Minor
<1> QED
  BY <1>1, <1>2, <1>3, Flushes

LEMMA SayHelloKeeps ==
    ASSUME AgreementInv, NEW s \in Ends, SayHello(s)
    PROVE  AgreementInv'
<1>1. PICK m : m = [sess[s] EXCEPT !.helloSent = TRUE]
  OBVIOUS
<1>2. PICK r : r = [type |-> "Hello", len |-> Floor, session |-> sess[s].hash,
                    offer |-> cfg[s].offer]
  OBVIOUS
<1>3. s = "I" /\ sess[s].state = "Greeting" /\ s \notin closed /\ closed' = closed
      /\ cfg' = cfg /\ SendRecord(s, m, r)
  BY <1>1, <1>2 DEF SayHello, InLoop
<1>4. DOMAIN sess[s] = Fields /\ Shape /\ Greeted
  BY DEF AgreementInv, Shape
<1>5. /\ DOMAIN m = Fields /\ m.state = sess[s].state /\ SameWire(sess[s], m)
      /\ m.helloSent = TRUE /\ m.greet = sess[s].greet /\ m.hash = sess[s].hash
      /\ m.negotiated = sess[s].negotiated
  BY <1>1, <1>4 DEF Fields, SameWire
<1>6. r.type = "Hello" /\ r.session = sess[s].hash /\ r.offer = cfg[s].offer
  BY <1>2
<1>7. ASSUME NEW n, Turns(s, m, n)
      PROVE  Greeted' /\ Keeps /\ \A u : u.body = r => Says(s, u)'
  <2>1. sess'["I"] = n /\ sess'["R"] = sess["R"]
    BY <1>3, <1>4, <1>7, BecomesIs DEF Turns, Other
  <2>2. /\ n.helloSent = TRUE /\ n.greet = sess["I"].greet /\ n.hash = sess["I"].hash
        /\ n.negotiated = sess["I"].negotiated /\ n.state \in {"Greeting", "Failed"}
    BY <1>3, <1>5, <1>7 DEF Turns, SameWords
  <2>3. Greeted'
    BY <1>3, <1>4, <2>1, <2>2 DEF Greeted, Ends
  <2>4. Keeps
    BY <1>3, <2>1, <2>2 DEF Keeps
  <2>5. \A u : u.body = r => Says(s, u)'
    BY <1>3, <1>6, <2>1, <2>2 DEF Says
  <2> QED
    BY <2>3, <2>4, <2>5
<1>8. sess[s].state \in Live
  BY <1>3 DEF Live
<1> QED
  BY <1>3, <1>5, <1>7, <1>8, Records

LEMMA AnswerHelloKeeps ==
    ASSUME AgreementInv, NEW s \in Ends, AnswerHello(s)
    PROVE  AgreementInv'
<1>1. PICK m : m = [sess[s] EXCEPT !.greet = "Sent"]
  OBVIOUS
<1>2. PICK r : r = [type |-> "HelloOk", len |-> Floor, session |-> sess[s].hash,
                    offer |-> sess[s].negotiated]
  OBVIOUS
<1>3. sess[s].greet = "Due" /\ sess[s].state = "Greeting" /\ s \notin closed
      /\ closed' = closed /\ cfg' = cfg /\ SendRecord(s, m, r)
  BY <1>1, <1>2 DEF AnswerHello, InLoop
<1>4. DOMAIN sess[s] = Fields /\ Shape /\ Greeted
  BY DEF AgreementInv, Shape
<1>5. /\ DOMAIN m = Fields /\ m.state = sess[s].state /\ SameWire(sess[s], m)
      /\ m.helloSent = sess[s].helloSent /\ m.greet = "Sent" /\ m.hash = sess[s].hash
      /\ m.negotiated = sess[s].negotiated
  BY <1>1, <1>4 DEF Fields, SameWire
<1>6. r.type = "HelloOk" /\ r.session = sess[s].hash /\ r.offer = sess[s].negotiated
  BY <1>2
<1>7. s = "R"
  BY <1>3, <1>4 DEF Greeted, Ends
<1>8. ASSUME NEW n, Turns(s, m, n)
      PROVE  Greeted' /\ Keeps /\ \A u : u.body = r => Says(s, u)'
  <2>1. sess'["R"] = n /\ sess'["I"] = sess["I"]
    BY <1>4, <1>7, <1>8, BecomesIs DEF Turns, Other
  <2>2. /\ n.helloSent = sess["R"].helloSent /\ n.greet = "Sent"
        /\ n.hash = sess["R"].hash
        /\ n.negotiated = sess["R"].negotiated /\ n.state \in {"Greeting", "Failed"}
    BY <1>3, <1>5, <1>7, <1>8 DEF Turns, SameWords
  <2>3. Greeted'
    BY <1>3, <1>4, <1>7, <2>1, <2>2 DEF Greeted, Ends
  <2>4. Keeps
    BY <1>3, <1>7, <2>1, <2>2 DEF Keeps
  <2>5. \A u : u.body = r => Says(s, u)'
    BY <1>6, <1>7, <2>1, <2>2 DEF Says
  <2> QED
    BY <2>3, <2>4, <2>5
<1>9. sess[s].state \in Live
  BY <1>3 DEF Live
<1> QED
  BY <1>3, <1>5, <1>8, <1>9, Records

\* A session that reads a record and goes on, or fails over it.
LEMMA ReceivedMinor ==
    ASSUME NEW m, DOMAIN m = Fields, NEW b, NEW why, NEW n,
           n = Received(m, b) \/ n = Failed(Received(m, b), why)
    PROVE  /\ DOMAIN n = Fields /\ n.rx = SubSeq(b, 3, Len(b)) /\ n.tx = m.tx
           /\ n.state \in {m.state, "Failed"} /\ Minor(m, n)
<1>1. PICK k : k = Received(m, b)
  OBVIOUS
<1>2. /\ DOMAIN k = Fields /\ SameWords(m, k)
      /\ k.rx = SubSeq(b, 3, Len(b)) /\ k.tx = m.tx
      /\ k.maxRecord = m.maxRecord /\ k.state = m.state
  <2>1. Takes(m, b, k)
    BY <1>1, ReceivedIs
  <2> QED
    BY <2>1 DEF Takes
<1>3. CASE n = Received(m, b)
  BY <1>1, <1>2, <1>3 DEF Minor, SameWords
<1>4. CASE n = Failed(k, why)
  <2>1. /\ DOMAIN n = Fields /\ SameWords(k, n) /\ SameWire(k, n)
        /\ n.maxRecord = k.maxRecord
        /\ n.state = IF k.state = "Established" THEN "Established" ELSE "Failed"
    BY <1>2, <1>4, FailedIs
  <2> QED
    BY <1>2, <2>1 DEF Minor, SameWords, SameWire, Fore
<1> QED
  BY <1>1, <1>3, <1>4

LEMMA ReceiveDataKeeps ==
    ASSUME AgreementInv, NEW s \in Ends, ReceiveData(s)
    PROVE  AgreementInv'
<1>1. PICK b : b = Buffered(s)
  OBVIOUS
<1>2. PICK m : m = Received(sess[s], b)
  OBVIOUS
<1>3. sess[s].state = "Established" /\ s \notin closed /\ closed' = closed /\ cfg' = cfg
      /\ Receives(s, m)
  BY <1>1, <1>2 DEF ReceiveData, Usable
<1>4. DOMAIN sess[s] = Fields /\ Shape /\ Greeted
  BY DEF AgreementInv, Shape
<1>5. DOMAIN m = Fields /\ m.rx = SubSeq(b, 3, Len(b)) /\ m.tx = sess[s].tx
      /\ m.state \in {sess[s].state, "Failed"} /\ Minor(sess[s], m)
  BY <1>2, <1>4, ReceivedMinor
<1>6. sess' = [sess EXCEPT ![s] = m] => Greeted' /\ Keeps
  BY <1>3, <1>4, <1>5, MinorKeeps
<1>7. sess[s].state \in Live /\ m.state \in Live \cup {"Failed"}
  BY <1>3, <1>5 DEF Live
<1> QED
  BY <1>1, <1>3, <1>5, <1>6, <1>7, Pulls

LEMMA ReadMessageKeeps ==
    ASSUME AgreementInv, NEW s \in Ends, ReadMessage(s)
    PROVE  AgreementInv'
<1>1. PICK b : b = Buffered(s)
  OBVIOUS
<1>2. PICK k : k = Received(sess[s], b)
  OBVIOUS
<1>3. DOMAIN sess[s] = Fields
  BY DEF AgreementInv, Shape
<1>4. /\ DOMAIN k = Fields /\ SameWords(sess[s], k)
       /\ k.rx = SubSeq(b, 3, Len(b)) /\ k.tx = sess[s].tx
       /\ k.maxRecord = sess[s].maxRecord /\ k.state = sess[s].state
  <2>1. Takes(sess[s], b, k)
    BY <1>2, <1>3, ReceivedIs
  <2> QED
    BY <2>1 DEF Takes
<1>5. PICK m :
         /\ Receives(s, m)
         /\ \/ m = Failed(k, "AuthFailed")
            \/ m = [k EXCEPT !.msgIndex = @ + 1, !.hash = Append(@, sess[s].msgIndex),
                             !.peer = @ \/ CarriesIdentity(sess[s].pattern, sess[s].msgIndex)]
  BY <1>1, <1>2 DEF ReadMessage
<1>6. sess[s].state = "Handshaking" /\ s \notin closed /\ closed' = closed /\ cfg' = cfg
  BY DEF ReadMessage, InLoop
<1>7. DOMAIN sess[s] = Fields /\ Shape /\ Greeted
  BY DEF AgreementInv, Shape
<1>8. DOMAIN m = Fields /\ m.rx = SubSeq(b, 3, Len(b)) /\ m.tx = sess[s].tx
      /\ m.state \in {sess[s].state, "Failed"} /\ Minor(sess[s], m)
  <2>1. CASE m = Failed(k, "AuthFailed")
    <3>1. DOMAIN m = Fields /\ SameWords(k, m) /\ SameWire(k, m) /\ m.state = "Failed"
      BY <1>6, <1>4, <2>1, FailedIs
    <3> QED
      BY <1>4, <3>1 DEF Minor, SameWords, SameWire, Fore
  <2>2. CASE m = [k EXCEPT !.msgIndex = @ + 1, !.hash = Append(@, sess[s].msgIndex),
                    !.peer = @ \/ CarriesIdentity(sess[s].pattern, sess[s].msgIndex)]
    <3>1. /\ DOMAIN m = Fields /\ m.rx = k.rx /\ m.tx = k.tx /\ m.state = k.state
          /\ m.helloSent = k.helloSent /\ m.greet = k.greet /\ m.negotiated = k.negotiated
      BY <1>4, <2>2 DEF Fields
    <3> QED
      BY <1>6, <1>4, <3>1 DEF Minor, SameWords, Fore
  <2> QED
    BY <1>5, <2>1, <2>2
<1>9. sess' = [sess EXCEPT ![s] = m] => Greeted' /\ Keeps
  BY <1>6, <1>7, <1>8, MinorKeeps
<1>10. sess[s].state \in Live /\ m.state \in Live \cup {"Failed"}
  BY <1>6, <1>8 DEF Live
<1> QED
  BY <1>1, <1>5, <1>6, <1>8, <1>9, <1>10, Pulls

LEMMA FinishKeeps ==
    ASSUME AgreementInv, NEW s \in Ends, Finish(s)
    PROVE  AgreementInv'
<1>1. sess[s].state = "Handshaking" /\ s \notin closed /\ closed' = closed /\ cfg' = cfg
      /\ pipe' = pipe
  BY DEF Finish, InLoop
<1>2. DOMAIN sess[s] = Fields /\ Shape /\ Greeted
  BY DEF AgreementInv, Shape
<1>3. PICK n :
         /\ sess' = [sess EXCEPT ![s] = n]
         /\ \/ n = [sess[s] EXCEPT !.looping = FALSE]
            \/ \E why : n = Failed(sess[s], why)
            \/ n = [sess[s] EXCEPT !.state = "Greeting", !.cipher = TRUE,
                                   !.maxRecord = HandshakeMax,
                                   !.trust = IF pins[s] = "None" THEN "Unpaired" ELSE "Paired"]
  BY DEF Finish
<1>4. DOMAIN n = Fields /\ SameWire(sess[s], n) /\ SameWords(sess[s], n)
      /\ n.state \in {"Handshaking", "Greeting", "Failed"}
  <2>1. CASE n = [sess[s] EXCEPT !.looping = FALSE]
    BY <1>1, <1>2, <2>1 DEF Fields, SameWire, SameWords
  <2>2. CASE \E why : n = Failed(sess[s], why)
    BY <1>1, <1>2, <2>2, FailedIs
  <2>3. CASE n = [sess[s] EXCEPT !.state = "Greeting", !.cipher = TRUE,
                                 !.maxRecord = HandshakeMax,
                                 !.trust = IF pins[s] = "None" THEN "Unpaired" ELSE "Paired"]
    BY <1>2, <2>3 DEF Fields, SameWire, SameWords
  <2> QED
    BY <1>3, <2>1, <2>2, <2>3
<1>5. Minor(sess[s], n)
  BY <1>1, <1>4 DEF Minor, SameWords, Fore
<1>6. Greeted' /\ Keeps
  BY <1>1, <1>2, <1>3, <1>4, <1>5, MinorKeeps
<1>7. PICK S : Units(S)
  BY DEF AgreementInv, Shape, Units
<1>8. sess[s].state \in Live /\ n.state \in Live \cup {"Failed"}
  BY <1>1, <1>4 DEF Live
<1> QED
  BY <1>1, <1>3, <1>4, <1>6, <1>7, <1>8, QuietStep

LEMMA AnswerDrainedKeeps ==
    ASSUME AgreementInv, NEW s \in Ends, AnswerDrained(s)
    PROVE  AgreementInv'
<1>1. sess[s].state = "Greeting" /\ sess[s].greet = "Sent" /\ s \notin closed
      /\ closed' = closed /\ cfg' = cfg /\ pipe' = pipe
  BY DEF AnswerDrained, InLoop
<1>2. DOMAIN sess = Ends /\ DOMAIN sess[s] = Fields /\ Shape /\ Greeted
  BY DEF AgreementInv, Shape
<1>3. PICK n :
         /\ sess' = [sess EXCEPT ![s] = n]
         /\ n = Applied(sess[s]) \/ n = [sess[s] EXCEPT !.looping = FALSE]
  BY <1>2 DEF AnswerDrained
<1>4. /\ DOMAIN n = Fields /\ SameWire(sess[s], n) /\ SameWords(sess[s], n)
      /\ \/ n.state = "Established" /\ n.maxRecord = sess[s].negotiated.rec
         \/ n.state \in {"Greeting", "Failed"}
  <2>1. CASE n = Applied(sess[s])
    BY <1>1, <1>2, <2>1, AppliedIs
  <2>2. CASE n = [sess[s] EXCEPT !.looping = FALSE]
    BY <1>1, <1>2, <2>2 DEF Fields, SameWire, SameWords
  <2> QED
    BY <1>3, <2>1, <2>2
<1>5. s = "R"
  BY <1>1, <1>2 DEF Greeted, Ends
<1>6. sess'["R"] = n /\ sess'["I"] = sess["I"]
  BY <1>2, <1>3, <1>4, <1>5, BecomesIs DEF Other
<1>7. Greeted' /\ Keeps
  BY <1>1, <1>2, <1>4, <1>5, <1>6 DEF Greeted, Keeps, SameWords, Ends
<1>8. PICK S : Units(S)
  BY DEF AgreementInv, Shape, Units
<1>9. sess[s].state \in Live /\ n.state \in Live \cup {"Failed"}
  BY <1>1, <1>4 DEF Live
<1> QED
  BY <1>1, <1>3, <1>4, <1>7, <1>8, <1>9, QuietStep

\* The initiator adopts what the responder has said.
LEMMA Adopts ==
    ASSUME Shape, Greeted, cfg' = cfg, sess["I"].state = "Greeting",
           NEW k, DOMAIN k = Fields, k.state = "Greeting",
           k.helloSent = sess["I"].helloSent, k.greet = sess["I"].greet,
           k.hash = sess["I"].hash,
           k.negotiated = sess["R"].negotiated, sess["R"].greet = "Sent",
           NEW m, m = Applied(k), sess' = [sess EXCEPT !["I"] = m]
    PROVE  Greeted' /\ Keeps
<1>1. /\ DOMAIN m = Fields /\ SameWords(k, m)
      /\ \/ m.state = "Established" /\ m.maxRecord = k.negotiated.rec
         \/ m.state = "Failed"
  BY AppliedIs
<1>2. "I" \in Ends /\ Other("I") = "R"
  BY DEF Ends, Other
<1>3. sess'["I"] = m /\ sess'["R"] = sess["R"]
  BY <1>1, <1>2, BecomesIs
<1> QED
  BY <1>1, <1>3 DEF Greeted, Keeps, SameWords, Ends

\* The responder decides, on what the initiator has said.
LEMMA Decides ==
    ASSUME Shape, Greeted, cfg' = cfg, sess["R"].state = "Greeting", sess["R"].greet = "No",
           NEW m, DOMAIN m = Fields, m.state = "Greeting",
           m.helloSent = sess["R"].helloSent, m.greet = "Due", m.hash = sess["R"].hash,
           m.negotiated = Agreed(cfg["R"].offer, cfg["I"].offer),
           sess["I"].helloSent, sess["R"].hash = sess["I"].hash,
           sess' = [sess EXCEPT !["R"] = m]
    PROVE  Greeted' /\ Keeps
<1>1. "R" \in Ends /\ Other("R") = "I"
  BY DEF Ends, Other
<1>2. sess'["R"] = m /\ sess'["I"] = sess["I"]
  BY <1>1, BecomesIs
<1> QED
  BY <1>2 DEF Greeted, Keeps, Ends

LEMMA HearHelloKeeps ==
    ASSUME AgreementInv, NEW s \in Ends, HearHello(s)
    PROVE  AgreementInv'
<1>1. PICK b : b = Buffered(s)
  OBVIOUS
<1>2. PICK k : k = Received(sess[s], b)
  OBVIOUS
<1>3. DOMAIN sess[s] = Fields /\ Shape /\ Greeted
  BY DEF AgreementInv, Shape
<1>4. /\ DOMAIN k = Fields /\ SameWords(sess[s], k)
      /\ k.rx = SubSeq(b, 3, Len(b)) /\ k.tx = sess[s].tx
      /\ k.maxRecord = sess[s].maxRecord /\ k.state = sess[s].state
  <2>1. Takes(sess[s], b, k)
    BY <1>2, <1>3, ReceivedIs
  <2> QED
    BY <2>1 DEF Takes
<1>5. PICK r : r = b[1].body
  OBVIOUS
<1>6. PICK x : x = [k EXCEPT !.negotiated = Settled(s, r.offer)]
  OBVIOUS
<1>7. /\ DOMAIN x = Fields /\ x.negotiated = Settled(s, r.offer) /\ SameWire(k, x)
      /\ x.state = k.state /\ x.hash = k.hash /\ x.greet = k.greet
      /\ x.helloSent = k.helloSent
  BY <1>4, <1>6 DEF Fields, SameWire
<1>8. sess[s].state = "Greeting" /\ sess[s].greet = "No" /\ s \notin closed
      /\ closed' = closed /\ cfg' = cfg
  BY DEF HearHello, InLoop
<1>9. PICK m :
         /\ Receives(s, m)
         /\ \/ \E why : m = Failed(k, why)
            \/ s = "I" /\ r.type = "HelloOk" /\ r.session = sess[s].hash /\ m = Applied(x)
            \/ /\ s = "R" /\ r.type = "Hello" /\ r.session = sess[s].hash
               /\ m = [x EXCEPT !.greet = "Due"]
  BY <1>1, <1>2, <1>5, <1>6 DEF HearHello, Ends
<1>10. CASE \E why : m = Failed(k, why)
  <2>1. DOMAIN m = Fields /\ SameWords(k, m) /\ SameWire(k, m) /\ m.state = "Failed"
    BY <1>4, <1>8, <1>10, FailedIs
  <2>2. Minor(sess[s], m) /\ m.rx = SubSeq(b, 3, Len(b)) /\ m.tx = sess[s].tx
    BY <1>4, <2>1 DEF Minor, SameWords, SameWire, Fore
  <2>3. sess' = [sess EXCEPT ![s] = m] => Greeted' /\ Keeps
    BY <1>3, <1>8, <2>1, <2>2, MinorKeeps
  <2>4. sess[s].state \in Live /\ m.state \in Live \cup {"Failed"}
    BY <1>8, <2>1 DEF Live
  <2> QED
    BY <1>1, <1>8, <1>9, <2>1, <2>2, <2>3, <2>4, Pulls
<1>11. CASE s = "I" /\ r.type = "HelloOk" /\ r.session = sess[s].hash /\ m = Applied(x)
  <2>1. DOMAIN m = Fields /\ SameWire(x, m) /\ m.state \in {"Established", "Failed"}
    BY <1>4, <1>7, <1>8, <1>11, AppliedIs
  <2>2. m.rx = SubSeq(b, 3, Len(b)) /\ m.tx = sess[s].tx
    BY <1>4, <1>7, <2>1 DEF SameWire
  <2>3. ASSUME Says(Other(s), b[1]), sess' = [sess EXCEPT ![s] = m] PROVE Greeted' /\ Keeps
    <3>1. sess["R"].greet = "Sent" /\ r.offer = sess["R"].negotiated
      BY <1>5, <1>11, <2>3 DEF Says, Other
    <3>2. /\ x.state = "Greeting" /\ x.helloSent = sess["I"].helloSent
          /\ x.greet = sess["I"].greet /\ x.hash = sess["I"].hash
          /\ x.negotiated = sess["R"].negotiated /\ sess["I"].state = "Greeting"
      BY <1>4, <1>7, <1>8, <1>11, <3>1 DEF SameWords, Settled
    <3>3. sess' = [sess EXCEPT !["I"] = m] /\ m = Applied(x)
      BY <1>11, <2>3
    <3> QED
      BY <1>3, <1>7, <1>8, <3>1, <3>2, <3>3, Adopts
  <2>4. sess[s].state \in Live /\ m.state \in Live \cup {"Failed"}
    BY <1>8, <2>1 DEF Live
  <2> QED
    BY <1>1, <1>8, <1>9, <2>1, <2>2, <2>3, <2>4, Pulls
<1>12. CASE s = "R" /\ r.type = "Hello" /\ r.session = sess[s].hash
            /\ m = [x EXCEPT !.greet = "Due"]
  <2>1. /\ DOMAIN m = Fields /\ SameWire(x, m) /\ m.state = x.state /\ m.greet = "Due"
        /\ m.hash = x.hash /\ m.negotiated = x.negotiated /\ m.helloSent = x.helloSent
    BY <1>7, <1>12 DEF Fields, SameWire
  <2>2. m.rx = SubSeq(b, 3, Len(b)) /\ m.tx = sess[s].tx
    BY <1>4, <1>7, <2>1 DEF SameWire
  <2>3. ASSUME Says(Other(s), b[1]), sess' = [sess EXCEPT ![s] = m] PROVE Greeted' /\ Keeps
    <3>1. sess["I"].helloSent /\ r.session = sess["I"].hash /\ r.offer = cfg["I"].offer
      BY <1>5, <1>12, <2>3 DEF Says, Other
    <3>2. /\ m.state = "Greeting" /\ m.helloSent = sess["R"].helloSent
          /\ m.hash = sess["R"].hash /\ sess["R"].hash = sess["I"].hash
          /\ m.negotiated = Agreed(cfg["R"].offer, cfg["I"].offer)
          /\ sess["R"].state = "Greeting" /\ sess["R"].greet = "No"
      BY <1>4, <1>7, <1>8, <1>12, <2>1, <3>1 DEF SameWords, Settled
    <3>3. sess' = [sess EXCEPT !["R"] = m]
      BY <1>12, <2>3
    <3> QED
      BY <1>3, <1>8, <2>1, <3>1, <3>2, <3>3, Decides
  <2>4. sess[s].state \in Live /\ m.state \in Live \cup {"Failed"}
    BY <1>4, <1>7, <1>8, <2>1 DEF Live
  <2> QED
    BY <1>1, <1>8, <1>9, <2>1, <2>2, <2>3, <2>4, Pulls
<1> QED
  BY <1>9, <1>10, <1>11, <1>12

-------------------------------------------------------------------------------
(* Beginnings and ends *)

LEMMA FirstUnit ==
    ASSUME NEW S, NEW u, NEW k, k = 1
    PROVE  /\ <<u>> \in Seq(S \cup {u}) /\ Len(<<u>>) = 1
           /\ <<>> \o (<<u>> \o <<>>) = <<u>>
           /\ \A G : Heads(<<u>>, k, G) /\ Len(<<u>>) % 2 = k
<1>1. <<u>> \in Seq(S \cup {u}) /\ Len(<<u>>) = 1
  OBVIOUS
<1>2. PICK q \in Seq(S \cup {u}) : q = <<u>> /\ Len(q) = 1
  BY <1>1
<1>3. <<>> \o q = q /\ q \o <<>> = q
  BY ConcatEmptySeq
<1>4. \A i \in 1..1 : i % 2 = 1
  OBVIOUS
<1>5. \A G : Heads(q, k, G) /\ Len(q) % 2 = k
  BY <1>2, <1>4 DEF Heads
<1> QED
  BY <1>1, <1>2, <1>3, <1>5

\* begin() when the other end is gone.
LEMMA BeginLost ==
    ASSUME AgreementInv, NEW s \in Ends, Begin(s), Other(s) \in closed
    PROVE  AgreementInv'
<1>1. PICK o \in Ends : o = Other(s) /\ Other(o) = s /\ Ends = {s, o}
  BY OthersAre
<1>2. DOMAIN sess = Ends /\ DOMAIN sess[s] = Fields /\ Shape /\ Greeted
      /\ Early(s) /\ Early(o)
  BY <1>1 DEF AgreementInv, Shape
<1>3. PICK n : n = Failed(sess[s], "Lost")
  OBVIOUS
<1>4. sess[s].state = "Idle" /\ sess' = [sess EXCEPT ![s] = n] /\ pipe' = pipe
      /\ cfg' = cfg /\ closed' = closed
  BY <1>2, <1>3 DEF Begin
<1>5. DOMAIN n = Fields /\ SameWords(sess[s], n) /\ SameWire(sess[s], n) /\ n.state = "Failed"
  BY <1>2, <1>3, <1>4, FailedIs
<1>6. Minor(sess[s], n)
  BY <1>5 DEF Minor, SameWords, Fore
<1>7. Greeted'
  BY <1>2, <1>4, <1>5, <1>6, MinorKeeps
<1>8. DOMAIN sess' = Ends /\ (\A e \in Ends : DOMAIN sess'[e] = Fields)
      /\ sess'[s] = n /\ sess'[o] = sess[o]
  BY <1>1, <1>2, <1>4, <1>5, BecomesIs
<1>9. Shape'
  <2>1. PICK S : Units(S)
    BY <1>2 DEF Shape, Units
  <2>2. Units(S)'
    BY <1>1, <1>4, <1>5, <1>8, <2>1 DEF Units, SameWire
  <2> QED
    BY <1>2, <1>4, <1>8, <2>2 DEF Shape, Units
<1>10. StreamInv(s)' /\ StreamInv(o)'
  BY <1>1, <1>4, <1>5, <1>8 DEF StreamInv, Reads
<1>11. Early(s)' /\ Early(o)'
  BY <1>1, <1>2, <1>4, <1>5, <1>8 DEF Early, Unmet
<1> QED
  BY <1>1, <1>7, <1>9, <1>10, <1>11 DEF AgreementInv

\* begin() with a preamble to send.
LEMMA BeginSent ==
    ASSUME AgreementInv, NEW s \in Ends, Begin(s), Other(s) \notin closed
    PROVE  AgreementInv'
<1>1. PICK o \in Ends : o = Other(s) /\ Other(o) = s /\ Ends = {s, o} /\ o # s
  BY OthersAre
<1>2. DOMAIN sess = Ends /\ DOMAIN pipe = Ends /\ DOMAIN sess[s] = Fields /\ Shape /\ Greeted
      /\ Early(s) /\ Early(o) /\ StreamInv(o)
  BY <1>1 DEF AgreementInv, Shape
<1>3. PICK ik : ik = (s = "I" /\ cfg[s].expects /\ pins[s] # "None")
  OBVIOUS
<1>4. PICK n : n = [sess[s] EXCEPT !.state = "AwaitingPreamble",
                                   !.pattern = IF ik THEN "IK" ELSE "XX"]
  OBVIOUS
<1>5. PICK u : u = [type |-> "Preamble", major |-> cfg[s].major, ik |-> ik]
  OBVIOUS
<1>6. sess[s].state = "Idle" /\ s \notin closed /\ cfg' = cfg /\ closed' = closed
      /\ sess' = [sess EXCEPT ![s] = n] /\ pipe' = [pipe EXCEPT ![s] = <<u>>]
  BY <1>2, <1>3, <1>4, <1>5 DEF Begin
<1>7. DOMAIN n = Fields /\ SameWords(sess[s], n) /\ SameWire(sess[s], n)
      /\ n.state = "AwaitingPreamble"
  BY <1>2, <1>4 DEF Fields, SameWords, SameWire
<1>8. Minor(sess[s], n)
  BY <1>6, <1>7 DEF Minor, SameWords, Fore
<1>9. Greeted' /\ Keeps
  BY <1>2, <1>6, <1>7, <1>8, MinorKeeps
<1>10. DOMAIN sess' = Ends /\ (\A e \in Ends : DOMAIN sess'[e] = Fields)
       /\ sess'[s] = n /\ sess'[o] = sess[o]
  BY <1>1, <1>2, <1>6, <1>7, BecomesIs
<1>11. DOMAIN pipe' = Ends /\ pipe'[s] = <<u>> /\ pipe'[o] = pipe[o]
  BY <1>1, <1>2, <1>6
<1>12. PICK T : Units(T)
  BY <1>2 DEF Shape, Units
<1>13. PICK S : S = T \cup {u}
  OBVIOUS
<1>14. Units(S)
  BY <1>12, <1>13, SeqGrows DEF Units
<1>15. /\ <<u>> \in Seq(S) /\ Len(<<u>>) = 1 /\ <<>> \o (<<u>> \o <<>>) = <<u>>
       /\ \A G : Heads(<<u>>, 1, G) /\ Len(<<u>>) % 2 = 1
  BY <1>13, FirstUnit
<1>16. Shape'
  <2>1. Units(S)'
    BY <1>1, <1>7, <1>10, <1>11, <1>14, <1>15 DEF Units, SameWire
  <2>2. \A e \in Ends : Len(pipe'[e]) <= Window
    <3>1. Len(<<u>>) <= Window
      BY <1>15, SecureAssumption
    <3>2. Len(pipe'[s]) <= Window
      BY <1>11, <3>1
    <3>3. Len(pipe'[o]) <= Window
      BY <1>2, <1>11 DEF Shape
    <3> QED
      BY <1>1, <3>2, <3>3
  <2> QED
    BY <1>10, <1>11, <2>1, <2>2 DEF Shape, Units
<1>17. Early(s)' /\ Early(o)'
  BY <1>1, <1>2, <1>6, <1>7, <1>10, <1>11 DEF Early, Unmet, SameWire
<1>18. StreamInv(s)'
  <2>1. CASE sess[o].state = "Failed"
    BY <1>1, <1>10, <2>1 DEF StreamInv, Reads
  <2>2. CASE sess[o].state # "Failed"
    <3>1. sess[o].state \in {"Idle", "AwaitingPreamble"} /\ sess[s].tx = <<>>
      BY <1>1, <1>2, <1>6, <2>2 DEF Early, Unmet
    <3>2. sess[o].rx = <<>>
      BY <1>2, <3>1 DEF Early, Unmet
    <3>3. Stream(s)' = <<u>>
      <4>1. Unwritten(s)' = <<>>
        BY <1>6, <1>7, <1>10, <3>1 DEF Unwritten, SameWire
      <4> QED
        BY <1>1, <1>10, <1>11, <1>15, <3>2, <4>1 DEF Stream
    <3>4. Skew(s)' = 1
      BY <1>1, <1>7, <1>10, <3>1 DEF Skew, Unmet
    <3>5. PICK q \in Seq(S) : q = <<u>> /\ \A G : Heads(q, 1, G) /\ Len(q) % 2 = 1
      BY <1>15
    <3>6. PICK G : G = {x \in S : Says(s, x)'}
      OBVIOUS
    <3> QED
      BY <3>3, <3>4, <3>5, <3>6, StreamIs
  <2> QED
    BY <2>1, <2>2
<1>19. StreamInv(o)'
  <2>1. Stream(o)' = Stream(o)
    <3>1. Unwritten(o)' = Unwritten(o)
      BY <1>6, <1>10 DEF Unwritten
    <3> QED
      BY <1>1, <1>7, <1>10, <1>11, <3>1 DEF Stream, SameWire
  <2>2. PICK q \in Seq(S) : q = Stream(o)
    BY <1>14, StreamTyped
  <2>3. PICK k : k = Skew(o)
    OBVIOUS
  <2>4. k = Skew(o)' /\ Reads(Other(o)) /\ Writes(o)' = Writes(o)
    BY <1>1, <1>6, <1>7, <1>10, <2>3 DEF Skew, Unmet, Reads, Writes
  <2>5. PICK G : G = {x \in S : Says(o, x)'}
    OBVIOUS
  <2>6. Heads(q, k, G) /\ (Writes(o) => Len(q) % 2 = k)
    BY <1>2, <1>9, <2>2, <2>3, <2>4, <2>5, StreamWas
  <2>7. q = Stream(o)'
    BY <2>1, <2>2
  <2> QED
    BY <2>4, <2>5, <2>6, <2>7, StreamIs
<1> QED
  BY <1>1, <1>9, <1>16, <1>17, <1>18, <1>19 DEF AgreementInv

\* The owner of s drops it, or s is gone with what it had on the way.
LEMMA CloseKeeps ==
    ASSUME AgreementInv, NEW s \in Ends, s \notin closed, closed' = closed \cup {s},
           UNCHANGED <<cfg, sess>>, pipe' \in {pipe, [pipe EXCEPT ![s] = <<>>]}
    PROVE  AgreementInv'
<1>1. PICK o \in Ends : o = Other(s) /\ Other(o) = s /\ Ends = {s, o} /\ o # s
  BY OthersAre
<1>2. DOMAIN sess = Ends /\ DOMAIN pipe = Ends /\ Shape /\ Greeted
      /\ Early(s) /\ Early(o) /\ StreamInv(s)
  BY <1>1 DEF AgreementInv, Shape
<1>3. DOMAIN pipe' = Ends /\ pipe'[o] = pipe[o] /\ (pipe'[s] = pipe[s] \/ pipe'[s] = <<>>)
  BY <1>1, <1>2
<1>4. Greeted' /\ Keeps
  BY <1>2, StillKeeps
<1>5. PICK S : Units(S)
  BY <1>2 DEF Shape, Units
<1>6. PICK a \in Seq(S), b \in Seq(S), c \in Seq(S) :
         a = sess[o].rx /\ b = pipe[s] /\ c = sess[s].tx
  BY <1>5 DEF Units
<1>7. Shape'
  <2>1. <<>> \in Seq(S) /\ Len(<<>>) <= Window
    BY EmptySeq, SecureAssumption
  <2>2. Units(S)' /\ \A e \in Ends : Len(pipe'[e]) <= Window
    BY <1>1, <1>2, <1>3, <1>5, <2>1 DEF Units, Shape
  <2> QED
    BY <1>2, <1>3, <2>2 DEF Shape, Units
<1>8. Early(s)' /\ Early(o)'
  BY <1>1, <1>2, <1>3 DEF Early, Unmet
<1>9. StreamInv(o)'
  BY <1>1 DEF StreamInv, Reads
<1>10. Stream(s) = Row(a, b, c)
  BY <1>1, <1>6 DEF Stream, Unwritten, Row
<1>11. PICK t : t = Stream(s)'
  OBVIOUS
<1>12. t = a \/ t = Pair(a, b)
  <2>1. Unwritten(s)' = <<>>
    BY DEF Unwritten
  <2>2. t = a \o (pipe'[s] \o <<>>)
    BY <1>1, <1>6, <1>11, <2>1 DEF Stream
  <2>3. b \o <<>> = b /\ <<>> \o <<>> = <<>> /\ a \o <<>> = a
    BY ConcatEmptySeq
  <2> QED
    BY <1>3, <1>6, <2>2, <2>3 DEF Pair
<1>13. PICK q \in Seq(S) : q = Stream(s)
  BY <1>5, StreamTyped
<1>14. \E d \in Seq(S) : t \in Seq(S) /\ q = Pair(t, d)
  <2>1. Pair(a, b) \in Seq(S) /\ Pair(b, c) \in Seq(S)
        /\ Pair(a, Pair(b, c)) = Pair(Pair(a, b), c)
    BY Regroup
  <2>2. q = Pair(a, Pair(b, c))
    BY <1>10, <1>13 DEF Row, Pair
  <2> QED
    BY <1>12, <2>1, <2>2
<1>15. PICK d \in Seq(S) : t \in Seq(S) /\ q = t \o d
  BY <1>14 DEF Pair
<1>16. PICK k : k = Skew(s)
  OBVIOUS
<1>17. k = Skew(s)' /\ Reads(o)' = Reads(o) /\ ~Writes(s)'
  BY <1>1, <1>16 DEF Skew, Unmet, Reads, Writes
<1>18. PICK G : G = {x \in S : Says(s, x)'}
  OBVIOUS
<1>19. Reads(o) => Heads(q, k, G)
  BY <1>1, <1>2, <1>4, <1>13, <1>16, <1>18, StreamWas
<1>20. Reads(o) => Heads(t, k, G)
  BY <1>15, <1>19, HeadsPrefix
<1>21. StreamInv(s)'
  BY <1>1, <1>11, <1>15, <1>17, <1>18, <1>20, StreamIs
<1> QED
  BY <1>1, <1>4, <1>7, <1>8, <1>9, <1>21 DEF AgreementInv

\* The other end's preamble is read.
LEMMA PreambleRead ==
    ASSUME AgreementInv, NEW s \in Ends, ReadPeerPreamble(s), pipe[Other(s)] # <<>>
    PROVE  AgreementInv'
<1>1. PICK o \in Ends : o = Other(s) /\ Other(o) = s /\ Ends = {s, o} /\ o # s
  BY OthersAre
<1>2. DOMAIN sess = Ends /\ DOMAIN pipe = Ends /\ DOMAIN sess[s] = Fields /\ Shape /\ Greeted
      /\ Early(s) /\ Early(o) /\ StreamInv(s) /\ StreamInv(o)
  BY <1>1 DEF AgreementInv, Shape
<1>3. PICK n :
         /\ sess' = [sess EXCEPT ![s] = n]
         /\ \/ \E why : n = Failed(sess[s], why)
            \/ \E p, h : n = [sess[s] EXCEPT !.state = "Handshaking", !.looping = TRUE,
                                             !.pattern = p, !.hash = h]
  <2> DEFINE theirs == Head(pipe[Other(s)])
             mine == [type |-> "Preamble", major |-> cfg[s].major,
                      ik |-> sess[s].pattern = "IK"]
             p == IF s = "I" THEN sess[s].pattern ELSE IF theirs.ik THEN "IK" ELSE "XX"
             h == StartHash(s, mine, theirs, p)
             n == IF theirs.major # cfg[s].major THEN Failed(sess[s], "Version")
                  ELSE IF p = "IK" /\ s = "I" /\ pins[s] = "None"
                  THEN Failed(sess[s], "PinVanished")
                  ELSE [sess[s] EXCEPT !.state = "Handshaking", !.looping = TRUE,
                                       !.pattern = p, !.hash = h]
  <2>1. sess' = [sess EXCEPT ![s] = n]
    BY <1>2 DEF ReadPeerPreamble
  <2> HIDE DEF theirs, p, h
  <2>2. \/ \E why : n = Failed(sess[s], why)
        \/ \E x, y : n = [sess[s] EXCEPT !.state = "Handshaking", !.looping = TRUE,
                                         !.pattern = x, !.hash = y]
    OBVIOUS
  <2> HIDE DEF n
  <2> QED
    BY <2>1, <2>2
<1>4. sess[s].state = "AwaitingPreamble" /\ s \notin closed /\ cfg' = cfg /\ closed' = closed
      /\ pipe' = [pipe EXCEPT ![o] = Tail(pipe[o])] /\ pipe[o] # <<>>
  BY <1>1 DEF ReadPeerPreamble
<1>5. DOMAIN n = Fields /\ SameWire(sess[s], n) /\ n.state \in {"Handshaking", "Failed"}
      /\ n.helloSent = sess[s].helloSent /\ n.greet = sess[s].greet
      /\ n.negotiated = sess[s].negotiated
  <2>1. CASE \E why : n = Failed(sess[s], why)
    BY <1>2, <1>4, <2>1, FailedIs DEF SameWords
  <2>2. CASE \E p, h : n = [sess[s] EXCEPT !.state = "Handshaking", !.looping = TRUE,
                                           !.pattern = p, !.hash = h]
    BY <1>2, <2>2 DEF Fields, SameWire
  <2> QED
    BY <1>3, <2>1, <2>2
<1>6. Minor(sess[s], n)
  BY <1>4, <1>5 DEF Minor, Fore
<1>7. Greeted' /\ Keeps
  BY <1>2, <1>3, <1>4, <1>5, <1>6, MinorKeeps
<1>8. DOMAIN sess' = Ends /\ (\A e \in Ends : DOMAIN sess'[e] = Fields)
      /\ sess'[s] = n /\ sess'[o] = sess[o]
  BY <1>1, <1>2, <1>3, <1>5, BecomesIs
<1>9. DOMAIN pipe' = Ends /\ pipe'[s] = pipe[s] /\ pipe'[o] = Tail(pipe[o])
  BY <1>1, <1>2, <1>4
<1>10. PICK S : Units(S)
  BY <1>2 DEF Shape, Units
<1>11. PICK a \in Seq(S), z \in Seq(S) : a = pipe[o] /\ z = Unwritten(o)
  BY <1>10, StreamTyped DEF Units
<1>12. PICK c \in Seq(S) : c = Tail(a) /\ Len(c) <= Window
  <2>1. Len(a) <= Window /\ a # <<>>
    BY <1>2, <1>4, <1>11 DEF Shape
  <2>2. PICK l \in Nat : l = Len(a)
    BY LenIs
  <2>3. Tail(a) \in Seq(S) /\ Len(Tail(a)) = l - 1
    BY <2>1, <2>2
  <2>4. l - 1 <= Window
    BY <2>1, <2>2, SecureAssumption
  <2> QED
    BY <2>3, <2>4
<1>13. Shape'
  <2>1. Units(S)' /\ \A e \in Ends : Len(pipe'[e]) <= Window
    BY <1>1, <1>2, <1>5, <1>8, <1>9, <1>10, <1>11, <1>12 DEF Units, Shape, SameWire
  <2> QED
    BY <1>8, <1>9, <2>1 DEF Shape, Units
<1>14. sess[o].state # "Idle"
  BY <1>2, <1>4 DEF Early
<1>15. Early(s)' /\ Early(o)'
  BY <1>1, <1>2, <1>5, <1>8, <1>9, <1>14 DEF Early, Unmet
<1>16. StreamInv(s)'
  <2>1. Stream(s)' = Stream(s)
    <3>1. Unwritten(s)' = Unwritten(s)
      BY <1>4, <1>5, <1>8 DEF Unwritten, SameWire
    <3> QED
      BY <1>1, <1>8, <1>9, <3>1 DEF Stream
  <2>2. PICK q \in Seq(S) : q = Stream(s)
    BY <1>10, StreamTyped
  <2>3. PICK k : k = Skew(s)
    OBVIOUS
  <2>4. k = Skew(s)' /\ Reads(Other(s))' = Reads(Other(s)) /\ Writes(s)
    BY <1>1, <1>4, <1>5, <1>8, <2>3 DEF Skew, Unmet, Reads, Writes
  <2>5. PICK G : G = {x \in S : Says(s, x)'}
    OBVIOUS
  <2>6. Reads(Other(s)) => Heads(q, k, G) /\ Len(q) % 2 = k
    BY <1>2, <1>7, <2>2, <2>3, <2>4, <2>5, StreamWas
  <2>7. q = Stream(s)'
    BY <2>1, <2>2
  <2> QED
    BY <2>4, <2>5, <2>6, <2>7, StreamIs
<1>17. StreamInv(o)'
  <2>1. sess[s].rx = <<>> /\ n.rx = <<>>
    BY <1>2, <1>4, <1>5 DEF Early, Unmet, SameWire
  <2>2. Tail(a) \in Seq(S) /\ Tail(a) \o z = Tail(a \o z) /\ a \o z \in Seq(S) /\ a \o z # <<>>
    <3>1. a # <<>>
      BY <1>4, <1>11
    <3>2. Leads(S, a, z)
      BY <3>1, TailOfJoin
    <3> QED
      BY <3>2 DEF Leads
  <2>3. PICK q \in Seq(S) : q = a \o z /\ q # <<>>
    BY <2>2
  <2>4. <<>> \o q = q
    BY ConcatEmptySeq
  <2>5. q = Stream(o)
    BY <1>1, <1>11, <2>1, <2>3, <2>4 DEF Stream
  <2>6. PICK t \in Seq(S) : t = Tail(q) /\ t = c \o z
    BY <1>12, <2>2, <2>3, ConcatProperties
  <2>7. <<>> \o t = t
    BY ConcatEmptySeq
  <2>8. t = Stream(o)'
    <3>1. Unwritten(o)' = z
      BY <1>4, <1>8, <1>11 DEF Unwritten
    <3> QED
      BY <1>1, <1>8, <1>9, <1>11, <1>12, <2>1, <2>6, <2>7, <3>1 DEF Stream
  <2>9. 1 = Skew(o) /\ 0 = Skew(o)' /\ Reads(Other(o)) /\ Writes(o)' = Writes(o)
    BY <1>1, <1>4, <1>5, <1>8, <1>14 DEF Skew, Unmet, Reads, Writes
  <2>10. PICK G : G = {x \in S : Says(o, x)'}
    OBVIOUS
  <2>11. Heads(q, 1, G) /\ (Writes(o) => Len(q) % 2 = 1)
    BY <1>2, <1>7, <2>5, <2>9, <2>10, StreamWas
  <2>12. Heads(t, 0, G) /\ (Writes(o) => Len(t) % 2 = 0)
    BY <2>3, <2>6, <2>11, HeadsTail
  <2> QED
    BY <2>8, <2>9, <2>10, <2>12, StreamIs
<1> QED
  BY <1>1, <1>7, <1>13, <1>15, <1>16, <1>17 DEF AgreementInv

LEMMA IdleKeeps ==
    ASSUME AgreementInv, UNCHANGED <<cfg, sess, pipe, closed>>
    PROVE  AgreementInv'
<1>1. Shape' /\ Greeted'
  BY DEF AgreementInv, Shape, Greeted
<1>2. ASSUME NEW s \in Ends PROVE Early(s)' /\ StreamInv(s)'
  <2>1. Early(s) /\ StreamInv(s)
    BY DEF AgreementInv
  <2>2. Early(s)'
    BY <2>1 DEF Early, Unmet
  <2>3. /\ Reads(Other(s))' = Reads(Other(s)) /\ Writes(s)' = Writes(s)
        /\ Skew(s)' = Skew(s) /\ Stream(s)' = Stream(s)
    BY DEF Reads, Writes, Skew, Unmet, Stream, Unwritten
  <2>4. ASSUME NEW q, NEW k, Framed(q, s, k) PROVE Framed(q, s, k)'
    <3>1. \A u : Says(s, u) => Says(s, u)'
      BY DEF Says
    <3> QED
      BY <2>4, <3>1 DEF Framed
  <2>5. PICK q, k : q = Stream(s) /\ k = Skew(s)
    OBVIOUS
  <2>6. Reads(Other(s)) => Framed(q, s, k)' /\ (Writes(s) => Len(q) % 2 = k)
    BY <2>1, <2>4, <2>5 DEF StreamInv
  <2>7. q = Stream(s)' /\ k = Skew(s)'
    BY <2>3, <2>5
  <2>8. StreamInv(s)'
    BY <2>3, <2>6, <2>7 DEF StreamInv, Framed
  <2> QED
    BY <2>2, <2>8
<1> QED
  BY <1>1, <1>2 DEF AgreementInv

LEMMA StartAgrees == SecureInit => AgreementInv
<1> SUFFICES ASSUME SecureInit PROVE AgreementInv
  OBVIOUS
<1>1. \A s \in Ends : sess[s] = NewSession /\ pipe[s] = <<>>
  BY DEF SecureInit
<1>2. DOMAIN sess = Ends /\ DOMAIN pipe = Ends /\ closed = {}
  BY DEF SecureInit
<1>3. PICK n : n = NewSession
  OBVIOUS
<1>4. /\ DOMAIN n = Fields /\ n.state = "Idle" /\ n.tx = <<>> /\ n.rx = <<>>
      /\ n.helloSent = FALSE /\ n.greet = "No" /\ n.negotiated = NoOffer
  BY <1>3 DEF NewSession, Fields
<1>5. <<>> \in Seq({}) /\ Len(<<>>) = 0 /\ <<>> \o <<>> = <<>>
  BY EmptySeq, ConcatEmptySeq
<1>6. Shape
  <2>1. \A s \in Ends : sess[s].tx \in Seq({}) /\ sess[s].rx \in Seq({}) /\ pipe[s] \in Seq({})
    BY <1>1, <1>3, <1>4, <1>5
  <2>2. \A s \in Ends : DOMAIN sess[s] = Fields
    BY <1>1, <1>3, <1>4
  <2>3. \A s \in Ends : Len(pipe[s]) <= Window
    <3>1. Len(<<>>) <= Window
      BY EmptySeq, SecureAssumption
    <3> QED
      BY <1>1, <3>1
  <2> QED
    BY <1>2, <2>1, <2>2, <2>3 DEF Shape
<1>7. Greeted
  BY <1>1, <1>3, <1>4 DEF Greeted, Ends
<1>8. ASSUME NEW s \in Ends PROVE Early(s) /\ StreamInv(s)
  <2>1. Other(s) \in Ends
    BY OthersAre
  <2>2. Early(s)
    BY <1>1, <1>3, <1>4, <2>1 DEF Early
  <2>3. Stream(s) = <<>>
    BY <1>1, <1>2, <1>3, <1>4, <1>5, <2>1 DEF Stream, Unwritten
  <2>4. Skew(s) = 0
    BY <1>1, <1>3, <1>4 DEF Skew
  <2>5. Framed(<<>>, s, 0)
    BY <1>5 DEF Framed
  <2> QED
    BY <1>1, <1>3, <1>4, <1>5, <2>2, <2>3, <2>4, <2>5 DEF StreamInv, Writes
<1> QED
  BY <1>6, <1>7, <1>8 DEF AgreementInv

LEMMA StepAgrees == AgreementInv /\ [SecureNext]_secureVars => AgreementInv'
<1> SUFFICES ASSUME AgreementInv, [SecureNext]_secureVars PROVE AgreementInv'
  OBVIOUS
<1>1. CASE UNCHANGED secureVars
  BY <1>1, IdleKeeps DEF secureVars
<1>2. ASSUME NEW s \in Ends, Begin(s) PROVE AgreementInv'
  BY <1>2, BeginLost, BeginSent
<1>3. ASSUME NEW s \in Ends, ReadPeerPreamble(s) PROVE AgreementInv'
  <2>1. CASE pipe[Other(s)] = <<>>
    <3>1. s \notin closed /\ closed' = closed \cup {s} /\ UNCHANGED <<cfg, sess>>
          /\ pipe' = pipe
      BY <1>3, <2>1 DEF ReadPeerPreamble
    <3> QED
      BY <3>1, CloseKeeps
  <2>2. CASE pipe[Other(s)] # <<>>
    BY <1>3, <2>2, PreambleRead
  <2> QED
    BY <2>1, <2>2
<1>4. ASSUME NEW s \in Ends, Pump(s) PROVE AgreementInv'
  BY <1>3, <1>4, PumpBeginsKeeps, SendMessageKeeps, ReadMessageKeeps, FinishKeeps,
     SayHelloKeeps, HearHelloKeeps, AnswerHelloKeeps, AnswerDrainedKeeps DEF Pump
<1>5. ASSUME NEW s \in Ends, Pin(s) \/ Unpin(s) PROVE AgreementInv'
  BY <1>5, IdleKeeps DEF Pin, Unpin
<1>6. ASSUME NEW s \in Ends, DropSession(s) PROVE AgreementInv'
  <2>1. s \notin closed /\ closed' = closed \cup {s} /\ UNCHANGED <<cfg, sess>>
        /\ pipe' = pipe
    BY <1>6 DEF DropSession
  <2> QED
    BY <2>1, CloseKeeps
<1>7. ASSUME NEW s \in Ends, GoesAway(s) PROVE AgreementInv'
  <2>1. s \notin closed /\ closed' = closed \cup {s} /\ UNCHANGED <<cfg, sess>>
        /\ pipe' \in {pipe, [pipe EXCEPT ![s] = <<>>]}
    BY <1>7 DEF GoesAway
  <2> QED
    BY <2>1, CloseKeeps
<1> QED
  BY <1>1, <1>2, <1>4, <1>5, <1>6, <1>7, SendDataKeeps, FlushDataKeeps, ReceiveDataKeeps
  DEF SecureNext

\* What the invariant is for.
LEMMA AgreementIs == AgreementInv => AgreedBeforeUse
<1> SUFFICES ASSUME AgreementInv PROVE AgreedBeforeUse
  OBVIOUS
<1>1. PICK agreed : agreed = Agreed(cfg["R"].offer, cfg["I"].offer)
  OBVIOUS
<1>2. Greeted
  BY DEF AgreementInv
<1>3. sess["R"].greet = "Sent" =>
         sess["R"].negotiated = agreed /\ sess["R"].hash = sess["I"].hash
  BY <1>1, <1>2 DEF Greeted
<1>4. \A s \in Ends : sess[s].state = "Established" =>
         /\ sess[s].negotiated = agreed /\ sess[s].maxRecord = agreed.rec
         /\ sess["R"].greet = "Sent"
  BY <1>1, <1>2 DEF Greeted
<1>5. sess["I"].negotiated \in {agreed, NoOffer}
  BY <1>1, <1>2 DEF Greeted
<1> QED
  BY <1>1, <1>3, <1>4, <1>5 DEF AgreedBeforeUse, Ends, Other

\* SecureSession::established: whoever may use a session uses limits and a channel binding
\* that both ends hold, for every window, offer and interleaving of the two pumps, and
\* although greetings travel cut into pieces.
THEOREM SecureAgreed == SecureSpec => []AgreedBeforeUse
<1>1. SecureInit => AgreementInv
  BY StartAgrees
<1>2. AgreementInv /\ [SecureNext]_secureVars => AgreementInv'
  BY StepAgrees
<1>3. AgreementInv => AgreedBeforeUse
  BY AgreementIs
<1> QED
  BY <1>1, <1>2, <1>3, PTL DEF SecureSpec

-------------------------------------------------------------------------------
(* Why a session fails.  The records of an end are numbered from its first handshake      *)
(* message on, and the number of a record tells what is in it.                            *)

\* How many of the first i handshake messages are from s.
Turned(s, i) == IF s = "I" THEN (i + 1) \div 2 ELSE i \div 2

\* The records that the session m of s has sealed, and those it has opened.
Snd(s, m) == Turned(s, m.msgIndex) + m.sealed
Rcv(s, m) == Turned(Other(s), m.msgIndex) + m.opened

Met(m) == m.hash # <<>>

\* The preamble of s.
Pre(s) == [type |-> "Preamble", major |-> cfg[s].major,
           ik |-> (s = "I" /\ sess["I"].pattern = "IK")]

\* The responder's key as the initiator mixed it in, and as each end has it.
Key == IF Met(sess["I"]) /\ sess["I"].pattern = "IK" /\ sess["I"].hash[3] = "Replaced"
       THEN "Replaced" ELSE "Current"
KeyOf(s) == IF s = "I" THEN Key ELSE "Current"

\* The hash at the handshake's start, and after n messages.
Marks(key) == IF sess["I"].pattern = "IK" THEN <<Pre("I"), Pre("R"), key>>
              ELSE <<Pre("I"), Pre("R")>>
Chain(base, n) ==
    CASE n = 0 -> base
      [] n = 1 -> Append(base, 0)
      [] n = 2 -> Append(Append(base, 0), 1)
      [] OTHER -> Append(Append(Append(base, 0), 1), 2)

\* What decides what the records of s are.
Plan(s) == [base |-> Marks(KeyOf(s)), legs |-> Turned(s, MessageCount(sess["I"].pattern)),
            best |-> Agreed(cfg["R"].offer, cfg["I"].offer).rec]

\* A handshake message, a greeting or a record of the layer above, by its number.
IsMessage(p, s, u, n) ==
    /\ u.cipher = FALSE /\ u.body.type = "Handshake" /\ u.body.len = Floor
    /\ u.body.hash = Chain(p.base, IF s = "I" THEN 2 * n ELSE 1)
IsGreeting(s, u) ==
    u.body.type = (IF s = "I" THEN "Hello" ELSE "HelloOk") /\ u.body.len = Floor
IsData(p, u) == u.body.type = "Data" /\ u.body.len \in 0..p.best
InStep(u, i) == u.cipher = TRUE /\ u.nonce = i /\ u.generation = i \div RekeyInterval

Fits(p, s, u, n) ==
    IF n < p.legs THEN IsMessage(p, s, u, n)
    ELSE /\ InStep(u, n - p.legs)
         /\ IF n = p.legs THEN IsGreeting(s, u) ELSE IsData(p, u)

\* The stream q of s holds, after k units, its records from number c on and below d.
Flow(p, s, q, k, c, d) ==
    /\ Len(q) <= k + 2 * (d - c)
    /\ \A i \in 1..Len(q), j \in Nat : i = 2 * j + 1 + k => Fits(p, s, q[i], c + j)

Full(q, k, c, d) == Len(q) = k + 2 * (d - c)

Opening(q, k, u) == k = 1 /\ q # <<>> => q[1] = u

FlowInv(s) ==
    Reads(Other(s)) =>
        LET c == Rcv(Other(s), sess[Other(s)])
            d == Snd(s, sess[s])
        IN  /\ Flow(Plan(s), s, Stream(s), Skew(s), c, d)
            /\ Writes(s) => Full(Stream(s), Skew(s), c, d)
            /\ Opening(Stream(s), Skew(s), Pre(s))

\* How far the session m of s can be in each of its states.
Counted(m) ==
    /\ m.pattern \in {"XX", "IK"} /\ m.msgIndex \in 0..MessageCount(m.pattern)
    /\ m.sealed \in Nat /\ m.opened \in Nat /\ m.cipher \in BOOLEAN
    /\ m.cipher => m.msgIndex = MessageCount(m.pattern)
    /\ ~m.cipher => m.sealed = 0 /\ m.opened = 0
    /\ m.msgIndex > 0 => Met(m)

Staged(m) ==
    /\ m.state \in {"Idle", "AwaitingPreamble"} => m.msgIndex = 0 /\ ~m.cipher /\ ~Met(m)
    /\ m.state = "Handshaking" => ~m.cipher /\ Met(m)
    /\ m.state \in {"Greeting", "Established"} => m.cipher /\ Met(m)
    /\ m.state = "Greeting" => m.maxRecord = HandshakeMax
    /\ m.state = "Established" => Legal(m.maxRecord) /\ m.sealed > 0 /\ m.opened > 0

Heard(s, m) ==
    /\ s = "I" => /\ m.msgIndex >= 2 => m.peer
                  /\ m.helloSent <=> m.sealed > 0
                  /\ m.state = "Greeting" => m.opened = 0
    /\ s = "R" => /\ m.msgIndex = 3 \/ (m.pattern = "IK" /\ m.msgIndex > 0) => m.peer
                  /\ m.greet = "Sent" <=> m.sealed > 0
                  /\ m.greet = "No" /\ m.state = "Greeting" => m.opened = 0
                  /\ m.greet # "No" => m.opened > 0
                  /\ ~Met(m) => m.pattern = "XX"

Local(s, m) == Counted(m) /\ Staged(m) /\ Heard(s, m)

Hashes ==
    /\ Met(sess["I"]) => sess["I"].hash = Chain(Marks(Key), sess["I"].msgIndex)
    /\ Met(sess["R"]) => /\ sess["I"].state # "Idle"
                         /\ sess["R"].pattern = sess["I"].pattern
                         /\ sess["R"].hash = Chain(Marks("Current"), sess["R"].msgIndex)
    /\ ~Met(sess["I"]) \/ Key = "Replaced" => sess["R"].msgIndex = 0

Grounds ==
    /\ \A s \in Ends : cfg[s].offer.rec \in Nat
    /\ pins \in [Ends -> Pins] /\ changes \in Nat
    /\ sess["I"].pattern = "IK" => pins["I"] # "None" \/ changes > 0

\* What FailedForCause says of s.
Cause(s) ==
    \/ sess[s].why = "None"
    \/ sess[s].why = "Lost" /\ Other(s) \in closed
    \/ sess[s].why = "Version" /\ cfg["I"].major # cfg["R"].major
    \/ sess[s].why = "AuthFailed" /\ Key = "Replaced"
    \/ sess[s].why = "PinVanished" /\ changes > 0
    \/ sess[s].why = "Size" /\ \E e \in Ends : ~Legal(cfg[e].offer.rec)

CauseInv ==
    Grounds /\ Hashes /\ \A s \in Ends : Local(s, sess[s]) /\ FlowInv(s) /\ Cause(s)

-------------------------------------------------------------------------------
(* Numbered streams *)

\* t is q, of length m, with u and one unit more.
Longer(q, m, u, t) == Len(t) = m + 2 /\ t[m + 1] = u /\ \A i \in 1..m : t[i] = q[i]

LEMMA TwoMore ==
    ASSUME NEW S, NEW q \in Seq(S), NEW u \in S, NEW v \in S, NEW w, w = <<u, v>>
    PROVE  Longer(q, Len(q), u, Pair(q, w))
<1> DEFINE t == Pair(q, w)
           m == Len(q)
<1>1. Len(t) = m + 2 /\ t[m + 1] = u /\ t[m + 2] = v /\ \A i \in 1..m : t[i] = q[i]
  BY DEF Pair
<1> QED
  BY <1>1 DEF Longer

LEMMA FlowLonger ==
    ASSUME NEW S, NEW q \in Seq(S), NEW p, NEW s, NEW k \in {0, 1}, NEW c \in Nat, NEW d \in Nat,
           Flow(p, s, q, k, c, d), Full(q, k, c, d), NEW u \in S, NEW v \in S, Fits(p, s, u, d)
    PROVE  /\ Flow(p, s, Pair(q, <<u, v>>), k, c, d + 1)
           /\ Full(Pair(q, <<u, v>>), k, c, d + 1)
<1>1. PICK m \in Nat : m = Len(q) /\ m = k + 2 * (d - c)
  BY DEF Full
<1>2. PICK w : w = <<u, v>>
  OBVIOUS
<1>3. PICK t : t = Pair(q, w) /\ Len(t) = m + 2 /\ t[m + 1] = u /\ \A i \in 1..m : t[i] = q[i]
  <2>1. Longer(q, m, u, Pair(q, w))
    BY <1>1, <1>2, TwoMore
  <2> QED
    BY <2>1 DEF Longer
<1>4. \A i \in 1..m, j \in Nat : i = 2 * j + 1 + k => Fits(p, s, q[i], c + j)
  BY <1>1 DEF Flow
<1>5. ASSUME NEW i \in 1..m + 2, NEW j \in Nat, i = 2 * j + 1 + k PROVE Fits(p, s, t[i], c + j)
  <2>1. i \in 1..m \/ (i = m + 1 /\ c + j = d)
    BY <1>1, <1>5
  <2>2. CASE i \in 1..m
    BY <2>2, <1>3, <1>4, <1>5
  <2> QED
    BY <2>1, <2>2, <1>3
<1>6. m + 2 = k + 2 * ((d + 1) - c)
  BY <1>1
<1>7. Len(t) <= k + 2 * ((d + 1) - c)
  BY <1>3, <1>6
<1> QED
  BY <1>2, <1>3, <1>5, <1>6, <1>7 DEF Flow, Full

\* Something is on its way to the reader, and it is the next record.
LEMMA FlowFirst ==
    ASSUME NEW S, NEW b \in Seq(S), NEW z \in Seq(S), NEW p, NEW s, NEW c \in Nat, NEW d,
           Flow(p, s, Pair(b, z), 0, c, d), b # <<>>
    PROVE  Fits(p, s, b[1], c)
<1>1. PICK q : q = b \o z
  OBVIOUS
<1>2. Len(q) \in Nat /\ Len(q) >= 1 /\ q[1] = b[1]
  BY <1>1
<1>3. \A i \in 1..Len(q), j \in Nat : i = 2 * j + 1 + 0 => Fits(p, s, q[i], c + j)
  BY <1>1 DEF Flow, Pair
<1>4. 1 \in 1..Len(q) /\ 1 = 2 * 0 + 1 + 0 /\ c + 0 = c /\ 0 \in Nat
  BY <1>2
<1>5. Fits(p, s, q[1], c + 0)
  BY <1>3, <1>4
<1> QED
  BY <1>2, <1>4, <1>5

LEMMA FlowShorter ==
    ASSUME NEW S, NEW b \in Seq(S), NEW z \in Seq(S), NEW p, NEW s, NEW c \in Nat, NEW d \in Nat,
           Flow(p, s, Pair(b, z), 0, c, d), Len(b) > 1
    PROVE  /\ Flow(p, s, Pair(SubSeq(b, 3, Len(b)), z), 0, c + 1, d)
           /\ Full(Pair(b, z), 0, c, d) => Full(Pair(SubSeq(b, 3, Len(b)), z), 0, c + 1, d)
<1>1. PICK e : e = SubSeq(b, 3, Len(b))
  OBVIOUS
<1>2. Clips(S, b, z, e)
  BY <1>1, ClipIs
<1>3. PICK q, t : q = b \o z /\ t = e \o z
  OBVIOUS
<1>4. /\ t \in Seq(S) /\ Len(q) = Len(t) + 2
      /\ \A i \in 1..Len(t) : t[i] = q[i + 2]
  BY <1>2, <1>3, Zenon DEF Clips
<1>5. PICK l \in Nat : l = Len(t) /\ Len(q) = l + 2
  BY <1>4, LenIs
<1>6. /\ l + 2 <= 0 + 2 * (d - c)
      /\ \A i \in 1..l + 2, j \in Nat : i = 2 * j + 1 + 0 => Fits(p, s, q[i], c + j)
  BY <1>3, <1>5 DEF Flow, Pair
<1>7. ASSUME NEW i \in 1..l, NEW j \in Nat, i = 2 * j + 1 + 0 PROVE Fits(p, s, t[i], (c + 1) + j)
  <2>1. i + 2 \in 1..l + 2 /\ j + 1 \in Nat /\ i + 2 = 2 * (j + 1) + 1 + 0
        /\ c + (j + 1) = (c + 1) + j
    BY <1>7
  <2>2. Fits(p, s, q[i + 2], c + (j + 1))
    BY <1>6, <2>1
  <2> QED
    BY <1>4, <1>5, <2>1, <2>2
<1>8. l <= 0 + 2 * (d - (c + 1)) /\ (l + 2 = 0 + 2 * (d - c) => l = 0 + 2 * (d - (c + 1)))
  BY <1>6
<1>9. Flow(p, s, t, 0, c + 1, d) /\ (Full(q, 0, c, d) => Full(t, 0, c + 1, d))
  BY <1>5, <1>7, <1>8 DEF Flow, Full
<1> QED
  BY <1>1, <1>3, <1>9, Zenon DEF Pair

LEMMA FlowPrefix ==
    ASSUME NEW S, NEW a \in Seq(S), NEW b \in Seq(S), NEW p, NEW s, NEW k, NEW c, NEW d,
           Flow(p, s, Pair(a, b), k, c, d), NEW u, Opening(Pair(a, b), k, u),
           k + 2 * (d - c) \in Int
    PROVE  Flow(p, s, a, k, c, d) /\ Opening(a, k, u)
<1>1. PICK m \in Nat, n \in Nat : m = Len(a) /\ n = Len(b)
  OBVIOUS
<1>2. PICK q : q = a \o b
  OBVIOUS
<1>3. Len(q) = m + n /\ \A i \in 1..m : q[i] = a[i] /\ i \in 1..m + n
  BY <1>1, <1>2
<1>4. \A i \in 1..m + n, j \in Nat : i = 2 * j + 1 + k => Fits(p, s, q[i], c + j)
  BY <1>2, <1>3 DEF Flow, Pair
<1>5. m <= k + 2 * (d - c)
  <2>1. m + n <= k + 2 * (d - c)
    BY <1>2, <1>3 DEF Flow, Pair
  <2>2. PICK x \in Int : x = k + 2 * (d - c)
    OBVIOUS
  <2> QED
    BY <2>1, <2>2
<1>6. \A i \in 1..m, j \in Nat : i = 2 * j + 1 + k => Fits(p, s, a[i], c + j)
  BY <1>3, <1>4
<1>7. Opening(a, k, u)
  <2>1. a # <<>> => 1 \in 1..m /\ m + n # 0
    BY <1>1
  <2>2. q = <<>> => m + n = 0
    BY <1>3
  <2> QED
    BY <1>2, <1>3, <2>1, <2>2 DEF Opening, Pair
<1> QED
  BY <1>1, <1>5, <1>6, <1>7 DEF Flow

LEMMA FlowTail ==
    ASSUME NEW S, NEW q \in Seq(S), q # <<>>, NEW p, NEW s, NEW c \in Nat, NEW d \in Nat,
           Flow(p, s, q, 1, c, d)
    PROVE  Flow(p, s, Tail(q), 0, c, d) /\ (Full(q, 1, c, d) => Full(Tail(q), 0, c, d))
<1>1. PICK m \in Nat : m + 1 = Len(q)
  <2>1. Len(q) \in Nat /\ Len(q) # 0
    OBVIOUS
  <2> QED
    BY <2>1
<1>2. PICK t : t = Tail(q) /\ Len(t) = m /\ \A i \in 1..m : t[i] = q[i + 1]
  <2>1. Len(Tail(q)) = m /\ \A i \in 1..m : Tail(q)[i] = q[i + 1]
    BY <1>1
  <2> QED
    BY <2>1, Zenon
<1>3. /\ m + 1 <= 1 + 2 * (d - c)
      /\ \A i \in 1..m + 1, j \in Nat : i = 2 * j + 1 + 1 => Fits(p, s, q[i], c + j)
  BY <1>1 DEF Flow
<1>4. ASSUME NEW i \in 1..m, NEW j \in Nat, i = 2 * j + 1 + 0 PROVE Fits(p, s, t[i], c + j)
  <2>1. i + 1 \in 1..m + 1 /\ i + 1 = 2 * j + 1 + 1
    BY <1>4
  <2> QED
    BY <1>2, <1>3, <2>1
<1>5. m <= 0 + 2 * (d - c) /\ (m + 1 = 1 + 2 * (d - c) => m = 0 + 2 * (d - c))
  BY <1>3
<1> QED
  BY <1>1, <1>2, <1>4, <1>5 DEF Flow, Full

\* No record at all.
LEMMA FlowEmpty ==
    ASSUME NEW S, NEW q \in Seq(S), NEW p, NEW s, NEW k \in {0, 1}, NEW c \in Nat, Len(q) <= k
    PROVE  Flow(p, s, q, k, c, c)
<1>1. PICK m \in Nat : m = Len(q)
  OBVIOUS
<1>2. m <= k + 2 * (c - c)
  BY <1>1
<1>3. \A i \in 1..m, j \in Nat : i # 2 * j + 1 + k
  BY <1>1
<1> QED
  BY <1>1, <1>2, <1>3 DEF Flow

-------------------------------------------------------------------------------
(* The handshake's hash *)

Some(h) == \E S : h \in Seq(S) /\ Len(h) > 0
Third(h, key) == \E S : h \in Seq(S) /\ Len(h) > 2 /\ h[3] = key

LEMMA SomeMore ==
    ASSUME NEW h, NEW x
    PROVE  /\ Some(h) => Some(Append(h, x)) /\ h # <<>>
           /\ \A key : Third(h, key) => Third(Append(h, x), key) /\ h[3] = key
<1>1. ASSUME Some(h) PROVE Some(Append(h, x)) /\ h # <<>>
  <2>1. PICK S : h \in Seq(S) /\ Len(h) > 0
    BY <1>1 DEF Some
  <2>2. h \in Seq(S \cup {x}) /\ h # <<>>
    BY <2>1, SeqOfMore
  <2>3. Append(h, x) \in Seq(S \cup {x}) /\ Len(Append(h, x)) > 0
    BY <2>2
  <2> QED
    BY <2>2, <2>3 DEF Some
<1>2. ASSUME NEW key, Third(h, key) PROVE Third(Append(h, x), key) /\ h[3] = key
  <2>1. PICK S : h \in Seq(S) /\ Len(h) > 2 /\ h[3] = key
    BY <1>2 DEF Third
  <2>2. h \in Seq(S \cup {x})
    BY <2>1, SeqOfMore
  <2>3. Append(h, x) \in Seq(S \cup {x}) /\ Len(Append(h, x)) > 2 /\ Append(h, x)[3] = key
    BY <2>1, <2>2
  <2> QED
    BY <2>1, <2>3 DEF Third
<1> QED
  BY <1>1, <1>2

LEMMA ChainIs ==
    ASSUME NEW base, NEW n \in 0..3, Some(base)
    PROVE  /\ Chain(base, n) # <<>>
           /\ \A key : Third(base, key) => Chain(base, n)[3] = key
           /\ n < 3 => Append(Chain(base, n), n) = Chain(base, n + 1)
<1>1. PICK a, b, c : a = Append(base, 0) /\ b = Append(a, 1) /\ c = Append(b, 2)
  OBVIOUS
<1>2. Chain(base, 0) = base /\ Chain(base, 1) = a /\ Chain(base, 2) = b /\ Chain(base, 3) = c
  BY <1>1 DEF Chain
<1>3. Some(a) /\ Some(b) /\ Some(c)
  BY <1>1, SomeMore
<1>4. \A key : Third(base, key) => Third(a, key) /\ Third(b, key) /\ Third(c, key)
  BY <1>1, SomeMore
<1>5. \A h : (Some(h) => h # <<>>) /\ \A key : Third(h, key) => h[3] = key
  BY SomeMore
<1>6. n = 0 \/ n = 1 \/ n = 2 \/ n = 3
  OBVIOUS
<1>7. Some(Chain(base, n)) /\ \A key : Third(base, key) => Third(Chain(base, n), key)
  BY <1>2, <1>3, <1>4, <1>6
<1>8. n < 3 => Append(Chain(base, n), n) = Chain(base, n + 1)
  <2>1. 0 + 1 = 1 /\ 1 + 1 = 2 /\ 2 + 1 = 3 /\ ~(3 < 3)
    OBVIOUS
  <2> QED
    BY <1>1, <1>2, <1>6, <2>1
<1> QED
  BY <1>5, <1>7, <1>8

LEMMA MarksAre ==
    ASSUME NEW key
    PROVE  Some(Marks(key)) /\ (sess["I"].pattern = "IK" => Third(Marks(key), key))
<1>1. PICK a, b : a = Pre("I") /\ b = Pre("R")
  OBVIOUS
<1>2. CASE sess["I"].pattern = "IK"
  <2>1. Marks(key) = <<a, b, key>>
    BY <1>1, <1>2 DEF Marks
  <2>2. <<a, b, key>> \in Seq({a, b, key}) /\ Len(<<a, b, key>>) = 3 /\ <<a, b, key>>[3] = key
    OBVIOUS
  <2>3. 3 > 2 /\ 3 > 0
    OBVIOUS
  <2>4. PICK h : h = <<a, b, key>>
    OBVIOUS
  <2>5. Some(h) /\ Third(h, key)
    BY <2>2, <2>3, <2>4 DEF Some, Third
  <2> QED
    BY <2>1, <2>4, <2>5
<1>3. CASE sess["I"].pattern # "IK"
  <2>1. Marks(key) = <<a, b>>
    BY <1>1, <1>3 DEF Marks
  <2>2. <<a, b>> \in Seq({a, b}) /\ Len(<<a, b>>) > 0
    OBVIOUS
  <2> QED
    BY <1>3, <2>1, <2>2 DEF Some
<1> QED
  BY <1>2, <1>3

\* The hash of the initiator tells the key.
LEMMA KeyIs ==
    ASSUME NEW n \in 0..3, NEW key \in {"Current", "Replaced"}, NEW h,
           h = Chain(Marks(key), n)
    PROVE  h # <<>> /\ (sess["I"].pattern = "IK" => h[3] = key)
<1>1. PICK base : base = Marks(key)
  OBVIOUS
<1>2. Some(base) /\ (sess["I"].pattern = "IK" => Third(base, key))
  BY <1>1, MarksAre
<1> QED
  BY <1>1, <1>2, ChainIs

LEMMA PlanSame ==
    ASSUME cfg' = cfg, sess'["I"].pattern = sess["I"].pattern
    PROVE  /\ \A e : Pre(e)' = Pre(e)
           /\ \A key : Marks(key)' = Marks(key)
           /\ \A e : KeyOf(e)' = KeyOf(e) => Plan(e)' = Plan(e)
<1>1. \A e : Pre(e)' = Pre(e)
  BY DEF Pre
<1>2. \A key : Marks(key)' = Marks(key)
  BY <1>1 DEF Marks
<1> QED
  BY <1>1, <1>2 DEF Plan

\* A step of the session of s alone, which has met the other end, to n.
Moves(s, n) ==
    /\ AgreementInv /\ CauseInv /\ s \in Ends /\ s \notin closed
    /\ UNCHANGED <<cfg, pins, changes, closed>>
    /\ sess[s].state \in Live /\ n.state \in Live \cup {"Failed"}
    /\ DOMAIN n = Fields /\ sess' = [sess EXCEPT ![s] = n]

\* The handshake is where it was, or one message further.
Steady(m, n) == n.pattern = m.pattern /\ n.msgIndex = m.msgIndex /\ n.hash = m.hash

Advanced(m, n) ==
    /\ n.pattern = m.pattern /\ n.msgIndex = m.msgIndex + 1
    /\ n.hash = Append(m.hash, m.msgIndex)

\* The plans of both ends stand.
Planned ==
    Key' = Key /\ \A e \in Ends : Plan(e)' = Plan(e) /\ Pre(e)' = Pre(e)

LEMMA KeyPlans ==
    ASSUME cfg' = cfg, sess'["I"].pattern = sess["I"].pattern, Key' = Key
    PROVE  Planned
<1>1. \A e : KeyOf(e)' = KeyOf(e)
  BY DEF KeyOf
<1> QED
  BY <1>1, PlanSame DEF Planned

LEMMA MovesIs ==
    ASSUME NEW s, NEW n, Moves(s, n)
    PROVE  /\ sess'[s] = n /\ sess'[Other(s)] = sess[Other(s)]
           /\ s \in Ends /\ Local(s, sess[s]) /\ Hashes /\ Grounds /\ cfg' = cfg
  BY BecomesIs DEF Moves, AgreementInv, CauseInv

LEMMA SteadyHashes ==
    ASSUME Hashes, NEW s \in Ends, NEW n, sess'[s] = n, sess'[Other(s)] = sess[Other(s)],
           cfg' = cfg, n.state # "Idle", Steady(sess[s], n)
    PROVE  Hashes' /\ Key' = Key /\ sess'["I"].pattern = sess["I"].pattern
<1>1. \A e \in Ends : Steady(sess[e], sess'[e])
  BY OthersAre DEF Steady
<1>2. Steady(sess["I"], sess'["I"]) /\ Steady(sess["R"], sess'["R"])
  BY <1>1 DEF Ends
<1>3. Key' = Key
  BY <1>2 DEF Key, Met, Steady
<1>4. sess["I"].state # "Idle" => sess'["I"].state # "Idle"
  BY DEF Ends, Other
<1>5. Marks(Key)' = Marks(Key) /\ Marks("Current")' = Marks("Current")
  <2>1. Pre("I")' = Pre("I") /\ Pre("R")' = Pre("R")
    BY <1>2, PlanSame DEF Steady
  <2> QED
    BY <1>2, <1>3, <2>1 DEF Marks, Steady
<1>6. Hashes'
  BY <1>2, <1>3, <1>4, <1>5 DEF Hashes, Met, Steady
<1> QED
  BY <1>2, <1>3, <1>6 DEF Steady

LEMMA HashesSame ==
    ASSUME NEW s, NEW n, Moves(s, n), Steady(sess[s], n)
    PROVE  Hashes' /\ Planned
<1>1. /\ sess'[s] = n /\ sess'[Other(s)] = sess[Other(s)]
      /\ s \in Ends /\ Local(s, sess[s]) /\ Hashes /\ Grounds /\ cfg' = cfg
  BY MovesIs
<1>2. n.state # "Idle"
  BY DEF Moves, Live
<1>3. Hashes' /\ Key' = Key /\ sess'["I"].pattern = sess["I"].pattern
  BY <1>1, <1>2, SteadyHashes
<1> QED
  BY <1>1, <1>3, KeyPlans

LEMMA HashesOnward ==
    ASSUME NEW s, NEW n, Moves(s, n), Advanced(sess[s], n), Met(sess[s]),
           sess[s].msgIndex \in 0..2, s = "R" => Met(sess["I"]) /\ Key = "Current"
    PROVE  Hashes' /\ Planned /\ Met(n)
<1>1. /\ sess'[s] = n /\ sess'[Other(s)] = sess[Other(s)]
      /\ s \in Ends /\ Local(s, sess[s]) /\ Hashes /\ Grounds /\ cfg' = cfg
  BY MovesIs
<1>2. PICK i \in 0..2 : i = sess[s].msgIndex
  OBVIOUS
<1>3. i + 1 \in 0..3 /\ i \in 0..3 /\ i < 3
  OBVIOUS
<1>4. n.pattern = sess[s].pattern /\ n.msgIndex = i + 1 /\ n.hash = Append(sess[s].hash, i)
  BY <1>2 DEF Advanced
<1>5. Key \in {"Current", "Replaced"}
  BY DEF Key
<1>6. \A key : Append(Chain(Marks(key), i), i) = Chain(Marks(key), i + 1)
  <2>1. \A key : Some(Marks(key))
    BY MarksAre
  <2> QED
    BY <1>3, <2>1, ChainIs
<1>7. CASE s = "I"
  <2>1. sess'["I"] = n /\ sess'["R"] = sess["R"]
    BY <1>1, <1>7 DEF Other
  <2>2. n.hash = Chain(Marks(Key), i + 1)
    BY <1>1, <1>2, <1>4, <1>6, <1>7 DEF Hashes
  <2>3. Met(n) /\ (sess["I"].pattern = "IK" => n.hash[3] = Key)
    BY <1>3, <1>5, <2>2, KeyIs DEF Met
  <2>4. sess["I"].pattern = "IK" => sess["I"].hash[3] = Key
    BY <1>1, <1>2, <1>3, <1>5, <1>7, KeyIs DEF Hashes
  <2>5. n.pattern = sess["I"].pattern
    BY <1>4, <1>7
  <2>6. Key' = Key
    BY <1>5, <1>7, <2>1, <2>3, <2>4, <2>5 DEF Key
  <2>7. Planned
    BY <1>1, <2>1, <2>5, <2>6, KeyPlans
  <2>8. Marks(Key)' = Marks(Key) /\ Marks("Current")' = Marks("Current")
    <3>1. Pre("I")' = Pre("I") /\ Pre("R")' = Pre("R")
      BY <1>1, <2>1, <2>5, PlanSame
    <3> QED
      BY <2>1, <2>5, <2>6, <3>1 DEF Marks
  <2>9. n.state # "Idle"
    BY DEF Moves, Live
  <2>10. Hashes'
    BY <1>1, <1>4, <2>1, <2>2, <2>3, <2>5, <2>6, <2>8, <2>9 DEF Hashes
  <2> QED
    BY <2>3, <2>7, <2>10
<1>8. CASE s = "R"
  <2>1. sess'["R"] = n /\ sess'["I"] = sess["I"]
    BY <1>1, <1>8 DEF Other
  <2>2. n.hash = Chain(Marks("Current"), i + 1)
    BY <1>1, <1>2, <1>4, <1>6, <1>8 DEF Hashes
  <2>3. Met(n)
    BY <1>3, <2>2, KeyIs DEF Met
  <2>4. Key' = Key
    BY <2>1 DEF Key, Met
  <2>5. Planned
    BY <1>1, <2>1, <2>4, KeyPlans
  <2>6. Marks(Key)' = Marks(Key) /\ Marks("Current")' = Marks("Current")
    <3>1. Pre("I")' = Pre("I") /\ Pre("R")' = Pre("R")
      BY <1>1, <2>1, PlanSame
    <3> QED
      BY <2>1, <2>4, <3>1 DEF Marks
  <2>7. Key' = "Current"
    BY <1>8, <2>4
  <2>8. Hashes'
    BY <1>1, <1>4, <1>8, <2>1, <2>2, <2>4, <2>6, <2>7 DEF Hashes, Met
  <2> QED
    BY <2>3, <2>5, <2>8
<1> QED
  BY <1>1, <1>7, <1>8 DEF Ends

-------------------------------------------------------------------------------
(* The numbered streams, step by step *)

LEMMA TurnsAre ==
    /\ Turned("I", 0) = 0 /\ Turned("I", 1) = 1 /\ Turned("I", 2) = 1 /\ Turned("I", 3) = 2
    /\ Turned("R", 0) = 0 /\ Turned("R", 1) = 0 /\ Turned("R", 2) = 1 /\ Turned("R", 3) = 1
<1>1. /\ (0 + 1) \div 2 = 0 /\ (1 + 1) \div 2 = 1 /\ (2 + 1) \div 2 = 1 /\ (3 + 1) \div 2 = 2
      /\ 0 \div 2 = 0 /\ 1 \div 2 = 0 /\ 2 \div 2 = 1 /\ 3 \div 2 = 1
  OBVIOUS
<1> QED
  BY <1>1 DEF Turned

LEMMA CountsAre ==
    ASSUME NEW s \in Ends, NEW m, Counted(m)
    PROVE  Snd(s, m) \in Nat /\ Rcv(s, m) \in Nat
<1>1. m.msgIndex \in {0, 1, 2, 3} /\ m.sealed \in Nat /\ m.opened \in Nat
  BY DEF Counted, MessageCount
<1>2. Turned(s, m.msgIndex) \in Nat /\ Turned(Other(s), m.msgIndex) \in Nat
  BY <1>1, TurnsAre DEF Ends, Other
<1> QED
  BY <1>1, <1>2 DEF Snd, Rcv

\* A step after which the stream of s is q, from number c on and below d.
LEMMA FlowIs ==
    ASSUME NEW s \in Ends, NEW p, p = Plan(s)', NEW q, q = Stream(s)', NEW k, k = Skew(s)',
           NEW c, c = Rcv(Other(s), sess'[Other(s)]), NEW d, d = Snd(s, sess'[s]),
           NEW h, h = Pre(s)',
           Reads(Other(s))' => /\ Flow(p, s, q, k, c, d) /\ Opening(q, k, h)
                               /\ Writes(s)' => Full(q, k, c, d)
    PROVE  FlowInv(s)'
  BY DEF FlowInv

LEMMA FlowWas ==
    ASSUME NEW s \in Ends, FlowInv(s), NEW p, p = Plan(s), NEW q, q = Stream(s),
           NEW k, k = Skew(s), NEW c, c = Rcv(Other(s), sess[Other(s)]),
           NEW d, d = Snd(s, sess[s]), NEW h, h = Pre(s), Reads(Other(s))
    PROVE  Flow(p, s, q, k, c, d) /\ Opening(q, k, h) /\ (Writes(s) => Full(q, k, c, d))
  BY DEF FlowInv

LEMMA MovesFlow ==
    ASSUME NEW s, NEW n, Moves(s, n)
    PROVE  /\ s \in Ends /\ Other(s) \in Ends /\ Other(Other(s)) = s
           /\ FlowInv(s) /\ FlowInv(Other(s))
           /\ Snd(s, sess[s]) \in Nat /\ Rcv(s, sess[s]) \in Nat
           /\ Snd(Other(s), sess[Other(s)]) \in Nat /\ Rcv(Other(s), sess[Other(s)]) \in Nat
           /\ Skew(s)' = Skew(s) /\ Skew(s) \in {0, 1}
           /\ Skew(Other(s))' = 0 /\ Skew(Other(s)) = 0
           /\ Reads(s) /\ Writes(s)
           /\ Reads(Other(s))' = Reads(Other(s)) /\ Writes(Other(s))' = Writes(Other(s))
<1>1. s \in Ends /\ Other(s) \in Ends /\ Other(Other(s)) = s
  BY OthersAre DEF Moves
<1>2. FlowInv(s) /\ FlowInv(Other(s)) /\ Counted(sess[s]) /\ Counted(sess[Other(s)])
  BY <1>1 DEF Moves, CauseInv, Local
<1>3. sess'[s] = n /\ sess'[Other(s)] = sess[Other(s)]
  BY MovesIs
<1>4. /\ Skew(s)' = Skew(s) /\ Skew(s) \in {0, 1}
      /\ Skew(Other(s))' = 0 /\ Skew(Other(s)) = 0
      /\ Reads(s) /\ Writes(s)
      /\ Reads(Other(s))' = Reads(Other(s)) /\ Writes(Other(s))' = Writes(Other(s))
  BY <1>1, <1>3, SkewsAre DEF Moves
<1> QED
  BY <1>1, <1>2, <1>4, CountsAre

LEMMA OwnFlowSame ==
    ASSUME NEW s, NEW n, Moves(s, n), Planned, Snd(s, n) = Snd(s, sess[s]),
           Other(s) \in closed \/ Stream(s)' = Stream(s)
    PROVE  FlowInv(s)'
<1>1. PICK p, q, k, c, d, h :
         /\ p = Plan(s) /\ q = Stream(s) /\ k = Skew(s)
         /\ c = Rcv(Other(s), sess[Other(s)]) /\ d = Snd(s, sess[s]) /\ h = Pre(s)
  OBVIOUS
<1>2. s \in Ends /\ FlowInv(s) /\ k = Skew(s)' /\ Reads(Other(s))' = Reads(Other(s)) /\ Writes(s)
  BY <1>1, MovesFlow
<1>3. c = Rcv(Other(s), sess'[Other(s)]) /\ d = Snd(s, sess'[s])
  BY <1>1, MovesIs
<1>4. p = Plan(s)' /\ h = Pre(s)'
  BY <1>1, <1>2 DEF Planned
<1>5. CASE Other(s) \in closed
  <2>1. ~Reads(Other(s))'
    BY <1>5 DEF Reads, Moves
  <2> QED
    BY <2>1 DEF FlowInv
<1>6. CASE Stream(s)' = Stream(s)
  <2>1. q = Stream(s)'
    BY <1>1, <1>6
  <2>2. Reads(Other(s)) => Flow(p, s, q, k, c, d) /\ Opening(q, k, h) /\ Full(q, k, c, d)
    BY <1>1, <1>2, FlowWas
  <2> QED
    BY <1>2, <1>3, <1>4, <2>1, <2>2, FlowIs
<1> QED
  BY <1>5, <1>6

LEMMA OwnFlowGrows ==
    ASSUME NEW s, NEW n, Moves(s, n), Planned, NEW d, d = Snd(s, sess[s]), Snd(s, n) = d + 1,
           NEW S, Units(S), NEW u \in S, NEW v \in S, Fits(Plan(s), s, u, d),
           Other(s) \in closed \/ Stream(s)' = Pair(Stream(s), <<u, v>>)
    PROVE  FlowInv(s)'
<1>1. PICK p, q, k, c, h :
         /\ p = Plan(s) /\ q = Stream(s) /\ k = Skew(s)
         /\ c = Rcv(Other(s), sess[Other(s)]) /\ h = Pre(s)
  OBVIOUS
<1>2. s \in Ends /\ FlowInv(s) /\ k = Skew(s)' /\ Reads(Other(s))' = Reads(Other(s)) /\ Writes(s)
      /\ k \in {0, 1} /\ c \in Nat /\ d \in Nat
  BY <1>1, MovesFlow
<1>3. c = Rcv(Other(s), sess'[Other(s)]) /\ d + 1 = Snd(s, sess'[s])
  BY <1>1, MovesIs
<1>4. p = Plan(s)' /\ h = Pre(s)'
  BY <1>1, <1>2 DEF Planned
<1>5. CASE Other(s) \in closed
  <2>1. ~Reads(Other(s))'
    BY <1>5 DEF Reads, Moves
  <2> QED
    BY <2>1 DEF FlowInv
<1>6. CASE Stream(s)' = Pair(Stream(s), <<u, v>>)
  <2>1. PICK w : w = <<u, v>>
    OBVIOUS
  <2>2. q \in Seq(S)
    BY <1>1, <1>2, StreamTyped
  <2>3. Reads(Other(s)) => Flow(p, s, q, k, c, d) /\ Opening(q, k, h) /\ Full(q, k, c, d)
    BY <1>1, <1>2, FlowWas
  <2>4. PICK t : t = Pair(q, w)
    OBVIOUS
  <2>5. Reads(Other(s)) => Flow(p, s, t, k, c, d + 1) /\ Full(t, k, c, d + 1)
    <3>1. Fits(p, s, u, d)
      BY <1>1
    <3> QED
      BY <1>2, <2>1, <2>2, <2>3, <2>4, <3>1, FlowLonger
  <2>6. Reads(Other(s)) => Opening(t, k, h)
    <3>1. Longer(q, Len(q), u, t)
      BY <2>1, <2>2, <2>4, TwoMore
    <3>2. Len(q) \in Nat /\ (q = <<>> <=> Len(q) = 0)
      BY <2>2, LenIs
    <3>3. Full(q, k, c, d) /\ k = 1 => q # <<>> /\ 1 \in 1..Len(q)
      <4>1. k = 1 /\ Len(q) = k + 2 * (d - c) => Len(q) # 0
        BY <1>2
      <4> QED
        BY <3>2, <4>1 DEF Full
    <3> QED
      BY <2>3, <3>1, <3>3 DEF Opening, Longer
  <2>7. t = Stream(s)'
    BY <1>1, <1>6, <2>1, <2>4
  <2> QED
    BY <1>2, <1>3, <1>4, <2>5, <2>6, <2>7, FlowIs
<1> QED
  BY <1>5, <1>6

LEMMA PeerFlowSame ==
    ASSUME NEW s, NEW n, Moves(s, n), Planned, Stream(Other(s))' = Stream(Other(s)),
           n.state = "Failed" \/ Rcv(s, n) = Rcv(s, sess[s])
    PROVE  FlowInv(Other(s))'
<1>1. PICK o : o = Other(s)
  OBVIOUS
<1>2. PICK p, q, k, c, d, h :
         /\ p = Plan(o) /\ q = Stream(o) /\ k = Skew(o)
         /\ c = Rcv(s, sess[s]) /\ d = Snd(o, sess[o]) /\ h = Pre(o)
  OBVIOUS
<1>3. o \in Ends /\ Other(o) = s /\ FlowInv(o) /\ k = Skew(o)' /\ Reads(s)
      /\ Writes(o)' = Writes(o)
  BY <1>1, <1>2, MovesFlow
<1>4. d = Snd(o, sess'[o]) /\ sess'[s] = n
  BY <1>1, <1>2, MovesIs
<1>5. p = Plan(o)' /\ h = Pre(o)' /\ q = Stream(o)'
  BY <1>1, <1>2, <1>3 DEF Planned
<1>6. Flow(p, o, q, k, c, d) /\ Opening(q, k, h) /\ (Writes(o) => Full(q, k, c, d))
  BY <1>2, <1>3, FlowWas
<1>7. CASE n.state = "Failed"
  <2>1. ~Reads(s)'
    BY <1>4, <1>7 DEF Reads
  <2> QED
    BY <1>1, <1>3, <2>1 DEF FlowInv
<1>8. CASE Rcv(s, n) = Rcv(s, sess[s])
  <2>1. c = Rcv(Other(o), sess'[Other(o)])
    BY <1>2, <1>3, <1>4, <1>8
  <2> QED
    BY <1>1, <1>3, <1>4, <1>5, <1>6, <2>1, FlowIs
<1> QED
  BY <1>7, <1>8

LEMMA PeerFlowTaken ==
    ASSUME NEW s, NEW n, Moves(s, n), Planned, NEW S, NEW b \in Seq(S), NEW z \in Seq(S),
           Len(b) > 1, Stream(Other(s)) = Pair(b, z),
           Stream(Other(s))' = Pair(SubSeq(b, 3, Len(b)), z), Rcv(s, n) = Rcv(s, sess[s]) + 1
    PROVE  FlowInv(Other(s))'
<1>1. PICK o : o = Other(s)
  OBVIOUS
<1>2. PICK p, q, c, d, h :
         /\ p = Plan(o) /\ q = Stream(o)
         /\ c = Rcv(s, sess[s]) /\ d = Snd(o, sess[o]) /\ h = Pre(o)
  OBVIOUS
<1>3. o \in Ends /\ Other(o) = s /\ FlowInv(o) /\ 0 = Skew(o) /\ 0 = Skew(o)' /\ Reads(s)
      /\ Writes(o)' = Writes(o) /\ c \in Nat /\ d \in Nat
  BY <1>1, <1>2, MovesFlow
<1>4. d = Snd(o, sess'[o]) /\ sess'[s] = n
  BY <1>1, <1>2, MovesIs
<1>5. p = Plan(o)' /\ h = Pre(o)'
  BY <1>1, <1>2, <1>3 DEF Planned
<1>6. Flow(p, o, q, 0, c, d) /\ (Writes(o) => Full(q, 0, c, d))
  BY <1>2, <1>3, FlowWas
<1>7. PICK t : t = Pair(SubSeq(b, 3, Len(b)), z)
  OBVIOUS
<1>8. q = Pair(b, z) /\ t = Stream(o)'
  BY <1>1, <1>2, <1>7
<1>9. Flow(p, o, t, 0, c + 1, d) /\ (Writes(o) => Full(t, 0, c + 1, d))
  <2>1. Flow(p, o, Pair(b, z), 0, c, d)
    BY <1>6, <1>8
  <2>2. /\ Flow(p, o, t, 0, c + 1, d)
        /\ Full(Pair(b, z), 0, c, d) => Full(t, 0, c + 1, d)
    BY <1>3, <1>7, <2>1, FlowShorter
  <2> QED
    BY <1>6, <1>8, <2>2
<1>10. c + 1 = Rcv(Other(o), sess'[Other(o)])
  BY <1>2, <1>3, <1>4
<1>11. Opening(t, 0, h)
  BY DEF Opening
<1> QED
  BY <1>1, <1>3, <1>4, <1>5, <1>8, <1>9, <1>10, <1>11, FlowIs

\* The record that s has before it is the next of the other end.
LEMMA HeadFits ==
    ASSUME CauseInv, NEW s \in Ends, sess[s].state \in Live, s \notin closed,
           NEW S, NEW b \in Seq(S), NEW z \in Seq(S),
           b # <<>>, Stream(Other(s)) = Pair(b, z)
    PROVE  Fits(Plan(Other(s)), Other(s), b[1], Rcv(s, sess[s]))
<1>1. PICK o \in Ends : o = Other(s) /\ Other(o) = s
  BY OthersAre
<1>2. PICK p, c, d : p = Plan(o) /\ c = Rcv(s, sess[s]) /\ d = Snd(o, sess[o])
  OBVIOUS
<1>3. 0 = Skew(o) /\ Reads(s)
  BY <1>1 DEF Skew, Reads, Unmet, Live
<1>4. FlowInv(o) /\ Counted(sess[s])
  BY DEF CauseInv, Local
<1>5. c \in Nat
  BY <1>2, <1>4, CountsAre
<1>6. Flow(p, o, Pair(b, z), 0, c, d)
  BY <1>1, <1>2, <1>3, <1>4, FlowWas
<1> QED
  BY <1>1, <1>2, <1>5, <1>6, FlowFirst

\* A failure is still for the cause it was for.
LEMMA CauseKept ==
    ASSUME NEW s, Cause(s), sess'[s].why = sess[s].why, cfg' = cfg, closed \subseteq closed',
           Key = "Replaced" => Key' = "Replaced", changes > 0 => changes' > 0
    PROVE  Cause(s)'
  BY DEF Cause

LEMMA CauseStep ==
    ASSUME NEW s, NEW n, Moves(s, n), Hashes', Planned, n.pattern = sess[s].pattern,
           Local(s, n), FlowInv(s)', FlowInv(Other(s))', Cause(s)'
    PROVE  CauseInv'
<1>1. /\ sess'[s] = n /\ sess'[Other(s)] = sess[Other(s)]
      /\ s \in Ends /\ Local(s, sess[s]) /\ Hashes /\ Grounds /\ cfg' = cfg
  BY MovesIs
<1>2. PICK o \in Ends : o = Other(s) /\ Ends = {s, o}
  BY <1>1, OthersAre
<1>3. pins' = pins /\ changes' = changes /\ closed' = closed
  BY DEF Moves
<1>4. Local(o, sess'[o]) /\ Local(s, sess'[s])
  BY <1>1, <1>2 DEF Moves, CauseInv
<1>5. Cause(o)'
  <2>1. Cause(o) /\ sess'[o].why = sess[o].why
    BY <1>1, <1>2 DEF Moves, CauseInv
  <2>2. Key' = Key
    BY DEF Planned
  <2> QED
    BY <1>1, <1>3, <2>1, <2>2, CauseKept
<1>6. sess'["I"].pattern = sess["I"].pattern
  BY <1>1 DEF Ends, Other
<1>7. Grounds'
  BY <1>1, <1>3, <1>6 DEF Grounds
<1>8. \A e \in Ends : Local(e, sess[e])' /\ FlowInv(e)' /\ Cause(e)'
  BY <1>2, <1>4, <1>5
<1> QED
  BY <1>7, <1>8 DEF CauseInv

\* The counts of records are where they were.
LEMMA SteadyCounts ==
    ASSUME NEW s, NEW m, NEW n, n.msgIndex = m.msgIndex, SameCount(m, n)
    PROVE  Snd(s, n) = Snd(s, m) /\ Rcv(s, n) = Rcv(s, m)
  BY DEF Snd, Rcv, SameCount

LEMMA SteadyStep ==
    ASSUME NEW s, NEW n, Moves(s, n), Steady(sess[s], n), SameCount(sess[s], n), Local(s, n),
           Other(s) \in closed \/ Stream(s)' = Stream(s),
           Stream(Other(s))' = Stream(Other(s)), Cause(s)'
    PROVE  CauseInv'
<1>1. Hashes' /\ Planned
  BY HashesSame
<1>2. Snd(s, n) = Snd(s, sess[s]) /\ Rcv(s, n) = Rcv(s, sess[s]) /\ n.pattern = sess[s].pattern
  BY SteadyCounts DEF Steady
<1>3. FlowInv(s)'
  BY <1>1, <1>2, OwnFlowSame
<1>4. FlowInv(Other(s))'
  BY <1>1, <1>2, PeerFlowSame
<1> QED
  BY <1>1, <1>2, <1>3, <1>4, CauseStep

\* Nothing that the invariant speaks of but a failure.
Like(m, n) ==
    SameWords(m, n) /\ SameCore(m, n) /\ SameCount(m, n) /\ n.maxRecord = m.maxRecord

LEMMA LikeLocal ==
    ASSUME NEW s, NEW m, NEW n, Local(s, m), Like(m, n), n.state = m.state \/ n.state = "Failed"
    PROVE  Local(s, n) /\ Steady(m, n)
<1> USE DEF Like, SameWords, SameCore, SameCount, Met
<1>1. Counted(n)
  BY DEF Local, Counted
<1>2. Staged(n)
  BY DEF Local, Staged
<1>3. Heard(s, n)
  BY DEF Local, Heard
<1> QED
  BY <1>1, <1>2, <1>3 DEF Local, Steady

LEMMA LikeStep ==
    ASSUME NEW s, NEW n, Moves(s, n), Like(sess[s], n),
           n.state = sess[s].state \/ n.state = "Failed",
           Other(s) \in closed \/ Stream(s)' = Stream(s),
           Stream(Other(s))' = Stream(Other(s)), Cause(s)'
    PROVE  CauseInv'
<1>1. Local(s, sess[s])
  BY MovesIs
<1>2. Local(s, n) /\ Steady(sess[s], n)
  BY <1>1, LikeLocal
<1>3. SameCount(sess[s], n)
  BY DEF Like
<1> QED
  BY <1>2, <1>3, SteadyStep

\* It fails, if at all, because the other end is gone.
LEMMA LostCause ==
    ASSUME NEW s, NEW n, Moves(s, n), Planned,
           n.why = sess[s].why \/ (n.why = "Lost" /\ Other(s) \in closed)
    PROVE  Cause(s)'
<1>1. sess'[s] = n /\ cfg' = cfg /\ s \in Ends
  BY MovesIs
<1>2. Cause(s) /\ closed' = closed /\ changes' = changes /\ Key' = Key
  BY <1>1 DEF Moves, CauseInv, Planned
<1>3. CASE n.why = sess[s].why
  BY <1>1, <1>2, <1>3, CauseKept
<1>4. CASE n.why = "Lost" /\ Other(s) \in closed
  BY <1>1, <1>2, <1>4 DEF Cause
<1> QED
  BY <1>3, <1>4

\* The streams of a step that touches no buffer.
LEMMA QuietStreams ==
    ASSUME NEW s, NEW n, Moves(s, n), SameWire(sess[s], n), pipe' = pipe
    PROVE  Stream(s)' = Stream(s) /\ Stream(Other(s))' = Stream(Other(s))
<1>1. sess'[s] = n /\ sess'[Other(s)] = sess[Other(s)] /\ s \in Ends /\ closed' = closed
  BY MovesIs DEF Moves
<1>2. PICK o \in Ends : o = Other(s) /\ Other(o) = s
  BY <1>1, OthersAre
<1>3. Unwritten(s)' = Unwritten(s) /\ Unwritten(o)' = Unwritten(o)
  BY <1>1, <1>2 DEF Unwritten, SameWire
<1>4. sess'[s].rx = sess[s].rx /\ sess'[o].rx = sess[o].rx
  BY <1>1, <1>2 DEF SameWire
<1> QED
  BY <1>2, <1>3, <1>4 DEF Stream

-------------------------------------------------------------------------------
(* Writing and reading *)

LEMMA WriteMoves ==
    ASSUME CauseInv, UNCHANGED <<cfg, pins, changes>>,
           NEW S, NEW s, NEW m, NEW q, NEW n, Writing(S, s, m, q, n)
    PROVE  Moves(s, n) /\ Stream(Other(s))' = Stream(Other(s))
<1>1. s \in Ends
  BY DEF Writing
<1>2. Stream(Other(s))' = Stream(Other(s))
  BY <1>1, PushedParts
<1> QED
  BY <1>2 DEF Writing, Pushed, Moves

LEMMA FlushCause ==
    ASSUME AgreementInv, CauseInv, UNCHANGED <<cfg, pins, changes, closed>>,
           NEW s \in Ends, s \notin closed, sess[s].state \in Live,
           NEW m, DOMAIN m = Fields, m.state = sess[s].state, SameWire(sess[s], m),
           Like(sess[s], m), m.why = sess[s].why, NEW q, q = sess[s].tx, Sends(s, m, q)
    PROVE  CauseInv'
<1>1. PICK S, n : Writing(S, s, m, q, n)
  BY FlushIs
<1>2. Moves(s, n) /\ Stream(Other(s))' = Stream(Other(s))
  BY <1>1, WriteMoves
<1>3. Other(s) \in closed \/ Stream(s)' = Stream(s)
  BY <1>1, FlushStream
<1>4. /\ Like(sess[s], n) /\ (n.state = sess[s].state \/ n.state = "Failed")
      /\ n.why = sess[s].why \/ (n.why = "Lost" /\ Other(s) \in closed)
  BY <1>1 DEF Writing, Pushed, Like, SameWords, SameCore, SameCount
<1>5. Steady(sess[s], n)
  BY <1>4 DEF Like, Steady, SameWords, SameCore
<1>6. Cause(s)'
  BY <1>2, <1>4, <1>5, HashesSame, LostCause
<1> QED
  BY <1>2, <1>3, <1>4, <1>6, LikeStep

\* A record is written: what is left to show of it.
LEMMA RecordCause ==
    ASSUME CauseInv, UNCHANGED <<cfg, pins, changes>>,
           NEW S, NEW s, NEW m, NEW r, NEW k, NEW q, NEW n, NEW u,
           Recorded(S, s, m, r, k, q, n, u), m.why = sess[s].why,
           n.pattern = sess[s].pattern, Hashes', Planned, Local(s, n),
           Snd(s, n) = Snd(s, sess[s]) + 1, Rcv(s, n) = Rcv(s, sess[s]),
           Fits(Plan(s), s, u, Snd(s, sess[s]))
    PROVE  CauseInv'
<1>1. Writing(S, s, k, q, n) /\ u \in S /\ Rest \in S /\ Adds(s, u, Rest, q) /\ Units(S)
      /\ s \in Ends /\ k.why = m.why
  BY DEF Recorded, Writing, Holds
<1>2. Moves(s, n) /\ Stream(Other(s))' = Stream(Other(s))
  BY <1>1, WriteMoves
<1>3. Other(s) \in closed \/ Stream(s)' = Pair(Stream(s), <<u, Rest>>)
  BY <1>1, RecordStream
<1>4. n.why = sess[s].why \/ (n.why = "Lost" /\ Other(s) \in closed)
  BY <1>1 DEF Writing, Pushed
<1>5. Cause(s)'
  BY <1>2, <1>4, LostCause
<1>6. FlowInv(s)'
  <2>1. PICK d : d = Snd(s, sess[s])
    OBVIOUS
  <2> QED
    BY <1>1, <1>2, <1>3, <2>1, OwnFlowGrows
<1>7. FlowInv(Other(s))'
  BY <1>2, PeerFlowSame
<1> QED
  BY <1>2, <1>5, <1>6, <1>7, CauseStep

LEMMA ReadMoves ==
    ASSUME CauseInv, UNCHANGED <<cfg, pins, changes>>,
           NEW S, NEW s, NEW m, NEW b, NEW z, NEW n, Reading(S, s, m, b, z, n)
    PROVE  /\ Moves(s, n) /\ Stream(s)' = Stream(s)
           /\ Stream(Other(s))' = Pair(n.rx, z) /\ Stream(Other(s)) = Pair(b, z)
<1>1. s \in Ends
  BY DEF Reading
<1>2. n.state \in Live \cup {"Failed"} /\ DOMAIN n = Fields
  BY <1>1, PulledParts
<1>3. /\ Stream(s)' = Stream(s)
      /\ Stream(Other(s))' = Pair(n.rx, z) /\ Stream(Other(s)) = Pair(b, z)
  <2>1. /\ Stream(s)' = Stream(s)
        /\ Stream(Other(s))' = Pair(n.rx, z) /\ Stream(Other(s)) = Pair(b, z)
        /\ Units(S)' /\ \A e \in Ends : Len(pipe'[e]) <= Window
    BY <1>1, ReadStreams
  <2> QED
    BY <2>1
<1> QED
  BY <1>2, <1>3 DEF Reading, Pulled, Moves

\* What is before s is a record that it can take.
Fit(s, b) ==
    b # <<>> => ~(b[1].body.len > Limit(s)) /\ Opens(sess[s], b[1])

LEMMA PullCause ==
    ASSUME CauseInv, UNCHANGED <<cfg, pins, changes>>,
           NEW S, NEW s, NEW m, NEW b, NEW z, NEW n, Reading(S, s, m, b, z, n), Fit(s, b),
           Len(b) > 1 /\ n = m => CauseInv'
    PROVE  CauseInv'
<1>1. CASE Len(b) > 1 /\ n = m
  BY <1>1
<1>2. CASE ~(Len(b) > 1 /\ n = m)
  <2>1. /\ SameWords(sess[s], n) /\ n.maxRecord = sess[s].maxRecord /\ n.rx = b
        /\ n.state = sess[s].state \/ n.state = "Failed"
        /\ SameCore(sess[s], n) /\ SameCount(sess[s], n) /\ Refused(s, b, n)
    BY <1>2 DEF Reading, Pulled
  <2>2. b = <<>> => ~(Len(b) > 1)
    BY EmptySeq
  <2>3. n.why = sess[s].why \/ (n.why = "Lost" /\ Other(s) \in closed)
    BY <2>1, <2>2 DEF Refused, Fit
  <2>4. /\ Moves(s, n) /\ Stream(s)' = Stream(s)
        /\ Stream(Other(s))' = Pair(n.rx, z) /\ Stream(Other(s)) = Pair(b, z)
    BY ReadMoves
  <2>5. Like(sess[s], n) /\ Steady(sess[s], n)
    BY <2>1 DEF Like, Steady, SameWords, SameCore
  <2>6. Cause(s)'
    BY <2>3, <2>4, <2>5, HashesSame, LostCause
  <2>7. Stream(Other(s))' = Stream(Other(s))
    BY <2>1, <2>4
  <2> QED
    BY <2>1, <2>4, <2>5, <2>6, <2>7, LikeStep
<1> QED
  BY <1>1, <1>2

\* A record is taken: what is left to show of it.
LEMMA TakeCause ==
    ASSUME CauseInv, UNCHANGED <<cfg, pins, changes>>,
           NEW S, NEW s, NEW m, NEW b, NEW z, Reading(S, s, m, b, z, m), Len(b) > 1,
           m.pattern = sess[s].pattern, Hashes', Planned, Local(s, m), Cause(s)',
           Snd(s, m) = Snd(s, sess[s]),
           m.state = "Failed" \/ Rcv(s, m) = Rcv(s, sess[s]) + 1
    PROVE  CauseInv'
<1>1. /\ Moves(s, m) /\ Stream(s)' = Stream(s)
      /\ Stream(Other(s))' = Pair(m.rx, z) /\ Stream(Other(s)) = Pair(b, z)
  BY ReadMoves
<1>2. m.rx = SubSeq(b, 3, Len(b)) /\ b \in Seq(S) /\ z \in Seq(S) /\ s \in Ends
  BY DEF Reading, Split
<1>3. FlowInv(s)'
  BY <1>1, OwnFlowSame
<1>4. FlowInv(Other(s))'
  <2>1. CASE m.state = "Failed"
    <3>1. ~Reads(s)'
      BY <1>1, <2>1, MovesIs DEF Reads
    <3> QED
      BY <1>2, <3>1, OthersAre DEF FlowInv
  <2>2. CASE Rcv(s, m) = Rcv(s, sess[s]) + 1
    BY <1>1, <1>2, <2>2, PeerFlowTaken
  <2> QED
    BY <2>1, <2>2
<1> QED
  BY <1>1, <1>3, <1>4, CauseStep

-------------------------------------------------------------------------------
(* The handshake's steps *)

LEMMA PlanIs ==
    ASSUME NEW s
    PROVE  /\ Plan(s).base = Marks(KeyOf(s))
           /\ Plan(s).legs = Turned(s, MessageCount(sess["I"].pattern))
           /\ Plan(s).best = Agreed(cfg["R"].offer, cfg["I"].offer).rec
  BY DEF Plan

\* What the invariant says of an end that has met the other.
LEMMA CauseIs ==
    ASSUME CauseInv, NEW s \in Ends
    PROVE  /\ Local(s, sess[s]) /\ Counted(sess[s]) /\ Staged(sess[s]) /\ Heard(s, sess[s])
           /\ Hashes /\ Grounds /\ FlowInv(s) /\ Cause(s)
           /\ Met(sess[s]) => /\ sess[s].pattern = sess["I"].pattern
                              /\ sess[s].hash = Chain(Marks(KeyOf(s)), sess[s].msgIndex)
<1>1. Local(s, sess[s]) /\ Hashes /\ Grounds /\ FlowInv(s) /\ Cause(s)
  BY DEF CauseInv
<1>2. CASE s = "I"
  BY <1>1, <1>2 DEF Hashes, KeyOf, Local
<1>3. CASE s = "R"
  BY <1>1, <1>3 DEF Hashes, KeyOf, Local
<1> QED
  BY <1>2, <1>3 DEF Ends

\* A session m of s in the handshake, its next message being its own, or the other end's.
OwnNext(s, m) ==
    /\ m.state = "Handshaking" /\ m.msgIndex < MessageCount(m.pattern)
    /\ (m.msgIndex % 2 = 0) <=> s = "I"
PeerNext(s, m) ==
    /\ m.state = "Handshaking" /\ m.msgIndex < MessageCount(m.pattern)
    /\ ~((m.msgIndex % 2 = 0) <=> s = "I")

LEMMA OwnIndex ==
    ASSUME NEW s \in Ends, NEW m, Counted(m), Staged(m), OwnNext(s, m)
    PROVE  /\ m.pattern \in {"XX", "IK"} /\ m.sealed = 0 /\ m.opened = 0 /\ m.cipher = FALSE
           /\ \/ s = "I" /\ m.msgIndex = 0
              \/ s = "I" /\ m.msgIndex = 2 /\ m.pattern = "XX"
              \/ s = "R" /\ m.msgIndex = 1
<1>1. m.pattern \in {"XX", "IK"} /\ m.sealed = 0 /\ m.opened = 0 /\ m.cipher = FALSE
  BY DEF Counted, Staged, OwnNext
<1>2. m.msgIndex \in {0, 1, 2} /\ (m.msgIndex = 2 => m.pattern = "XX")
  BY DEF Counted, OwnNext, MessageCount
<1>3. 0 % 2 = 0 /\ 1 % 2 # 0 /\ 2 % 2 = 0
  OBVIOUS
<1> QED
  BY <1>1, <1>2, <1>3 DEF OwnNext, Ends

LEMMA PeerIndex ==
    ASSUME NEW s \in Ends, NEW m, Counted(m), Staged(m), PeerNext(s, m)
    PROVE  /\ m.pattern \in {"XX", "IK"} /\ m.sealed = 0 /\ m.opened = 0 /\ m.cipher = FALSE
           /\ \/ s = "I" /\ m.msgIndex = 1
              \/ s = "R" /\ m.msgIndex = 0
              \/ s = "R" /\ m.msgIndex = 2 /\ m.pattern = "XX"
<1>1. m.pattern \in {"XX", "IK"} /\ m.sealed = 0 /\ m.opened = 0 /\ m.cipher = FALSE
  BY DEF Counted, Staged, PeerNext
<1>2. m.msgIndex \in {0, 1, 2} /\ (m.msgIndex = 2 => m.pattern = "XX")
  BY DEF Counted, PeerNext, MessageCount
<1>3. 0 % 2 = 0 /\ 1 % 2 # 0 /\ 2 % 2 = 0
  OBVIOUS
<1> QED
  BY <1>1, <1>2, <1>3 DEF PeerNext, Ends

\* A message further, with whoever has shown itself known.
Further(m, n) ==
    /\ Advanced(m, n) /\ SameCount(m, n) /\ n.cipher = m.cipher
    /\ n.helloSent = m.helloSent /\ n.greet = m.greet
    /\ n.state = "Handshaking" \/ n.state = "Failed"

LEMMA OwnFurther ==
    ASSUME NEW s \in Ends, NEW m, Local(s, m), OwnNext(s, m), NEW n, Further(m, n), Met(n),
           n.peer = m.peer
    PROVE  /\ Local(s, n) /\ Snd(s, n) = Snd(s, m) + 1 /\ Rcv(s, n) = Rcv(s, m)
           /\ m.msgIndex \in 0..2
<1>1. /\ m.pattern \in {"XX", "IK"} /\ m.sealed = 0 /\ m.opened = 0 /\ m.cipher = FALSE
      /\ \/ s = "I" /\ m.msgIndex = 0
         \/ s = "I" /\ m.msgIndex = 2 /\ m.pattern = "XX"
         \/ s = "R" /\ m.msgIndex = 1
  BY OwnIndex DEF Local
<1>2. /\ n.pattern = m.pattern /\ n.msgIndex = m.msgIndex + 1 /\ n.sealed = 0 /\ n.opened = 0
      /\ n.cipher = FALSE /\ n.helloSent = m.helloSent /\ n.greet = m.greet
      /\ n.state = "Handshaking" \/ n.state = "Failed"
  BY <1>1 DEF Further, Advanced, SameCount
<1>3. Counted(n)
  <2>1. n.msgIndex \in 0..MessageCount(n.pattern)
    BY <1>1, <1>2 DEF MessageCount
  <2>2. n.pattern \in {"XX", "IK"} /\ n.sealed \in Nat /\ n.opened \in Nat
    BY <1>1, <1>2
  <2>3. n.cipher \in BOOLEAN /\ ~n.cipher
    BY <1>2, Zenon
  <2> QED
    BY <1>2, <2>1, <2>2, <2>3, Zenon DEF Counted
<1>4. Staged(n)
  BY <1>2 DEF Staged
<1>5. Heard(s, n)
  BY <1>1, <1>2 DEF Local, Heard
<1>6. Snd(s, n) = Snd(s, m) + 1 /\ Rcv(s, n) = Rcv(s, m)
  <2>1. 0 + 1 = 1 /\ 1 + 1 = 2 /\ 2 + 1 = 3
    OBVIOUS
  <2> QED
    BY <1>1, <1>2, <2>1, TurnsAre DEF Snd, Rcv, Other
<1> QED
  BY <1>1, <1>3, <1>4, <1>5, <1>6 DEF Local

LEMMA PeerFurther ==
    ASSUME NEW s \in Ends, NEW m, Local(s, m), PeerNext(s, m), NEW n, Further(m, n), Met(n),
           n.peer = (m.peer \/ CarriesIdentity(m.pattern, m.msgIndex))
    PROVE  /\ Local(s, n) /\ Snd(s, n) = Snd(s, m) /\ Rcv(s, n) = Rcv(s, m) + 1
           /\ m.msgIndex \in 0..2
<1>1. /\ m.pattern \in {"XX", "IK"} /\ m.sealed = 0 /\ m.opened = 0 /\ m.cipher = FALSE
      /\ \/ s = "I" /\ m.msgIndex = 1
         \/ s = "R" /\ m.msgIndex = 0
         \/ s = "R" /\ m.msgIndex = 2 /\ m.pattern = "XX"
  BY PeerIndex DEF Local
<1>2. /\ n.pattern = m.pattern /\ n.msgIndex = m.msgIndex + 1 /\ n.sealed = 0 /\ n.opened = 0
      /\ n.cipher = FALSE /\ n.helloSent = m.helloSent /\ n.greet = m.greet
      /\ n.state = "Handshaking" \/ n.state = "Failed"
  BY <1>1 DEF Further, Advanced, SameCount
<1>3. Counted(n)
  <2>1. n.msgIndex \in 0..MessageCount(n.pattern)
    BY <1>1, <1>2 DEF MessageCount
  <2>2. n.pattern \in {"XX", "IK"} /\ n.sealed \in Nat /\ n.opened \in Nat
    BY <1>1, <1>2
  <2>3. n.cipher \in BOOLEAN /\ ~n.cipher
    BY <1>2, Zenon
  <2> QED
    BY <1>2, <2>1, <2>2, <2>3, Zenon DEF Counted
<1>4. Staged(n)
  BY <1>2 DEF Staged
<1>5. (s = "I" \/ m.pattern = "IK" \/ m.msgIndex = 2) => n.peer
  BY <1>1 DEF CarriesIdentity
<1>6. Heard(s, n)
  BY <1>1, <1>2, <1>5 DEF Local, Heard
<1>7. Snd(s, n) = Snd(s, m) /\ Rcv(s, n) = Rcv(s, m) + 1
  <2>1. 0 + 1 = 1 /\ 1 + 1 = 2 /\ 2 + 1 = 3
    OBVIOUS
  <2> QED
    BY <1>1, <1>2, <2>1, TurnsAre DEF Snd, Rcv, Other
<1> QED
  BY <1>1, <1>3, <1>4, <1>6, <1>7 DEF Local

\* The message that s sends is the one its number calls for.
LEMMA MessageFits ==
    ASSUME CauseInv, NEW s \in Ends, OwnNext(s, sess[s]), NEW u, u.cipher = FALSE,
           u.body.type = "Handshake", u.body.len = Floor, u.body.hash = sess[s].hash
    PROVE  Fits(Plan(s), s, u, Snd(s, sess[s]))
<1>1. PICK m, p : m = sess[s] /\ p = Plan(s)
  OBVIOUS
<1>2. /\ m.pattern \in {"XX", "IK"} /\ m.sealed = 0
      /\ \/ s = "I" /\ m.msgIndex = 0
         \/ s = "I" /\ m.msgIndex = 2 /\ m.pattern = "XX"
         \/ s = "R" /\ m.msgIndex = 1
  BY <1>1, CauseIs, OwnIndex
<1>3. Met(m)
  BY <1>1, CauseIs DEF Staged, OwnNext
<1>4. m.pattern = sess["I"].pattern /\ m.hash = Chain(Marks(KeyOf(s)), m.msgIndex)
  BY <1>1, <1>3, CauseIs
<1>5. p.base = Marks(KeyOf(s)) /\ p.legs = Turned(s, MessageCount(m.pattern))
  BY <1>1, <1>4, PlanIs
<1>6. PICK n : n = Snd(s, m)
  OBVIOUS
<1>7. n < p.legs /\ m.msgIndex = IF s = "I" THEN 2 * n ELSE 1
  BY <1>2, <1>5, <1>6, TurnsAre DEF Snd, MessageCount
<1> QED
  BY <1>1, <1>4, <1>5, <1>6, <1>7 DEF Fits, IsMessage

\* And the one that it reads.
LEMMA MessageIs ==
    ASSUME CauseInv, NEW s \in Ends, PeerNext(s, sess[s]), NEW u,
           Fits(Plan(Other(s)), Other(s), u, Rcv(s, sess[s]))
    PROVE  /\ u.cipher = FALSE /\ u.body.type = "Handshake" /\ u.body.len = Floor
           /\ u.body.hash = Chain(Marks(KeyOf(Other(s))), sess[s].msgIndex)
           /\ sess[s].hash = Chain(Marks(KeyOf(s)), sess[s].msgIndex)
<1>1. PICK m, o, p : m = sess[s] /\ o = Other(s) /\ p = Plan(o)
  OBVIOUS
<1>2. /\ m.pattern \in {"XX", "IK"} /\ m.opened = 0
      /\ \/ s = "I" /\ m.msgIndex = 1
         \/ s = "R" /\ m.msgIndex = 0
         \/ s = "R" /\ m.msgIndex = 2 /\ m.pattern = "XX"
  BY <1>1, CauseIs, PeerIndex
<1>3. Met(m)
  BY <1>1, CauseIs DEF Staged, PeerNext
<1>4. m.pattern = sess["I"].pattern /\ m.hash = Chain(Marks(KeyOf(s)), m.msgIndex)
  BY <1>1, <1>3, CauseIs
<1>5. p.base = Marks(KeyOf(o)) /\ p.legs = Turned(o, MessageCount(m.pattern))
  BY <1>1, <1>4, PlanIs
<1>6. PICK n : n = Rcv(s, m)
  OBVIOUS
<1>7. n < p.legs /\ m.msgIndex = IF o = "I" THEN 2 * n ELSE 1
  BY <1>1, <1>2, <1>5, <1>6, TurnsAre DEF Rcv, MessageCount, Other
<1>8. IsMessage(p, o, u, n)
  BY <1>1, <1>6, <1>7 DEF Fits
<1> QED
  BY <1>1, <1>4, <1>5, <1>7, <1>8 DEF IsMessage

LEMMA PumpBeginsCause ==
    ASSUME AgreementInv, CauseInv, NEW s \in Ends, PumpBegins(s)
    PROVE  CauseInv'
<1>1. PICK m : m = [sess[s] EXCEPT !.looping = TRUE]
  OBVIOUS
<1>2. DOMAIN sess = Ends /\ DOMAIN sess[s] = Fields
  BY DEF AgreementInv, Shape
<1>3. DOMAIN m = Fields /\ m.state = sess[s].state /\ SameWire(sess[s], m)
      /\ Like(sess[s], m) /\ m.why = sess[s].why
  BY <1>1, <1>2 DEF Fields, SameWire, SameWords, SameCore, SameCount, Like
<1>4. sess[s].state \in Live /\ s \notin closed /\ UNCHANGED <<cfg, pins, changes, closed>>
  BY DEF PumpBegins, Live
<1>5. CASE sess[s].tx = <<>>
  <2>1. sess' = [sess EXCEPT ![s] = m] /\ pipe' = pipe
    BY <1>1, <1>2, <1>5 DEF PumpBegins, ToFlush
  <2>2. Moves(s, m)
    BY <1>3, <1>4, <2>1 DEF Moves
  <2>3. Stream(s)' = Stream(s) /\ Stream(Other(s))' = Stream(Other(s))
    BY <1>3, <2>1, <2>2, QuietStreams
  <2>4. Steady(sess[s], m)
    BY <1>3 DEF Like, Steady, SameWords, SameCore
  <2>5. Cause(s)'
    BY <1>3, <2>2, <2>4, HashesSame, LostCause
  <2> QED
    BY <1>3, <2>2, <2>3, <2>5, LikeStep
<1>6. CASE sess[s].tx # <<>>
  <2>1. Sends(s, m, sess[s].tx)
    BY <1>1, <1>6 DEF PumpBegins, ToFlush
  <2> QED
    BY <1>3, <1>4, <2>1, FlushCause
<1> QED
  BY <1>5, <1>6

LEMMA FlushDataCause ==
    ASSUME AgreementInv, CauseInv, NEW s \in Ends, FlushData(s)
    PROVE  CauseInv'
<1>1. sess[s].state \in Live /\ s \notin closed /\ UNCHANGED <<cfg, pins, changes, closed>>
      /\ Sends(s, sess[s], sess[s].tx)
  BY DEF FlushData, Usable, Live
<1>2. PICK m, q : m = sess[s] /\ q = sess[s].tx
  OBVIOUS
<1>3. DOMAIN m = Fields /\ m.state = sess[s].state /\ SameWire(sess[s], m)
      /\ Like(sess[s], m) /\ m.why = sess[s].why /\ Sends(s, m, q)
  BY <1>1, <1>2 DEF AgreementInv, Shape, SameWire, SameWords, SameCore, SameCount, Like
<1> QED
  BY <1>1, <1>2, <1>3, FlushCause

LEMMA SendMessageCause ==
    ASSUME AgreementInv, CauseInv, NEW s \in Ends, SendMessage(s)
    PROVE  CauseInv'
<1>1. PICK m : m = [sess[s] EXCEPT !.msgIndex = @ + 1, !.hash = Append(@, sess[s].msgIndex)]
  OBVIOUS
<1>2. PICK r : r = [type |-> "Handshake", len |-> Floor, hash |-> sess[s].hash]
  OBVIOUS
<1>3. /\ s \notin closed /\ UNCHANGED <<cfg, pins, changes, closed>> /\ SendRecord(s, m, r)
      /\ OwnNext(s, sess[s])
  BY <1>1, <1>2 DEF SendMessage, InLoop, OursToSend, OwnNext
<1>4. DOMAIN sess[s] = Fields
  BY DEF AgreementInv, Shape
<1>5. /\ DOMAIN m = Fields /\ m.state = sess[s].state /\ SameWire(sess[s], m)
      /\ m.pattern = sess[s].pattern /\ m.msgIndex = sess[s].msgIndex + 1
      /\ m.hash = Append(sess[s].hash, sess[s].msgIndex)
      /\ m.cipher = sess[s].cipher /\ SameCount(sess[s], m) /\ m.peer = sess[s].peer
      /\ m.helloSent = sess[s].helloSent /\ m.greet = sess[s].greet /\ m.why = sess[s].why
  BY <1>1, <1>4 DEF Fields, SameWire, SameCount
<1>6. /\ sess[s].sealed = 0 /\ sess[s].cipher = FALSE /\ sess[s].state = "Handshaking"
      /\ Met(sess[s]) /\ Local(s, sess[s])
  BY <1>3, CauseIs, OwnIndex DEF OwnNext, Staged
<1>7. sess[s].state \in Live
  BY <1>6 DEF Live
<1>8. PICK S, k, q, n, u : Recorded(S, s, m, r, k, q, n, u)
  BY <1>3, <1>5, <1>7, RecordIs
<1>9. Writing(S, s, k, q, n) /\ Holds(m, r, k) /\ IsOf(m, r, u) /\ Pushed(S, s, k, q, n)
  BY <1>8 DEF Recorded, Writing
<1>10. /\ SameWords(m, k) /\ SameCore(m, k) /\ k.opened = m.opened /\ k.state = m.state
       /\ k.sealed = IF m.cipher THEN m.sealed + 1 ELSE m.sealed
  BY <1>9 DEF Holds
<1>11. k.sealed = sess[s].sealed
  BY <1>5, <1>6, <1>10 DEF SameCount
<1>12. SameWords(k, n) /\ SameCore(k, n) /\ SameCount(k, n)
       /\ (n.state = k.state \/ n.state = "Failed")
  BY <1>9 DEF Pushed
<1>13. Further(sess[s], n) /\ n.peer = sess[s].peer
  BY <1>5, <1>6, <1>10, <1>11, <1>12 DEF Further, Advanced, SameWords, SameCore, SameCount
<1>14. Moves(s, n)
  BY <1>3, <1>9, WriteMoves
<1>15. sess[s].msgIndex \in 0..2
  <2>1. Counted(sess[s])
    BY <1>6 DEF Local
  <2> QED
    BY <1>3, <2>1 DEF Counted, OwnNext, MessageCount
<1>16. s = "R" => Met(sess["I"]) /\ Key = "Current"
  <2>1. s = "R" => sess[s].msgIndex = 1
    BY <1>3, CauseIs, OwnIndex
  <2>2. Hashes
    BY CauseIs
  <2> QED
    BY <2>1, <2>2 DEF Hashes, Key
<1>17. Hashes' /\ Planned /\ Met(n)
  BY <1>6, <1>13, <1>14, <1>15, <1>16, HashesOnward DEF Further
<1>18. Local(s, n) /\ Snd(s, n) = Snd(s, sess[s]) + 1 /\ Rcv(s, n) = Rcv(s, sess[s])
  BY <1>3, <1>6, <1>13, <1>17, OwnFurther
<1>19. u.body = r /\ u.cipher = FALSE
  BY <1>5, <1>6, <1>9 DEF IsOf
<1>20. u.body.type = "Handshake" /\ u.body.len = Floor /\ u.body.hash = sess[s].hash
  BY <1>2, <1>19
<1>21. Fits(Plan(s), s, u, Snd(s, sess[s]))
  BY <1>3, <1>19, <1>20, MessageFits
<1>22. n.pattern = sess[s].pattern
  BY <1>13 DEF Further, Advanced
<1> QED
  BY <1>3, <1>5, <1>8, <1>17, <1>18, <1>21, <1>22, RecordCause

\* The stream that a read takes its record from.
LEMMA ReadFits ==
    ASSUME CauseInv, NEW S, NEW s, NEW m, NEW b, NEW z, NEW n, Reading(S, s, m, b, z, n),
           b # <<>>
    PROVE  Fits(Plan(Other(s)), Other(s), b[1], Rcv(s, sess[s]))
<1>1. s \in Ends /\ sess[s].state \in Live /\ s \notin closed /\ b \in Seq(S) /\ z \in Seq(S)
      /\ Stream(Other(s)) = Pair(b, z)
  BY DEF Reading, Split, Pair
<1> QED
  BY <1>1, HeadFits

\* What there is to read was sent, and whoever sends has met the other end.
LEMMA ReadMet ==
    ASSUME CauseInv, NEW S, NEW s, NEW m, NEW b, NEW z, NEW n, Reading(S, s, m, b, z, n),
           Len(b) > 1
    PROVE  Met(sess[Other(s)])
<1>1. s \in Ends /\ sess[s].state \in Live /\ s \notin closed /\ b \in Seq(S) /\ z \in Seq(S)
      /\ Stream(Other(s)) = Pair(b, z)
  BY DEF Reading, Split, Pair
<1>2. PICK o \in Ends : o = Other(s) /\ Other(o) = s
  BY <1>1, OthersAre
<1>3. PICK p, c, d : p = Plan(o) /\ c = Rcv(s, sess[s]) /\ d = Snd(o, sess[o])
  OBVIOUS
<1>4. 0 = Skew(o) /\ Reads(s)
  BY <1>1, <1>2 DEF Skew, Reads, Unmet, Live
<1>5. FlowInv(o) /\ Counted(sess[s]) /\ Counted(sess[o])
  BY <1>1, CauseIs
<1>6. c \in Nat /\ d \in Nat
  BY <1>1, <1>3, <1>5, CountsAre
<1>7. Flow(p, o, Pair(b, z), 0, c, d)
  BY <1>1, <1>2, <1>3, <1>4, <1>5, FlowWas
<1>8. d > 0
  <2>1. PICK x \in Nat, y \in Nat : x = Len(b) /\ y = Len(z)
    BY <1>1, LenIs
  <2>2. Len(Pair(b, z)) = x + y
    BY <1>1, <2>1 DEF Pair
  <2>3. x + y <= 0 + 2 * (d - c)
    BY <1>7, <2>2 DEF Flow
  <2> QED
    BY <1>6, <2>1, <2>3
<1>9. sess[o].msgIndex # 0
  <2>1. ASSUME sess[o].msgIndex = 0 PROVE FALSE
    <3>1. sess[o].sealed = 0
      BY <1>5, <2>1 DEF Counted, MessageCount
    <3>2. Snd(o, sess[o]) = 0
      BY <2>1, <3>1, TurnsAre DEF Snd, Ends
    <3> QED
      BY <1>3, <1>8, <3>2
  <2> QED
    BY <2>1
<1>10. sess[o].msgIndex > 0
  BY <1>5, <1>9 DEF Counted, MessageCount
<1> QED
  BY <1>2, <1>5, <1>10 DEF Counted

LEMMA ReadMessageCause ==
    ASSUME AgreementInv, CauseInv, NEW s \in Ends, ReadMessage(s)
    PROVE  CauseInv'
<1>1. PICK b : b = Buffered(s)
  OBVIOUS
<1>2. PICK k : k = Received(sess[s], b)
  OBVIOUS
<1>3. DOMAIN sess[s] = Fields
  BY DEF AgreementInv, Shape
<1>4. Takes(sess[s], b, k)
  BY <1>2, <1>3, ReceivedIs
<1>5. PICK m :
         /\ Receives(s, m)
         /\ \/ m = Failed(k, "AuthFailed") /\ ~Authenticates(sess[s], b[1].body)
            \/ /\ m = [k EXCEPT !.msgIndex = @ + 1, !.hash = Append(@, sess[s].msgIndex),
                             !.peer = @ \/ CarriesIdentity(sess[s].pattern, sess[s].msgIndex)]
               /\ Authenticates(sess[s], b[1].body)
  BY <1>1, <1>2 DEF ReadMessage
<1>6. /\ s \notin closed /\ UNCHANGED <<cfg, pins, changes, closed>> /\ PeerNext(s, sess[s])
      /\ sess[s].state = "Handshaking"
  BY DEF ReadMessage, InLoop, OursToSend, PeerNext
<1>7. /\ sess[s].cipher = FALSE /\ sess[s].opened = 0 /\ Met(sess[s]) /\ Local(s, sess[s])
  BY <1>6, CauseIs, PeerIndex DEF Staged
<1>8. /\ DOMAIN k = Fields /\ SameWords(sess[s], k) /\ k.rx = SubSeq(b, 3, Len(b))
      /\ k.tx = sess[s].tx /\ k.maxRecord = sess[s].maxRecord /\ k.state = "Handshaking"
      /\ SameCore(sess[s], k) /\ k.why = sess[s].why /\ SameCount(sess[s], k)
  BY <1>4, <1>6, <1>7 DEF Takes, SameCount
<1>9. /\ DOMAIN m = Fields /\ m.rx = SubSeq(b, 3, Len(b)) /\ m.tx = sess[s].tx
      /\ \/ /\ ~Authenticates(sess[s], b[1].body) /\ m.state = "Failed"
            /\ m.why = "AuthFailed" /\ Like(sess[s], m)
         \/ /\ Authenticates(sess[s], b[1].body) /\ m.state = "Handshaking"
            /\ m.why = sess[s].why /\ Further(sess[s], m)
            /\ m.peer = (sess[s].peer \/ CarriesIdentity(sess[s].pattern, sess[s].msgIndex))
  <2>1. CASE m = Failed(k, "AuthFailed") /\ ~Authenticates(sess[s], b[1].body)
    <3>1. /\ DOMAIN m = Fields /\ SameWords(k, m) /\ SameWire(k, m)
          /\ SameCore(k, m) /\ SameCount(k, m)
          /\ m.maxRecord = k.maxRecord /\ m.why = "AuthFailed" /\ m.state = "Failed"
      BY <1>8, <2>1, FailedIs
    <3> QED
      BY <1>8, <2>1, <3>1 DEF SameWords, SameWire, SameCore, SameCount, Like
  <2>2. CASE /\ m = [k EXCEPT !.msgIndex = @ + 1, !.hash = Append(@, sess[s].msgIndex),
                       !.peer = @ \/ CarriesIdentity(sess[s].pattern, sess[s].msgIndex)]
             /\ Authenticates(sess[s], b[1].body)
    <3>1. /\ DOMAIN m = Fields /\ m.rx = k.rx /\ m.tx = k.tx /\ m.state = k.state
          /\ m.helloSent = k.helloSent /\ m.greet = k.greet /\ m.pattern = k.pattern
          /\ m.msgIndex = k.msgIndex + 1 /\ m.hash = Append(k.hash, sess[s].msgIndex)
          /\ m.cipher = k.cipher /\ SameCount(k, m) /\ m.why = k.why
          /\ m.peer = (k.peer \/ CarriesIdentity(sess[s].pattern, sess[s].msgIndex))
      BY <1>8, <2>2 DEF Fields, SameCount
    <3>2. Further(sess[s], m)
      BY <1>8, <3>1 DEF Further, Advanced, SameWords, SameCore, SameCount
    <3> QED
      BY <1>8, <2>2, <3>1, <3>2 DEF SameCore
  <2> QED
    BY <1>5, <2>1, <2>2
<1>10. sess[s].state \in Live /\ m.state \in Live \cup {"Failed"}
  BY <1>6, <1>9 DEF Live
<1>11. PICK S, z, n : Reading(S, s, m, b, z, n)
  BY <1>1, <1>5, <1>6, <1>9, <1>10, PullIs
<1>12. b # <<>> =>
          /\ b[1].cipher = FALSE /\ b[1].body.type = "Handshake" /\ b[1].body.len = Floor
          /\ b[1].body.hash = Chain(Marks(KeyOf(Other(s))), sess[s].msgIndex)
          /\ sess[s].hash = Chain(Marks(KeyOf(s)), sess[s].msgIndex)
  BY <1>6, <1>11, ReadFits, MessageIs
<1>13. Fit(s, b)
  <2>1. ~(Floor > HandshakeMax) /\ Limit(s) = HandshakeMax
    BY <1>7, SecureAssumption DEF Limit
  <2> QED
    BY <1>7, <1>12, <2>1 DEF Fit, Opens
<1>14. ASSUME Len(b) > 1, n = m PROVE CauseInv'
  <2>1. Reading(S, s, m, b, z, m) /\ b # <<>>
    BY <1>11, <1>14, EmptySeq
  <2>2. Moves(s, m)
    BY <1>6, <2>1, ReadMoves
  <2>3. CASE m.state = "Failed" /\ m.why = "AuthFailed" /\ Like(sess[s], m)
             /\ ~Authenticates(sess[s], b[1].body)
    <3>1. Local(s, m) /\ Steady(sess[s], m)
      BY <1>7, <2>3, LikeLocal
    <3>2. Hashes' /\ Planned
      BY <2>2, <3>1, HashesSame
    <3>3. Snd(s, m) = Snd(s, sess[s]) /\ m.pattern = sess[s].pattern
      BY <2>3, <3>1, SteadyCounts DEF Like, Steady
    <3>4. Key = "Replaced"
      <4>1. KeyOf(s) = "Current" /\ KeyOf(Other(s)) = "Current" => sess[s].hash = b[1].body.hash
        BY <1>12, <2>1
      <4>2. sess[s].hash # b[1].body.hash
        BY <1>12, <2>1, <2>3 DEF Authenticates
      <4>3. Key = "Current" => KeyOf(s) = "Current" /\ KeyOf(Other(s)) = "Current"
        BY DEF KeyOf
      <4> QED
        BY <4>1, <4>2, <4>3 DEF Key
    <3>5. Cause(s)'
      <4>1. sess'[s] = m /\ Key' = "Replaced"
        BY <2>2, <3>2, <3>4, MovesIs DEF Planned
      <4> QED
        BY <2>3, <4>1 DEF Cause
    <3> QED
      BY <1>6, <1>14, <2>1, <2>3, <3>1, <3>2, <3>3, <3>5, TakeCause
  <2>4. CASE /\ Authenticates(sess[s], b[1].body) /\ m.why = sess[s].why /\ Further(sess[s], m)
             /\ m.peer = (sess[s].peer \/ CarriesIdentity(sess[s].pattern, sess[s].msgIndex))
    <3>1. sess[s].msgIndex \in 0..2
      BY <1>6, <1>7 DEF Local, Counted, PeerNext, MessageCount
    <3>2. s = "R" => Met(sess["I"]) /\ Key = "Current"
      <4>1. ASSUME s = "R", Key = "Replaced" PROVE FALSE
        <5>1. sess["I"].pattern = "IK" /\ sess["R"].msgIndex = 0
          BY <4>1, CauseIs DEF Key, Hashes
        <5>2. sess["R"].pattern = "IK"
          BY <1>7, <4>1, <5>1, CauseIs
        <5>3. b[1].body.hash = sess["R"].hash
          BY <2>4, <4>1, <5>2 DEF Authenticates
        <5>4. /\ b[1].body.hash = Chain(Marks("Replaced"), 0)
              /\ sess["R"].hash = Chain(Marks("Current"), 0)
          BY <1>12, <2>1, <4>1, <5>1 DEF KeyOf, Other
        <5>5. b[1].body.hash[3] = "Replaced" /\ sess["R"].hash[3] = "Current"
          BY <5>1, <5>4, KeyIs
        <5> QED
          BY <5>3, <5>5
      <4>2. s = "R" => Met(sess["I"])
        BY <1>14, <2>1, ReadMet DEF Other
      <4> QED
        BY <4>1, <4>2 DEF Key
    <3>3. Hashes' /\ Planned /\ Met(m)
      BY <1>7, <2>2, <2>4, <3>1, <3>2, HashesOnward DEF Further
    <3>4. Local(s, m) /\ Snd(s, m) = Snd(s, sess[s]) /\ Rcv(s, m) = Rcv(s, sess[s]) + 1
      BY <1>6, <1>7, <2>4, <3>3, PeerFurther
    <3>5. Cause(s)'
      BY <2>2, <2>4, <3>3, LostCause
    <3>6. m.pattern = sess[s].pattern
      BY <2>4 DEF Further, Advanced
    <3> QED
      BY <1>6, <1>14, <2>1, <3>3, <3>4, <3>5, <3>6, TakeCause
  <2> QED
    BY <1>9, <2>3, <2>4
<1> QED
  BY <1>6, <1>11, <1>13, <1>14, PullCause

-------------------------------------------------------------------------------
(* Once the cipher is installed *)

LEMMA FinishCause ==
    ASSUME AgreementInv, CauseInv, NEW s \in Ends, Finish(s)
    PROVE  CauseInv'
<1>1. /\ sess[s].state = "Handshaking" /\ s \notin closed /\ pipe' = pipe
      /\ UNCHANGED <<cfg, pins, changes, closed>>
      /\ sess[s].msgIndex = MessageCount(sess[s].pattern)
  BY DEF Finish, InLoop
<1>2. DOMAIN sess[s] = Fields /\ sess[s].state \in Live
  BY <1>1 DEF AgreementInv, Shape, Live
<1>3. Local(s, sess[s]) /\ Counted(sess[s]) /\ Staged(sess[s]) /\ Heard(s, sess[s])
  BY CauseIs
<1>4. sess[s].peer
  BY <1>1, <1>3 DEF Counted, Heard, MessageCount, Ends
<1>5. PICK n :
         /\ sess' = [sess EXCEPT ![s] = n]
         /\ \/ n = [sess[s] EXCEPT !.looping = FALSE]
            \/ n = [sess[s] EXCEPT !.state = "Greeting", !.cipher = TRUE,
                                   !.maxRecord = HandshakeMax,
                                   !.trust = IF pins[s] = "None" THEN "Unpaired" ELSE "Paired"]
  BY <1>4 DEF Finish, HandshakeSent
<1>6. CASE n = [sess[s] EXCEPT !.looping = FALSE]
  <2>1. DOMAIN n = Fields /\ n.state = sess[s].state /\ SameWire(sess[s], n)
        /\ Like(sess[s], n) /\ n.why = sess[s].why
    BY <1>2, <1>6 DEF Fields, SameWire, SameWords, SameCore, SameCount, Like
  <2>2. Moves(s, n)
    BY <1>1, <1>2, <1>5, <2>1 DEF Moves
  <2>3. Stream(s)' = Stream(s) /\ Stream(Other(s))' = Stream(Other(s))
    BY <1>1, <2>1, <2>2, QuietStreams
  <2>4. Steady(sess[s], n)
    BY <2>1 DEF Like, Steady, SameWords, SameCore
  <2>5. Cause(s)'
    BY <2>1, <2>2, <2>4, HashesSame, LostCause
  <2> QED
    BY <2>1, <2>2, <2>3, <2>5, LikeStep
<1>7. CASE n = [sess[s] EXCEPT !.state = "Greeting", !.cipher = TRUE,
                               !.maxRecord = HandshakeMax,
                               !.trust = IF pins[s] = "None" THEN "Unpaired" ELSE "Paired"]
  <2>1. /\ DOMAIN n = Fields /\ n.state = "Greeting" /\ SameWire(sess[s], n)
        /\ Steady(sess[s], n) /\ SameCount(sess[s], n) /\ n.why = sess[s].why
        /\ n.cipher = TRUE /\ n.maxRecord = HandshakeMax /\ n.peer = sess[s].peer
        /\ n.helloSent = sess[s].helloSent /\ n.greet = sess[s].greet
    BY <1>2, <1>7 DEF Fields, SameWire, Steady, SameCount
  <2>2. n.state \in Live \cup {"Failed"}
    BY <2>1 DEF Live
  <2>3. Moves(s, n)
    BY <1>1, <1>2, <1>5, <2>1, <2>2 DEF Moves
  <2>4. Stream(s)' = Stream(s) /\ Stream(Other(s))' = Stream(Other(s))
    BY <1>1, <2>1, <2>3, QuietStreams
  <2>5. Cause(s)'
    BY <2>1, <2>3, HashesSame, LostCause
  <2>6. Counted(n)
    BY <1>1, <1>3, <2>1 DEF Counted, Steady, SameCount, Met
  <2>7. Staged(n)
    BY <1>1, <1>3, <2>1 DEF Staged, Steady, Met
  <2>8. Heard(s, n)
    <3>1. sess[s].opened = 0
      BY <1>1, <1>3 DEF Counted, Staged
    <3> QED
      BY <1>3, <2>1, <3>1 DEF Heard, Steady, SameCount, Met
  <2> QED
    BY <2>1, <2>3, <2>4, <2>5, <2>6, <2>7, <2>8, SteadyStep DEF Local
<1> QED
  BY <1>5, <1>6, <1>7

\* Records are numbered after the messages of the handshake.
LEMMA CipherCounts ==
    ASSUME CauseInv, NEW s \in Ends, sess[s].state \in {"Greeting", "Established"}
    PROVE  /\ sess[s].cipher = TRUE /\ Met(sess[s])
           /\ Plan(s).legs \in Nat /\ Plan(Other(s)).legs \in Nat
           /\ sess[s].sealed \in Nat /\ sess[s].opened \in Nat
           /\ Snd(s, sess[s]) = Plan(s).legs + sess[s].sealed
           /\ Rcv(s, sess[s]) = Plan(Other(s)).legs + sess[s].opened
<1>1. PICK m : m = sess[s]
  OBVIOUS
<1>2. Counted(m) /\ Staged(m) /\ (Met(m) => m.pattern = sess["I"].pattern)
  BY <1>1, CauseIs
<1>3. m.cipher = TRUE /\ Met(m)
  BY <1>1, <1>2 DEF Staged, Counted
<1>4. /\ m.msgIndex = MessageCount(sess["I"].pattern) /\ m.msgIndex \in {2, 3}
      /\ m.sealed \in Nat /\ m.opened \in Nat
  BY <1>2, <1>3 DEF Counted, MessageCount
<1>5. Plan(s).legs = Turned(s, m.msgIndex) /\ Plan(Other(s)).legs = Turned(Other(s), m.msgIndex)
  BY <1>4, PlanIs
<1>6. Turned(s, m.msgIndex) \in Nat /\ Turned(Other(s), m.msgIndex) \in Nat
  BY <1>4, TurnsAre DEF Ends, Other
<1> QED
  BY <1>1, <1>3, <1>4, <1>5, <1>6 DEF Snd, Rcv

\* A sealed record of s, the first of which is its greeting.
Speaks(s, m, r) ==
    /\ IF m.sealed = 0 THEN /\ r.type = (IF s = "I" THEN "Hello" ELSE "HelloOk")
                            /\ r.len = Floor
       ELSE r.type = "Data" /\ r.len \in 0..Plan(s).best
    /\ s = "I" => m.helloSent = TRUE
    /\ s = "R" => m.greet = "Sent" /\ m.opened > 0

LEMMA SealCause ==
    ASSUME AgreementInv, CauseInv, UNCHANGED <<cfg, pins, changes, closed>>,
           NEW s \in Ends, s \notin closed, sess[s].state \in {"Greeting", "Established"},
           NEW m, DOMAIN m = Fields, m.state = sess[s].state, SameWire(sess[s], m),
           SameCore(sess[s], m), SameCount(sess[s], m), m.hash = sess[s].hash,
           m.maxRecord = sess[s].maxRecord, m.why = sess[s].why,
           NEW r, SendRecord(s, m, r), Speaks(s, m, r)
    PROVE  CauseInv'
<1>1. sess[s].state \in Live
  BY DEF Live
<1>2. PICK S, k, q, n, u : Recorded(S, s, m, r, k, q, n, u)
  BY <1>1, RecordIs
<1>3. Writing(S, s, k, q, n) /\ Holds(m, r, k) /\ IsOf(m, r, u) /\ Pushed(S, s, k, q, n)
  BY <1>2 DEF Recorded, Writing
<1>4. /\ sess[s].cipher = TRUE /\ Met(sess[s])
      /\ Plan(s).legs \in Nat
      /\ sess[s].sealed \in Nat /\ sess[s].opened \in Nat
      /\ Snd(s, sess[s]) = Plan(s).legs + sess[s].sealed
  BY CipherCounts
<1>5. m.cipher = TRUE /\ m.sealed = sess[s].sealed /\ m.opened = sess[s].opened
  BY <1>4 DEF SameCore, SameCount
<1>6. /\ SameWords(m, k) /\ SameCore(m, k) /\ k.opened = m.opened /\ k.state = m.state
      /\ k.sealed = m.sealed + 1 /\ k.maxRecord = m.maxRecord
  BY <1>3, <1>5 DEF Holds
<1>7. SameWords(k, n) /\ SameCore(k, n) /\ SameCount(k, n) /\ n.maxRecord = k.maxRecord
      /\ (n.state = k.state \/ n.state = "Failed")
  BY <1>3 DEF Pushed
<1>8. Steady(sess[s], n)
  BY <1>6, <1>7 DEF Steady, SameWords, SameCore
<1>9. Moves(s, n)
  BY <1>3, WriteMoves
<1>10. Hashes' /\ Planned
  BY <1>8, <1>9, HashesSame
<1>11. /\ n.sealed = sess[s].sealed + 1 /\ n.opened = sess[s].opened /\ n.cipher = TRUE
       /\ n.helloSent = m.helloSent /\ n.greet = m.greet /\ n.peer = sess[s].peer
       /\ n.maxRecord = sess[s].maxRecord /\ (n.state = sess[s].state \/ n.state = "Failed")
  BY <1>5, <1>6, <1>7 DEF SameWords, SameCore, SameCount
<1>12. Local(s, n)
  <2>1. Counted(sess[s]) /\ Staged(sess[s]) /\ Heard(s, sess[s])
    BY CauseIs
  <2>2. n.sealed \in Nat /\ n.sealed > 0
    BY <1>4, <1>11
  <2>3. Counted(n)
    BY <1>4, <1>8, <1>11, <2>1, <2>2 DEF Counted, Steady, Met
  <2>4. Staged(n)
    BY <1>4, <1>8, <1>11, <2>1, <2>2 DEF Staged, Steady, Met
  <2>5. Heard(s, n)
    BY <1>4, <1>5, <1>8, <1>11, <2>1, <2>2 DEF Heard, Speaks, Steady, Met
  <2> QED
    BY <2>3, <2>4, <2>5 DEF Local
<1>13. Snd(s, n) = Snd(s, sess[s]) + 1 /\ Rcv(s, n) = Rcv(s, sess[s]) /\ n.pattern = sess[s].pattern
  <2>1. Snd(s, n) = Turned(s, sess[s].msgIndex) + (sess[s].sealed + 1)
        /\ Rcv(s, n) = Rcv(s, sess[s]) /\ n.pattern = sess[s].pattern
    BY <1>8, <1>11 DEF Snd, Rcv, Steady
  <2>2. Snd(s, sess[s]) = Turned(s, sess[s].msgIndex) + sess[s].sealed
    BY DEF Snd
  <2>3. Turned(s, sess[s].msgIndex) \in Nat
    BY TurnsAre, CauseIs DEF Counted, MessageCount, Ends
  <2> QED
    BY <1>4, <2>1, <2>2, <2>3
<1>14. Fits(Plan(s), s, u, Snd(s, sess[s]))
  <2>1. PICK p, d, l, i : p = Plan(s) /\ d = Snd(s, sess[s]) /\ l = p.legs /\ i = sess[s].sealed
    OBVIOUS
  <2>2. l \in Nat /\ i \in Nat /\ d = l + i
    BY <1>4, <2>1
  <2>3. ~(d < l) /\ d - l = i /\ (d = l <=> i = 0)
    BY <2>2
  <2>4. u.cipher = TRUE /\ u.nonce = i /\ u.generation = i \div RekeyInterval /\ u.body = r
    BY <1>3, <1>5, <2>1 DEF IsOf
  <2>5. IF d = l THEN IsGreeting(s, u) ELSE IsData(p, u)
    BY <1>5, <2>1, <2>3, <2>4 DEF Speaks, IsGreeting, IsData
  <2> QED
    BY <2>1, <2>3, <2>4, <2>5 DEF Fits, InStep
<1> QED
  BY <1>2, <1>10, <1>12, <1>13, <1>14, RecordCause

LEMMA SayHelloCause ==
    ASSUME AgreementInv, CauseInv, NEW s \in Ends, SayHello(s)
    PROVE  CauseInv'
<1>1. PICK m : m = [sess[s] EXCEPT !.helloSent = TRUE]
  OBVIOUS
<1>2. PICK r : r = [type |-> "Hello", len |-> Floor, session |-> sess[s].hash,
                    offer |-> cfg[s].offer]
  OBVIOUS
<1>3. /\ s = "I" /\ sess[s].state = "Greeting" /\ s \notin closed /\ ~sess[s].helloSent
      /\ UNCHANGED <<cfg, pins, changes, closed>> /\ SendRecord(s, m, r)
  BY <1>1, <1>2 DEF SayHello, InLoop
<1>4. DOMAIN sess[s] = Fields
  BY DEF AgreementInv, Shape
<1>5. /\ DOMAIN m = Fields /\ m.state = sess[s].state /\ SameWire(sess[s], m)
      /\ SameCore(sess[s], m) /\ SameCount(sess[s], m) /\ m.hash = sess[s].hash
      /\ m.maxRecord = sess[s].maxRecord /\ m.why = sess[s].why /\ m.helloSent = TRUE
  BY <1>1, <1>4 DEF Fields, SameWire, SameCore, SameCount
<1>6. sess[s].sealed = 0
  BY <1>3, CauseIs DEF Heard, Counted
<1>7. r.type = "Hello" /\ r.len = Floor
  BY <1>2
<1>8. Speaks(s, m, r)
  BY <1>3, <1>5, <1>6, <1>7 DEF Speaks, SameCount
<1> QED
  BY <1>3, <1>5, <1>8, SealCause

LEMMA AnswerHelloCause ==
    ASSUME AgreementInv, CauseInv, NEW s \in Ends, AnswerHello(s)
    PROVE  CauseInv'
<1>1. PICK m : m = [sess[s] EXCEPT !.greet = "Sent"]
  OBVIOUS
<1>2. PICK r : r = [type |-> "HelloOk", len |-> Floor, session |-> sess[s].hash,
                    offer |-> sess[s].negotiated]
  OBVIOUS
<1>3. /\ sess[s].greet = "Due" /\ sess[s].state = "Greeting" /\ s \notin closed
      /\ UNCHANGED <<cfg, pins, changes, closed>> /\ SendRecord(s, m, r)
  BY <1>1, <1>2 DEF AnswerHello, InLoop
<1>4. DOMAIN sess[s] = Fields /\ Greeted
  BY DEF AgreementInv, Shape
<1>5. /\ DOMAIN m = Fields /\ m.state = sess[s].state /\ SameWire(sess[s], m)
      /\ SameCore(sess[s], m) /\ SameCount(sess[s], m) /\ m.hash = sess[s].hash
      /\ m.maxRecord = sess[s].maxRecord /\ m.why = sess[s].why /\ m.greet = "Sent"
  BY <1>1, <1>4 DEF Fields, SameWire, SameCore, SameCount
<1>6. s = "R"
  BY <1>3, <1>4 DEF Greeted, Ends
<1>7. sess[s].sealed = 0 /\ sess[s].opened > 0
  BY <1>3, <1>6, CauseIs DEF Heard, Counted
<1>8. r.type = "HelloOk" /\ r.len = Floor
  BY <1>2
<1>9. Speaks(s, m, r)
  BY <1>5, <1>6, <1>7, <1>8 DEF Speaks, SameCount
<1> QED
  BY <1>3, <1>5, <1>9, SealCause

LEMMA SendDataCause ==
    ASSUME AgreementInv, CauseInv, NEW s \in Ends, SendData(s)
    PROVE  CauseInv'
<1>1. PICK m : m = [sess[s] EXCEPT !.data = @ + 1]
  OBVIOUS
<1>2. PICK l \in {Floor, sess[s].maxRecord} : SendRecord(s, m, [type |-> "Data", len |-> l])
  BY <1>1 DEF SendData
<1>3. PICK r : r = [type |-> "Data", len |-> l]
  OBVIOUS
<1>4. /\ sess[s].state = "Established" /\ s \notin closed
      /\ UNCHANGED <<cfg, pins, changes, closed>> /\ SendRecord(s, m, r)
  BY <1>2, <1>3 DEF SendData, Usable
<1>5. DOMAIN sess[s] = Fields /\ Greeted
  BY DEF AgreementInv, Shape
<1>6. /\ DOMAIN m = Fields /\ m.state = sess[s].state /\ SameWire(sess[s], m)
      /\ SameCore(sess[s], m) /\ SameCount(sess[s], m) /\ m.hash = sess[s].hash
      /\ m.maxRecord = sess[s].maxRecord /\ m.why = sess[s].why
      /\ m.helloSent = sess[s].helloSent /\ m.greet = sess[s].greet
  BY <1>1, <1>5 DEF Fields, SameWire, SameCore, SameCount
<1>7. Legal(sess[s].maxRecord) /\ sess[s].sealed > 0 /\ sess[s].opened > 0
      /\ sess[s].sealed \in Nat /\ Heard(s, sess[s])
  BY <1>4, CauseIs DEF Staged, Counted
<1>8. sess[s].maxRecord = Plan(s).best
  BY <1>4, <1>5, PlanIs DEF Greeted
<1>9. PICK x : x = Plan(s).best
  OBVIOUS
<1>10. l \in 0..x
  <2>1. x \in Nat
    <3>1. Grounds
      BY CauseIs
    <3> QED
      BY <1>9, <3>1, PlanIs DEF Grounds, Agreed, Smaller, Ends
  <2>2. Floor <= x
    BY <1>7, <1>8, <1>9 DEF Legal
  <2> QED
    BY <1>2, <1>8, <1>9, <2>1, <2>2, SecureAssumption
<1>11. r.type = "Data" /\ r.len = l
  BY <1>3
<1>12. m.sealed # 0 /\ m.opened > 0
  BY <1>6, <1>7 DEF SameCount
<1>13. (s = "I" => sess[s].helloSent) /\ (s = "R" => sess[s].greet = "Sent")
  BY <1>7 DEF Heard
<1>14. s = "I" => m.helloSent = TRUE
  BY <1>6, <1>13
<1>15. Speaks(s, m, r)
  BY <1>6, <1>9, <1>10, <1>11, <1>12, <1>13, <1>14 DEF Speaks
<1> QED
  BY <1>4, <1>6, <1>15, SealCause

\* An agreed size that is not legal is one of the two that were offered.
LEMMA SizeIs ==
    ASSUME ~Legal(Agreed(cfg["R"].offer, cfg["I"].offer).rec)
    PROVE  \E e \in Ends : ~Legal(cfg[e].offer.rec)
  BY DEF Agreed, Smaller, Ends

LEMMA AnswerDrainedCause ==
    ASSUME AgreementInv, CauseInv, NEW s \in Ends, AnswerDrained(s)
    PROVE  CauseInv'
<1>1. /\ sess[s].state = "Greeting" /\ sess[s].greet = "Sent" /\ s \notin closed
      /\ UNCHANGED <<cfg, pins, changes, closed>> /\ pipe' = pipe
  BY DEF AnswerDrained, InLoop
<1>2. DOMAIN sess = Ends /\ DOMAIN sess[s] = Fields /\ Greeted /\ sess[s].state \in Live
  BY <1>1 DEF AgreementInv, Shape, Live
<1>3. PICK n :
         /\ sess' = [sess EXCEPT ![s] = n]
         /\ n = Applied(sess[s]) \/ n = [sess[s] EXCEPT !.looping = FALSE]
  BY <1>2 DEF AnswerDrained
<1>4. s = "R" /\ sess[s].negotiated = Agreed(cfg["R"].offer, cfg["I"].offer)
  BY <1>1, <1>2 DEF Greeted, Ends
<1>5. /\ DOMAIN n = Fields /\ SameWire(sess[s], n) /\ SameWords(sess[s], n)
      /\ SameCore(sess[s], n) /\ SameCount(sess[s], n)
      /\ \/ n.state = "Established" /\ Legal(n.maxRecord) /\ n.why = sess[s].why
         \/ n.state = "Failed" /\ n.why = "Size" /\ ~Legal(sess[s].negotiated.rec)
         \/ n.state = "Greeting" /\ n.why = sess[s].why /\ n.maxRecord = sess[s].maxRecord
  <2>1. CASE n = Applied(sess[s])
    BY <1>1, <1>2, <2>1, AppliedIs
  <2>2. CASE n = [sess[s] EXCEPT !.looping = FALSE]
    BY <1>1, <1>2, <2>2 DEF Fields, SameWire, SameWords, SameCore, SameCount
  <2> QED
    BY <1>3, <2>1, <2>2
<1>6. n.state \in Live \cup {"Failed"}
  BY <1>5 DEF Live
<1>7. Moves(s, n)
  BY <1>1, <1>2, <1>3, <1>5, <1>6 DEF Moves
<1>8. Steady(sess[s], n)
  BY <1>5 DEF Steady, SameWords, SameCore
<1>9. Stream(s)' = Stream(s) /\ Stream(Other(s))' = Stream(Other(s))
  BY <1>1, <1>5, <1>7, QuietStreams
<1>10. Cause(s)'
  <2>1. CASE n.why = sess[s].why
    BY <1>7, <1>8, <2>1, HashesSame, LostCause
  <2>2. CASE n.why = "Size" /\ ~Legal(sess[s].negotiated.rec)
    <3>1. \E e \in Ends : ~Legal(cfg[e].offer.rec)
      BY <1>4, <2>2, SizeIs
    <3>2. sess'[s] = n /\ cfg' = cfg
      BY <1>7, MovesIs
    <3> QED
      BY <2>2, <3>1, <3>2 DEF Cause
  <2> QED
    BY <1>5, <2>1, <2>2
<1>11. Local(s, n)
  <2>1. Counted(sess[s]) /\ Staged(sess[s]) /\ Heard(s, sess[s])
    BY CauseIs
  <2>2. sess[s].sealed > 0 /\ sess[s].opened > 0
    BY <1>1, <1>4, <2>1 DEF Heard
  <2> USE DEF SameWords, SameCore, SameCount, Met
  <2>3. Counted(n)
    BY <1>5, <2>1 DEF Counted
  <2>4. Staged(n)
    BY <1>1, <1>5, <2>1, <2>2 DEF Staged
  <2>5. Heard(s, n)
    BY <1>1, <1>4, <1>5, <2>1, <2>2 DEF Heard
  <2> QED
    BY <2>3, <2>4, <2>5 DEF Local
<1> QED
  BY <1>5, <1>7, <1>8, <1>9, <1>10, <1>11, SteadyStep

\* A record of the layer above is the next, and within what was agreed.
LEMMA DataFits ==
    ASSUME AgreementInv, CauseInv, NEW s \in Ends, sess[s].state = "Established", NEW b,
           b # <<>> => Fits(Plan(Other(s)), Other(s), b[1], Rcv(s, sess[s]))
    PROVE  Fit(s, b)
<1> SUFFICES ASSUME b # <<>> PROVE ~(b[1].body.len > Limit(s)) /\ Opens(sess[s], b[1])
  BY DEF Fit
<1>1. PICK p, o, u, c, l, i : p = Plan(o) /\ o = Other(s) /\ u = b[1] /\ c = Rcv(s, sess[s])
                              /\ l = p.legs /\ i = sess[s].opened
  OBVIOUS
<1>2. sess[s].cipher = TRUE /\ l \in Nat /\ i \in Nat /\ c = l + i
  BY <1>1, CipherCounts
<1>3. i > 0
  BY <1>1, CauseIs DEF Staged
<1>4. ~(c < l) /\ c # l /\ c - l = i
  BY <1>2, <1>3
<1>5. InStep(u, i) /\ IsData(p, u)
  BY <1>1, <1>4 DEF Fits
<1>6. Limit(s) = p.best
  <2>1. sess[s].maxRecord = p.best
    BY <1>1, PlanIs DEF AgreementInv, Greeted
  <2> QED
    BY <1>2, <2>1 DEF Limit
<1>7. ~(u.body.len > p.best)
  <2>1. p.best \in Nat
    <3>1. Grounds
      BY CauseIs
    <3> QED
      BY <1>1, <3>1, PlanIs DEF Grounds, Agreed, Smaller, Ends
  <2> QED
    BY <1>5, <2>1 DEF IsData
<1>8. Opens(sess[s], u)
  BY <1>1, <1>2, <1>5 DEF Opens, InStep
<1> QED
  BY <1>1, <1>6, <1>7, <1>8

\* One record more is opened, by a session that is otherwise where it was.
LEMMA OpenedCounts ==
    ASSUME NEW s \in Ends, NEW m, Counted(m), NEW n, n.msgIndex = m.msgIndex,
           n.sealed = m.sealed, n.opened = m.opened + 1
    PROVE  Snd(s, n) = Snd(s, m) /\ Rcv(s, n) = Rcv(s, m) + 1
<1>1. PICK x, y : x = Turned(Other(s), m.msgIndex) /\ y = m.opened
  OBVIOUS
<1>2. x \in Nat /\ y \in Nat
  BY <1>1, TurnsAre DEF Counted, MessageCount, Ends, Other
<1>3. x + (y + 1) = (x + y) + 1
  BY <1>2
<1>4. Rcv(s, n) = x + (y + 1) /\ Rcv(s, m) = x + y /\ Snd(s, n) = Snd(s, m)
  BY <1>1 DEF Snd, Rcv
<1> QED
  BY <1>3, <1>4

LEMMA ReceiveDataCause ==
    ASSUME AgreementInv, CauseInv, NEW s \in Ends, ReceiveData(s)
    PROVE  CauseInv'
<1>1. PICK b : b = Buffered(s)
  OBVIOUS
<1>2. PICK m : m = Received(sess[s], b)
  OBVIOUS
<1>3. /\ sess[s].state = "Established" /\ s \notin closed
      /\ UNCHANGED <<cfg, pins, changes, closed>> /\ Receives(s, m)
  BY <1>1, <1>2 DEF ReceiveData, Usable
<1>4. DOMAIN sess[s] = Fields
  BY DEF AgreementInv, Shape
<1>5. Takes(sess[s], b, m)
  BY <1>2, <1>4, ReceivedIs
<1>6. sess[s].cipher = TRUE /\ sess[s].opened \in Nat /\ Local(s, sess[s])
  BY <1>3, CipherCounts, CauseIs
<1>7. /\ DOMAIN m = Fields /\ SameWords(sess[s], m) /\ m.rx = SubSeq(b, 3, Len(b))
      /\ m.tx = sess[s].tx /\ m.maxRecord = sess[s].maxRecord /\ m.state = "Established"
      /\ SameCore(sess[s], m) /\ m.why = sess[s].why /\ m.sealed = sess[s].sealed
      /\ m.opened = sess[s].opened + 1
  BY <1>3, <1>5, <1>6 DEF Takes
<1>8. sess[s].state \in Live /\ m.state \in Live \cup {"Failed"}
  BY <1>3, <1>7 DEF Live
<1>9. PICK S, z, n : Reading(S, s, m, b, z, n)
  BY <1>1, <1>3, <1>7, <1>8, PullIs
<1>10. Fit(s, b)
  BY <1>3, <1>9, ReadFits, DataFits
<1>11. ASSUME Len(b) > 1, n = m PROVE CauseInv'
  <2>1. Reading(S, s, m, b, z, m)
    BY <1>9, <1>11
  <2>2. Moves(s, m)
    BY <1>3, <2>1, ReadMoves
  <2>3. Steady(sess[s], m)
    BY <1>7 DEF Steady, SameWords, SameCore
  <2>4. Hashes' /\ Planned
    BY <2>2, <2>3, HashesSame
  <2>5. Cause(s)'
    BY <1>7, <2>2, <2>4, LostCause
  <2>6. Local(s, m)
    <3>1. m.opened \in Nat /\ m.opened > 0
      BY <1>6, <1>7
    <3> USE DEF SameWords, SameCore, Met
    <3>2. Counted(m)
      BY <1>6, <1>7, <3>1 DEF Local, Counted
    <3>3. Staged(m)
      BY <1>3, <1>6, <1>7, <3>1 DEF Local, Staged
    <3>4. Heard(s, m)
      BY <1>6, <1>7, <3>1 DEF Local, Heard
    <3> QED
      BY <3>2, <3>3, <3>4 DEF Local
  <2>7. Snd(s, m) = Snd(s, sess[s]) /\ Rcv(s, m) = Rcv(s, sess[s]) + 1
    BY <1>6, <1>7, OpenedCounts DEF Local, SameCore
  <2>8. m.pattern = sess[s].pattern
    BY <2>3 DEF Steady
  <2> QED
    BY <1>3, <1>11, <2>1, <2>4, <2>5, <2>6, <2>7, <2>8, TakeCause
<1> QED
  BY <1>3, <1>9, <1>10, <1>11, PullCause

\* The first sealed record of the other end is its greeting.
LEMMA GreetingFits ==
    ASSUME CauseInv, NEW s \in Ends, sess[s].state = "Greeting", sess[s].opened = 0, NEW b,
           b # <<>> => Fits(Plan(Other(s)), Other(s), b[1], Rcv(s, sess[s]))
    PROVE  /\ Fit(s, b)
           /\ b # <<>> => b[1].body.type = IF s = "I" THEN "HelloOk" ELSE "Hello"
<1> SUFFICES ASSUME b # <<>>
             PROVE  /\ ~(b[1].body.len > Limit(s)) /\ Opens(sess[s], b[1])
                    /\ b[1].body.type = IF s = "I" THEN "HelloOk" ELSE "Hello"
  BY DEF Fit
<1>1. PICK p, o, u, c, l, i : p = Plan(o) /\ o = Other(s) /\ u = b[1] /\ c = Rcv(s, sess[s])
                              /\ l = p.legs /\ i = sess[s].opened
  OBVIOUS
<1>2. sess[s].cipher = TRUE /\ l \in Nat /\ i \in Nat /\ c = l + i
  BY <1>1, CipherCounts
<1>3. ~(c < l) /\ c = l /\ c - l = i
  BY <1>1, <1>2
<1>4. InStep(u, i) /\ IsGreeting(o, u)
  BY <1>1, <1>3 DEF Fits
<1>5. Limit(s) = HandshakeMax
  BY <1>2, CauseIs DEF Limit, Staged
<1>6. ~(u.body.len > HandshakeMax)
  BY <1>4, SecureAssumption DEF IsGreeting
<1>7. Opens(sess[s], u)
  BY <1>1, <1>2, <1>4 DEF Opens, InStep
<1>8. u.body.type = IF s = "I" THEN "HelloOk" ELSE "Hello"
  BY <1>1, <1>4 DEF IsGreeting, Other, Ends
<1> QED
  BY <1>1, <1>5, <1>6, <1>7, <1>8

\* Both ends of a handshake that has ended have the same hash.
LEMMA SameHashes ==
    ASSUME AgreementInv, CauseInv, NEW s \in Ends, sess[s].state = "Greeting",
           IF s = "I" THEN sess["R"].greet = "Sent" ELSE sess["I"].helloSent
    PROVE  sess["I"].hash = sess["R"].hash
<1>1. CASE s = "I"
  BY <1>1 DEF AgreementInv, Greeted
<1>2. CASE s = "R"
  <2>1. "I" \in Ends /\ "R" \in Ends
    BY DEF Ends
  <2>2. Counted(sess["I"]) /\ Heard("I", sess["I"]) /\ Counted(sess["R"]) /\ Staged(sess["R"])
        /\ Hashes
    BY <2>1, CauseIs
  <2>3. sess["R"].cipher /\ Met(sess["R"])
    BY <1>2, <2>2 DEF Staged
  <2>4. sess["I"].sealed > 0 /\ sess["I"].sealed # 0
    BY <1>2, <2>2 DEF Heard
  <2>5. sess["I"].cipher
    BY <2>2, <2>4 DEF Counted
  <2>6. /\ sess["I"].msgIndex = MessageCount(sess["I"].pattern)
        /\ sess["R"].msgIndex = MessageCount(sess["R"].pattern)
        /\ sess["I"].msgIndex > 0 /\ sess["R"].msgIndex > 0
    BY <2>2, <2>3, <2>5 DEF Counted, MessageCount
  <2>7. sess["R"].pattern = sess["I"].pattern /\ Met(sess["I"])
    BY <2>2, <2>3, <2>6 DEF Hashes, Counted
  <2>8. Key = "Current"
    BY <2>2, <2>6 DEF Hashes, Key
  <2> QED
    BY <2>2, <2>3, <2>6, <2>7, <2>8 DEF Hashes
<1> QED
  BY <1>1, <1>2 DEF Ends

\* The session n has taken the greeting that m was waiting for.
Hears(m, n) ==
    /\ SameCore(m, n) /\ n.hash = m.hash /\ n.helloSent = m.helloSent
    /\ n.sealed = m.sealed /\ n.opened = m.opened + 1

LEMMA HearsLocal ==
    ASSUME NEW s \in Ends, NEW m, Local(s, m), m.state = "Greeting", m.greet = "No", m.opened = 0,
           s = "I" => m.helloSent, NEW n, Hears(m, n),
           \/ n.state = "Failed" /\ n.greet = "No"
           \/ s = "I" /\ n.state = "Established" /\ Legal(n.maxRecord)
           \/ /\ s = "R" /\ n.state = "Greeting" /\ n.greet = "Due"
              /\ n.maxRecord = m.maxRecord
    PROVE  Local(s, n)
<1>1. n.opened = 1 /\ n.opened > 0 /\ n.opened \in Nat
  BY DEF Hears
<1>2. m.cipher = TRUE /\ m.maxRecord = HandshakeMax /\ (s = "I" => m.sealed > 0) /\ m.sealed \in Nat
  BY DEF Local, Staged, Counted, Heard
<1> USE DEF Hears, SameCore, Met
<1>3. Counted(n)
  BY <1>1, <1>2 DEF Local, Counted
<1>4. Staged(n)
  BY <1>1, <1>2 DEF Local, Staged, Ends
<1>5. Heard(s, n)
  BY <1>1, <1>2 DEF Local, Heard, Ends
<1> QED
  BY <1>3, <1>4, <1>5 DEF Local

\* What a greeting brings about, once its type and its session are right.
Greets(s, r, m) ==
    \/ m.state = "Failed" /\ m.greet = "No" /\ m.why = "Size" /\ ~Legal(r.offer.rec)
    \/ s = "I" /\ m.state = "Established" /\ Legal(m.maxRecord) /\ m.why = sess[s].why
    \/ /\ s = "R" /\ m.state = "Greeting" /\ m.greet = "Due" /\ m.maxRecord = sess[s].maxRecord
       /\ m.why = sess[s].why

LEMMA HearHelloIs ==
    ASSUME AgreementInv, CauseInv, NEW s \in Ends, HearHello(s), NEW b, b = Buffered(s),
           NEW r, r = b[1].body
    PROVE  \E m :
              /\ Receives(s, m) /\ DOMAIN m = Fields /\ m.rx = SubSeq(b, 3, Len(b))
              /\ m.tx = sess[s].tx /\ m.state \in Live \cup {"Failed"}
              /\ Hears(sess[s], m)
              /\ \/ r.type # (IF s = "I" THEN "HelloOk" ELSE "Hello")
                 \/ r.session # sess[s].hash
                 \/ Greets(s, r, m)
<1>1. PICK k : k = Received(sess[s], b)
  OBVIOUS
<1>2. DOMAIN sess[s] = Fields
  BY DEF AgreementInv, Shape
<1>3. sess[s].state = "Greeting" /\ sess[s].greet = "No" /\ sess[s].cipher = TRUE
  <2>1. sess[s].state = "Greeting" /\ sess[s].greet = "No"
    BY DEF HearHello, InLoop
  <2> QED
    BY <2>1, CipherCounts
<1>4. Takes(sess[s], b, k)
  BY <1>1, <1>2, ReceivedIs
<1>5. /\ DOMAIN k = Fields /\ SameWords(sess[s], k) /\ k.rx = SubSeq(b, 3, Len(b))
      /\ k.tx = sess[s].tx /\ k.maxRecord = sess[s].maxRecord /\ k.state = "Greeting"
      /\ SameCore(sess[s], k) /\ k.why = sess[s].why /\ k.sealed = sess[s].sealed
      /\ k.opened = sess[s].opened + 1
  BY <1>3, <1>4 DEF Takes
<1>6. PICK x : x = [k EXCEPT !.negotiated = Settled(s, r.offer)]
  OBVIOUS
<1>7. /\ DOMAIN x = Fields /\ SameWire(k, x) /\ SameCore(k, x) /\ SameCount(k, x)
      /\ x.state = k.state /\ x.hash = k.hash /\ x.greet = k.greet
      /\ x.helloSent = k.helloSent /\ x.maxRecord = k.maxRecord /\ x.why = k.why
      /\ x.negotiated = Settled(s, r.offer)
  BY <1>5, <1>6 DEF Fields, SameWire, SameCore, SameCount
<1>8. PICK m :
         /\ Receives(s, m)
         /\ \/ /\ \E why : m = Failed(k, why)
               /\ \/ r.type # (IF s = "I" THEN "HelloOk" ELSE "Hello")
                  \/ r.session # sess[s].hash
            \/ m = Failed(k, "Size") /\ ~Legal(r.offer.rec)
            \/ s = "I" /\ m = Applied(x) /\ Legal(r.offer.rec)
            \/ s = "R" /\ m = [x EXCEPT !.greet = "Due"]
  BY <1>1, <1>6 DEF HearHello, Ends
<1>9. CASE \E why : m = Failed(k, why)
  <2>1. PICK why : m = Failed(k, why)
    BY <1>9
  <2>2. /\ DOMAIN m = Fields /\ SameWords(k, m) /\ SameWire(k, m)
        /\ SameCore(k, m) /\ SameCount(k, m)
        /\ m.maxRecord = k.maxRecord /\ m.why = why /\ m.state = "Failed"
    BY <1>5, <2>1, FailedIs
  <2>3. Hears(sess[s], m) /\ m.rx = SubSeq(b, 3, Len(b)) /\ m.tx = sess[s].tx /\ m.greet = "No"
    BY <1>3, <1>5, <2>2 DEF Hears, SameWords, SameWire, SameCore, SameCount
  <2> QED
    <3>1. CASE r.type # (IF s = "I" THEN "HelloOk" ELSE "Hello") \/ r.session # sess[s].hash
      BY <1>8, <2>2, <2>3, <3>1
    <3>2. CASE m = Failed(k, "Size") /\ ~Legal(r.offer.rec)
      <4>1. m.why = "Size"
        BY <1>5, <3>2, FailedIs
      <4> QED
        BY <1>8, <2>2, <2>3, <3>2, <4>1 DEF Greets
    <3>3. CASE s = "I" /\ m = Applied(x) /\ Legal(r.offer.rec)
      <4>1. x.negotiated = r.offer
        BY <1>7, <3>3 DEF Settled
      <4>2. m.state = "Established"
        BY <1>5, <1>7, <3>3, <4>1, AppliedIs
      <4> QED
        BY <2>2, <4>2
    <3>4. CASE s = "R" /\ m = [x EXCEPT !.greet = "Due"]
      <4>1. m.greet = "Due"
        BY <1>7, <3>4 DEF Fields
      <4> QED
        BY <2>3, <4>1
    <3> QED
      BY <1>8, <3>1, <3>2, <3>3, <3>4
<1>10. CASE s = "I" /\ m = Applied(x) /\ Legal(r.offer.rec)
  <2>1. x.negotiated = r.offer
    BY <1>7, <1>10 DEF Settled
  <2>2. /\ DOMAIN m = Fields /\ SameWords(x, m) /\ SameWire(x, m)
        /\ SameCore(x, m) /\ SameCount(x, m)
        /\ m.state = "Established" /\ m.maxRecord = r.offer.rec /\ m.why = x.why
    BY <1>5, <1>7, <1>10, <2>1, AppliedIs
  <2>3. Hears(sess[s], m) /\ m.rx = SubSeq(b, 3, Len(b)) /\ m.tx = sess[s].tx
    BY <1>5, <1>7, <2>2 DEF Hears, SameWords, SameWire, SameCore, SameCount
  <2>4. Greets(s, r, m)
    BY <1>5, <1>7, <1>10, <2>2 DEF Greets
  <2> QED
    BY <1>8, <2>2, <2>3, <2>4 DEF Live
<1>11. CASE s = "R" /\ m = [x EXCEPT !.greet = "Due"]
  <2>1. /\ DOMAIN m = Fields /\ SameWire(x, m) /\ SameCore(x, m) /\ SameCount(x, m)
        /\ m.state = x.state /\ m.greet = "Due" /\ m.hash = x.hash /\ m.helloSent = x.helloSent
        /\ m.maxRecord = x.maxRecord /\ m.why = x.why
    BY <1>7, <1>11 DEF Fields, SameWire, SameCore, SameCount
  <2>2. Hears(sess[s], m) /\ m.rx = SubSeq(b, 3, Len(b)) /\ m.tx = sess[s].tx
    BY <1>5, <1>7, <2>1 DEF Hears, SameWords, SameWire, SameCore, SameCount
  <2>3. Greets(s, r, m)
    BY <1>5, <1>7, <1>11, <2>1 DEF Greets
  <2> QED
    BY <1>5, <1>7, <1>8, <2>1, <2>2, <2>3 DEF Live
<1> QED
  BY <1>8, <1>9, <1>10, <1>11

LEMMA HearHelloCause ==
    ASSUME AgreementInv, CauseInv, NEW s \in Ends, HearHello(s)
    PROVE  CauseInv'
<1>1. PICK b, r : b = Buffered(s) /\ r = b[1].body
  OBVIOUS
<1>2. PICK m :
         /\ Receives(s, m) /\ DOMAIN m = Fields /\ m.rx = SubSeq(b, 3, Len(b))
         /\ m.tx = sess[s].tx /\ m.state \in Live \cup {"Failed"}
         /\ Hears(sess[s], m)
         /\ \/ r.type # (IF s = "I" THEN "HelloOk" ELSE "Hello")
            \/ r.session # sess[s].hash
            \/ Greets(s, r, m)
  BY <1>1, HearHelloIs
<1>3. /\ s \notin closed /\ UNCHANGED <<cfg, pins, changes, closed>>
      /\ sess[s].state = "Greeting" /\ sess[s].greet = "No" /\ (s = "I" => sess[s].helloSent)
  BY DEF HearHello, InLoop
<1>4. sess[s].opened = 0 /\ Local(s, sess[s]) /\ Counted(sess[s])
  BY <1>3, CauseIs DEF Heard, Ends
<1>5. sess[s].state \in Live
  BY <1>3 DEF Live
<1>6. PICK S, z, n : Reading(S, s, m, b, z, n)
  BY <1>1, <1>2, <1>3, <1>5, PullIs
<1>7. Fit(s, b) /\ (b # <<>> => b[1].body.type = IF s = "I" THEN "HelloOk" ELSE "Hello")
  BY <1>3, <1>4, <1>6, ReadFits, GreetingFits
<1>8. ASSUME Len(b) > 1, n = m PROVE CauseInv'
  <2>1. Reading(S, s, m, b, z, m) /\ b # <<>>
    BY <1>6, <1>8, EmptySeq
  <2>2. Moves(s, m)
    BY <1>3, <2>1, ReadMoves
  <2>3. r.type = IF s = "I" THEN "HelloOk" ELSE "Hello"
    BY <1>1, <1>7, <2>1
  <2>4. Says(Other(s), b[1])
    BY <1>8, <2>1, ReadSays
  <2>5. /\ s = "I" => /\ sess["R"].greet = "Sent" /\ r.session = sess["R"].hash
                      /\ r.offer = sess["R"].negotiated
        /\ s = "R" => /\ sess["I"].helloSent /\ r.session = sess["I"].hash
                      /\ r.offer = cfg["I"].offer
    BY <1>1, <2>3, <2>4 DEF Says, Other
  <2>6. r.session = sess[s].hash
    <3>1. sess["I"].hash = sess["R"].hash
      BY <1>3, <2>5, SameHashes DEF Ends
    <3> QED
      BY <2>5, <3>1 DEF Ends
  <2>7. Greets(s, r, m)
    BY <1>2, <2>3, <2>6
  <2>8. Steady(sess[s], m) /\ m.pattern = sess[s].pattern
    BY <1>2 DEF Steady, Hears, SameCore
  <2>9. Hashes' /\ Planned
    BY <2>2, <2>8, HashesSame
  <2>10. Cause(s)'
    <3>1. CASE m.why = sess[s].why
      BY <2>2, <2>9, <3>1, LostCause
    <3>2. CASE m.why = "Size" /\ ~Legal(r.offer.rec)
      <4>1. \E e \in Ends : ~Legal(cfg[e].offer.rec)
        <5>1. CASE s = "I"
          <6>1. r.offer = Agreed(cfg["R"].offer, cfg["I"].offer)
            BY <2>5, <5>1 DEF AgreementInv, Greeted
          <6> QED
            BY <3>2, <6>1, SizeIs
        <5>2. CASE s = "R"
          BY <2>5, <3>2, <5>2 DEF Ends
        <5> QED
          BY <5>1, <5>2 DEF Ends
      <4>2. sess'[s] = m /\ cfg' = cfg
        BY <2>2, MovesIs
      <4> QED
        BY <3>2, <4>1, <4>2 DEF Cause
    <3> QED
      BY <2>7, <3>1, <3>2 DEF Greets
  <2>11. Local(s, m)
    BY <1>2, <1>3, <1>4, <2>7, HearsLocal DEF Greets
  <2>12. Snd(s, m) = Snd(s, sess[s]) /\ Rcv(s, m) = Rcv(s, sess[s]) + 1
    BY <1>2, <1>4, OpenedCounts DEF Hears, SameCore
  <2> QED
    BY <1>3, <1>8, <2>1, <2>8, <2>9, <2>10, <2>11, <2>12, TakeCause
<1> QED
  BY <1>3, <1>6, <1>7, <1>8, PullCause

\* No session moves.
LEMMA RestCause ==
    ASSUME CauseInv, UNCHANGED <<cfg, sess>>, closed \subseteq closed',
           changes > 0 => changes' > 0, Grounds', \A s \in Ends : FlowInv(s)'
    PROVE  CauseInv'
<1>1. Key' = Key
  BY DEF Key, Met
<1>3. Marks(Key)' = Marks(Key) /\ Marks("Current")' = Marks("Current")
  <2>1. Pre("I")' = Pre("I") /\ Pre("R")' = Pre("R")
    BY PlanSame
  <2> QED
    BY <1>1, <2>1 DEF Marks
<1>4. Hashes'
  BY <1>1, <1>3 DEF CauseInv, Hashes, Met
<1>5. ASSUME NEW s \in Ends PROVE Local(s, sess[s])' /\ Cause(s)'
  <2>1. Local(s, sess[s]) /\ Cause(s)
    BY DEF CauseInv
  <2>2. Cause(s)'
    BY <1>1, <2>1, CauseKept
  <2> QED
    BY <2>1, <2>2
<1> QED
  BY <1>4, <1>5 DEF CauseInv

LEMMA RestPlans ==
    ASSUME UNCHANGED <<cfg, sess>>
    PROVE  Planned
<1>1. Key' = Key
  BY DEF Key, Met
<1> QED
  BY <1>1, KeyPlans

\* The peer store changes, or nothing does.
LEMMA StoreCause ==
    ASSUME CauseInv, UNCHANGED <<cfg, sess, pipe, closed>>, Grounds', changes > 0 => changes' > 0
    PROVE  CauseInv'
<1>1. Planned
  BY RestPlans
<1>2. ASSUME NEW s \in Ends PROVE FlowInv(s)'
  <2>1. PICK p, q, k, c, d, h :
           /\ p = Plan(s) /\ q = Stream(s) /\ k = Skew(s)
           /\ c = Rcv(Other(s), sess[Other(s)]) /\ d = Snd(s, sess[s]) /\ h = Pre(s)
    OBVIOUS
  <2>2. /\ p = Plan(s)' /\ q = Stream(s)' /\ k = Skew(s)'
        /\ c = Rcv(Other(s), sess'[Other(s)]) /\ d = Snd(s, sess'[s]) /\ h = Pre(s)'
    BY <1>1, <2>1 DEF Planned, Stream, Unwritten, Skew, Unmet
  <2>3. Reads(Other(s))' = Reads(Other(s)) /\ Writes(s)' = Writes(s)
    BY DEF Reads, Writes
  <2>4. FlowInv(s)
    BY DEF CauseInv
  <2>5. Reads(Other(s)) =>
           Flow(p, s, q, k, c, d) /\ Opening(q, k, h) /\ (Writes(s) => Full(q, k, c, d))
    BY <2>1, <2>4, FlowWas
  <2> QED
    BY <2>2, <2>3, <2>5, FlowIs
<1> QED
  BY <1>2, RestCause

LEMMA PinCause ==
    ASSUME CauseInv, NEW s \in Ends, Pin(s) \/ Unpin(s)
    PROVE  CauseInv'
<1>1. /\ UNCHANGED <<cfg, sess, pipe, closed>> /\ changes' = changes + 1
      /\ pins' = [pins EXCEPT ![s] = "Current"] \/ pins' = [pins EXCEPT ![s] = "None"]
  BY DEF Pin, Unpin
<1>2. Grounds
  BY DEF CauseInv
<1>3. changes' \in Nat /\ changes' > 0
  BY <1>1, <1>2 DEF Grounds
<1>4. pins' \in [Ends -> Pins]
  BY <1>1, <1>2 DEF Grounds, Pins
<1>5. Grounds'
  BY <1>1, <1>2, <1>3, <1>4 DEF Grounds
<1> QED
  BY <1>1, <1>3, <1>5, StoreCause

\* The owner of s drops it, or s is gone with what it had on the way.
LEMMA CloseCause ==
    ASSUME AgreementInv, CauseInv, NEW s \in Ends, s \notin closed, closed' = closed \cup {s},
           UNCHANGED <<cfg, pins, changes, sess>>,
           pipe' \in {pipe, [pipe EXCEPT ![s] = <<>>]}
    PROVE  CauseInv'
<1>1. PICK o \in Ends : o = Other(s) /\ Other(o) = s /\ Ends = {s, o} /\ o # s
  BY OthersAre
<1>2. DOMAIN sess = Ends /\ DOMAIN pipe = Ends /\ FlowInv(s) /\ Grounds
      /\ Counted(sess[s]) /\ Counted(sess[o])
  BY <1>1, CauseIs DEF AgreementInv, Shape
<1>3. pipe'[s] = pipe[s] \/ pipe'[s] = <<>>
  BY <1>2
<1>4. PICK S : Units(S)
  BY DEF AgreementInv, Shape, Units
<1>5. PICK a \in Seq(S), b \in Seq(S), e \in Seq(S) :
         a = sess[o].rx /\ b = pipe[s] /\ e = sess[s].tx
  BY <1>4 DEF Units
<1>6. FlowInv(o)'
  BY <1>1 DEF FlowInv, Reads
<1>7. Stream(s) = Row(a, b, e)
  BY <1>1, <1>5 DEF Stream, Unwritten, Row
<1>8. PICK t : t = Stream(s)'
  OBVIOUS
<1>9. t = a \/ t = Pair(a, b)
  <2>1. Unwritten(s)' = <<>>
    BY DEF Unwritten
  <2>2. t = a \o (pipe'[s] \o <<>>)
    BY <1>1, <1>5, <1>8, <2>1 DEF Stream
  <2>3. b \o <<>> = b /\ <<>> \o <<>> = <<>> /\ a \o <<>> = a
    BY ConcatEmptySeq
  <2> QED
    BY <1>3, <1>5, <2>2, <2>3 DEF Pair
<1>10. \E f \in Seq(S) : t \in Seq(S) /\ Stream(s) = Pair(t, f)
  <2>1. Pair(a, b) \in Seq(S) /\ Pair(b, e) \in Seq(S)
        /\ Pair(a, Pair(b, e)) = Pair(Pair(a, b), e)
    BY Regroup
  <2>2. Stream(s) = Pair(a, Pair(b, e))
    BY <1>7 DEF Row, Pair
  <2> QED
    BY <1>9, <2>1, <2>2
<1>11. PICK f \in Seq(S) : t \in Seq(S) /\ Stream(s) = Pair(t, f)
  BY <1>10
<1>12. PICK p, k, c, d, h :
          /\ p = Plan(s) /\ k = Skew(s)
          /\ c = Rcv(o, sess[o]) /\ d = Snd(s, sess[s]) /\ h = Pre(s)
  OBVIOUS
<1>13. c \in Nat /\ d \in Nat /\ k \in {0, 1}
  BY <1>2, <1>12, CountsAre DEF Skew
<1>14. k + 2 * (d - c) \in Int
  BY <1>13
<1>15. k = Skew(s)' /\ Reads(o)' = Reads(o) /\ ~Writes(s)'
  BY <1>1, <1>12 DEF Skew, Unmet, Reads, Writes
<1>16. p = Plan(s)' /\ h = Pre(s)' /\ c = Rcv(o, sess'[o]) /\ d = Snd(s, sess'[s])
  BY <1>12, RestPlans DEF Planned
<1>17. Reads(o) => Flow(p, s, Pair(t, f), k, c, d) /\ Opening(Pair(t, f), k, h)
  BY <1>1, <1>2, <1>11, <1>12, FlowWas
<1>18. Reads(o) => Flow(p, s, t, k, c, d) /\ Opening(t, k, h)
  BY <1>11, <1>14, <1>17, FlowPrefix
<1>19. FlowInv(s)'
  BY <1>1, <1>8, <1>15, <1>16, <1>18, FlowIs
<1>20. Grounds'
  BY <1>2 DEF Grounds
<1> QED
  BY <1>1, <1>6, <1>19, <1>20, RestCause

-------------------------------------------------------------------------------
(* Beginnings *)

\* A step of the session of s alone, wherever it is.
LEMMA EndCause ==
    ASSUME CauseInv, NEW s \in Ends, NEW n, sess'[s] = n, sess'[Other(s)] = sess[Other(s)],
           UNCHANGED <<cfg, pins, changes, closed>>, Hashes', Grounds',
           Key = "Replaced" => Key' = "Replaced",
           Local(s, n), FlowInv(s)', FlowInv(Other(s))', Cause(s)'
    PROVE  CauseInv'
<1>1. PICK o \in Ends : o = Other(s) /\ Ends = {s, o}
  BY OthersAre
<1>2. Local(o, sess[o]) /\ Cause(o)
  BY CauseIs
<1>3. sess'[o] = sess[o] /\ sess'[o].why = sess[o].why
  BY <1>1
<1>4. Cause(o)'
  BY <1>2, <1>3, CauseKept
<1>5. \A e \in Ends : Local(e, sess[e])' /\ FlowInv(e)' /\ Cause(e)'
  BY <1>1, <1>2, <1>3, <1>4
<1> QED
  BY <1>5 DEF CauseInv

\* Nobody who has not met the other end has sent or read a record.
LEMMA UnmetCounts ==
    ASSUME NEW s \in Ends, NEW m, Counted(m), ~Met(m)
    PROVE  /\ m.msgIndex = 0 /\ m.sealed = 0 /\ m.opened = 0 /\ ~m.cipher
           /\ Snd(s, m) = 0 /\ Rcv(s, m) = 0
<1>1. m.msgIndex = 0
  BY DEF Counted, MessageCount
<1>2. ~m.cipher
  BY <1>1 DEF Counted, MessageCount
<1>3. m.sealed = 0 /\ m.opened = 0
  BY <1>2 DEF Counted
<1>4. Snd(s, m) = 0 /\ Rcv(s, m) = 0
  BY <1>1, <1>3, TurnsAre DEF Snd, Rcv, Ends, Other
<1> QED
  BY <1>1, <1>2, <1>3, <1>4

\* begin() when the other end is gone.
LEMMA BeginLostCause ==
    ASSUME AgreementInv, CauseInv, NEW s \in Ends, Begin(s), Other(s) \in closed
    PROVE  CauseInv'
<1>1. PICK o \in Ends : o = Other(s) /\ Other(o) = s /\ Ends = {s, o} /\ o # s
  BY OthersAre
<1>2. DOMAIN sess = Ends /\ DOMAIN sess[s] = Fields /\ Shape
  BY DEF AgreementInv, Shape
<1>3. PICK n : n = Failed(sess[s], "Lost")
  OBVIOUS
<1>4. sess[s].state = "Idle" /\ sess' = [sess EXCEPT ![s] = n] /\ pipe' = pipe
      /\ UNCHANGED <<cfg, pins, changes, closed>>
  BY <1>2, <1>3 DEF Begin
<1>5. /\ DOMAIN n = Fields /\ SameWords(sess[s], n) /\ SameWire(sess[s], n)
      /\ SameCore(sess[s], n) /\ SameCount(sess[s], n)
      /\ n.maxRecord = sess[s].maxRecord /\ n.why = "Lost" /\ n.state = "Failed"
  BY <1>2, <1>3, <1>4, FailedIs
<1>6. sess'[s] = n /\ sess'[o] = sess[o]
  BY <1>1, <1>2, <1>4, <1>5, BecomesIs
<1>7. Local(s, n) /\ Steady(sess[s], n)
  BY <1>5, CauseIs, LikeLocal DEF Like
<1>8. FlowInv(s)' /\ FlowInv(o)'
  BY <1>1, <1>4, <1>5, <1>6 DEF FlowInv, Reads
<1>9. Hashes' /\ Key' = Key /\ sess'["I"].pattern = sess["I"].pattern
  BY <1>1, <1>4, <1>5, <1>6, <1>7, CauseIs, SteadyHashes
<1>10. Grounds'
  BY <1>4, <1>9, CauseIs DEF Grounds
<1>11. Cause(s)'
  BY <1>4, <1>5, <1>6 DEF Cause
<1> QED
  BY <1>1, <1>4, <1>6, <1>7, <1>8, <1>9, <1>10, <1>11, EndCause

\* The preamble of s is all that it has sent.
LEMMA FlowOpens ==
    ASSUME NEW p, NEW s, NEW u
    PROVE  /\ Flow(p, s, <<u>>, 1, 0, 0) /\ Full(<<u>>, 1, 0, 0) /\ Opening(<<u>>, 1, u)
<1>1. <<u>> \in Seq({u}) /\ Len(<<u>>) = 1 /\ <<u>>[1] = u
  OBVIOUS
<1>2. PICK q \in Seq({u}) : q = <<u>> /\ Len(q) = 1 /\ q[1] = u
  BY <1>1
<1>3. Flow(p, s, q, 1, 0, 0)
  <2>1. Len(q) <= 1 /\ 1 \in {0, 1} /\ 0 \in Nat
    BY <1>2
  <2> QED
    BY <2>1, FlowEmpty
<1>4. Full(q, 1, 0, 0)
  <2>1. 1 = 1 + 2 * (0 - 0)
    OBVIOUS
  <2> QED
    BY <1>2, <2>1 DEF Full
<1>5. Opening(q, 1, u)
  BY <1>2 DEF Opening
<1> QED
  BY <1>2, <1>3, <1>4, <1>5

\* The stream of o, when a step of s changes at most what nobody has sent.
LEMMA BareFlow ==
    ASSUME CauseInv, AgreementInv, NEW o \in Ends, Reads(Other(o)), Stream(o)' = Stream(o),
           Skew(o)' = Skew(o), Pre(o)' = Pre(o), Writes(o)' => Writes(o),
           Snd(o, sess'[o]) = Snd(o, sess[o]),
           Rcv(Other(o), sess'[Other(o)]) = Rcv(Other(o), sess[Other(o)]),
           Snd(o, sess[o]) = 0 \/ Plan(o)' = Plan(o)
    PROVE  FlowInv(o)' /\ (Snd(o, sess[o]) = 0 => Rcv(Other(o), sess[Other(o)]) = 0)
<1>1. PICK p, q, k, c, d, h, r :
         /\ p = Plan(o) /\ q = Stream(o) /\ k = Skew(o) /\ r = Plan(o)'
         /\ c = Rcv(Other(o), sess[Other(o)]) /\ d = Snd(o, sess[o]) /\ h = Pre(o)
  OBVIOUS
<1>2. c \in Nat /\ d \in Nat /\ k \in {0, 1}
  BY <1>1, CauseIs, CountsAre, OthersAre DEF Skew
<1>3. Flow(p, o, q, k, c, d) /\ Opening(q, k, h) /\ (Writes(o) => Full(q, k, c, d))
  BY <1>1, CauseIs, FlowWas
<1>4. PICK S : q \in Seq(S)
  <2>1. PICK S : Units(S)
    BY DEF AgreementInv, Shape, Units
  <2> QED
    BY <1>1, <2>1, StreamTyped
<1>5. d = 0 => c = 0 /\ Len(q) <= k
  <2>1. Len(q) \in Nat /\ Len(q) <= k + 2 * (d - c)
    BY <1>3, <1>4, LenIs DEF Flow
  <2> QED
    BY <1>2, <2>1
<1>6. Flow(r, o, q, k, c, d)
  <2>1. CASE d = 0
    <3>1. Flow(r, o, q, k, c, c)
      BY <1>2, <1>4, <1>5, <2>1, FlowEmpty
    <3> QED
      BY <1>5, <2>1, <3>1
  <2>2. CASE Plan(o)' = Plan(o)
    BY <1>1, <1>3, <2>2
  <2> QED
    BY <1>1, <2>1, <2>2
<1>7. /\ r = Plan(o)' /\ q = Stream(o)' /\ k = Skew(o)' /\ h = Pre(o)'
      /\ c = Rcv(Other(o), sess'[Other(o)]) /\ d = Snd(o, sess'[o])
  BY <1>1
<1>8. FlowInv(o)'
  BY <1>3, <1>6, <1>7, FlowIs
<1> QED
  BY <1>1, <1>5, <1>8

\* A session that has not met the other end and goes on without meeting it.
LEMMA UnmetHashes ==
    ASSUME CauseInv, NEW s \in Ends, NEW n, sess'[s] = n, sess'[Other(s)] = sess[Other(s)],
           cfg' = cfg, sess[s].state = "Idle", n.state # "Idle", n.hash = sess[s].hash,
           n.msgIndex = sess[s].msgIndex
    PROVE  Hashes' /\ Key' = Key /\ ~Met(n) /\ (s = "I" => ~Met(sess["R"]))
<1>1. ~Met(sess[s]) /\ ~Met(n) /\ Hashes
  BY CauseIs DEF Staged, Met
<1>2. CASE s = "I"
  <2>1. sess'["I"] = n /\ sess'["R"] = sess["R"]
    BY <1>2 DEF Other
  <2>2. ~Met(sess["R"]) /\ sess["R"].msgIndex = 0
    BY <1>1, <1>2 DEF Hashes
  <2>3. Key' = "Current" /\ Key = "Current"
    BY <1>1, <1>2, <2>1 DEF Key
  <2>4. Hashes'
    BY <1>1, <2>1, <2>2 DEF Hashes
  <2> QED
    BY <1>1, <2>2, <2>3, <2>4
<1>3. CASE s = "R"
  <2>1. sess'["R"] = n /\ sess'["I"] = sess["I"]
    BY <1>3 DEF Other
  <2>2. Key' = Key
    BY <2>1 DEF Key
  <2>3. Marks(Key)' = Marks(Key)
    <3>1. Pre("I")' = Pre("I") /\ Pre("R")' = Pre("R")
      BY <2>1, PlanSame
    <3> QED
      BY <2>1, <2>2, <3>1 DEF Marks
  <2>4. Hashes'
    BY <1>1, <1>3, <2>1, <2>2, <2>3 DEF Hashes
  <2> QED
    BY <1>1, <1>3, <2>2, <2>4
<1> QED
  BY <1>2, <1>3 DEF Ends

\* begin() with a preamble to send.
LEMMA BeginSentCause ==
    ASSUME AgreementInv, CauseInv, NEW s \in Ends, Begin(s), Other(s) \notin closed
    PROVE  CauseInv'
<1>1. PICK o \in Ends : o = Other(s) /\ Other(o) = s /\ Ends = {s, o} /\ o # s
  BY OthersAre
<1>2. DOMAIN sess = Ends /\ DOMAIN pipe = Ends /\ DOMAIN sess[s] = Fields /\ Shape
      /\ Early(s) /\ Early(o)
  BY <1>1 DEF AgreementInv, Shape
<1>3. PICK ik : ik = (s = "I" /\ cfg[s].expects /\ pins[s] # "None")
  OBVIOUS
<1>4. PICK n : n = [sess[s] EXCEPT !.state = "AwaitingPreamble",
                                   !.pattern = IF ik THEN "IK" ELSE "XX"]
  OBVIOUS
<1>5. PICK u : u = [type |-> "Preamble", major |-> cfg[s].major, ik |-> ik]
  OBVIOUS
<1>6. sess[s].state = "Idle" /\ s \notin closed /\ UNCHANGED <<cfg, pins, changes, closed>>
      /\ sess' = [sess EXCEPT ![s] = n] /\ pipe' = [pipe EXCEPT ![s] = <<u>>]
  BY <1>2, <1>3, <1>4, <1>5 DEF Begin
<1>7. /\ DOMAIN n = Fields /\ SameWords(sess[s], n) /\ SameWire(sess[s], n)
      /\ n.state = "AwaitingPreamble" /\ n.pattern = (IF ik THEN "IK" ELSE "XX")
      /\ n.msgIndex = sess[s].msgIndex /\ n.peer = sess[s].peer /\ n.cipher = sess[s].cipher
      /\ SameCount(sess[s], n) /\ n.why = sess[s].why
  BY <1>2, <1>4 DEF Fields, SameWords, SameWire, SameCount
<1>8. sess'[s] = n /\ sess'[o] = sess[o]
  BY <1>1, <1>2, <1>6, <1>7, BecomesIs
<1>9. pipe'[s] = <<u>> /\ pipe'[o] = pipe[o]
  BY <1>1, <1>2, <1>6
<1>10. Hashes' /\ Key' = Key /\ ~Met(n) /\ (s = "I" => ~Met(sess["R"]))
  BY <1>1, <1>6, <1>7, <1>8, UnmetHashes DEF SameWords
<1>11. Counted(sess[s]) /\ Staged(sess[s]) /\ Heard(s, sess[s]) /\ Counted(sess[o])
       /\ Staged(sess[o]) /\ Grounds /\ Cause(s)
  BY <1>1, CauseIs
<1>12. ~Met(sess[s])
  BY <1>6, <1>11 DEF Staged
<1>13. /\ sess[s].msgIndex = 0 /\ sess[s].sealed = 0 /\ sess[s].opened = 0 /\ ~sess[s].cipher
       /\ Snd(s, sess[s]) = 0 /\ Rcv(s, sess[s]) = 0
  BY <1>11, <1>12, UnmetCounts
<1>14. Local(s, n)
  <2>1. n.pattern \in {"XX", "IK"} /\ (s = "R" => n.pattern = "XX")
    BY <1>3, <1>7
  <2>2. Counted(n)
    BY <1>7, <1>11, <1>13, <2>1 DEF Counted, MessageCount, SameCount
  <2>3. Staged(n)
    BY <1>7, <1>10, <1>13 DEF Staged
  <2>4. Heard(s, n)
    BY <1>6, <1>7, <1>11, <1>13, <2>1 DEF Heard, SameCount, SameWords
  <2> QED
    BY <2>2, <2>3, <2>4 DEF Local
<1>15. Snd(s, n) = 0 /\ Rcv(s, n) = 0
  BY <1>7, <1>13, SteadyCounts
<1>16. u = Pre(s)'
  <2>1. ik = (s = "I" /\ sess'["I"].pattern = "IK")
    <3>1. CASE s = "I"
      BY <1>3, <1>7, <1>8, <3>1
    <3>2. CASE s = "R"
      BY <1>3, <3>2
    <3> QED
      BY <3>1, <3>2 DEF Ends
  <2> QED
    BY <1>5, <1>6, <2>1 DEF Pre
<1>17. FlowInv(s)'
  <2>1. CASE sess[o].state = "Failed"
    BY <1>1, <1>8, <2>1 DEF FlowInv, Reads
  <2>2. CASE sess[o].state # "Failed"
    <3>1. sess[o].state \in {"Idle", "AwaitingPreamble"} /\ sess[s].tx = <<>>
      BY <1>1, <1>2, <1>6, <2>2 DEF Early, Unmet
    <3>2. sess[o].rx = <<>> /\ ~Met(sess[o])
      BY <1>2, <1>11, <3>1 DEF Early, Unmet, Staged
    <3>3. PICK q : q = <<u>>
      OBVIOUS
    <3>4. q = Stream(s)'
      <4>1. Unwritten(s)' = <<>>
        BY <1>6, <1>7, <1>8, <3>1 DEF Unwritten, SameWire
      <4>2. <<>> \o (<<u>> \o <<>>) = <<u>>
        BY FirstUnit
      <4> QED
        BY <1>1, <1>8, <1>9, <3>2, <3>3, <4>1, <4>2 DEF Stream
    <3>5. 1 = Skew(s)'
      BY <1>1, <1>7, <1>8, <3>1 DEF Skew, Unmet
    <3>6. 0 = Rcv(o, sess'[o]) /\ 0 = Snd(s, sess'[s])
      BY <1>8, <1>11, <1>15, <3>2, UnmetCounts
    <3>7. PICK p : p = Plan(s)'
      OBVIOUS
    <3>8. Flow(p, s, q, 1, 0, 0) /\ Full(q, 1, 0, 0) /\ Opening(q, 1, u)
      BY <3>3, FlowOpens
    <3> QED
      BY <1>1, <1>16, <3>4, <3>5, <3>6, <3>7, <3>8, FlowIs
  <2> QED
    BY <2>1, <2>2
<1>18. FlowInv(o)'
  <2>1. Stream(o)' = Stream(o)
    <3>1. Unwritten(o)' = Unwritten(o)
      BY <1>6, <1>8 DEF Unwritten
    <3> QED
      BY <1>1, <1>7, <1>8, <1>9, <3>1 DEF Stream, SameWire
  <2>2. Skew(o)' = Skew(o) /\ Reads(Other(o)) /\ Writes(o)' = Writes(o)
    BY <1>1, <1>6, <1>7, <1>8 DEF Skew, Unmet, Reads, Writes
  <2>3. Pre(o)' = Pre(o) /\ (Snd(o, sess[o]) = 0 \/ Plan(o)' = Plan(o))
    <3>1. CASE s = "I"
      <4>1. o = "R"
        BY <1>1, <3>1 DEF Other
      <4>2. Pre(o)' = Pre(o)
        BY <1>6, <4>1 DEF Pre
      <4>3. Snd(o, sess[o]) = 0
        BY <1>10, <1>11, <3>1, <4>1, UnmetCounts
      <4> QED
        BY <4>2, <4>3
    <3>2. CASE s = "R"
      <4>1. sess'["I"].pattern = sess["I"].pattern
        BY <1>1, <1>8, <3>2 DEF Other
      <4>2. Planned
        BY <1>6, <1>10, <4>1, KeyPlans
      <4> QED
        BY <4>2 DEF Planned
    <3> QED
      BY <3>1, <3>2 DEF Ends
  <2>4. Rcv(Other(o), sess'[Other(o)]) = Rcv(Other(o), sess[Other(o)])
        /\ Snd(o, sess'[o]) = Snd(o, sess[o])
    BY <1>1, <1>8, <1>13, <1>15
  <2> QED
    BY <2>1, <2>2, <2>3, <2>4, BareFlow
<1>19. Grounds'
  <2>1. sess'["I"].pattern = "IK" => pins["I"] # "None" \/ changes > 0
    <3>1. CASE s = "I"
      BY <1>3, <1>7, <1>8, <3>1
    <3>2. CASE s = "R"
      BY <1>1, <1>8, <1>11, <3>2 DEF Other, Grounds
    <3> QED
      BY <3>1, <3>2 DEF Ends
  <2> QED
    BY <1>6, <1>11, <2>1 DEF Grounds
<1>20. Cause(s)'
  BY <1>6, <1>7, <1>8, <1>10, <1>11, CauseKept
<1> QED
  BY <1>1, <1>6, <1>8, <1>10, <1>14, <1>17, <1>18, <1>19, <1>20, EndCause

\* w is x followed by y, entry by entry.
Joined(w, x, y) ==
    /\ w = x \o y /\ Len(w) = Len(x) + Len(y)
    /\ \A i \in 1..Len(x) : w[i] = x[i]
    /\ \A i \in 1..Len(y) : w[Len(x) + i] = y[i]

LEMMA JoinOf ==
    ASSUME NEW S, NEW x \in Seq(S), NEW y \in Seq(S)
    PROVE  \E w \in Seq(S) : Joined(w, x, y)
<1>1. /\ x \o y \in Seq(S) /\ Len(x \o y) = Len(x) + Len(y)
      /\ \A i \in 1..Len(x) : (x \o y)[i] = x[i]
      /\ \A i \in 1..Len(y) : (x \o y)[Len(x) + i] = y[i]
  BY JoinIs
<1> QED
  BY <1>1, Zenon DEF Joined

LEMMA ThreeAre ==
    ASSUME NEW a, NEW b, NEW c
    PROVE  <<a, b>> \o <<c>> = <<a, b, c>>
<1>1. PICK S : S = {a, b, c}
  OBVIOUS
<1>2. PICK x, y, z : x = <<a, b>> /\ y = <<c>> /\ z = <<a, b, c>>
  OBVIOUS
<1>3. x \in Seq(S) /\ Len(x) = 2 /\ x[1] = a /\ x[2] = b
  <2>1. <<a, b>> \in Seq({a, b, c}) /\ Len(<<a, b>>) = 2
        /\ <<a, b>>[1] = a /\ <<a, b>>[2] = b
    OBVIOUS
  <2> QED
    BY <1>1, <1>2, <2>1, Zenon
<1>4. y \in Seq(S) /\ Len(y) = 1 /\ y[1] = c
  <2>1. <<c>> \in Seq({a, b, c}) /\ Len(<<c>>) = 1 /\ <<c>>[1] = c
    OBVIOUS
  <2> QED
    BY <1>1, <1>2, <2>1, Zenon
<1>5. z \in Seq(S) /\ Len(z) = 3 /\ z[1] = a /\ z[2] = b /\ z[3] = c
  <2>1. <<a, b, c>> \in Seq({a, b, c}) /\ Len(<<a, b, c>>) = 3
        /\ <<a, b, c>>[1] = a /\ <<a, b, c>>[2] = b /\ <<a, b, c>>[3] = c
    OBVIOUS
  <2> QED
    BY <1>1, <1>2, <2>1, Zenon
<1>6. PICK w \in Seq(S) : Joined(w, x, y)
  <2>1. x \in Seq(S) /\ y \in Seq(S)
    BY <1>3, <1>4, Zenon
  <2> QED
    BY <2>1, JoinOf, Zenon
<1>7. Len(w) = 3 /\ w[1] = a /\ w[2] = b /\ w[3] = c
  <2>1. 1 \in 1..2 /\ 2 \in 1..2 /\ 1 \in 1..1 /\ 2 + 1 = 3
    OBVIOUS
  <2> QED
    BY <1>3, <1>4, <1>6, <2>1 DEF Joined
<1>8. w = z
  <2>1. \A i \in 1..3 : w[i] = z[i]
    BY <1>5, <1>7
  <2> QED
    BY <1>5, <1>7, <2>1, SeqEqual
<1> QED
  BY <1>2, <1>6, <1>8, Zenon DEF Joined

\* The hash that a handshake starts from.
LEMMA StartIs ==
    ASSUME NEW s \in Ends, NEW mine, mine = Pre(s), NEW theirs, theirs = Pre(Other(s)),
           NEW p, p = sess["I"].pattern,
           NEW key, key = IF s = "I" THEN pins["I"] ELSE "Current"
    PROVE  StartHash(s, mine, theirs, p) = Marks(key)
<1>1. \A a, b, c : <<a, b>> \o <<c>> = <<a, b, c>>
  BY ThreeAre, Zenon
<1>2. PICK i, r, w : i = Pre("I") /\ r = Pre("R") /\ w = <<i, r>>
  OBVIOUS
<1>3. w = IF s = "I" THEN <<mine, theirs>> ELSE <<theirs, mine>>
  BY <1>2 DEF Other, Ends
<1>4. key = IF s = "I" THEN pins[s] ELSE "Current"
  OBVIOUS
<1>5. StartHash(s, mine, theirs, p) = IF p = "IK" THEN w \o <<key>> ELSE w
  BY <1>3, <1>4 DEF StartHash
<1>6. w \o <<key>> = <<i, r, key>>
  BY <1>1, <1>2
<1> QED
  BY <1>2, <1>5, <1>6 DEF Marks

\* The streams of a step that reads the other end's preamble.
Unwraps(s) ==
    /\ Stream(s)' = Stream(s)
    /\ \E S : \E q \in Seq(S) : /\ q # <<>> /\ q = Stream(Other(s))
                                /\ Tail(q) = Stream(Other(s))' /\ Head(pipe[Other(s)]) = q[1]

LEMMA PreambleStreams ==
    ASSUME AgreementInv, NEW s \in Ends, sess[s].state = "AwaitingPreamble", s \notin closed,
           closed' = closed, NEW n, DOMAIN n = Fields, SameWire(sess[s], n),
           sess' = [sess EXCEPT ![s] = n], pipe[Other(s)] # <<>>,
           pipe' = [pipe EXCEPT ![Other(s)] = Tail(pipe[Other(s)])]
    PROVE  Unwraps(s)
<1>1. PICK o \in Ends : o = Other(s) /\ Other(o) = s /\ Ends = {s, o} /\ o # s
  BY OthersAre
<1>2. DOMAIN sess = Ends /\ DOMAIN pipe = Ends /\ Shape /\ Early(s)
  BY DEF AgreementInv, Shape
<1>3. sess'[s] = n /\ sess'[o] = sess[o]
  BY <1>1, <1>2, BecomesIs
<1>4. pipe'[s] = pipe[s] /\ pipe'[o] = Tail(pipe[o])
  BY <1>1, <1>2
<1>5. PICK S : Units(S)
  BY DEF AgreementInv, Shape, Units
<1>6. PICK a \in Seq(S), z \in Seq(S) : a = pipe[o] /\ z = Unwritten(o) /\ a # <<>>
  BY <1>1, <1>5, StreamTyped DEF Units
<1>7. Stream(s)' = Stream(s)
  <2>1. Unwritten(s)' = Unwritten(s)
    BY <1>3 DEF Unwritten, SameWire
  <2> QED
    BY <1>1, <1>3, <1>4, <2>1 DEF Stream
<1>8. sess[s].rx = <<>> /\ n.rx = <<>>
  BY <1>2 DEF Early, Unmet, SameWire
<1>9. /\ Tail(a) \in Seq(S) /\ Tail(a) \o z = Tail(a \o z) /\ a \o z \in Seq(S)
      /\ a \o z # <<>>
  <2>1. Leads(S, a, z)
    BY <1>6, TailOfJoin
  <2> QED
    BY <2>1 DEF Leads
<1>10. PICK q \in Seq(S) : q = a \o z /\ q # <<>>
  BY <1>9
<1>11. <<>> \o q = q
  BY ConcatEmptySeq
<1>12. q = Stream(o)
  BY <1>1, <1>6, <1>8, <1>10, <1>11 DEF Stream
<1>13. PICK c \in Seq(S) : c = Tail(a)
  BY <1>9
<1>14. PICK t \in Seq(S) : t = Tail(q) /\ t = c \o z
  BY <1>9, <1>10, <1>13, ConcatProperties
<1>15. <<>> \o t = t
  BY ConcatEmptySeq
<1>16. t = Stream(o)'
  <2>1. Unwritten(o)' = z
    BY <1>3, <1>6 DEF Unwritten
  <2> QED
    BY <1>1, <1>3, <1>4, <1>6, <1>8, <1>13, <1>14, <1>15, <2>1 DEF Stream
<1>17. Head(a) = q[1]
  <2>1. Len(a) \in Nat /\ Len(a) # 0
    BY <1>6, LenIs
  <2>2. 1 \in 1..Len(a)
    BY <2>1
  <2>3. \A i \in 1..Len(a) : (a \o z)[i] = a[i]
    BY JoinIs
  <2>4. (a \o z)[1] = a[1]
    BY <2>2, <2>3
  <2> QED
    BY <1>6, <1>10, <2>4
<1> QED
  BY <1>1, <1>6, <1>7, <1>10, <1>12, <1>14, <1>16, <1>17 DEF Unwraps

\* What s reads is the preamble of the other end.
LEMMA PreambleIs ==
    ASSUME AgreementInv, CauseInv, NEW s \in Ends, sess[s].state = "AwaitingPreamble",
           s \notin closed, pipe[Other(s)] # <<>>, Unwraps(s)
    PROVE  Head(pipe[Other(s)]) = Pre(Other(s)) /\ sess[Other(s)].state # "Idle"
<1>1. PICK o \in Ends : o = Other(s) /\ Other(o) = s
  BY OthersAre
<1>2. sess[o].state # "Idle"
  BY <1>1 DEF AgreementInv, Early
<1>3. 1 = Skew(o) /\ Reads(s)
  BY <1>1, <1>2 DEF Skew, Unmet, Reads
<1>4. PICK q : q # <<>> /\ q = Stream(o) /\ Head(pipe[o]) = q[1]
  BY <1>1 DEF Unwraps
<1>5. Opening(q, 1, Pre(o))
  BY <1>1, <1>3, <1>4, CauseIs, FlowWas
<1> QED
  BY <1>1, <1>2, <1>4, <1>5 DEF Opening

\* What the other end's preamble makes of the session of s.
Refuses(s, n) ==
    /\ Like(sess[s], n) /\ n.state = "Failed"
    /\ \/ n.why = "Version" /\ cfg["I"].major # cfg["R"].major
       \/ n.why = "PinVanished" /\ changes > 0

Starts(s, n) ==
    /\ n.state = "Handshaking" /\ n.pattern = sess["I"].pattern
    /\ n.msgIndex = sess[s].msgIndex /\ n.peer = sess[s].peer /\ n.cipher = sess[s].cipher
    /\ SameCount(sess[s], n) /\ n.why = sess[s].why
    /\ n.helloSent = sess[s].helloSent /\ n.greet = sess[s].greet
    /\ \E key \in {"Current", "Replaced"} :
          (s = "R" => key = "Current") /\ n.hash = Marks(key)

LEMMA ReadPreambleIs ==
    ASSUME AgreementInv, CauseInv, NEW s \in Ends, ReadPeerPreamble(s), pipe[Other(s)] # <<>>
    PROVE  \E n : /\ sess' = [sess EXCEPT ![s] = n] /\ DOMAIN n = Fields
                  /\ Unwraps(s) /\ (Refuses(s, n) \/ Starts(s, n))
<1>1. PICK o \in Ends : o = Other(s) /\ Other(o) = s /\ Ends = {s, o} /\ o # s
  BY OthersAre
<1>2. DOMAIN sess = Ends /\ DOMAIN sess[s] = Fields
  BY DEF AgreementInv, Shape
<1>3. PICK theirs, mine :
         /\ theirs = Head(pipe[Other(s)])
         /\ mine = [type |-> "Preamble", major |-> cfg[s].major, ik |-> sess[s].pattern = "IK"]
  OBVIOUS
<1>4. PICK p : p = IF s = "I" THEN sess[s].pattern ELSE IF theirs.ik THEN "IK" ELSE "XX"
  OBVIOUS
<1>5. PICK h : h = StartHash(s, mine, theirs, p)
  OBVIOUS
<1>6. PICK n :
         n = IF theirs.major # cfg[s].major THEN Failed(sess[s], "Version")
             ELSE IF p = "IK" /\ s = "I" /\ pins[s] = "None"
             THEN Failed(sess[s], "PinVanished")
             ELSE [sess[s] EXCEPT !.state = "Handshaking", !.looping = TRUE,
                                  !.pattern = p, !.hash = h]
  OBVIOUS
<1>7. sess[s].state = "AwaitingPreamble" /\ s \notin closed
      /\ sess' = [sess EXCEPT ![s] = n] /\ closed' = closed
      /\ pipe' = [pipe EXCEPT ![Other(s)] = Tail(pipe[Other(s)])]
  BY <1>2, <1>3, <1>4, <1>5, <1>6 DEF ReadPeerPreamble
<1>8. DOMAIN n = Fields /\ SameWire(sess[s], n)
  <2>1. CASE \E why : n = Failed(sess[s], why)
    BY <1>2, <2>1, FailedIs
  <2>2. CASE n = [sess[s] EXCEPT !.state = "Handshaking", !.looping = TRUE,
                                 !.pattern = p, !.hash = h]
    BY <1>2, <2>2 DEF Fields, SameWire
  <2> QED
    BY <1>6, <2>1, <2>2
<1>9. Unwraps(s)
  BY <1>7, <1>8, PreambleStreams
<1>10. theirs = Pre(Other(s))
  BY <1>3, <1>7, <1>9, PreambleIs
<1>11. theirs.major = cfg[o].major /\ theirs.ik = (o = "I" /\ sess["I"].pattern = "IK")
  BY <1>1, <1>10 DEF Pre
<1>12. Staged(sess[s]) /\ Heard(s, sess[s]) /\ Counted(sess["I"]) /\ Grounds
  <2>1. "I" \in Ends
    BY DEF Ends
  <2> QED
    BY <2>1, CauseIs
<1>13. sess["I"].pattern \in {"XX", "IK"} /\ (s = "R" => sess[s].pattern = "XX")
  BY <1>7, <1>12 DEF Counted, Staged, Heard
<1>14. p = sess["I"].pattern
  <2>1. CASE s = "I"
    BY <1>4, <2>1
  <2>2. CASE s = "R"
    <3>1. o = "I"
      BY <1>1, <2>2 DEF Other
    <3> QED
      BY <1>4, <1>11, <1>13, <2>2, <3>1
  <2> QED
    BY <2>1, <2>2 DEF Ends
<1>15. mine = Pre(s)
  <2>1. (sess[s].pattern = "IK") = (s = "I" /\ sess["I"].pattern = "IK")
    <3>1. CASE s = "I"
      BY <3>1
    <3>2. CASE s = "R"
      BY <1>13, <3>2
    <3> QED
      BY <3>1, <3>2 DEF Ends
  <2> QED
    BY <1>3, <2>1 DEF Pre
<1>16. CASE theirs.major # cfg[s].major
  <2>1. n = Failed(sess[s], "Version")
    BY <1>6, <1>16
  <2>2. cfg["I"].major # cfg["R"].major
    BY <1>1, <1>11, <1>16 DEF Ends
  <2>3. Refuses(s, n)
    BY <1>2, <1>7, <2>1, <2>2, FailedIs DEF Refuses, Like
  <2> QED
    BY <1>7, <1>8, <1>9, <2>3
<1>17. CASE theirs.major = cfg[s].major /\ p = "IK" /\ s = "I" /\ pins[s] = "None"
  <2>1. n = Failed(sess[s], "PinVanished")
    BY <1>6, <1>17
  <2>2. changes > 0
    BY <1>12, <1>14, <1>17 DEF Grounds
  <2>3. Refuses(s, n)
    BY <1>2, <1>7, <2>1, <2>2, FailedIs DEF Refuses, Like
  <2> QED
    BY <1>7, <1>8, <1>9, <2>3
<1>18. CASE theirs.major = cfg[s].major /\ ~(p = "IK" /\ s = "I" /\ pins[s] = "None")
  <2>1. n = [sess[s] EXCEPT !.state = "Handshaking", !.looping = TRUE,
                            !.pattern = p, !.hash = h]
    BY <1>6, <1>18
  <2>2. /\ n.state = "Handshaking" /\ n.pattern = p
        /\ n.msgIndex = sess[s].msgIndex /\ n.peer = sess[s].peer /\ n.cipher = sess[s].cipher
        /\ SameCount(sess[s], n) /\ n.why = sess[s].why
        /\ n.helloSent = sess[s].helloSent /\ n.greet = sess[s].greet /\ n.hash = h
    BY <1>2, <2>1 DEF Fields, SameCount
  <2>3. PICK x : x = IF s = "I" THEN pins["I"] ELSE "Current"
    OBVIOUS
  <2>4. h = Marks(x)
    BY <1>5, <1>10, <1>14, <1>15, <2>3, StartIs
  <2>5. \E key \in {"Current", "Replaced"} : (s = "R" => key = "Current") /\ h = Marks(key)
    <3>1. CASE x \in {"Current", "Replaced"}
      BY <2>3, <2>4, <3>1
    <3>2. CASE x \notin {"Current", "Replaced"}
      <4>1. s = "I" /\ x = "None"
        BY <1>12, <2>3, <3>2 DEF Grounds, Pins, Ends
      <4>2. sess["I"].pattern # "IK"
        BY <1>14, <1>18, <2>3, <4>1
      <4>3. Marks(x) = Marks("Current")
        BY <4>2 DEF Marks
      <4> QED
        BY <2>4, <4>1, <4>3
    <3> QED
      BY <3>1, <3>2
  <2>6. Starts(s, n)
    BY <1>14, <2>2, <2>5 DEF Starts
  <2> QED
    BY <1>7, <1>8, <1>9, <2>6
<1> QED
  BY <1>16, <1>17, <1>18

\* The hashes once s has started its handshake.
LEMMA StartHashes ==
    ASSUME CauseInv, NEW s \in Ends, NEW n, sess'[s] = n, sess'[Other(s)] = sess[Other(s)],
           cfg' = cfg, sess[s].state = "AwaitingPreamble", sess[Other(s)].state # "Idle",
           Starts(s, n)
    PROVE  /\ Hashes' /\ Met(n) /\ (Key = "Replaced" => Key' = "Replaced")
           /\ sess'["I"].pattern = sess["I"].pattern
<1>1. PICK key \in {"Current", "Replaced"} : (s = "R" => key = "Current") /\ n.hash = Marks(key)
  BY DEF Starts
<1>2. ~Met(sess[s]) /\ Hashes /\ Counted(sess[s]) /\ Local(s, sess[s])
  BY CauseIs DEF Staged
<1>3. sess[s].msgIndex = 0 /\ n.msgIndex = 0
  BY <1>2, UnmetCounts DEF Starts
<1>4. \A base : Chain(base, 0) = base
  BY DEF Chain
<1>5. n.hash = Chain(Marks(key), 0)
  BY <1>1, <1>4
<1>6. n.hash # <<>> /\ (sess["I"].pattern = "IK" => n.hash[3] = key)
  BY <1>1, <1>5, KeyIs
<1>7. Met(n)
  BY <1>6 DEF Met
<1>8. n.pattern = sess["I"].pattern /\ n.state = "Handshaking"
  BY DEF Starts
<1>9. CASE s = "I"
  <2>1. sess'["I"] = n /\ sess'["R"] = sess["R"]
    BY <1>9 DEF Other
  <2>2. Pre("I")' = Pre("I") /\ Pre("R")' = Pre("R")
    BY <1>8, <2>1, PlanSame
  <2>3. Key' = IF sess["I"].pattern = "IK" THEN key ELSE "Current"
    BY <1>1, <1>6, <1>7, <1>8, <2>1 DEF Key
  <2>4. Marks(Key)' = Marks(key) /\ Marks("Current")' = Marks("Current")
    BY <1>8, <2>1, <2>2, <2>3 DEF Marks
  <2>5. Key = "Current"
    BY <1>2, <1>9 DEF Key
  <2>6. sess["R"].msgIndex = 0
    BY <1>2, <1>9 DEF Hashes
  <2>7. Hashes'
    BY <1>2, <1>3, <1>5, <1>8, <2>1, <2>4, <2>6 DEF Hashes
  <2> QED
    BY <1>7, <1>8, <2>1, <2>5, <2>7
<1>10. CASE s = "R"
  <2>1. sess'["R"] = n /\ sess'["I"] = sess["I"] /\ sess["I"].state # "Idle"
    BY <1>10 DEF Other
  <2>2. Pre("I")' = Pre("I") /\ Pre("R")' = Pre("R")
    BY <2>1, PlanSame
  <2>3. Key' = Key
    BY <2>1 DEF Key
  <2>4. Marks(Key)' = Marks(Key) /\ Marks("Current")' = Marks("Current")
    BY <2>1, <2>2, <2>3 DEF Marks
  <2>5. n.hash = Chain(Marks("Current"), 0)
    BY <1>1, <1>5, <1>10
  <2>6. Hashes'
    BY <1>2, <1>3, <1>8, <2>1, <2>3, <2>4, <2>5 DEF Hashes
  <2> QED
    BY <1>7, <2>1, <2>3, <2>6
<1> QED
  BY <1>9, <1>10 DEF Ends

LEMMA PreambleCause ==
    ASSUME AgreementInv, CauseInv, NEW s \in Ends, ReadPeerPreamble(s), pipe[Other(s)] # <<>>
    PROVE  CauseInv'
<1>1. PICK o \in Ends : o = Other(s) /\ Other(o) = s /\ Ends = {s, o} /\ o # s
  BY OthersAre
<1>2. PICK n : /\ sess' = [sess EXCEPT ![s] = n] /\ DOMAIN n = Fields
               /\ Unwraps(s) /\ (Refuses(s, n) \/ Starts(s, n))
  BY ReadPreambleIs
<1>3. sess[s].state = "AwaitingPreamble" /\ s \notin closed
      /\ UNCHANGED <<cfg, pins, changes, closed>>
  BY DEF ReadPeerPreamble
<1>4. sess'[s] = n /\ sess'[o] = sess[o]
  BY <1>1, <1>2, BecomesIs DEF AgreementInv
<1>5. Counted(sess[s]) /\ Staged(sess[s]) /\ Heard(s, sess[s]) /\ Local(s, sess[s])
      /\ Counted(sess[o]) /\ Grounds /\ Hashes /\ Cause(s) /\ FlowInv(o)
  BY <1>1, CauseIs
<1>6. /\ sess[s].msgIndex = 0 /\ sess[s].sealed = 0 /\ sess[s].opened = 0 /\ ~sess[s].cipher
      /\ Snd(s, sess[s]) = 0 /\ Rcv(s, sess[s]) = 0
  BY <1>3, <1>5, UnmetCounts DEF Staged
<1>7. Snd(s, n) = 0 /\ Rcv(s, n) = 0
  <2>1. n.msgIndex = sess[s].msgIndex /\ SameCount(sess[s], n)
    BY <1>2 DEF Refuses, Starts, Like, SameCore
  <2> QED
    BY <1>6, <2>1, SteadyCounts
<1>8. sess[o].state # "Idle"
  BY <1>1, <1>2, <1>3, PreambleIs
<1>9. n.state \in {"Handshaking", "Failed"}
  BY <1>2 DEF Refuses, Starts
<1>10. /\ Hashes' /\ (Key = "Replaced" => Key' = "Replaced")
       /\ sess'["I"].pattern = sess["I"].pattern
  <2>1. CASE Refuses(s, n)
    <3>1. Steady(sess[s], n) /\ n.state # "Idle"
      BY <2>1 DEF Refuses, Steady, Like, SameWords, SameCore
    <3>2. Hashes' /\ Key' = Key /\ sess'["I"].pattern = sess["I"].pattern
      BY <1>1, <1>3, <1>4, <1>5, <3>1, SteadyHashes
    <3> QED
      BY <3>2
  <2>2. CASE Starts(s, n)
    BY <1>1, <1>3, <1>4, <1>8, <2>2, StartHashes
  <2> QED
    BY <1>2, <2>1, <2>2
<1>11. Pre(s)' = Pre(s) /\ Pre(o)' = Pre(o)
  BY <1>3, <1>10, PlanSame
<1>12. Grounds'
  BY <1>3, <1>5, <1>10 DEF Grounds
<1>13. FlowInv(s)'
  <2>1. Skew(s)' = Skew(s) /\ Reads(o)' = Reads(o) /\ Writes(s)
    BY <1>1, <1>3, <1>4, <1>9 DEF Skew, Unmet, Reads, Writes
  <2>2. CASE Reads(o)
    <3>1. Stream(s)' = Stream(s)
      BY <1>2 DEF Unwraps
    <3> QED
      BY <1>1, <1>4, <1>6, <1>7, <1>11, <2>1, <2>2, <3>1, BareFlow
  <2>3. CASE ~Reads(o)
    BY <1>1, <2>1, <2>3 DEF FlowInv
  <2> QED
    BY <2>2, <2>3
<1>14. CASE Refuses(s, n)
  <2>1. Local(s, n)
    BY <1>5, <1>14, LikeLocal DEF Refuses
  <2>2. FlowInv(o)'
    BY <1>1, <1>4, <1>14 DEF FlowInv, Reads, Refuses
  <2>3. Cause(s)'
    BY <1>3, <1>4, <1>14 DEF Refuses, Cause
  <2> QED
    BY <1>1, <1>3, <1>4, <1>10, <1>12, <1>13, <2>1, <2>2, <2>3, EndCause
<1>15. CASE Starts(s, n)
  <2>1. Met(n)
    BY <1>1, <1>3, <1>4, <1>8, <1>15, StartHashes
  <2>2. Local(s, n)
    <3>1. n.pattern \in {"XX", "IK"}
      <4>1. Counted(sess["I"])
        BY CauseIs DEF Ends
      <4> QED
        BY <1>15, <4>1 DEF Starts, Counted
    <3>2. Counted(n)
      BY <1>5, <1>6, <1>15, <2>1, <3>1 DEF Starts, Counted, MessageCount, SameCount
    <3>3. Staged(n)
      BY <1>6, <1>15, <2>1 DEF Starts, Staged
    <3>4. Heard(s, n)
      BY <1>5, <1>6, <1>15, <2>1 DEF Starts, Heard, SameCount
    <3> QED
      BY <3>2, <3>3, <3>4 DEF Local
  <2>3. Cause(s)'
    BY <1>3, <1>4, <1>5, <1>10, <1>15, CauseKept DEF Starts
  <2>4. Plan(o)' = Plan(o)
    <3>1. KeyOf(o)' = KeyOf(o)
      <4>1. CASE o = "I"
        BY <1>4, <4>1 DEF KeyOf, Key
      <4>2. CASE o = "R"
        BY <4>2 DEF KeyOf
      <4> QED
        BY <4>1, <4>2 DEF Ends
    <3> QED
      BY <1>3, <1>10, <3>1, PlanSame
  <2>5. FlowInv(o)'
    <3>1. PICK S, q : /\ q \in Seq(S) /\ q # <<>> /\ q = Stream(o)
                      /\ Tail(q) = Stream(o)'
      BY <1>1, <1>2 DEF Unwraps
    <3>2. PICK p, d, h, t : p = Plan(o) /\ d = Snd(o, sess[o]) /\ h = Pre(o) /\ t = Tail(q)
      OBVIOUS
    <3>3. 1 = Skew(o) /\ 0 = Skew(o)' /\ Reads(s) /\ Writes(o)' = Writes(o)
      BY <1>1, <1>3, <1>4, <1>8, <1>15 DEF Skew, Unmet, Reads, Writes, Starts
    <3>4. d \in Nat /\ 0 \in Nat
      BY <1>5, <3>2, CountsAre
    <3>5. Flow(p, o, q, 1, 0, d) /\ (Writes(o) => Full(q, 1, 0, d))
      BY <1>1, <1>5, <1>6, <3>1, <3>2, <3>3, FlowWas
    <3>6. Flow(p, o, t, 0, 0, d) /\ (Full(q, 1, 0, d) => Full(t, 0, 0, d))
      BY <3>1, <3>2, <3>4, <3>5, FlowTail
    <3>7. Opening(t, 0, h)
      BY DEF Opening
    <3>8. /\ p = Plan(o)' /\ h = Pre(o)' /\ t = Stream(o)'
          /\ 0 = Rcv(Other(o), sess'[Other(o)]) /\ d = Snd(o, sess'[o])
      BY <1>1, <1>4, <1>7, <1>11, <2>4, <3>1, <3>2
    <3> QED
      BY <3>3, <3>5, <3>6, <3>7, <3>8, FlowIs
  <2> QED
    BY <1>1, <1>3, <1>4, <1>10, <1>12, <1>13, <2>2, <2>3, <2>5, EndCause
<1> QED
  BY <1>2, <1>14, <1>15

-------------------------------------------------------------------------------
(* The invariant *)

LEMMA StartCause == SecureInit => CauseInv
<1> SUFFICES ASSUME SecureInit PROVE CauseInv
  OBVIOUS
<1>1. AgreementInv
  BY StartAgrees
<1>2. PICK n : n = NewSession
  OBVIOUS
<1>3. \A s \in Ends : sess[s] = n /\ pipe[s] = <<>> /\ Other(s) \in Ends
  BY <1>2, OthersAre DEF SecureInit
<1>4. /\ n.state = "Idle" /\ n.pattern = "XX" /\ n.msgIndex = 0 /\ n.hash = <<>>
      /\ n.helloSent = FALSE /\ n.greet = "No" /\ n.cipher = FALSE /\ n.sealed = 0
      /\ n.opened = 0 /\ n.tx = <<>> /\ n.rx = <<>> /\ n.why = "None"
  BY <1>2 DEF NewSession
<1>5. ~Met(n)
  BY <1>4 DEF Met
<1>6. Counted(n) /\ Staged(n)
  <2>1. Counted(n)
    <3>1. n.pattern \in {"XX", "IK"} /\ MessageCount(n.pattern) = 3
      BY <1>4 DEF MessageCount
    <3>2. /\ n.msgIndex \in 0..3 /\ n.sealed \in Nat /\ n.opened \in Nat
          /\ ~(n.msgIndex > 0)
      BY <1>4
    <3>3. n.cipher \in BOOLEAN /\ ~n.cipher
      BY <1>4
    <3> QED
      BY <1>4, <3>1, <3>2, <3>3 DEF Counted
  <2>2. Staged(n)
    BY <1>4, <1>5 DEF Staged
  <2> QED
    BY <2>1, <2>2
<1>7. \A s \in Ends : Local(s, n)
  BY <1>4, <1>6 DEF Local, Heard, Ends
<1>8. Hashes
  BY <1>3, <1>4, <1>5 DEF Hashes, Key, Ends
<1>9. Grounds
  <2>1. \A s \in Ends : cfg[s].offer.rec \in Nat
    BY SecureAssumption DEF SecureInit, Offers
  <2> QED
    BY <1>3, <1>4, <2>1 DEF SecureInit, Grounds, Ends
<1>10. ASSUME NEW s \in Ends PROVE FlowInv(s)
  <2>1. PICK q : q = <<>>
    OBVIOUS
  <2>2. q = Stream(s)
    <3>1. <<>> \o <<>> = <<>>
      BY ConcatEmptySeq
    <3>2. Unwritten(s) = <<>> /\ sess[Other(s)].rx = <<>> /\ pipe[s] = <<>>
      BY <1>3, <1>4 DEF Unwritten
    <3> QED
      BY <2>1, <3>1, <3>2 DEF Stream
  <2>3. 0 = Skew(s) /\ ~Writes(s)
    BY <1>3, <1>4 DEF Skew, Writes
  <2>4. Snd(s, sess[s]) = 0 /\ Rcv(Other(s), sess[Other(s)]) = 0
    BY <1>3, <1>5, <1>6, UnmetCounts
  <2>5. PICK p, h : p = Plan(s) /\ h = Pre(s)
    OBVIOUS
  <2>6. Flow(p, s, q, 0, 0, 0)
    <3>1. q \in Seq({}) /\ Len(q) <= 0 /\ 0 \in {0, 1} /\ 0 \in Nat
      BY <2>1, EmptySeq
    <3> QED
      BY <3>1, FlowEmpty
  <2>7. Opening(q, 0, h)
    BY DEF Opening
  <2> QED
    BY <2>2, <2>3, <2>4, <2>5, <2>6, <2>7 DEF FlowInv
<1>11. \A s \in Ends : Cause(s)
  BY <1>3, <1>4 DEF Cause
<1> QED
  BY <1>3, <1>7, <1>8, <1>9, <1>10, <1>11 DEF CauseInv

LEMMA StepCause == AgreementInv /\ CauseInv /\ [SecureNext]_secureVars => CauseInv'
<1> SUFFICES ASSUME AgreementInv, CauseInv, [SecureNext]_secureVars PROVE CauseInv'
  OBVIOUS
<1>1. CASE UNCHANGED secureVars
  <2>1. Grounds'
    BY <1>1 DEF CauseInv, Grounds, secureVars
  <2> QED
    BY <1>1, <2>1, StoreCause DEF secureVars
<1>2. ASSUME NEW s \in Ends, Begin(s) PROVE CauseInv'
  BY <1>2, BeginLostCause, BeginSentCause
<1>3. ASSUME NEW s \in Ends, ReadPeerPreamble(s) PROVE CauseInv'
  <2>1. CASE pipe[Other(s)] = <<>>
    <3>1. s \notin closed /\ closed' = closed \cup {s} /\ UNCHANGED <<cfg, pins, changes, sess>>
          /\ pipe' = pipe
      BY <1>3, <2>1 DEF ReadPeerPreamble
    <3> QED
      BY <3>1, CloseCause
  <2>2. CASE pipe[Other(s)] # <<>>
    BY <1>3, <2>2, PreambleCause
  <2> QED
    BY <2>1, <2>2
<1>4. ASSUME NEW s \in Ends, Pump(s) PROVE CauseInv'
  BY <1>3, <1>4, PumpBeginsCause, SendMessageCause, ReadMessageCause, FinishCause,
     SayHelloCause, HearHelloCause, AnswerHelloCause, AnswerDrainedCause DEF Pump
<1>5. ASSUME NEW s \in Ends, Pin(s) \/ Unpin(s) PROVE CauseInv'
  BY <1>5, PinCause
<1>6. ASSUME NEW s \in Ends, DropSession(s) PROVE CauseInv'
  <2>1. s \notin closed /\ closed' = closed \cup {s} /\ UNCHANGED <<cfg, pins, changes, sess>>
        /\ pipe' = pipe
    BY <1>6 DEF DropSession
  <2> QED
    BY <2>1, CloseCause
<1>7. ASSUME NEW s \in Ends, GoesAway(s) PROVE CauseInv'
  <2>1. s \notin closed /\ closed' = closed \cup {s} /\ UNCHANGED <<cfg, pins, changes, sess>>
        /\ pipe' \in {pipe, [pipe EXCEPT ![s] = <<>>]}
    BY <1>7 DEF GoesAway
  <2> QED
    BY <2>1, CloseCause
<1> QED
  BY <1>1, <1>2, <1>4, <1>5, <1>6, <1>7, SendDataCause, FlushDataCause, ReceiveDataCause
  DEF SecureNext

\* What the invariant is for.
LEMMA CauseShows == CauseInv => FailedForCause
<1> SUFFICES ASSUME CauseInv, NEW s \in Ends PROVE
             \/ sess[s].why = "None"
             \/ sess[s].why = "Lost" /\ Other(s) \in closed
             \/ sess[s].why = "Version" /\ cfg["I"].major # cfg["R"].major
             \/ sess[s].why = "AuthFailed" /\ sess["I"].pattern = "IK" /\ sess["I"].hash[3] = "Replaced"
             \/ sess[s].why = "PinVanished" /\ changes > 0
             \/ sess[s].why = "Size" /\ \E e \in Ends : ~Legal(cfg[e].offer.rec)
  BY DEF FailedForCause
<1>1. Cause(s)
  BY CauseIs
<1>2. Key = "Replaced" => sess["I"].pattern = "IK" /\ sess["I"].hash[3] = "Replaced"
  BY DEF Key
<1> QED
  BY <1>1, <1>2 DEF Cause

\* driveHandshake, finish, adoptCipher and receiveRecord: for every window, offer, rekey
\* interval and interleaving of the two pumps, no session fails of the protocol itself.  No
\* record is refused for its size, for being sealed under another key or nonce, or out of
\* turn, and no cipher is installed under a handshake message that is still being written; a
\* failure has a cause outside, which FailedForCause names.
THEOREM SecureFailsForCause == SecureSpec => []FailedForCause
<1>1. SecureInit => AgreementInv /\ CauseInv
  BY StartAgrees, StartCause
<1>2. AgreementInv /\ CauseInv /\ [SecureNext]_secureVars => (AgreementInv /\ CauseInv)'
  BY StepAgrees, StepCause
<1>3. AgreementInv /\ CauseInv => FailedForCause
  BY CauseShows
<1> QED
  BY <1>1, <1>2, <1>3, PTL DEF SecureSpec

===============================================================================
