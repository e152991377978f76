------------------------ MODULE ControlAndProbe_proofs ------------------------
(*****************************************************************************)
(* Two components that share neither state nor constants.                    *)
(*                                                                           *)
(* ControlPlane: the answer a window takes is its own, and a pairing was     *)
(* accepted on screen.  ControlInv says where a call is: on the stream, in   *)
(* the broker's hands or run, one place only; the broker's buffers belong to *)
(* the window it serves; and every acceptance on its way, at any stage,      *)
(* names a question that was clicked.                                        *)
(*                                                                           *)
(* StorageProbe: a probe that passed left the device in phase, and what it   *)
(* says it restored is restored.  ProbeInv says what the pipes hold at each  *)
(* point of a command: at most one status is due, and it is this command's   *)
(* own, but for what a failed REQUEST SENSE left, which the command behind   *)
(* it cannot take for its own.  What was saved whole is what was there.      *)
(*****************************************************************************)
EXTENDS ControlPlane, StorageProbe, SequenceTheorems, TLAPS

-------------------------------------------------------------------------------
(* The control plane: the inductive invariant *)

Docs == [Sides -> Question]

\* What a page may post when the questions of C have been accepted on screen.
Requests(C) ==
    [verb : Verbs \cup {"state"}]
    \cup {r \in Approvals : r.accept => r.said \in C}

Frames(w, C) == [from : {w}, tag : Nat, op : {"attach", "verb"}, req : Requests(C)]

AnswersTo(w) == [from : {w}, tag : Nat, op : {"attach", "verb"}, ok : BOOLEAN, doc : Docs]

Channel(w, C) ==
    [up : Seq(Frames(w, C)), down : Seq(AnswersTo(w)), here : BOOLEAN, there : BOOLEAN]

WindowState ==
    [pc : {"off", "opening", "standalone", "idle", "calling", "lost", "exited"},
     tag : Nat, verb : Verbs \cup {"state", "approve", "hungUp"}, step : {"verb", "state"}]

Shown == [shown : Docs, busy : BOOLEAN]

HubInv ==
    /\ question \in Docs /\ minted \in 0..MaxQuestions
    /\ pins \cup saved \subseteq clicks

\* The broker's buffers are those of the window it serves.
BrokerInv ==
    /\ phase \in {"poll", "handle", "work"} /\ client \in Windows \cup {Nobody}
    /\ rx \in Seq(Frames(client, clicks)) /\ tx \in Seq(AnswersTo(client))
    /\ work \in Seq(Frames(client, clicks))
    /\ IF phase = "work" THEN Len(work) = 1 ELSE work = <<>>
    /\ client = Nobody => phase = "poll" /\ rx = <<>> /\ tx = <<>>
    /\ backlog \in Seq(Windows)

ChanInv ==
    /\ DOMAIN chan = Windows
    /\ \A w \in Windows : chan[w] \in Channel(w, clicks)
    /\ chan = [w \in Windows |-> chan[w]]

WindowInv ==
    /\ win \in [Windows -> WindowState]
    /\ http \in [Windows -> Seq(Requests(clicks))]
    /\ page \in [Windows -> Shown]
    /\ ran \in [Windows -> Nat]
    /\ answers \in [Windows -> SUBSET Windows]
    /\ \A w \in Windows : answers[w] \subseteq {w}

\* The frames of w that the broker has read and not answered.
Held(w) == IF client = w THEN Len(rx) + Len(work) ELSE 0

\* A call is in one place, and is run once.
CallsOnce == \A w \in Windows : ran[w] + Len(chan[w].up) + Held(w) <= win[w].tag

\* A window that has not opened the broker is unknown to it.
Unopened ==
    /\ \A w \in Windows : win[w].pc = "off" => client # w /\ ran[w] = 0
    /\ \A i \in 1..Len(backlog) : win[backlog[i]].pc # "off"

ControlInv ==
    HubInv /\ BrokerInv /\ ChanInv /\ WindowInv /\ CallsOnce /\ Unopened

-------------------------------------------------------------------------------
(* The sequences and records of the invariant *)

LEMMA QueueFacts ==
    ASSUME NEW S, NEW q \in Seq(S)
    PROVE  /\ Len(q) \in Nat
           /\ \A i \in 1 .. Len(q) : q[i] \in S
           /\ q # <<>> => /\ Len(q) > 0 /\ Head(q) = q[1] /\ Head(q) \in S
                          /\ Tail(q) \in Seq(S) /\ Len(Tail(q)) = Len(q) - 1
                          /\ \A i \in 1 .. Len(q) - 1 : Tail(q)[i] = q[i + 1]
    OBVIOUS

LEMMA AppendFacts ==
    ASSUME NEW S, NEW q \in Seq(S), NEW x \in S
    PROVE  /\ Append(q, x) \in Seq(S) /\ Len(Append(q, x)) = Len(q) + 1
           /\ \A i \in 1 .. Len(q) : Append(q, x)[i] = q[i]
           /\ Append(q, x)[Len(q) + 1] = x
    OBVIOUS

LEMMA JoinFacts ==
    ASSUME NEW S, NEW q \in Seq(S), NEW s \in Seq(S)
    PROVE  /\ q \o s \in Seq(S) /\ Len(q \o s) = Len(q) + Len(s)
           /\ \A i \in 1 .. Len(q) : (q \o s)[i] = q[i]
           /\ \A i \in 1 .. Len(s) : (q \o s)[Len(q) + i] = s[i]
    OBVIOUS

LEMMA PartFacts ==
    ASSUME NEW S, NEW s \in Seq(S), NEW m \in Nat \ {0}, NEW n \in 0 .. Len(s)
    PROVE  SubSeq(s, m, n) \in Seq(S)
    OBVIOUS

LEMMA EmptyFacts ==
    ASSUME NEW S
    PROVE  <<>> \in Seq(S) /\ Len(<<>>) = 0
    OBVIOUS

LEMMA OneFacts ==
    ASSUME NEW S, NEW e \in S
    PROVE  <<e>> \in Seq(S) /\ Len(<<e>>) = 1 /\ <<e>>[1] = e
    OBVIOUS

\* What is pushed fits, and what is left of it stays typed.
LEMMA FittingFacts ==
    ASSUME NEW S, NEW d \in Seq(S), NEW s \in Seq(S)
    PROVE  /\ d \o Fitting(d, s) \in Seq(S)
           /\ SubSeq(s, Len(Fitting(d, s)) + 1, Len(s)) \in Seq(S)
<1>1. SocketRoom \in Nat
  BY ControlAssumption
<1>2. PICK n : n = (IF Len(s) < SocketRoom - Len(d) THEN Len(s) ELSE SocketRoom - Len(d))
  OBVIOUS
<1>3. n \in Int /\ n <= Len(s)
  BY <1>1, <1>2
<1>4. Fitting(d, s) = SubSeq(s, 1, n)
  BY <1>2 DEF Fitting
<1>5. SubSeq(s, 1, n) \in Seq(S)
  BY <1>3
<1>6. PICK t \in Seq(S) : t = Fitting(d, s)
  BY <1>4, <1>5
<1>7. d \o t \in Seq(S)
  BY JoinFacts
<1>8. Len(t) \in Nat
  BY QueueFacts
<1>9. SubSeq(s, Len(t) + 1, Len(s)) \in Seq(S)
  BY <1>8, QueueFacts, PartFacts
<1> QED
  BY <1>6, <1>7, <1>9

LEMMA RequestsGrow ==
    ASSUME NEW C, NEW D, C \subseteq D
    PROVE  Requests(C) \subseteq Requests(D)
    BY DEF Requests

LEMMA FramesGrow ==
    ASSUME NEW C, NEW D, C \subseteq D, NEW w
    PROVE  Frames(w, C) \subseteq Frames(w, D)
<1>1. Requests(C) \subseteq Requests(D)
  BY RequestsGrow
<1> QED
  BY <1>1 DEF Frames

LEMMA SeqGrows ==
    ASSUME NEW S, NEW T, S \subseteq T
    PROVE  Seq(S) \subseteq Seq(T)
    OBVIOUS

LEMMA FrameFields ==
    ASSUME NEW w, NEW C, NEW f \in Frames(w, C)
    PROVE  f.from = w /\ f.tag \in Nat /\ f.op \in {"attach", "verb"} /\ f.req \in Requests(C)
    BY DEF Frames

LEMMA AnswerFields ==
    ASSUME NEW w, NEW a \in AnswersTo(w)
    PROVE  a.from = w /\ a.ok \in BOOLEAN /\ a.doc \in Docs
    BY DEF AnswersTo

\* The broker answers the window that asked.
LEMMA AnswerIsTo ==
    ASSUME NEW w, NEW C, NEW f \in Frames(w, C), NEW ok \in BOOLEAN, NEW doc \in Docs
    PROVE  Answer(f, ok, doc) \in AnswersTo(w)
<1>1. f.from = w /\ f.tag \in Nat /\ f.op \in {"attach", "verb"}
  BY FrameFields
<1> QED
  BY <1>1 DEF Answer, AnswersTo

LEMMA ChannelFields ==
    ASSUME NEW w, NEW C, NEW c \in Channel(w, C)
    PROVE  /\ c.up \in Seq(Frames(w, C)) /\ c.down \in Seq(AnswersTo(w))
           /\ c.here \in BOOLEAN /\ c.there \in BOOLEAN
    BY DEF Channel

\* What the ends of a stream do to it keeps its frames typed.
LEMMA ChannelEdits ==
    ASSUME NEW w, NEW C, NEW c \in Channel(w, C),
           NEW u \in Seq(Frames(w, C)), NEW d \in Seq(AnswersTo(w))
    PROVE  /\ [c EXCEPT !.there = FALSE] \in Channel(w, C)
           /\ [c EXCEPT !.down = d] \in Channel(w, C)
           /\ [c EXCEPT !.down = d, !.up = u] \in Channel(w, C)
           /\ [c EXCEPT !.up = u, !.down = d] \in Channel(w, C)
           /\ [c EXCEPT !.here = FALSE, !.down = <<>>] \in Channel(w, C)
           /\ [up |-> u, down |-> <<>>, here |-> TRUE, there |-> TRUE] \in Channel(w, C)
<1>1. <<>> \in Seq(AnswersTo(w))
  BY EmptyFacts
<1> QED
  BY <1>1 DEF Channel

LEMMA ChannelGrows ==
    ASSUME NEW C, NEW D, C \subseteq D, NEW w, NEW c \in Channel(w, C)
    PROVE  c \in Channel(w, D)
<1>1. Seq(Frames(w, C)) \subseteq Seq(Frames(w, D))
  BY FramesGrow, SeqGrows
<1> QED
  BY <1>1 DEF Channel

-------------------------------------------------------------------------------
(* The broker's steps *)

LEMMA ChanSet ==
    ASSUME ChanInv, NEW x \in Windows, NEW e \in Channel(x, clicks),
           chan' = [chan EXCEPT ![x] = e], clicks' = clicks
    PROVE  ChanInv' /\ chan'[x] = e /\ \A w \in Windows \ {x} : chan'[w] = chan[w]
<1>1. chan'[x] = e /\ \A w \in Windows \ {x} : chan'[w] = chan[w]
  BY DEF ChanInv
<1>2. DOMAIN chan' = Windows
  BY DEF ChanInv
<1>3. chan' = [w \in Windows |-> chan'[w]]
  BY DEF ChanInv
<1>4. \A w \in Windows : chan'[w] \in Channel(w, clicks)
  BY <1>1 DEF ChanInv
<1> QED
  BY <1>1, <1>2, <1>3, <1>4 DEF ChanInv

LEMMA ChanLengths ==
    ASSUME ChanInv, NEW w \in Windows
    PROVE  chan[w].up \in Seq(Frames(w, clicks)) /\ Len(chan[w].up) \in Nat
<1>1. PICK c \in Channel(w, clicks) : c = chan[w]
  BY DEF ChanInv
<1>2. c.up \in Seq(Frames(w, clicks))
  BY ChannelFields
<1> QED
  BY <1>1, <1>2, QueueFacts

LEMMA AcceptKeeps ==
    ASSUME ControlInv, Accept
    PROVE  ControlInv'
<1> USE DEF ControlInv
<1>1. PICK q \in Seq(Windows), h \in Windows, t \in Seq(Windows) :
          /\ q = backlog /\ q # <<>> /\ h = Head(q) /\ t = Tail(q) /\ backlog' = t
  BY QueueFacts DEF Accept, BrokerInv
<1>2. h = q[1] /\ Len(q) > 0 /\ Len(t) = Len(q) - 1 /\ \A i \in 1 .. Len(t) : t[i] = q[i + 1]
  BY <1>1, QueueFacts
<1>3. phase = "poll" /\ client = Nobody /\ rx = <<>> /\ tx = <<>> /\ work = <<>>
  BY DEF Accept, BrokerInv
<1>4. HubInv'
  BY DEF Accept, HubInv, hubVars, pageVars
<1>5. WindowInv'
  BY DEF Accept, WindowInv, pageVars
<1>6. BrokerInv'
  <2>1. client' \in Windows \cup {Nobody}
    BY <1>1, <1>3 DEF Accept
  <2>2. rx' = <<>> /\ tx' = <<>> /\ work' = <<>> /\ phase' = "poll"
    BY <1>3 DEF Accept
  <2>3. /\ <<>> \in Seq(Frames(client', clicks')) /\ <<>> \in Seq(AnswersTo(client'))
    BY EmptyFacts
  <2> QED
    BY <1>1, <2>1, <2>2, <2>3 DEF BrokerInv
<1>7. ChanInv' /\ \A w \in Windows : chan'[w].up = chan[w].up
  <2>1. CASE chan' = chan
    BY <2>1 DEF Accept, ChanInv, pageVars
  <2>2. CASE chan' = [chan EXCEPT ![Head(backlog)].there = FALSE]
    <3>1. PICK c \in Channel(h, clicks) : c = chan[h]
      BY DEF ChanInv
    <3>2. PICK e \in Channel(h, clicks) : e = [c EXCEPT !.there = FALSE]
      BY ChannelEdits, EmptyFacts
    <3>3. chan' = [chan EXCEPT ![h] = e]
      BY <1>1, <2>2, <3>1, <3>2
    <3>4. e.up = c.up
      BY <3>2 DEF Channel
    <3> QED
      BY <3>1, <3>3, <3>4, ChanSet DEF Accept, pageVars
  <2> QED
    BY <2>1, <2>2 DEF Accept
<1>8. CallsOnce'
  <2>1. \A w \in Windows : Held(w) = 0
    BY <1>3, ControlAssumption DEF Held
  <2>2. \A w \in Windows : Held(w)' = 0
    BY <1>3, EmptyFacts DEF Held, Accept
  <2> QED
    BY <1>7, <2>1, <2>2 DEF CallsOnce, Accept
<1>9. Unopened'
  <2>1. win' = win /\ ran' = ran /\ client' \in {Nobody, h}
    BY <1>1, <1>3 DEF Accept
  <2>2. win[h].pc # "off"
    BY <1>1, <1>2 DEF Unopened
  <2>3. \A i \in 1 .. Len(t) : win[t[i]].pc # "off"
    BY <1>1, <1>2 DEF Unopened
  <2> QED
    BY <1>1, <2>1, <2>2, <2>3, ControlAssumption DEF Unopened
<1> QED
  BY <1>4, <1>5, <1>6, <1>7, <1>8, <1>9

\* The window goes, with the frames and the answers buffered for it.
LEMMA DropKeeps ==
    ASSUME ControlInv, client # Nobody, work = <<>>, DropClient, phase' = "poll",
           UNCHANGED <<up, work, backlog, hubVars, win, http, pageVars, ran, answers>>
    PROVE  ControlInv'
<1> USE DEF ControlInv
<1>1. client \in Windows
  BY DEF BrokerInv
<1>2. HubInv'
  BY DEF HubInv, hubVars, pageVars
<1>3. WindowInv'
  BY DEF WindowInv, pageVars
<1>4. clicks' = clicks
  BY DEF pageVars
<1>5. rx' = <<>> /\ tx' = <<>> /\ work' = <<>> /\ client' = Nobody
  BY DEF DropClient, Emptied
<1>6. BrokerInv'
  <2>1. <<>> \in Seq(Frames(Nobody, clicks)) /\ <<>> \in Seq(AnswersTo(Nobody))
    BY EmptyFacts
  <2> QED
    BY <1>4, <1>5, <2>1 DEF BrokerInv
<1>7. ChanInv' /\ \A w \in Windows : chan'[w].up = chan[w].up
  <2>1. PICK x \in Windows : x = client
    BY <1>1
  <2>2. PICK c \in Channel(x, clicks) : c = chan[x]
    BY DEF ChanInv
  <2>3. PICK e \in Channel(x, clicks) : e = [c EXCEPT !.there = FALSE]
    BY ChannelEdits, EmptyFacts
  <2>4. chan' = [chan EXCEPT ![x] = e]
    BY <2>1, <2>2, <2>3 DEF DropClient
  <2>5. e.up = c.up
    BY <2>3 DEF Channel
  <2> QED
    BY <1>4, <2>2, <2>4, <2>5, ChanSet
<1>8. CallsOnce'
  <2>1. \A w \in Windows : Held(w)' = 0
    BY <1>5, ControlAssumption DEF Held
  <2>2. \A w \in Windows : Held(w) \in Nat
    <3>1. Len(rx) \in Nat /\ Len(work) \in Nat
      BY QueueFacts DEF BrokerInv
    <3> QED
      BY <3>1 DEF Held
  <2>3. \A w \in Windows : Len(chan[w].up) \in Nat /\ ran[w] \in Nat /\ win[w].tag \in Nat
    BY ChanLengths DEF WindowInv, WindowState
  <2> QED
    BY <1>7, <2>1, <2>2, <2>3, SMTT(30) DEF CallsOnce
<1>9. Unopened'
  BY <1>5, ControlAssumption DEF Unopened
<1> QED
  BY <1>2, <1>3, <1>6, <1>7, <1>8, <1>9

LEMMA FlushAndReadKeeps ==
    ASSUME ControlInv, FlushAndRead
    PROVE  ControlInv'
<1> USE DEF ControlInv
<1>1. client # Nobody /\ phase = "poll" /\ work = <<>>
  BY DEF FlushAndRead, BrokerInv
<1>2. CASE EndOfStream(client)
  <2>1. DropClient /\ phase' = "poll"
    BY <1>1, <1>2 DEF FlushAndRead
  <2> QED
    BY <1>1, <2>1, DropKeeps DEF FlushAndRead
<1>3. CASE ~EndOfStream(client)
  <2>1. PICK x \in Windows : x = client
    BY <1>1 DEF BrokerInv
  <2>2. PICK c \in Channel(x, clicks) : c = chan[x]
    BY DEF ChanInv
  <2>3. c.up \in Seq(Frames(x, clicks)) /\ c.down \in Seq(AnswersTo(x))
    BY ChannelFields
  <2>4. PICK t \in Seq(AnswersTo(x)), r \in Seq(Frames(x, clicks)) : t = tx /\ r = rx
    BY <2>1 DEF BrokerInv
  <2>5. PICK d \in Seq(AnswersTo(x)), l \in Seq(AnswersTo(x)) :
            /\ d = c.down \o Fitting(c.down, t)
            /\ l = SubSeq(t, Len(Fitting(c.down, t)) + 1, Len(t))
    BY <2>3, FittingFacts
  <2>6. PICK e \in Channel(x, clicks) : e = [c EXCEPT !.down = d, !.up = <<>>]
    BY ChannelEdits, EmptyFacts
  <2>7. /\ chan' = [chan EXCEPT ![x] = e] /\ tx' = l /\ rx' = r \o c.up
        /\ phase' = "handle" /\ client' = client
    BY <1>3, <2>1, <2>2, <2>4, <2>5, <2>6 DEF FlushAndRead
  <2>8. r \o c.up \in Seq(Frames(x, clicks)) /\ Len(r \o c.up) = Len(r) + Len(c.up)
    BY <2>3, JoinFacts
  <2>9. clicks' = clicks /\ win' = win /\ ran' = ran /\ work' = work /\ backlog' = backlog
    BY DEF FlushAndRead, pageVars
  <2>10. HubInv'
    BY DEF FlushAndRead, HubInv, hubVars, pageVars
  <2>11. WindowInv'
    BY DEF FlushAndRead, WindowInv, pageVars
  <2>12. BrokerInv'
    BY <1>1, <2>1, <2>7, <2>8, <2>9, ControlAssumption DEF BrokerInv
  <2>13. ChanInv' /\ chan'[x] = e /\ \A w \in Windows \ {x} : chan'[w] = chan[w]
    BY <2>7, <2>9, ChanSet
  <2>14. CallsOnce'
    <3>1. e.up = <<>>
      BY <2>6 DEF Channel
    <3>2. Len(rx) \in Nat /\ Len(work) \in Nat /\ Len(c.up) \in Nat /\ Len(<<>>) = 0
      BY <2>3, QueueFacts, EmptyFacts DEF BrokerInv
    <3>3. \A w \in Windows :
             Held(w)' = IF w = x THEN Len(c.up) + Len(r) + Len(work) ELSE Held(w)
      <4>1. \A w \in Windows :
               Held(w)' = IF w = x THEN Len(r \o c.up) + Len(work) ELSE Held(w)
        BY <2>1, <2>7, <2>9 DEF Held
      <4>2. PICK n \in Nat, m \in Nat : n = Len(r) /\ m = Len(c.up)
        BY <3>2, <2>4
      <4>3. Len(r \o c.up) = Len(c.up) + Len(r)
        BY <2>8, <4>2
      <4> QED
        BY <4>1, <4>3
    <3>4. Len(chan'[x].up) = 0
      BY <2>13, <3>1, <3>2
    <3>5. Held(x) = Len(r) + Len(work)
      BY <2>1, <2>4 DEF Held
    <3>6. PICK n \in Nat, m \in Nat, k \in Nat, g \in Nat :
              n = Len(r) /\ m = Len(c.up) /\ k = Len(work) /\ g = ran[x]
      BY <2>4, <3>2 DEF WindowInv
    <3>7. win[x].tag \in Nat
      BY DEF WindowInv, WindowState
    <3>8. g + m + (n + k) <= win[x].tag
      BY <2>2, <3>5, <3>6 DEF CallsOnce
    <3>9. g + 0 + (m + n + k) <= win[x].tag
      BY <3>8, <3>7
    <3> QED
      BY <2>9, <2>13, <3>3, <3>4, <3>6, <3>9 DEF CallsOnce
  <2>15. Unopened'
    BY <2>7, <2>9 DEF Unopened
  <2> QED
    BY <2>10, <2>11, <2>12, <2>13, <2>14, <2>15
<1> QED
  BY <1>2, <1>3

LEMMA TakeFrameKeeps ==
    ASSUME ControlInv, TakeFrame
    PROVE  ControlInv'
<1> USE DEF ControlInv
<1>1. PICK x \in Windows : x = client
  BY DEF TakeFrame, BrokerInv
<1>2. PICK r \in Seq(Frames(x, clicks)) : r = rx /\ r # <<>>
  BY <1>1 DEF TakeFrame, BrokerInv
<1>3. PICK h \in Frames(x, clicks), t \in Seq(Frames(x, clicks)) :
          h = Head(r) /\ t = Tail(r) /\ Len(t) = Len(r) - 1
  BY <1>2, QueueFacts
<1>4. /\ work' = <<h>> /\ rx' = t /\ phase' = "work" /\ client' = client /\ work = <<>>
      /\ tx' = tx /\ backlog' = backlog /\ chan' = chan /\ win' = win /\ ran' = ran
      /\ clicks' = clicks
  BY <1>2, <1>3 DEF TakeFrame, BrokerInv, pageVars
<1>5. <<h>> \in Seq(Frames(x, clicks)) /\ Len(<<h>>) = 1
  BY OneFacts
<1>6. HubInv'
  BY DEF TakeFrame, HubInv, hubVars, pageVars
<1>7. WindowInv'
  BY DEF TakeFrame, WindowInv, pageVars
<1>8. BrokerInv'
  BY <1>1, <1>4, <1>5, ControlAssumption DEF BrokerInv
<1>9. ChanInv'
  BY <1>4 DEF ChanInv
<1>10. CallsOnce'
  <2>1. Len(<<>>) = 0 /\ Len(r) \in Nat
    BY EmptyFacts, QueueFacts
  <2>2. \A w \in Windows : Held(w)' = Held(w)
    BY <1>1, <1>2, <1>3, <1>4, <1>5, <2>1 DEF Held
  <2> QED
    BY <1>4, <2>2 DEF CallsOnce
<1>11. Unopened'
  BY <1>4 DEF Unopened
<1> QED
  BY <1>6, <1>7, <1>8, <1>9, <1>10, <1>11

\* A question is cleared or asked within the documents' type.
LEMMA ClearedIsDoc ==
    ASSUME NEW d \in Docs, NEW s
    PROVE  [d EXCEPT ![s] = NoQuestion] \in Docs
    BY DEF Docs, Question

LEMMA AsksIsDoc ==
    ASSUME NEW s \in Sides, NEW peer \in Peers, HubInv, Asks(s, peer)
    PROVE  question' \in Docs /\ minted' \in 0 .. MaxQuestions
<1>1. MaxQuestions \in Nat
  BY ControlAssumption
<1>2. minted' \in 1 .. MaxQuestions /\ minted' = minted + 1
  BY <1>1 DEF Asks, HubInv
<1>3. PICK m \in 1 .. MaxQuestions : m = minted'
  BY <1>2
<1>4. [nonce |-> m, fp |-> peer] \in Question
  BY DEF Question
<1>5. question' = [question EXCEPT ![s] = [nonce |-> m, fp |-> peer]]
  BY <1>2, <1>3 DEF Asks
<1> QED
  BY <1>1, <1>2, <1>4, <1>5 DEF HubInv, Docs

\* The verbs other than an answer to a question leave the pins alone.
LEMMA RunVerbHub ==
    ASSUME HubInv, NEW f, RunVerb(f), UNCHANGED <<pins, saved, clicks>>
    PROVE  HubInv' /\ \E ok \in BOOLEAN, doc \in Docs : Reply(f, ok, doc)
<1>1. question' \in Docs /\ minted' \in 0 .. MaxQuestions
  <2>1. CASE UNCHANGED <<question, minted>>
    BY <2>1 DEF HubInv
  <2>2. ASSUME NEW s, question' = NotAsking(s), UNCHANGED minted
        PROVE  question' \in Docs /\ minted' \in 0 .. MaxQuestions
    BY <2>2, ClearedIsDoc DEF HubInv, NotAsking
  <2>3. ASSUME NEW peer \in Peers, Asks("import", peer)
        PROVE  question' \in Docs /\ minted' \in 0 .. MaxQuestions
    BY <2>3, AsksIsDoc DEF Sides
  <2>4. CASE ShareStart(f)
    BY <2>1, <2>4 DEF ShareStart
  <2>5. CASE ImportConnect(f)
    BY <2>2, <2>3, <2>5 DEF ImportConnect
  <2> QED
    BY <2>1, <2>2, <2>4, <2>5 DEF RunVerb
<1>2. question \in Docs
  BY DEF HubInv
<1>3. TRUE \in BOOLEAN /\ FALSE \in BOOLEAN
  BY Zenon
<1>4. \E ok \in BOOLEAN : Reply(f, ok, question) \/ Reply(f, ok, question')
  BY <1>3, Zenon DEF RunVerb, ShareStart, ImportConnect
<1> QED
  BY <1>1, <1>2, <1>4 DEF HubInv

\* An acceptance that is honoured pins a question a person accepted on screen.
LEMMA ApproveHub ==
    ASSUME HubInv, NEW w, NEW f \in Frames(w, clicks), f.req.verb = "approve",
           Approve(f), UNCHANGED clicks
    PROVE  HubInv' /\ \E ok \in BOOLEAN, doc \in Docs : Reply(f, ok, doc)
<1>1. question \in Docs /\ minted \in 0 .. MaxQuestions /\ pins \cup saved \subseteq clicks
  BY DEF HubInv
<1>2. PICK r \in Requests(clicks) : r = f.req
  BY FrameFields
<1>3. r \in Approvals /\ (r.accept => r.said \in clicks)
  BY <1>2 DEF Requests, Verbs
<1>4. CASE ~SameQuestion(question[r.side], r.said)
  <2>1. Reply(f, FALSE, question) /\ UNCHANGED <<question, minted, pins, saved>>
    BY <1>2, <1>4 DEF Approve, hubVars
  <2> QED
    BY <1>1, <2>1 DEF HubInv
<1>5. CASE SameQuestion(question[r.side], r.said)
  <2>1. question' = [question EXCEPT ![r.side] = NoQuestion] /\ minted' = minted
        /\ Reply(f, TRUE, question')
    BY <1>2, <1>5 DEF Approve, NotAsking
  <2>2. question' \in Docs
    BY <1>1, <2>1, ClearedIsDoc
  <2>3. pins' \cup saved' \subseteq clicks
    <3>1. CASE r.accept
      <4>1. question[r.side] = r.said /\ r.said \in clicks
        BY <1>3, <1>5, <3>1 DEF SameQuestion
      <4>2. pins' = pins \cup {question[r.side]} /\ (saved' = pins' \/ saved' = saved)
        BY <1>2, <1>5, <3>1 DEF Approve
      <4> QED
        BY <1>1, <4>1, <4>2
    <3>2. CASE ~r.accept
      BY <1>1, <1>2, <1>5, <3>2 DEF Approve
    <3> QED
      BY <3>1, <3>2
  <2> QED
    BY <1>1, <2>1, <2>2, <2>3 DEF HubInv
<1> QED
  BY <1>4, <1>5

LEMMA FinishFrameKeeps ==
    ASSUME ControlInv, FinishFrame
    PROVE  ControlInv'
<1> USE DEF ControlInv
<1>1. PICK x \in Windows : x = client
  BY DEF FinishFrame, BrokerInv
<1>2. PICK k \in Seq(Frames(x, clicks)) : k = work /\ Len(k) = 1
  BY <1>1 DEF FinishFrame, BrokerInv
<1>3. PICK f \in Frames(x, clicks) : f = work[1]
  BY <1>2
<1>4. /\ phase' = "handle" /\ work' = <<>> /\ client' = client /\ rx' = rx
      /\ backlog' = backlog /\ chan' = chan /\ win' = win /\ http' = http /\ page' = page
      /\ clicks' = clicks /\ answers' = answers
  BY DEF FinishFrame, pageVars
<1>5. HubInv' /\ \E ok \in BOOLEAN, doc \in Docs : Reply(f, ok, doc)
  <2>1. NoDoc \in Docs
    BY DEF NoDoc, Docs, Question
  <2>2. CASE /\ UNCHANGED <<question, minted, pins, saved>>
             /\ Reply(f, FALSE, NoDoc) \/ Reply(f, f.from \notin Skewed, NoDoc)
    <3>1. HubInv'
      BY <1>4, <2>2 DEF HubInv
    <3>2. FALSE \in BOOLEAN /\ (f.from \notin Skewed) \in BOOLEAN
      BY Zenon
    <3> QED
      BY <2>1, <2>2, <3>1, <3>2, Zenon
  <2>3. CASE f.req.verb = "approve" /\ Approve(f)
    BY <1>4, <2>3, ApproveHub
  <2>4. CASE RunVerb(f) /\ UNCHANGED <<pins, saved>>
    BY <1>4, <2>4, RunVerbHub
  <2> QED
    BY <1>3, <2>2, <2>3, <2>4 DEF FinishFrame, hubVars
<1>6. PICK a \in AnswersTo(x) : tx' = Append(tx, a) /\ ran' = [ran EXCEPT ![x] = @ + 1]
  <2>1. f.from = x
    BY FrameFields
  <2> QED
    BY <1>5, <2>1, AnswerIsTo DEF Reply
<1>7. WindowInv'
  BY <1>4, <1>6 DEF WindowInv
<1>8. BrokerInv'
  <2>1. PICK t \in Seq(AnswersTo(x)) : t = tx
    BY <1>1 DEF BrokerInv
  <2>2. tx' \in Seq(AnswersTo(x))
    BY <1>6, <2>1, AppendFacts
  <2>3. <<>> \in Seq(Frames(x, clicks))
    BY EmptyFacts
  <2> QED
    BY <1>1, <1>4, <2>2, <2>3, ControlAssumption DEF BrokerInv
<1>9. ChanInv'
  BY <1>4 DEF ChanInv
<1>10. CallsOnce'
  <2>1. PICK n \in Nat : n = Len(rx)
    BY QueueFacts DEF BrokerInv
  <2>2. Len(<<>>) = 0
    BY EmptyFacts
  <2>3. Held(x) = n + 1
    BY <1>1, <1>2, <2>1 DEF Held
  <2>4. \A w \in Windows : Held(w)' = IF w = x THEN n ELSE Held(w)
    BY <1>1, <1>4, <2>1, <2>2 DEF Held
  <2>5. PICK u \in Nat, g \in Nat, m \in Nat :
            u = Len(chan[x].up) /\ g = ran[x] /\ m = win[x].tag
    BY ChanLengths, ZenonT(60) DEF WindowInv, WindowState
  <2>6. g + u + (n + 1) <= m
    BY <2>3, <2>5 DEF CallsOnce
  <2>7. (g + 1) + u + n <= m
    BY <2>6
  <2>8. ran'[x] = g + 1 /\ \A w \in Windows \ {x} : ran'[w] = ran[w]
    BY <1>6, <2>5 DEF WindowInv
  <2> QED
    BY <1>4, <2>4, <2>5, <2>7, <2>8 DEF CallsOnce
<1>11. Unopened'
  <2>1. win[x].pc # "off"
    BY <1>1 DEF Unopened
  <2>2. \A w \in Windows \ {x} : ran'[w] = ran[w]
    BY <1>6 DEF WindowInv
  <2> QED
    BY <1>4, <2>1, <2>2 DEF Unopened
<1> QED
  BY <1>5, <1>7, <1>8, <1>9, <1>10, <1>11

LEMMA PushKeeps ==
    ASSUME ControlInv, Push
    PROVE  ControlInv'
<1> USE DEF ControlInv
<1>1. client # Nobody /\ work = <<>> /\ phase' = "poll" /\ rx = <<>>
  BY DEF Push, BrokerInv
<1>2. CASE tx # <<>> /\ ~chan[client].here
  BY <1>1, <1>2, DropKeeps DEF Push
<1>3. CASE ~(tx # <<>> /\ ~chan[client].here)
  <2>1. PICK x \in Windows : x = client
    BY <1>1 DEF BrokerInv
  <2>2. PICK c \in Channel(x, clicks) : c = chan[x]
    BY DEF ChanInv
  <2>3. c.up \in Seq(Frames(x, clicks)) /\ c.down \in Seq(AnswersTo(x))
    BY ChannelFields
  <2>4. PICK t \in Seq(AnswersTo(x)) : t = tx
    BY <2>1 DEF BrokerInv
  <2>5. PICK d \in Seq(AnswersTo(x)), l \in Seq(AnswersTo(x)) :
            /\ d = c.down \o Fitting(c.down, t)
            /\ l = SubSeq(t, Len(Fitting(c.down, t)) + 1, Len(t))
    BY <2>3, FittingFacts
  <2>6. PICK e \in Channel(x, clicks) : e = [c EXCEPT !.down = d]
    BY <2>3, ChannelEdits
  <2>7. chan' = [chan EXCEPT ![x] = e] /\ tx' = l /\ rx' = rx /\ client' = client
    BY <1>3, <2>1, <2>2, <2>4, <2>5, <2>6 DEF Push
  <2>8. clicks' = clicks /\ win' = win /\ ran' = ran /\ work' = work /\ backlog' = backlog
    BY DEF Push, pageVars
  <2>9. HubInv'
    BY DEF Push, HubInv, hubVars, pageVars
  <2>10. WindowInv'
    BY DEF Push, WindowInv, pageVars
  <2>11. BrokerInv'
    BY <1>1, <2>1, <2>7, <2>8, ControlAssumption DEF BrokerInv
  <2>12. ChanInv' /\ \A w \in Windows : chan'[w].up = chan[w].up
    <3>1. e.up = c.up
      BY <2>6 DEF Channel
    <3> QED
      BY <2>2, <2>7, <2>8, <3>1, ChanSet
  <2>13. CallsOnce'
    <3>1. \A w \in Windows : Held(w)' = Held(w)
      BY <2>7, <2>8 DEF Held
    <3> QED
      BY <2>8, <2>12, <3>1 DEF CallsOnce
  <2>14. Unopened'
    BY <2>7, <2>8 DEF Unopened
  <2> QED
    BY <2>9, <2>10, <2>11, <2>12, <2>13, <2>14
<1> QED
  BY <1>2, <1>3

LEMMA PumpKeeps ==
    ASSUME ControlInv, Pump
    PROVE  ControlInv'
<1> USE DEF ControlInv
<1>1. /\ pins' = pins /\ saved' = saved /\ clicks' = clicks
  BY DEF Pump, pageVars
<1>2. HubInv'
  <2>1. ASSUME NEW s \in Sides, NEW peer \in Peers, Asks(s, peer)
        PROVE  HubInv'
    BY <1>1, <2>1, AsksIsDoc DEF HubInv
  <2>2. ASSUME NEW s \in Sides, question' = NotAsking(s), UNCHANGED minted
        PROVE  HubInv'
    BY <1>1, <2>2, ClearedIsDoc DEF HubInv, NotAsking
  <2>3. "share" \in Sides /\ "import" \in Sides
    BY DEF Sides
  <2> QED
    BY <2>1, <2>2, <2>3 DEF Pump, PumpShare, PumpImportPairing
<1>3. BrokerInv' /\ ChanInv' /\ WindowInv' /\ Unopened'
  BY DEF Pump, BrokerInv, ChanInv, WindowInv, Unopened, brokerVars, pageVars
<1>4. CallsOnce'
  BY DEF Pump, CallsOnce, Held, brokerVars, pageVars
<1> QED
  BY <1>2, <1>3, <1>4

LEMMA BrokerStopsKeeps ==
    ASSUME ControlInv, BrokerStops
    PROVE  ControlInv'
<1> USE DEF ControlInv
<1>1. /\ phase' = "poll" /\ client' = Nobody /\ rx' = <<>> /\ tx' = <<>> /\ work' = <<>>
      /\ backlog' = <<>> /\ question' = NoDoc /\ minted' = minted /\ pins' = pins
      /\ saved' = saved /\ clicks' = clicks /\ win' = win /\ ran' = ran
      /\ chan' = [w \in Windows |-> [chan[w] EXCEPT !.there = FALSE]]
  BY DEF BrokerStops, pageVars
<1>2. HubInv'
  <2>1. NoDoc \in Docs
    BY DEF NoDoc, Docs, Question
  <2> QED
    BY <1>1, <2>1 DEF HubInv
<1>3. BrokerInv'
  <2>1. /\ <<>> \in Seq(Frames(Nobody, clicks)) /\ <<>> \in Seq(AnswersTo(Nobody))
        /\ <<>> \in Seq(Windows)
    BY EmptyFacts
  <2> QED
    BY <1>1, <2>1 DEF BrokerInv
<1>4. \A w \in Windows : chan'[w] \in Channel(w, clicks) /\ chan'[w].up = chan[w].up
  <2>1. TAKE w \in Windows
  <2>2. PICK c \in Channel(w, clicks) : c = chan[w]
    BY DEF ChanInv
  <2>3. PICK e \in Channel(w, clicks) : e = [c EXCEPT !.there = FALSE]
    BY ChannelEdits, EmptyFacts
  <2>4. chan'[w] = e
    BY <1>1, <2>2, <2>3
  <2>5. e.up = c.up
    BY <2>3 DEF Channel
  <2> QED
    BY <2>2, <2>4, <2>5
<1>5. ChanInv'
  BY <1>1, <1>4 DEF ChanInv
<1>6. WindowInv'
  BY DEF BrokerStops, WindowInv, pageVars
<1>7. CallsOnce'
  <2>1. \A w \in Windows : Held(w)' = 0
    BY <1>1, ControlAssumption DEF Held
  <2>2. \A w \in Windows : Held(w) \in Nat
    <3>1. Len(rx) \in Nat /\ Len(work) \in Nat
      BY QueueFacts DEF BrokerInv
    <3> QED
      BY <3>1 DEF Held
  <2>3. \A w \in Windows : Len(chan[w].up) \in Nat /\ ran[w] \in Nat /\ win[w].tag \in Nat
    BY ChanLengths DEF WindowInv, WindowState
  <2>4. \A w \in Windows : ran[w] + Len(chan[w].up) + 0 <= win[w].tag
    <3>1. TAKE w \in Windows
    <3>2. PICK h \in Nat, u \in Nat, g \in Nat, m \in Nat :
              h = Held(w) /\ u = Len(chan[w].up) /\ g = ran[w] /\ m = win[w].tag
      BY <2>2, <2>3
    <3>3. g + u + h <= m
      BY <3>2 DEF CallsOnce
    <3>4. g + u + 0 <= m
      BY <3>3
    <3> QED
      BY <3>2, <3>4
  <2>5. win' = win /\ ran' = ran /\ \A w \in Windows : chan'[w].up = chan[w].up
    BY <1>1, <1>4
  <2> QED
    BY <2>1, <2>4, <2>5 DEF CallsOnce
<1>8. Unopened'
  <2>1. Len(<<>>) = 0
    BY EmptyFacts
  <2> QED
    BY <1>1, <2>1, ControlAssumption DEF Unopened
<1> QED
  BY <1>2, <1>3, <1>5, <1>6, <1>7, <1>8

LEMMA BrokerStartsKeeps ==
    ASSUME ControlInv, BrokerStarts
    PROVE  ControlInv'
<1> USE DEF ControlInv
<1>1. HubInv'
  BY DEF BrokerStarts, HubInv, pageVars
<1>2. BrokerInv' /\ ChanInv' /\ WindowInv' /\ Unopened'
  BY DEF BrokerStarts, BrokerInv, ChanInv, WindowInv, Unopened, pageVars
<1>3. CallsOnce'
  BY DEF BrokerStarts, CallsOnce, Held, pageVars
<1> QED
  BY <1>1, <1>2, <1>3

-------------------------------------------------------------------------------
(* The window's steps *)

\* What a window does to its own end, its call number and its page.
LEMMA WindowStep ==
    ASSUME ControlInv, UNCHANGED <<brokerVars, hubVars, clicks, ran>>,
           NEW w \in Windows, NEW e \in Channel(w, clicks), NEW s \in WindowState,
           chan' = [chan EXCEPT ![w] = e], win' = [win EXCEPT ![w] = s], s.pc # "off",
           \/ e.up = chan[w].up /\ s.tag = win[w].tag
           \/ Len(e.up) = Len(chan[w].up) + 1 /\ s.tag = win[w].tag + 1,
           http' \in [Windows -> Seq(Requests(clicks))],
           page' \in [Windows -> Shown],
           answers' \in [Windows -> SUBSET Windows],
           \A v \in Windows : answers'[v] \subseteq {v}
    PROVE  ControlInv'
<1> USE DEF ControlInv
<1>1. clicks' = clicks /\ client' = client /\ rx' = rx /\ work' = work /\ ran' = ran
      /\ backlog' = backlog
  BY DEF brokerVars
<1>2. HubInv'
  BY DEF HubInv, hubVars
<1>3. BrokerInv'
  BY DEF BrokerInv, brokerVars
<1>4. ChanInv' /\ chan'[w] = e /\ \A v \in Windows \ {w} : chan'[v] = chan[v]
  BY <1>1, ChanSet
<1>5. win' \in [Windows -> WindowState] /\ win'[w] = s
      /\ \A v \in Windows \ {w} : win'[v] = win[v]
  BY DEF WindowInv
<1>6. WindowInv'
  BY <1>1, <1>5 DEF WindowInv
<1>7. CallsOnce'
  <2>1. \A v \in Windows : Held(v)' = Held(v)
    BY <1>1 DEF Held
  <2>2. PICK h \in Nat : h = Held(w)
    <3>1. Len(rx) \in Nat /\ Len(work) \in Nat
      BY QueueFacts DEF BrokerInv
    <3> QED
      BY <3>1 DEF Held
  <2>3. PICK u \in Nat, g \in Nat, m \in Nat :
            u = Len(chan[w].up) /\ g = ran[w] /\ m = win[w].tag
    BY ChanLengths DEF WindowInv, WindowState
  <2>4. g + u + h <= m
    BY <2>2, <2>3 DEF CallsOnce
  <2>5. g + Len(e.up) + h <= s.tag
    <3>1. CASE e.up = chan[w].up /\ s.tag = win[w].tag
      BY <2>3, <2>4, <3>1
    <3>2. CASE Len(e.up) = Len(chan[w].up) + 1 /\ s.tag = win[w].tag + 1
      <4>1. Len(e.up) = u + 1 /\ s.tag = m + 1
        BY <2>3, <3>2
      <4>2. g + (u + 1) + h <= m + 1
        BY <2>4
      <4> QED
        BY <4>1, <4>2
    <3> QED
      BY <3>1, <3>2
  <2>6. \A v \in Windows : ran'[v] + Len(chan'[v].up) + Held(v) <= win'[v].tag
    BY <1>1, <1>4, <1>5, <2>2, <2>3, <2>5 DEF CallsOnce
  <2> QED
    BY <2>1, <2>6 DEF CallsOnce
<1>8. Unopened'
  <2>1. \A v \in Windows : win'[v].pc = "off" => win[v].pc = "off"
    BY <1>5
  <2>2. \A i \in 1 .. Len(backlog) : backlog[i] \in Windows
    BY DEF BrokerInv
  <2>3. \A i \in 1 .. Len(backlog) : win'[backlog[i]].pc # "off"
    BY <2>1, <2>2 DEF Unopened
  <2> QED
    BY <1>1, <2>1, <2>3 DEF Unopened
<1> QED
  BY <1>2, <1>3, <1>4, <1>6, <1>7, <1>8

LEMMA RespondTyped ==
    ASSUME WindowInv, NEW w \in Windows, NEW verb, NEW doc, doc = <<>> \/ doc[1] \in Docs,
           Respond(w, verb, doc)
    PROVE  page' \in [Windows -> Shown]
<1>1. page \in [Windows -> Shown]
  BY DEF WindowInv
<1>2. PICK pg \in Shown : pg = page[w]
  BY <1>1
<1>3. pg.shown \in Docs /\ pg.busy \in BOOLEAN
  BY DEF Shown
<1>4. PICK d \in Docs : d = IF doc = <<>> THEN pg.shown ELSE doc[1]
  BY <1>3
<1>5. PICK b \in BOOLEAN : b = (pg.busy /\ verb = "state")
  BY Zenon
<1>6. [shown |-> d, busy |-> b] \in Shown
  BY DEF Shown
<1>7. page' = page \/ page' = [page EXCEPT ![w] = [shown |-> d, busy |-> b]]
  BY <1>2, <1>4, <1>5 DEF Respond
<1> QED
  BY <1>1, <1>6, <1>7

LEMMA WhenLostTyped ==
    ASSUME NEW verb, NEW s
    PROVE  WhenLost(verb, s) = <<>> \/ WhenLost(verb, s)[1] \in Docs
<1>1. NoDoc \in Docs
  BY DEF NoDoc, Docs, Question
<1> QED
  BY <1>1 DEF WhenLost

\* The window's end is closed: what it sent stays, what it would read is gone.
LEMMA ClosedIs ==
    ASSUME ChanInv, NEW w \in Windows
    PROVE  \E e \in Channel(w, clicks) : e.up = chan[w].up /\ Closed(w) = [chan EXCEPT ![w] = e]
<1>1. PICK c \in Channel(w, clicks) : c = chan[w]
  BY DEF ChanInv
<1>2. PICK e \in Channel(w, clicks) : e = [c EXCEPT !.here = FALSE, !.down = <<>>]
  BY ChannelEdits, EmptyFacts
<1>3. e.up = c.up
  BY <1>2 DEF Channel
<1>4. Closed(w) = [chan EXCEPT ![w] = e]
  BY <1>1, <1>2 DEF Closed
<1> QED
  BY <1>1, <1>3, <1>4

\* The window moves to another pc, with the same call number.
LEMMA PcIs ==
    ASSUME WindowInv, NEW w \in Windows,
           NEW pc \in {"off", "opening", "standalone", "idle", "calling", "lost", "exited"},
           win' = [win EXCEPT ![w].pc = pc]
    PROVE  \E s \in WindowState : /\ s.pc = pc /\ s.tag = win[w].tag
                                  /\ win' = [win EXCEPT ![w] = s]
<1>1. PICK v \in WindowState : v = win[w]
  BY DEF WindowInv
<1>2. PICK s \in WindowState : s = [v EXCEPT !.pc = pc]
  BY DEF WindowState
<1>3. s.pc = pc /\ s.tag = v.tag
  BY <1>2 DEF WindowState
<1> QED
  BY <1>1, <1>2, <1>3

LEMMA OpenKeeps ==
    ASSUME ControlInv, NEW w \in Windows, Open(w)
    PROVE  ControlInv'
<1> USE DEF ControlInv
<1>1. /\ win[w].pc = "off" /\ clicks' = clicks /\ client' = client /\ rx' = rx /\ work' = work
      /\ ran' = ran /\ http' = http /\ page' = page /\ answers' = answers
      /\ phase' = phase /\ tx' = tx
  BY DEF Open, pageVars
<1>2. CASE ~up
  <2>1. win' = [win EXCEPT ![w].pc = "standalone"] /\ chan' = chan /\ backlog' = backlog
    BY <1>2 DEF Open
  <2>2. PICK s \in WindowState : /\ s.pc = "standalone" /\ s.tag = win[w].tag
                                 /\ win' = [win EXCEPT ![w] = s]
    BY <2>1, PcIs
  <2>3. PICK e \in Channel(w, clicks) : e = chan[w] /\ chan' = [chan EXCEPT ![w] = e]
    BY <2>1 DEF ChanInv
  <2>4. UNCHANGED <<brokerVars, hubVars, clicks, ran>>
    BY <1>1, <2>1 DEF Open, brokerVars
  <2>5. /\ http' \in [Windows -> Seq(Requests(clicks))]
        /\ page' \in [Windows -> Shown]
        /\ answers' \in [Windows -> SUBSET Windows]
        /\ \A v \in Windows : answers'[v] \subseteq {v}
    BY <1>1 DEF WindowInv
  <2> QED
    BY <2>2, <2>3, <2>4, <2>5, WindowStep
<1>3. CASE up
  <2>1. PICK v \in WindowState : v = win[w]
    BY DEF WindowInv
  <2>2. PICK s \in WindowState : s = [v EXCEPT !.pc = "opening", !.tag = 1]
    BY DEF WindowState
  <2>3. s.pc = "opening" /\ s.tag = 1
    BY <2>2 DEF WindowState
  <2>4. [verb |-> "state"] \in Requests(clicks)
    BY DEF Requests
  <2>5. win[w].tag + 1 \in Nat
    BY DEF WindowInv, WindowState
  <2>6. PICK f \in Frames(w, clicks) : f = Frame(w, "attach", [verb |-> "state"])
    BY <2>4, <2>5 DEF Frame, Frames
  <2>7. <<f>> \in Seq(Frames(w, clicks)) /\ Len(<<f>>) = 1
    BY OneFacts
  <2>8. PICK e \in Channel(w, clicks) :
            e = [up |-> <<f>>, down |-> <<>>, here |-> TRUE, there |-> TRUE]
    <3>1. <<>> \in Seq(AnswersTo(w))
      BY EmptyFacts
    <3> QED
      BY <2>7, <3>1 DEF Channel
  <2>9. /\ win' = [win EXCEPT ![w] = s] /\ chan' = [chan EXCEPT ![w] = e]
        /\ backlog' = Append(backlog, w)
    BY <1>3, <2>1, <2>2, <2>6, <2>8 DEF Open
  <2>10. ChanInv' /\ chan'[w] = e /\ \A v2 \in Windows \ {w} : chan'[v2] = chan[v2]
    BY <1>1, <2>9, ChanSet
  <2>11. win' \in [Windows -> WindowState] /\ win'[w] = s
         /\ \A v2 \in Windows \ {w} : win'[v2] = win[v2]
    BY <2>9 DEF WindowInv
  <2>12. HubInv'
    BY <1>1 DEF Open, HubInv, hubVars
  <2>13. WindowInv'
    BY <1>1, <2>11 DEF WindowInv
  <2>14. PICK q \in Seq(Windows) : q = backlog
    BY DEF BrokerInv
  <2>15. /\ Append(q, w) \in Seq(Windows) /\ Len(Append(q, w)) = Len(q) + 1
         /\ \A i \in 1 .. Len(q) : Append(q, w)[i] = q[i]
         /\ Append(q, w)[Len(q) + 1] = w
    BY AppendFacts
  <2>16. BrokerInv'
    BY <1>1, <2>9, <2>14, <2>15 DEF BrokerInv
  <2>17. CallsOnce'
    <3>1. client # w /\ ran[w] = 0
      BY <1>1 DEF Unopened
    <3>2. \A v2 \in Windows : Held(v2)' = IF v2 = w THEN 0 ELSE Held(v2)
      BY <1>1, <3>1 DEF Held
    <3>3. ran'[w] = 0 /\ Len(chan'[w].up) = 1 /\ win'[w].tag = 1
      BY <1>1, <2>3, <2>7, <2>8, <2>10, <2>11, <3>1
    <3>4. 0 + 1 + 0 <= 1
      OBVIOUS
    <3> QED
      BY <1>1, <2>10, <2>11, <3>2, <3>3, <3>4 DEF CallsOnce
  <2>18. Unopened'
    <3>1. \A i \in 1 .. Len(q) : q[i] # w /\ q[i] \in Windows /\ win[q[i]].pc # "off"
      BY <1>1, <2>14 DEF Unopened
    <3>2. Len(q) \in Nat
      BY QueueFacts
    <3>3. \A i \in 1 .. Len(backlog') : win'[backlog'[i]].pc # "off"
      <4>1. TAKE i \in 1 .. Len(backlog')
      <4>2. i \in 1 .. Len(q) \/ i = Len(q) + 1
        BY <2>9, <2>14, <2>15, <3>2, <4>1
      <4> QED
        BY <2>3, <2>9, <2>11, <2>14, <2>15, <3>1, <4>2
    <3>4. \A v2 \in Windows : win'[v2].pc = "off" => win[v2].pc = "off"
      BY <2>3, <2>11
    <3> QED
      BY <1>1, <3>3, <3>4 DEF Unopened
  <2> QED
    BY <2>10, <2>12, <2>13, <2>16, <2>17, <2>18
<1> QED
  BY <1>2, <1>3

\* The rest of the state of a window's step.
RestKept ==
    /\ UNCHANGED <<brokerVars, hubVars, clicks, ran>>
    /\ http' \in [Windows -> Seq(Requests(clicks))]
    /\ answers' \in [Windows -> SUBSET Windows]
    /\ \A v \in Windows : answers'[v] \subseteq {v}

\* The window closes its end and moves to pc pc.
LEMMA ClosedKeeps ==
    ASSUME ControlInv, RestKept, NEW w \in Windows,
           NEW pc \in {"standalone", "lost", "exited"},
           chan' = Closed(w), win' = [win EXCEPT ![w].pc = pc], page' \in [Windows -> Shown]
    PROVE  ControlInv'
<1>1. PICK e \in Channel(w, clicks) : e.up = chan[w].up /\ chan' = [chan EXCEPT ![w] = e]
  BY ClosedIs DEF ControlInv
<1>2. WindowInv /\ pc \in {"off", "opening", "standalone", "idle", "calling", "lost", "exited"}
  BY DEF ControlInv
<1>3. PICK s \in WindowState : /\ s.pc = pc /\ s.tag = win[w].tag
                               /\ win' = [win EXCEPT ![w] = s]
  BY <1>2, PcIs, ZenonT(60)
<1>4. s.pc # "off"
  BY <1>3
<1> QED
  BY <1>1, <1>3, <1>4, WindowStep DEF RestKept

\* The window takes a frame off its end and moves to pc pc, or stays.
LEMMA TakenKeeps ==
    ASSUME ControlInv, RestKept, NEW w \in Windows, win[w].pc # "off", chan[w].down # <<>>,
           chan' = [chan EXCEPT ![w].down = Tail(@)],
           win' = win \/ win' = [win EXCEPT ![w].pc = "idle"],
           page' \in [Windows -> Shown]
    PROVE  ControlInv'
<1>1. PICK c \in Channel(w, clicks) : c = chan[w]
  BY DEF ControlInv, ChanInv
<1>2. PICK d \in Seq(AnswersTo(w)) : d = c.down /\ d # <<>>
  BY <1>1, ChannelFields
<1>3. PICK t \in Seq(AnswersTo(w)) : t = Tail(d)
  BY <1>2, QueueFacts
<1>4. PICK e \in Channel(w, clicks) : e = [c EXCEPT !.down = t]
  BY ChannelFields, ChannelEdits
<1>5. e.up = chan[w].up
  BY <1>1, <1>4 DEF Channel
<1>6. chan' = [chan EXCEPT ![w] = e]
  BY <1>1, <1>2, <1>3, <1>4
<1>7. PICK s \in WindowState : /\ s.pc # "off" /\ s.tag = win[w].tag
                               /\ win' = [win EXCEPT ![w] = s]
  <2>1. CASE win' = win
    <3>1. win[w] \in WindowState /\ win = [win EXCEPT ![w] = win[w]]
      BY DEF ControlInv, WindowInv
    <3> QED
      BY <2>1, <3>1
  <2>2. CASE win' = [win EXCEPT ![w].pc = "idle"]
    <3>1. PICK s \in WindowState : /\ s.pc = "idle" /\ s.tag = win[w].tag
                                   /\ win' = [win EXCEPT ![w] = s]
      <4>1. WindowInv
        BY DEF ControlInv
      <4> QED
        BY <2>2, <4>1, PcIs
    <3>2. s.pc # "off"
      BY <3>1
    <3> QED
      BY <3>1, <3>2
  <2> QED
    BY <2>1, <2>2
<1> QED
  BY <1>5, <1>6, <1>7, WindowStep DEF RestKept

Served == Verbs \cup {"state", "approve", "hungUp"}

LEMMA CallKeeps ==
    ASSUME ControlInv, RestKept, NEW w \in Windows, win[w].pc # "off",
           win[w].pc = "calling" => chan[w].down # <<>>,
           NEW verb \in Served, NEW s \in {"verb", "state"}, NEW req \in Requests(clicks),
           Call(w, verb, s, req)
    PROVE  ControlInv'
<1>1. CASE ~chan[w].there
  <2>1. chan' = Closed(w) /\ win' = [win EXCEPT ![w].pc = "lost"]
        /\ Respond(w, verb, WhenLost(verb, s))
    BY <1>1 DEF Call
  <2>2. page' \in [Windows -> Shown]
    BY <2>1, RespondTyped, WhenLostTyped DEF ControlInv
  <2> QED
    BY <2>1, <2>2, ClosedKeeps
<1>2. CASE chan[w].there
  <2>1. PICK c \in Channel(w, clicks) : c = chan[w]
    BY DEF ControlInv, ChanInv
  <2>2. c.up \in Seq(Frames(w, clicks)) /\ c.down \in Seq(AnswersTo(w))
    BY ChannelFields
  <2>3. PICK d \in Seq(AnswersTo(w)) :
            d = IF win[w].pc = "calling" THEN Tail(c.down) ELSE c.down
    <3>1. CASE win[w].pc = "calling"
      <4>1. PICK d \in Seq(AnswersTo(w)) : d = c.down /\ d # <<>>
        BY <2>1, <2>2, <3>1
      <4>2. Tail(d) \in Seq(AnswersTo(w))
        BY <4>1, QueueFacts
      <4> QED
        BY <3>1, <4>1, <4>2
    <3>2. CASE win[w].pc # "calling"
      BY <2>2, <3>2
    <3> QED
      BY <3>1, <3>2
  <2>4. win[w].tag + 1 \in Nat
    BY DEF ControlInv, WindowInv, WindowState
  <2>5. PICK f \in Frames(w, clicks) : f = Frame(w, "verb", req)
    BY <2>4 DEF Frame, Frames
  <2>6. PICK u \in Seq(Frames(w, clicks)) : u = Append(c.up, f) /\ Len(u) = Len(c.up) + 1
    <3>1. PICK a \in Seq(Frames(w, clicks)) : a = c.up
      BY <2>2
    <3>2. Append(a, f) \in Seq(Frames(w, clicks)) /\ Len(Append(a, f)) = Len(a) + 1
      BY AppendFacts
    <3> QED
      BY <3>1, <3>2
  <2>7. PICK e \in Channel(w, clicks) : e = [c EXCEPT !.up = u, !.down = d]
    BY ChannelEdits
  <2>8. Len(e.up) = Len(chan[w].up) + 1
    <3>1. e.up = u
      BY <2>7 DEF Channel
    <3> QED
      BY <2>1, <2>6, <3>1
  <2>9. PICK k \in WindowState :
            k = [pc |-> "calling", tag |-> win[w].tag + 1, verb |-> verb, step |-> s]
    BY <2>4 DEF WindowState, Served
  <2>10. k.pc # "off" /\ k.tag = win[w].tag + 1
    BY <2>9
  <2>11. chan' = [chan EXCEPT ![w] = e] /\ win' = [win EXCEPT ![w] = k] /\ page' = page
    BY <1>2, <2>1, <2>3, <2>5, <2>6, <2>7, <2>9, ZenonT(60) DEF Call
  <2>12. page' \in [Windows -> Shown]
    BY <2>11 DEF ControlInv, WindowInv
  <2> QED
    BY <2>8, <2>10, <2>11, <2>12, WindowStep DEF RestKept
<1> QED
  BY <1>1, <1>2

LEMMA RequestIs ==
    ASSUME NEW C, NEW r \in Requests(C)
    PROVE  r.verb \in Served
    BY DEF Requests, Served, Verbs, Approvals

\* A request leaves the window's queue.
LEMMA HttpTaken ==
    ASSUME WindowInv, NEW w \in Windows, http[w] # <<>>, http' = [http EXCEPT ![w] = Tail(@)]
    PROVE  http' \in [Windows -> Seq(Requests(clicks))] /\ Head(http[w]) \in Requests(clicks)
<1>1. PICK q \in Seq(Requests(clicks)) : q = http[w] /\ q # <<>>
  BY DEF WindowInv
<1>2. Head(q) \in Requests(clicks) /\ Tail(q) \in Seq(Requests(clicks))
  BY <1>1, QueueFacts
<1> QED
  BY <1>1, <1>2 DEF WindowInv

LEMMA ServeKeeps ==
    ASSUME ControlInv, NEW w \in Windows, Serve(w)
    PROVE  ControlInv'
<1>1. WindowInv /\ win[w].pc = "idle" /\ http[w] # <<>> /\ http' = [http EXCEPT ![w] = Tail(@)]
  BY DEF Serve, ControlInv
<1>2. PICK r \in Requests(clicks) : r = Head(http[w])
  BY <1>1, HttpTaken
<1>3. RestKept
  <2>1. http' \in [Windows -> Seq(Requests(clicks))]
    BY <1>1, HttpTaken
  <2> QED
    BY <1>1, <2>1 DEF RestKept, Serve, WindowInv
<1>4. PICK verb \in Served, s \in {"verb", "state"} :
          verb = r.verb /\ s = IF r.verb = "state" THEN "state" ELSE "verb"
  BY RequestIs
<1>5. Call(w, verb, s, r)
  BY <1>2, <1>4 DEF Serve
<1>6. win[w].pc # "off" /\ win[w].pc # "calling"
  BY <1>1
<1> QED
  BY <1>3, <1>5, <1>6, CallKeeps

\* A step that leaves the stream and the window's pc alone.
LEMMA PageStep ==
    ASSUME ControlInv, RestKept, NEW w \in Windows, chan' = chan, win' = win,
           win[w].pc # "off", page' \in [Windows -> Shown]
    PROVE  ControlInv'
<1>1. PICK e \in Channel(w, clicks) : e = chan[w] /\ chan' = [chan EXCEPT ![w] = e]
  BY DEF ControlInv, ChanInv
<1>2. PICK s \in WindowState : s = win[w] /\ win' = [win EXCEPT ![w] = s]
  BY DEF ControlInv, WindowInv
<1>3. s.pc # "off" /\ s.tag = win[w].tag /\ e.up = chan[w].up
  BY <1>1, <1>2
<1>4. chan' = [chan EXCEPT ![w] = e] /\ win' = [win EXCEPT ![w] = s]
  BY <1>1, <1>2
<1>5. /\ UNCHANGED <<brokerVars, hubVars, clicks, ran>>
      /\ http' \in [Windows -> Seq(Requests(clicks))]
      /\ answers' \in [Windows -> SUBSET Windows]
      /\ \A v \in Windows : answers'[v] \subseteq {v}
  BY DEF RestKept
<1> QED
  BY <1>3, <1>4, <1>5, WindowStep, Zenon

LEMMA ServeLostKeeps ==
    ASSUME ControlInv, NEW w \in Windows, ServeLost(w)
    PROVE  ControlInv'
<1>1. WindowInv /\ win[w].pc = "lost" /\ http[w] # <<>> /\ http' = [http EXCEPT ![w] = Tail(@)]
  BY DEF ServeLost, ControlInv
<1>2. RestKept
  <2>1. http' \in [Windows -> Seq(Requests(clicks))]
    BY <1>1, HttpTaken
  <2> QED
    BY <1>1, <2>1 DEF RestKept, ServeLost, WindowInv
<1>3. PICK r, s : r = Head(http[w]) /\ s = IF r.verb = "state" THEN "state" ELSE "verb"
  OBVIOUS
<1>4. Respond(w, r.verb, WhenLost(r.verb, s))
  BY <1>3 DEF ServeLost
<1>5. page' \in [Windows -> Shown]
  BY <1>1, <1>4, RespondTyped, WhenLostTyped
<1>6. win[w].pc # "off" /\ chan' = chan /\ win' = win
  BY <1>1 DEF ServeLost
<1> QED
  BY <1>2, <1>5, <1>6, PageStep

LEMMA ReadFrameKeeps ==
    ASSUME ControlInv, NEW w \in Windows, ReadFrame(w)
    PROVE  ControlInv'
<1>1. /\ WindowInv /\ win[w].pc \in {"opening", "calling"} /\ chan[w].down # <<>>
      /\ http' = http
  BY DEF ReadFrame, ControlInv
<1>2. win[w].pc # "off"
  BY <1>1
<1>3. PICK a \in AnswersTo(w) : a = Head(chan[w].down)
  <2>1. PICK c \in Channel(w, clicks) : c = chan[w]
    BY DEF ControlInv, ChanInv
  <2>2. PICK d \in Seq(AnswersTo(w)) : d = c.down
    BY ChannelFields
  <2>3. Head(d) \in AnswersTo(w)
    BY <1>1, <2>1, <2>2, QueueFacts
  <2> QED
    BY <2>1, <2>2, <2>3
<1>4. RestKept
  <2>1. a.from = w
    BY AnswerFields
  <2>2. answers' = answers \/ answers' = [answers EXCEPT ![w] = @ \cup {w}]
    BY <1>3, <2>1 DEF ReadFrame
  <2>3. answers' \in [Windows -> SUBSET Windows] /\ \A v \in Windows : answers'[v] \subseteq {v}
    <3>1. answers \in [Windows -> SUBSET Windows] /\ \A v \in Windows : answers[v] \subseteq {v}
      BY <1>1 DEF WindowInv
    <3>2. CASE answers' = answers
      BY <3>1, <3>2
    <3>3. CASE answers' = [answers EXCEPT ![w] = @ \cup {w}]
      <4>1. answers[w] \cup {w} \subseteq {w} /\ answers[w] \cup {w} \in SUBSET Windows
        BY <3>1
      <4>2. PICK n \in SUBSET Windows : n = answers[w] \cup {w} /\ n \subseteq {w}
        BY <4>1
      <4>3. answers' = [answers EXCEPT ![w] = n]
        BY <3>3, <4>2
      <4> QED
        BY <3>1, <4>2, <4>3
    <3> QED
      BY <2>2, <3>2, <3>3
  <2> QED
    BY <1>1, <2>3 DEF RestKept, ReadFrame, WindowInv
<1>5. CASE ~IsOurs(w, a)
  <2>1. chan' = [chan EXCEPT ![w].down = Tail(@)] /\ win' = win /\ page' = page
    BY <1>3, <1>5 DEF ReadFrame
  <2>2. page' \in [Windows -> Shown]
    BY <1>1, <2>1 DEF WindowInv
  <2> QED
    BY <1>1, <1>2, <1>4, <2>1, <2>2, TakenKeeps
<1>6. CASE Opened(w, a)
  <2>1. page' \in [Windows -> Shown]
    BY <1>1, <1>6 DEF WindowInv, Opened
  <2>2. CASE a.ok
    <3>1. chan' = [chan EXCEPT ![w].down = Tail(@)] /\ win' = [win EXCEPT ![w].pc = "idle"]
      BY <1>6, <2>2 DEF Opened
    <3> QED
      BY <1>1, <1>2, <1>4, <2>1, <3>1, TakenKeeps
  <2>3. CASE ~a.ok
    <3>1. chan' = Closed(w) /\ win' = [win EXCEPT ![w].pc = "standalone"]
      BY <1>6, <2>3 DEF Opened
    <3> QED
      BY <1>4, <2>1, <3>1, ClosedKeeps
  <2> QED
    BY <2>2, <2>3
<1>7. CASE Answered(w, a)
  <2>1. CASE /\ win' = [win EXCEPT ![w].pc = "idle"]
             /\ chan' = [chan EXCEPT ![w].down = Tail(@)]
             /\ Respond(w, win[w].verb, IF a.ok THEN <<a.doc>> ELSE <<>>)
    <3>1. PICK doc : doc = IF a.ok THEN <<a.doc>> ELSE <<>>
      OBVIOUS
    <3>2. doc = <<>> \/ doc[1] \in Docs
      <4>1. a.doc \in Docs
        BY AnswerFields
      <4>2. <<a.doc>>[1] = a.doc
        OBVIOUS
      <4> QED
        BY <3>1, <4>1, <4>2
    <3>3. page' \in [Windows -> Shown]
      BY <1>1, <2>1, <3>1, <3>2, RespondTyped
    <3> QED
      BY <1>1, <1>2, <1>4, <2>1, <3>3, TakenKeeps
  <2>2. CASE Call(w, win[w].verb, "state", [verb |-> "state"])
    <3>1. PICK verb \in Served : verb = win[w].verb
      BY <1>1 DEF WindowInv, WindowState, Served
    <3>2. PICK req \in Requests(clicks) : req = [verb |-> "state"]
      BY DEF Requests
    <3>3. Call(w, verb, "state", req)
      BY <2>2, <3>1, <3>2
    <3> QED
      BY <1>1, <1>2, <1>4, <3>3, CallKeeps
  <2> QED
    BY <1>7, <2>1, <2>2 DEF Answered
<1> QED
  BY <1>3, <1>5, <1>6, <1>7 DEF ReadFrame

LEMMA GiveUpKeeps ==
    ASSUME ControlInv, NEW w \in Windows, GiveUp(w)
    PROVE  ControlInv'
<1>1. WindowInv /\ win[w].pc \in {"opening", "calling"} /\ http' = http /\ answers' = answers
  BY DEF GiveUp, ControlInv
<1>2. RestKept
  BY <1>1 DEF RestKept, GiveUp, WindowInv
<1>3. page' \in [Windows -> Shown]
  <2>1. CASE win[w].pc = "opening"
    BY <1>1, <2>1 DEF GiveUp, WindowInv
  <2>2. CASE win[w].pc # "opening"
    <3>1. PICK verb, s : Respond(w, verb, WhenLost(verb, s))
      BY <2>2 DEF GiveUp
    <3> QED
      BY <1>1, <3>1, RespondTyped, WhenLostTyped
  <2> QED
    BY <2>1, <2>2
<1>4. PICK pc \in {"standalone", "lost", "exited"} : win' = [win EXCEPT ![w].pc = pc]
  BY <1>1 DEF GiveUp
<1>5. chan' = Closed(w)
  BY DEF GiveUp
<1> QED
  BY <1>2, <1>3, <1>4, <1>5, ClosedKeeps

LEMMA BlankPage == [shown |-> NoDoc, busy |-> FALSE] \in Shown
<1>1. NoDoc \in Docs
  BY DEF NoDoc, Docs, Question
<1> QED
  BY <1>1 DEF Shown

LEMMA WindowExitsKeeps ==
    ASSUME ControlInv, NEW w \in Windows, WindowExits(w)
    PROVE  ControlInv'
<1>1. /\ WindowInv /\ answers' = answers /\ http' = [http EXCEPT ![w] = <<>>]
      /\ page' = [page EXCEPT ![w] = [shown |-> NoDoc, busy |-> FALSE]]
  BY DEF WindowExits, ControlInv
<1>2. RestKept
  <2>1. <<>> \in Seq(Requests(clicks))
    BY EmptyFacts
  <2>2. http' \in [Windows -> Seq(Requests(clicks))]
    BY <1>1, <2>1 DEF WindowInv
  <2> QED
    BY <1>1, <2>2 DEF RestKept, WindowExits, WindowInv
<1>3. page' \in [Windows -> Shown]
  BY <1>1, BlankPage DEF WindowInv
<1>4. chan' = Closed(w) /\ win' = [win EXCEPT ![w].pc = "exited"]
  BY DEF WindowExits
<1> QED
  BY <1>2, <1>3, <1>4, ClosedKeeps

-------------------------------------------------------------------------------
(* The page's steps *)

\* A page posts a request: the questions accepted on screen only grow with it.
LEMMA PostKeeps ==
    ASSUME ControlInv, NEW w \in Windows, NEW r \in Requests(clicks'),
           clicks \subseteq clicks', Fetch(w, r), page' \in [Windows -> Shown],
           UNCHANGED <<brokerVars, hubVars, chan, win, ran, answers>>
    PROVE  ControlInv'
<1> USE DEF ControlInv
<1>1. /\ phase' = phase /\ client' = client /\ rx' = rx /\ tx' = tx /\ work' = work
      /\ backlog' = backlog /\ question' = question /\ minted' = minted /\ pins' = pins
      /\ saved' = saved
  BY DEF brokerVars, hubVars
<1>2. HubInv'
  BY <1>1 DEF HubInv
<1>3. BrokerInv'
  <2>1. Seq(Frames(client, clicks)) \subseteq Seq(Frames(client, clicks'))
    BY FramesGrow, SeqGrows
  <2> QED
    BY <1>1, <2>1 DEF BrokerInv
<1>4. ChanInv'
  <2>1. \A v \in Windows : chan[v] \in Channel(v, clicks')
    BY ChannelGrows DEF ChanInv
  <2> QED
    BY <2>1 DEF ChanInv
<1>5. WindowInv'
  <2>1. Seq(Requests(clicks)) \subseteq Seq(Requests(clicks'))
    BY RequestsGrow, SeqGrows
  <2>2. http \in [Windows -> Seq(Requests(clicks'))]
    BY <2>1 DEF WindowInv
  <2>3. PICK q \in Seq(Requests(clicks')) : q = http[w]
    BY <2>2
  <2>4. Append(q, r) \in Seq(Requests(clicks'))
    BY AppendFacts
  <2>5. http' \in [Windows -> Seq(Requests(clicks'))]
    BY <2>2, <2>3, <2>4 DEF Fetch
  <2> QED
    BY <2>5 DEF WindowInv
<1>6. CallsOnce'
  BY <1>1 DEF CallsOnce, Held
<1>7. Unopened'
  BY <1>1 DEF Unopened
<1> QED
  BY <1>2, <1>3, <1>4, <1>5, <1>6, <1>7

LEMMA PagePollsKeeps ==
    ASSUME ControlInv, NEW w \in Windows, PagePolls(w)
    PROVE  ControlInv'
<1>1. /\ clicks' = clicks /\ page' = page
      /\ UNCHANGED <<brokerVars, hubVars, chan, win, ran, answers>>
  BY DEF PagePolls, pageVars
<1>2. PICK r \in Requests(clicks') : r = [verb |-> "state"]
  BY DEF Requests
<1>3. Fetch(w, r) /\ clicks \subseteq clicks'
  BY <1>1, <1>2 DEF PagePolls
<1>4. page' \in [Windows -> Shown]
  BY <1>1 DEF ControlInv, WindowInv
<1> QED
  BY <1>1, <1>3, <1>4, PostKeeps

\* The page is busy until its action is over.
LEMMA BusyTyped ==
    ASSUME WindowInv, NEW w \in Windows,
           page' = [page EXCEPT ![w].busy = Len(http[w]) < MaxConns]
    PROVE  page' \in [Windows -> Shown]
<1>1. page \in [Windows -> Shown]
  BY DEF WindowInv
<1>2. PICK b \in BOOLEAN : b = (Len(http[w]) < MaxConns)
  <2>1. PICK n \in Nat, m \in Nat : n = Len(http[w]) /\ m = MaxConns
    BY QueueFacts, ControlAssumption DEF WindowInv
  <2>2. (n < m) = TRUE \/ (n < m) = FALSE
    BY SMT
  <2> QED
    BY <2>1, <2>2, Zenon
<1>3. PICK pg \in Shown : pg = page[w]
  BY <1>1
<1>4. PICK n \in Shown : n = [pg EXCEPT !.busy = b]
  BY DEF Shown
<1>5. page' = [page EXCEPT ![w] = n]
  BY <1>2, <1>3, <1>4
<1> QED
  BY <1>1, <1>5

LEMMA PersonClicksKeeps ==
    ASSUME ControlInv, NEW w \in Windows, NEW verb \in Verbs, PersonClicks(w, verb)
    PROVE  ControlInv'
<1>1. /\ clicks' = clicks /\ page' = [page EXCEPT ![w].busy = Len(http[w]) < MaxConns]
      /\ UNCHANGED <<brokerVars, hubVars, chan, win, ran, answers>>
  BY DEF PersonClicks, PageActs
<1>2. PICK r \in Requests(clicks') : r = [verb |-> verb]
  BY DEF Requests
<1>3. Fetch(w, r) /\ clicks \subseteq clicks'
  BY <1>1, <1>2 DEF PersonClicks, PageActs
<1>4. page' \in [Windows -> Shown]
  BY <1>1, BusyTyped DEF ControlInv
<1> QED
  BY <1>1, <1>3, <1>4, PostKeeps

\* What is posted as accepted is what was on screen.
LEMMA PersonAnswersKeeps ==
    ASSUME ControlInv, NEW w \in Windows, NEW s \in Sides, NEW accept \in BOOLEAN,
           PersonAnswers(w, s, accept)
    PROVE  ControlInv'
<1>1. /\ page' = [page EXCEPT ![w].busy = Len(http[w]) < MaxConns]
      /\ UNCHANGED <<brokerVars, hubVars, chan, win, ran, answers>>
  BY DEF PersonAnswers, PageActs
<1>2. PICK q \in Question : q = OnScreen(w, s)
  BY DEF ControlInv, WindowInv, Shown, Docs, OnScreen
<1>3. clicks \subseteq clicks' /\ (accept => q \in clicks')
  BY <1>2 DEF PersonAnswers
<1>4. PICK r : r = [verb |-> "approve", side |-> s, said |-> q, accept |-> accept]
  OBVIOUS
<1>5. r \in Approvals /\ r.accept = accept /\ r.said = q
  BY <1>4 DEF Approvals
<1>6. r \in Requests(clicks')
  BY <1>3, <1>5 DEF Requests
<1>7. Fetch(w, r)
  BY <1>2, <1>4 DEF PersonAnswers, PageActs
<1>8. page' \in [Windows -> Shown]
  BY <1>1, BusyTyped DEF ControlInv
<1> QED
  BY <1>1, <1>3, <1>6, <1>7, <1>8, PostKeeps

LEMMA TabReloadsKeeps ==
    ASSUME ControlInv, NEW w \in Windows, TabReloads(w)
    PROVE  ControlInv'
<1>1. /\ WindowInv /\ Serving(w) /\ answers' = answers /\ http' = [http EXCEPT ![w] = <<>>]
      /\ page' = [page EXCEPT ![w] = [shown |-> NoDoc, busy |-> FALSE]]
      /\ win' = [win EXCEPT ![w].verb = "hungUp"] /\ chan' = chan
  BY DEF TabReloads, ControlInv
<1>2. /\ UNCHANGED <<brokerVars, hubVars, clicks, ran>>
      /\ http' \in [Windows -> Seq(Requests(clicks))]
      /\ answers' \in [Windows -> SUBSET Windows]
      /\ \A v \in Windows : answers'[v] \subseteq {v}
  <2>1. <<>> \in Seq(Requests(clicks))
    BY EmptyFacts
  <2>2. http' \in [Windows -> Seq(Requests(clicks))]
    BY <1>1, <2>1 DEF WindowInv
  <2> QED
    BY <1>1, <2>2 DEF TabReloads, WindowInv
<1>3. page' \in [Windows -> Shown]
  BY <1>1, BlankPage DEF WindowInv
<1>4. PICK v \in WindowState : v = win[w]
  BY <1>1 DEF WindowInv
<1>5. PICK s \in WindowState : s = [v EXCEPT !.verb = "hungUp"]
  BY DEF WindowState
<1>6. s.pc = v.pc /\ s.tag = v.tag
  BY <1>5 DEF WindowState
<1>7. s.pc # "off" /\ s.tag = win[w].tag
  BY <1>1, <1>4, <1>6 DEF Serving
<1>8. win' = [win EXCEPT ![w] = s]
  BY <1>1, <1>4, <1>5
<1>9. PICK e \in Channel(w, clicks) : e = chan[w] /\ chan' = [chan EXCEPT ![w] = e]
  BY <1>1 DEF ControlInv, ChanInv
<1>10. e.up = chan[w].up /\ chan' = [chan EXCEPT ![w] = e]
  BY <1>9
<1> QED
  BY <1>2, <1>3, <1>7, <1>8, <1>10, WindowStep

-------------------------------------------------------------------------------
(* The control plane: the theorems *)

LEMMA ControlInitOK == Init => ControlInv
<1> SUFFICES ASSUME Init PROVE ControlInv
  OBVIOUS
<1>1. NoDoc \in Docs
  BY DEF NoDoc, Docs, Question
<1>2. HubInv
  BY <1>1, ControlAssumption DEF Init, HubInv
<1>3. BrokerInv
  <2>1. /\ <<>> \in Seq(Frames(Nobody, clicks)) /\ <<>> \in Seq(AnswersTo(Nobody))
        /\ <<>> \in Seq(Windows)
    BY EmptyFacts
  <2> QED
    BY <2>1 DEF Init, BrokerInv
<1>4. ChanInv
  <2>1. \A w \in Windows : chan[w] = [up |-> <<>>, down |-> <<>>, here |-> FALSE, there |-> FALSE]
    BY DEF Init
  <2>2. \A w \in Windows : <<>> \in Seq(Frames(w, clicks)) /\ <<>> \in Seq(AnswersTo(w))
    BY EmptyFacts
  <2>3. \A w \in Windows : chan[w] \in Channel(w, clicks)
    <3>1. TAKE w \in Windows
    <3>2. PICK e : e = <<>> /\ e \in Seq(Frames(w, clicks)) /\ e \in Seq(AnswersTo(w))
      BY <2>2
    <3>3. [up |-> e, down |-> e, here |-> FALSE, there |-> FALSE] \in Channel(w, clicks)
      BY <3>2 DEF Channel
    <3> QED
      BY <2>1, <3>2, <3>3
  <2> QED
    BY <2>3 DEF Init, ChanInv
<1>5. WindowInv
  <2>1. <<>> \in Seq(Requests(clicks))
    BY EmptyFacts
  <2>2. http \in [Windows -> Seq(Requests(clicks))]
    BY <2>1 DEF Init
  <2>3. page \in [Windows -> Shown]
    BY BlankPage DEF Init
  <2>4. win \in [Windows -> WindowState]
    BY DEF Init, WindowState
  <2>5. /\ ran \in [Windows -> Nat] /\ answers \in [Windows -> SUBSET Windows]
        /\ \A w \in Windows : answers[w] \subseteq {w}
    BY DEF Init
  <2> QED
    BY <2>2, <2>3, <2>4, <2>5 DEF WindowInv
<1>6. CallsOnce
  <2>1. \A w \in Windows : Held(w) = 0
    BY ControlAssumption DEF Init, Held
  <2>2. Len(<<>>) = 0 /\ 0 + 0 + 0 <= 0
    BY EmptyFacts
  <2>3. \A w \in Windows : ran[w] = 0 /\ chan[w].up = <<>> /\ win[w].tag = 0
    BY DEF Init
  <2> QED
    BY <2>1, <2>2, <2>3 DEF CallsOnce
<1>7. Unopened
  <2>1. Len(<<>>) = 0
    BY EmptyFacts
  <2> QED
    BY <2>1, ControlAssumption DEF Init, Unopened
<1> QED
  BY <1>2, <1>3, <1>4, <1>5, <1>6, <1>7 DEF ControlInv

LEMMA ControlStep == ControlInv /\ [Next]_vars => ControlInv'
<1> SUFFICES ASSUME ControlInv, [Next]_vars PROVE ControlInv'
  OBVIOUS
<1>1. CASE Poll
  BY <1>1, AcceptKeeps, FlushAndReadKeeps, TakeFrameKeeps, FinishFrameKeeps, PushKeeps DEF Poll
<1>2. CASE Pump \/ BrokerStops \/ BrokerStarts
  BY <1>2, PumpKeeps, BrokerStopsKeeps, BrokerStartsKeeps
<1>3. ASSUME NEW w \in Windows, Window(w) PROVE ControlInv'
  BY <1>3, OpenKeeps, ServeKeeps, ServeLostKeeps, ReadFrameKeeps, GiveUpKeeps, WindowExitsKeeps
     DEF Window, BrokerGone, CallTimesOut
<1>4. ASSUME NEW w \in Windows, Page(w) PROVE ControlInv'
  BY <1>4, PagePollsKeeps, PersonAnswersKeeps, PersonClicksKeeps, TabReloadsKeeps DEF Page
<1>5. CASE UNCHANGED vars
  BY <1>5 DEF vars, brokerVars, hubVars, pageVars, ControlInv, HubInv, BrokerInv, ChanInv,
              WindowInv, CallsOnce, Held, Unopened
<1> QED
  BY <1>1, <1>2, <1>3, <1>4, <1>5 DEF Next

\* Whatever the broker and a window buffer is between the two of them, and a
\* call is in one place only: on the stream, in the broker's hands, or run.
THEOREM ControlInvariant == Spec => []ControlInv
<1> QED
  BY ControlInitOK, ControlStep, PTL DEF Spec

\* The answer a window takes for its call (BrokerClient::call) is the broker's
\* answer to that window, and the broker runs no call twice: for any number of
\* windows, restarts, timeouts and frames on the way.
THEOREM AnswersAreOwn == Spec => []AnswerIsOwn
<1>1. ControlInv => AnswerIsOwn
  <2> SUFFICES ASSUME ControlInv, NEW w \in Windows
               PROVE  answers[w] \subseteq {w} /\ ran[w] <= win[w].tag
    BY DEF AnswerIsOwn
  <2> USE DEF ControlInv
  <2>1. PICK u \in Nat, g \in Nat, m \in Nat, n \in Nat, k \in Nat :
            /\ u = Len(chan[w].up) /\ g = ran[w] /\ m = win[w].tag
            /\ n = Len(rx) /\ k = Len(work)
    BY ChanLengths, QueueFacts DEF WindowInv, WindowState, BrokerInv
  <2>2. PICK h \in Nat : h = Held(w)
    BY <2>1 DEF Held
  <2>3. g + u + h <= m
    BY <2>1, <2>2 DEF CallsOnce
  <2>4. g <= m
    BY <2>3
  <2> QED
    BY <2>1, <2>4 DEF WindowInv
<1> QED
  BY <1>1, ControlInvariant, PTL

\* A machine is pinned, in memory and in the file, only for a question that a
\* person accepted while it was on screen (checkApproval against what
\* shareApprove and importApprove have pending), for any number of windows,
\* questions and restarts.
THEOREM PairedOnlyOnScreen == Spec => []PairedWasOnScreen
<1>1. ControlInv => PairedWasOnScreen
  BY DEF ControlInv, HubInv, PairedWasOnScreen
<1> QED
  BY <1>1, ControlInvariant, PTL

-------------------------------------------------------------------------------
(* The storage probe: the inductive invariant *)

Fields == {"kind", "at", "run", "tag", "phase", "data", "sector0", "held", "failed",
           "intact", "passed", "restored", "split", "senseJoined", "alien", "before", "clean"}

BotAts   == {"tur", "sense", "again", "inq", "cap", "read", "over", "multi"}
WriteAts == {"save", "write", "back", "restore"}

Commands == BotAts \cup WriteAts

Unit   == Commands \cup {"odd", "csw"} \cup ({"old", "new"} \X Nat)
Probe  == {"none", "bot", "write"} \X Nat
Item   == {Stall}
          \cup [t : {"data"}, units : Seq(Unit)]
          \cup [t : {"csw"}, tag : Nat, probe : Probe, st : 0 .. 2]
Medium == [1 .. Blocks -> Unit]

\* Where a probe q is.
ProbeTyped(q) ==
    /\ DOMAIN q = Fields
    /\ q.kind \in {"none", "bot", "write"}
    /\ q.at \in {"none", "lun", "done"} \cup Commands
    /\ q.at = "lun" \/ q.at \in BotAts => q.kind = "bot"
    /\ q.at \in WriteAts => q.kind = "write"
    /\ q.phase \in {"none", "cbw", "data", "csw", "reread"}
    /\ q.at \in Commands <=> q.phase # "none"
    /\ q.at \in {"tur", "again"} => q.phase # "data"
    /\ q.at \in {"write", "back"} => q.run \in 1 .. 2
    /\ q.at = "multi" => Multi <= Blocks

FieldsTyped(q) ==
    /\ q.tag \in Nat
    /\ q.data \in Seq(Unit) /\ q.held \in Seq(Unit) /\ q.before \in Medium
    /\ q.failed \in BOOLEAN /\ q.intact \in BOOLEAN /\ q.clean \in BOOLEAN
    /\ q.split \in BOOLEAN /\ q.alien \in BOOLEAN /\ q.restored \in BOOLEAN
    /\ q.passed => q.at = "done" /\ ~q.failed /\ q.intact
    /\ q.restored => q.at = "done"
    /\ q.at = "lun" => ~q.failed

DeviceTyped ==
    /\ in \in Seq(Item)
    /\ out \in {None} \cup [tag : Nat, probe : Probe, at : Commands]
    /\ medium \in Medium
    /\ probes \in Nat

\* The probe found the device in phase and has noticed nothing amiss.
Alive(q) == q.clean /\ ~q.failed /\ q.intact

\* One status is on its way, this command's, and it is the last thing there.
Due(q, tag, probe) ==
    /\ q # <<>> /\ q[Len(q)].t = "csw" /\ q[Len(q)].tag = tag /\ q[Len(q)].probe = probe
    /\ \A i \in 1 .. Len(q) - 1 : q[i].t # "csw"

Me == <<p.kind, probes>>

\* The first status to come is that of another command.
Doomed(q, tag) ==
    \E i \in 1 .. Len(q) : /\ q[i].t = "csw" /\ q[i].tag # tag
                           /\ \A j \in 1 .. i - 1 : q[j].t # "csw"

\* What such a probe may find on the pipes at each point of a command.  Only the
\* REQUEST SENSE may fail and be followed by another command: what it leaves behind
\* ends in its own status, which the next command cannot take for its own.
AtRest == p.phase = "none" => InPhase /\ ~p.split

BeforeCbw ==
    p.phase = "cbw" =>
        /\ out = None
        /\ (in = <<>> /\ ~p.split) \/ (p.at = "again" /\ Doomed(in, p.tag))

BeforeData ==
    p.phase = "data" =>
        /\ ~p.split
        /\ IF Writes(p.at) THEN in = <<>> /\ out = [tag   |-> p.tag,
                                                    probe |-> Me,
                                                    at    |-> p.at]
           ELSE out = None /\ Due(in, p.tag, Me) /\ Len(in) > 1

BeforeCsw ==
    AtCsw =>
        /\ out = None
        /\ \/ p.at = "again" /\ Doomed(in, p.tag)
           \/ in = <<>> /\ (p.split => p.at # "sense")
           \/ Due(in, p.tag, Me) /\ (p.split => p.phase = "csw" /\ in[1].t = "data")

InStep == Alive(p) => ~p.alien /\ AtRest /\ BeforeCbw /\ BeforeData /\ BeforeCsw

\* What was saved, once as much of it came as was asked for.
Whole == Contents(p.before, MaxBlocks)
Saved(s) == Len(s) = 2 * MaxBlocks => s = Whole

Saving ==
    p.at = "save" =>
        /\ ~p.failed /\ p.intact /\ medium = p.before
        /\ p.phase = "data" => in[1] = Stall \/ in[1].units \in {Whole, SubSeq(Whole, 1, 1), <<>>}
        /\ AtCsw /\ in # <<>> => Saved(p.data)

\* The statuses are those of commands issued so far.
Below(q, tag) == \A i \in 1 .. Len(q) : q[i].t = "csw" => q[i].tag < tag

TagsKnown ==
    /\ Below(in, p.tag + 1) /\ out.tag < p.tag + 1
    /\ p.phase = "cbw" => out.tag < p.tag
    /\ p.phase = "cbw" \/ (p.phase = "data" /\ Writes(p.at)) => Below(in, p.tag)

Restoring ==
    /\ \A b \in 1 .. Blocks : b > MaxBlocks => medium[b] = p.before[b]
    /\ p.at \in {"write", "back", "restore"} => Saved(p.held)
    /\ p.at = "restore" => Len(p.held) = 2 * MaxBlocks
    /\ p.at = "restore" /\ AtCsw =>
         \A i \in 1 .. Len(in) :
             in[i].t = "csw" /\ in[i].tag = p.tag /\ in[i].st = 0 => medium = p.before

PutBackInv ==
    p.kind = "write" /\ p.clean =>
        (p.at # "done" => Saving /\ TagsKnown /\ Restoring) /\ (p.restored => medium = p.before)

ProbeInv == ProbeTyped(p) /\ FieldsTyped(p) /\ DeviceTyped /\ InStep /\ PutBackInv

-------------------------------------------------------------------------------
(* What the probe's operators return *)

\* The fields that a step of the sequence hands on.
Carries(r, q) ==
    /\ DOMAIN r = Fields
    /\ r.kind = q.kind /\ r.before = q.before /\ r.clean = q.clean
    /\ r.split = q.split /\ r.alien = q.alien /\ r.intact = q.intact

LEMMA IssueIs ==
    ASSUME NEW q, DOMAIN q = Fields, NEW at
    PROVE  LET r == Issue(q, at)
           IN  /\ Carries(r, q) /\ r.at = at /\ r.tag = q.tag + 1 /\ r.phase = "cbw"
               /\ r.data = <<>> /\ r.run = q.run /\ r.held = q.held /\ r.failed = q.failed
               /\ r.restored = q.restored /\ r.passed = q.passed
    BY DEF Fields, Carries, Issue

LEMMA EndsIs ==
    ASSUME NEW q, DOMAIN q = Fields
    PROVE  LET r == Ends(q)
           IN  /\ Carries(r, q) /\ r.at = "done" /\ r.tag = q.tag /\ r.phase = "none"
               /\ r.data = <<>> /\ r.run = q.run /\ r.held = q.held /\ r.failed = q.failed
               /\ r.restored = q.restored /\ (r.passed => ~q.failed /\ q.intact)
    BY DEF Fields, Carries, Ends

LEMMA FailsIs ==
    ASSUME NEW q, DOMAIN q = Fields
    PROVE  LET r == Fails(q)
           IN  /\ Carries(r, q) /\ r.at = "done" /\ r.tag = q.tag /\ r.phase = "none"
               /\ r.data = <<>> /\ r.run = q.run /\ r.held = q.held /\ r.failed = TRUE
               /\ r.restored = q.restored /\ ~r.passed
    BY DEF Fields, Carries, Ends, Fails

LEMMA PutBackIs ==
    ASSUME NEW q, DOMAIN q = Fields
    PROVE  LET r == PutBack(q)
           IN  /\ Carries(r, q) /\ r.held = q.held /\ r.data = <<>> /\ r.restored = q.restored
               /\ r.failed = q.failed \/ r.failed = TRUE
               /\ \/ /\ r.at = "done" /\ r.phase = "none" /\ r.tag = q.tag
                     /\ r.passed => ~q.failed /\ ~r.failed /\ q.intact
                  \/ /\ r.at = "restore" /\ r.phase = "cbw" /\ r.tag = q.tag + 1
                     /\ r.passed = q.passed /\ Len(r.held) = 2 * MaxBlocks
                     /\ r.failed = q.failed
<1>1. RestoreOriginal \in BOOLEAN
  BY ProbeAssumption
<1>2. CASE ~RestoreOriginal \/ q.held = <<>>
  <2>1. PutBack(q) = Ends(q)
    BY <1>2 DEF PutBack
  <2>2. PICK r : r = Ends(q)
    OBVIOUS
  <2>3. /\ Carries(r, q) /\ r.at = "done" /\ r.tag = q.tag /\ r.phase = "none"
        /\ r.data = <<>> /\ r.held = q.held /\ r.failed = q.failed
        /\ r.restored = q.restored /\ (r.passed => ~q.failed /\ q.intact)
    BY <2>2, EndsIs
  <2> QED
    BY <2>1, <2>2, <2>3
<1>3. CASE RestoreOriginal /\ q.held # <<>> /\ HeldFits(q)
  <2>1. PutBack(q) = Issue(q, "restore")
    BY <1>3 DEF PutBack
  <2>2. PICK r : r = Issue(q, "restore")
    OBVIOUS
  <2>3. /\ Carries(r, q) /\ r.at = "restore" /\ r.tag = q.tag + 1 /\ r.phase = "cbw"
        /\ r.data = <<>> /\ r.held = q.held /\ r.failed = q.failed
        /\ r.restored = q.restored /\ r.passed = q.passed
    BY <2>2, IssueIs
  <2>4. Len(r.held) = 2 * MaxBlocks
    BY <1>3, <2>3 DEF HeldFits
  <2> QED
    BY <2>1, <2>2, <2>3, <2>4
<1>4. CASE RestoreOriginal /\ q.held # <<>> /\ ~HeldFits(q)
  <2>1. PutBack(q) = Fails(q)
    BY <1>4 DEF PutBack
  <2>2. PICK r : r = Fails(q)
    OBVIOUS
  <2>3. /\ Carries(r, q) /\ r.at = "done" /\ r.tag = q.tag /\ r.phase = "none"
        /\ r.data = <<>> /\ r.held = q.held /\ r.failed = TRUE
        /\ r.restored = q.restored /\ ~r.passed
    BY <2>2, FailsIs
  <2> QED
    BY <2>1, <2>2, <2>3
<1> QED
  BY <1>1, <1>2, <1>3, <1>4

\* What a command that is over leads to.
Concluded(r, q, ok) ==
    /\ Carries(r, q) /\ ProbeTyped(r) /\ FieldsTyped(r)
    /\ \/ r.at = "done" /\ r.phase = "none" /\ r.tag = q.tag
       \/ r.at \in Commands /\ r.phase = "cbw" /\ r.tag = q.tag + 1 /\ r.at # "save"
    /\ q.failed => r.failed
    /\ r.restored => q.at = "restore" /\ ok
    /\ r.at \in WriteAts => r.held = IF q.at = "save" THEN q.data ELSE q.held
    /\ r.at = "restore" => q.at # "save" /\ Len(r.held) = 2 * MaxBlocks

LEMMA BotStepIs ==
    ASSUME NEW q, ProbeTyped(q), FieldsTyped(q), q.at \in BotAts,
           NEW ok \in BOOLEAN, NEW check \in BOOLEAN
    PROVE  LET r == BotStep(q, ok, check)
           IN  /\ Concluded(r, q, ok)
               /\ ~ok /\ ~check => r.failed \/ (q.at = "sense" /\ r.at = "again")
<1>1. /\ DOMAIN q = Fields /\ q.kind = "bot" /\ q.tag \in Nat /\ q.held \in Seq(Unit)
      /\ q.before \in Medium /\ ~q.passed /\ ~q.restored
  BY DEF ProbeTyped, FieldsTyped, BotAts
<1>2. /\ q.failed \in BOOLEAN /\ q.intact \in BOOLEAN /\ q.clean \in BOOLEAN
      /\ q.split \in BOOLEAN /\ q.alien \in BOOLEAN /\ q.restored \in BOOLEAN
  BY DEF FieldsTyped
<1>3. <<>> \in Seq(Unit)
  OBVIOUS
<1>4. ASSUME NEW s, DOMAIN s = Fields, Carries(s, q), s.tag = q.tag, s.held = q.held,
             s.failed = q.failed, s.restored = q.restored, s.passed = q.passed,
             NEW at \in BotAts, at = "multi" => Multi <= Blocks
      PROVE  Concluded(Issue(s, at), q, ok)
  <2>1. PICK r : r = Issue(s, at)
    OBVIOUS
  <2>2. /\ Carries(r, s) /\ r.at = at /\ r.tag = s.tag + 1 /\ r.phase = "cbw"
        /\ r.data = <<>> /\ r.held = s.held /\ r.failed = s.failed
        /\ r.restored = s.restored /\ r.passed = s.passed
    BY <1>4, <2>1, IssueIs
  <2>3. Carries(r, q)
    BY <1>4, <2>2 DEF Carries
  <2>4. ProbeTyped(r)
    BY <1>1, <1>4, <2>2, <2>3 DEF ProbeTyped, Carries, BotAts, WriteAts, Commands
  <2>5. FieldsTyped(r)
    BY <1>1, <1>2, <1>3, <1>4, <2>2, <2>3 DEF FieldsTyped, Carries, BotAts
  <2> QED
    BY <1>1, <1>4, <2>1, <2>2, <2>3, <2>4, <2>5 DEF Concluded, BotAts, WriteAts, Commands
<1>5. ASSUME NEW s, DOMAIN s = Fields, Carries(s, q), s.tag = q.tag, s.held = q.held,
             s.failed = q.failed, s.restored = q.restored
      PROVE  Concluded(Ends(s), q, ok)
  <2>1. PICK r : r = Ends(s)
    OBVIOUS
  <2>2. /\ Carries(r, s) /\ r.at = "done" /\ r.tag = s.tag /\ r.phase = "none"
        /\ r.data = <<>> /\ r.held = s.held /\ r.failed = s.failed
        /\ r.restored = s.restored /\ (r.passed => ~s.failed /\ s.intact)
    BY <1>5, <2>1, EndsIs
  <2>3. Carries(r, q)
    BY <1>5, <2>2 DEF Carries
  <2>4. ProbeTyped(r)
    BY <1>1, <2>2, <2>3 DEF ProbeTyped, Carries, BotAts, WriteAts, Commands
  <2>5. FieldsTyped(r)
    BY <1>1, <1>2, <1>3, <1>5, <2>2, <2>3 DEF FieldsTyped, Carries
  <2> QED
    BY <1>1, <1>5, <2>1, <2>2, <2>3, <2>4, <2>5 DEF Concluded, WriteAts, Commands
<1>6. Concluded(Fails(q), q, ok) /\ Fails(q).failed
  <2>1. PICK r : r = Fails(q)
    OBVIOUS
  <2>2. /\ Carries(r, q) /\ r.at = "done" /\ r.tag = q.tag /\ r.phase = "none"
        /\ r.data = <<>> /\ r.held = q.held /\ r.failed = TRUE
        /\ r.restored = q.restored /\ ~r.passed
    BY <1>1, <2>1, FailsIs
  <2>3. ProbeTyped(r)
    BY <1>1, <2>2 DEF ProbeTyped, Carries, BotAts, WriteAts, Commands
  <2>4. FieldsTyped(r)
    BY <1>1, <1>2, <1>3, <2>2 DEF FieldsTyped, Carries
  <2> QED
    BY <1>1, <2>1, <2>2, <2>3, <2>4 DEF Concluded, WriteAts, Commands
<1>7. CASE q.at = "tur" /\ check
  <2>1. BotStep(q, ok, check) = Issue(q, "sense")
    BY <1>7 DEF BotStep
  <2>2. Concluded(Issue(q, "sense"), q, ok)
    BY <1>1, <1>4 DEF BotAts, Carries
  <2> QED
    BY <1>7, <2>1, <2>2
<1>8. CASE q.at = "sense"
  <2>1. BotStep(q, ok, check) = Issue(q, "again")
    BY <1>8 DEF BotStep
  <2>2. Concluded(Issue(q, "again"), q, ok)
    BY <1>1, <1>4 DEF BotAts, Carries
  <2>3. Issue(q, "again").at = "again"
    BY <1>1, IssueIs
  <2> QED
    BY <1>8, <2>1, <2>2, <2>3
<1>9. CASE q.at # "sense" /\ ~(q.at = "tur" /\ check)
  <2>1. CASE ~(ok /\ Plausible(q))
    <3>1. BotStep(q, ok, check) = Fails(q)
      BY <1>9, <2>1 DEF BotStep
    <3> QED
      BY <1>6, <3>1
  <2>2. CASE ok /\ Plausible(q)
    <3>1. PICK s : s = [q EXCEPT !.sector0 = IF q.at = "read" THEN q.data ELSE @]
      OBVIOUS
    <3>2. /\ DOMAIN s = Fields /\ Carries(s, q) /\ s.tag = q.tag /\ s.held = q.held
          /\ s.failed = q.failed /\ s.restored = q.restored /\ s.passed = q.passed
      BY <1>1, <3>1 DEF Fields, Carries
    <3>3. PICK n : n = Following[q.at]
      OBVIOUS
    <3>4. BotStep(q, ok, check) = IF n = "done" THEN Ends(s) ELSE Issue(s, n)
      BY <1>9, <2>2, <3>1, <3>3 DEF BotStep
    <3>5. n = "done" \/ (n \in BotAts /\ (n = "multi" => Multi <= Blocks))
      <4>1. Multi \in Nat /\ Blocks \in Nat
        BY ProbeAssumption
      <4> QED
        BY <1>9, <3>3, <4>1 DEF Following, BotAts
    <3>6. CASE n = "done"
      BY <1>5, <2>2, <3>2, <3>4, <3>6
    <3>7. CASE n # "done"
      BY <1>4, <2>2, <3>2, <3>4, <3>5, <3>7
    <3> QED
      BY <3>6, <3>7
  <2> QED
    BY <2>1, <2>2
<1> QED
  BY <1>7, <1>8, <1>9

LEMMA WriteStepIs ==
    ASSUME NEW q, ProbeTyped(q), FieldsTyped(q), q.at \in WriteAts, NEW ok \in BOOLEAN
    PROVE  LET r == WriteStep(q, ok)
           IN  Concluded(r, q, ok) /\ (~ok => r.failed)
<1>1. /\ DOMAIN q = Fields /\ q.kind = "write" /\ q.tag \in Nat /\ q.held \in Seq(Unit)
      /\ q.data \in Seq(Unit) /\ q.before \in Medium /\ ~q.passed /\ ~q.restored
  BY DEF ProbeTyped, FieldsTyped, WriteAts
<1>2. /\ q.failed \in BOOLEAN /\ q.intact \in BOOLEAN /\ q.clean \in BOOLEAN
      /\ q.split \in BOOLEAN /\ q.alien \in BOOLEAN /\ q.restored \in BOOLEAN
  BY DEF FieldsTyped
<1>3. <<>> \in Seq(Unit)
  OBVIOUS
<1>4. ASSUME NEW s, DOMAIN s = Fields, Carries(s, q), s.tag = q.tag, s.failed = q.failed,
             s.held = (IF q.at = "save" THEN q.data ELSE q.held), s.held \in Seq(Unit),
             s.restored = q.restored, s.passed = q.passed,
             NEW at \in {"write", "back"}, s.run \in 1 .. 2
      PROVE  Concluded(Issue(s, at), q, ok)
  <2>1. PICK r : r = Issue(s, at)
    OBVIOUS
  <2>2. /\ Carries(r, s) /\ r.at = at /\ r.tag = s.tag + 1 /\ r.phase = "cbw"
        /\ r.data = <<>> /\ r.held = s.held /\ r.failed = s.failed /\ r.run = s.run
        /\ r.restored = s.restored /\ r.passed = s.passed
    BY <1>4, <2>1, IssueIs
  <2>3. Carries(r, q)
    BY <1>4, <2>2 DEF Carries
  <2>4. ProbeTyped(r)
    BY <1>1, <1>4, <2>2, <2>3 DEF ProbeTyped, Carries, BotAts, WriteAts, Commands
  <2>5. FieldsTyped(r)
    BY <1>1, <1>2, <1>3, <1>4, <2>2, <2>3 DEF FieldsTyped, Carries
  <2> QED
    BY <1>1, <1>4, <2>1, <2>2, <2>3, <2>4, <2>5 DEF Concluded, WriteAts, Commands
<1>5. ASSUME NEW s, DOMAIN s = Fields, Carries(s, q), s.tag = q.tag, s.held = q.held,
             s.failed \in BOOLEAN, q.failed => s.failed, s.restored = q.restored,
             s.passed = q.passed, q.at # "save"
      PROVE  Concluded(PutBack(s), q, ok) /\ (s.failed => PutBack(s).failed)
  <2>1. PICK r : r = PutBack(s)
    OBVIOUS
  <2>2. /\ Carries(r, s) /\ r.held = s.held /\ r.data = <<>> /\ r.restored = s.restored
        /\ r.failed = s.failed \/ r.failed = TRUE
        /\ \/ /\ r.at = "done" /\ r.phase = "none" /\ r.tag = s.tag
              /\ r.passed => ~s.failed /\ ~r.failed /\ s.intact
           \/ /\ r.at = "restore" /\ r.phase = "cbw" /\ r.tag = s.tag + 1
              /\ r.passed = s.passed /\ Len(r.held) = 2 * MaxBlocks
              /\ r.failed = s.failed
    BY <1>5, <2>1, PutBackIs
  <2>3. Carries(r, q)
    BY <1>5, <2>2 DEF Carries
  <2>4. ProbeTyped(r)
    BY <1>1, <2>2, <2>3 DEF ProbeTyped, Carries, BotAts, WriteAts, Commands
  <2>5. r.failed \in BOOLEAN
    BY <1>5, <2>2
  <2>6. FieldsTyped(r)
    BY <1>1, <1>2, <1>3, <1>5, <2>2, <2>3, <2>5 DEF FieldsTyped, Carries
  <2>7. (q.failed => r.failed) /\ (s.failed => r.failed)
    BY <1>5, <2>2
  <2> QED
    BY <1>1, <1>5, <2>1, <2>2, <2>3, <2>4, <2>6, <2>7 DEF Concluded, WriteAts, Commands
<1>6. Concluded(Fails(q), q, ok) /\ Fails(q).failed
  <2>1. PICK r : r = Fails(q)
    OBVIOUS
  <2>2. /\ Carries(r, q) /\ r.at = "done" /\ r.tag = q.tag /\ r.phase = "none"
        /\ r.data = <<>> /\ r.held = q.held /\ r.failed = TRUE
        /\ r.restored = q.restored /\ ~r.passed
    BY <1>1, <2>1, FailsIs
  <2>3. ProbeTyped(r)
    BY <1>1, <2>2 DEF ProbeTyped, Carries, BotAts, WriteAts, Commands
  <2>4. FieldsTyped(r)
    BY <1>1, <1>2, <1>3, <2>2 DEF FieldsTyped, Carries
  <2> QED
    BY <1>1, <2>1, <2>2, <2>3, <2>4 DEF Concluded, WriteAts, Commands
<1>7. PICK f : f = [q EXCEPT !.failed = TRUE]
  OBVIOUS
<1>8. /\ DOMAIN f = Fields /\ Carries(f, q) /\ f.tag = q.tag /\ f.held = q.held
      /\ f.failed = TRUE /\ f.restored = q.restored /\ f.passed = q.passed
  BY <1>1, <1>7 DEF Fields, Carries
<1>9. CASE q.at = "save"
  <2>1. CASE ok
    <3>1. PICK s : s = [q EXCEPT !.held = q.data, !.run = 1]
      OBVIOUS
    <3>2. /\ DOMAIN s = Fields /\ Carries(s, q) /\ s.tag = q.tag /\ s.held = q.data
          /\ s.failed = q.failed /\ s.restored = q.restored /\ s.passed = q.passed /\ s.run = 1
      BY <1>1, <3>1 DEF Fields, Carries
    <3>3. WriteStep(q, ok) = Issue(s, "write")
      BY <1>9, <2>1, <3>1 DEF WriteStep
    <3>4. s.run \in 1 .. 2 /\ s.held = (IF q.at = "save" THEN q.data ELSE q.held)
      BY <1>9, <3>2
    <3>5. Concluded(Issue(s, "write"), q, ok)
      BY <1>1, <1>4, <3>2, <3>4
    <3> QED
      BY <2>1, <3>3, <3>5
  <2>2. CASE ~ok
    <3>1. WriteStep(q, ok) = Fails(q)
      BY <1>9, <2>2 DEF WriteStep
    <3> QED
      BY <1>6, <3>1
  <2> QED
    BY <2>1, <2>2
<1>10. CASE q.at = "write"
  <2>1. CASE ok
    <3>1. WriteStep(q, ok) = Issue(q, "back")
      BY <1>10, <2>1 DEF WriteStep
    <3>2. q.run \in 1 .. 2 /\ Carries(q, q)
      BY <1>1, <1>10 DEF ProbeTyped, Carries
    <3> QED
      BY <1>1, <1>4, <1>10, <2>1, <3>1, <3>2
  <2>2. CASE ~ok
    <3>1. WriteStep(q, ok) = PutBack(f)
      BY <1>7, <1>10, <2>2 DEF WriteStep
    <3> QED
      BY <1>5, <1>8, <1>10, <3>1
  <2> QED
    BY <2>1, <2>2
<1>11. CASE q.at = "back"
  <2>1. CASE ~(ok /\ q.data = Pattern(Runs[q.run]))
    <3>1. WriteStep(q, ok) = PutBack(f)
      BY <1>7, <1>11, <2>1 DEF WriteStep
    <3> QED
      BY <1>5, <1>8, <1>11, <3>1
  <2>2. CASE (ok /\ q.data = Pattern(Runs[q.run])) /\ q.run < Len(Runs)
    <3>1. PICK s : s = [q EXCEPT !.run = @ + 1]
      OBVIOUS
    <3>2. /\ DOMAIN s = Fields /\ Carries(s, q) /\ s.tag = q.tag /\ s.held = q.held
          /\ s.failed = q.failed /\ s.restored = q.restored /\ s.passed = q.passed
          /\ s.run = q.run + 1
      BY <1>1, <3>1 DEF Fields, Carries
    <3>3. Len(Runs) = 2 /\ q.run \in 1 .. 2
      BY <1>11 DEF Runs, ProbeTyped
    <3>4. s.run \in 1 .. 2
      BY <2>2, <3>2, <3>3
    <3>5. WriteStep(q, ok) = Issue(s, "write")
      BY <1>11, <2>2, <3>1 DEF WriteStep
    <3> QED
      BY <1>1, <1>4, <1>11, <2>2, <3>2, <3>4, <3>5
  <2>3. CASE (ok /\ q.data = Pattern(Runs[q.run])) /\ ~(q.run < Len(Runs))
    <3>1. WriteStep(q, ok) = PutBack(q)
      BY <1>11, <2>3 DEF WriteStep
    <3>2. Carries(q, q)
      BY <1>1 DEF Carries
    <3> QED
      BY <1>1, <1>2, <1>5, <1>11, <2>3, <3>1, <3>2
  <2> QED
    BY <2>1, <2>2, <2>3
<1>12. CASE q.at = "restore"
  <2>1. PICK fl \in BOOLEAN : fl = (q.failed \/ ~ok)
    BY Zenon
  <2>2. PICK s : s = [q EXCEPT !.restored = ok, !.failed = fl]
    OBVIOUS
  <2>3. /\ DOMAIN s = Fields /\ Carries(s, q) /\ s.tag = q.tag /\ s.held = q.held
        /\ s.failed = fl /\ s.restored = ok
    BY <1>1, <2>2 DEF Fields, Carries
  <2>4. WriteStep(q, ok) = Ends(s)
    BY <1>12, <2>1, <2>2 DEF WriteStep
  <2>5. PICK r : r = Ends(s)
    OBVIOUS
  <2>6. /\ Carries(r, s) /\ r.at = "done" /\ r.tag = s.tag /\ r.phase = "none"
        /\ r.data = <<>> /\ r.held = s.held /\ r.failed = s.failed
        /\ r.restored = s.restored /\ (r.passed => ~s.failed /\ s.intact)
    BY <2>3, <2>5, EndsIs
  <2>7. Carries(r, q)
    BY <2>3, <2>6 DEF Carries
  <2>8. ProbeTyped(r)
    BY <1>1, <2>6, <2>7 DEF ProbeTyped, Carries, BotAts, WriteAts, Commands
  <2>9. FieldsTyped(r)
    BY <1>1, <1>2, <1>3, <2>3, <2>6, <2>7 DEF FieldsTyped, Carries
  <2>10. (q.failed => r.failed) /\ (~ok => r.failed) /\ (r.restored => ok)
    BY <2>1, <2>3, <2>6
  <2> QED
    BY <1>12, <2>3, <2>4, <2>5, <2>6, <2>7, <2>8, <2>9, <2>10 DEF Concluded, WriteAts, Commands
<1> QED
  BY <1>9, <1>10, <1>11, <1>12 DEF WriteAts

LEMMA ConcludesIs ==
    ASSUME NEW q, ProbeTyped(q), FieldsTyped(q), q.at \in Commands,
           NEW ok \in BOOLEAN, NEW check \in BOOLEAN
    PROVE  /\ Concluded(Concludes(q, ok, check), q, ok)
           /\ ~ok /\ ~check =>
                \/ Concludes(q, ok, check).failed
                \/ q.at = "sense" /\ Concludes(q, ok, check).at = "again"
<1>1. CASE q.at \in BotAts
  <2>1. Concludes(q, ok, check) = BotStep(q, ok, check)
    BY <1>1 DEF Concludes, ProbeTyped
  <2> QED
    BY <1>1, <2>1, BotStepIs
<1>2. CASE q.at \in WriteAts
  <2>1. Concludes(q, ok, check) = WriteStep(q, ok)
    BY <1>2 DEF Concludes, ProbeTyped
  <2> QED
    BY <1>2, <2>1, WriteStepIs
<1> QED
  BY <1>1, <1>2 DEF Commands

-------------------------------------------------------------------------------
(* What waits on the pipe *)

LEMMA ItemFacts ==
    ASSUME NEW x \in Item
    PROVE  /\ x.t \in {"stall", "data", "csw"}
           /\ x.t = "stall" <=> x = Stall
           /\ x.t = "data" => x.units \in Seq(Unit)
           /\ x.t = "csw" => x.tag \in Nat /\ x.st \in 0 .. 2
    BY DEF Item, Stall

LEMMA ItemsAre ==
    /\ Stall \in Item
    /\ \A u \in Seq(Unit) : Data(u) \in Item
    /\ \A c, st : /\ c.tag \in Nat /\ c.probe \in Probe /\ st \in 0 .. 2
                  => Csw(c, st) \in Item
    BY DEF Item, Data, Csw

LEMMA DueTail ==
    ASSUME NEW q \in Seq(Item), NEW tag, NEW me, Due(q, tag, me), Len(q) > 1
    PROVE  Due(Tail(q), tag, me)
<1>1. PICK n \in Nat, t \in Seq(Item) : n = Len(q) /\ t = Tail(q)
  BY QueueFacts DEF Due
<1>2. Len(t) = n - 1 /\ \A i \in 1 .. n - 1 : t[i] = q[i + 1]
  BY <1>1, QueueFacts DEF Due
<1>3. n > 1
  BY <1>1
<1>4. t # <<>> /\ t[Len(t)] = q[Len(q)]
  <2>1. PICK k \in 1 .. n - 1 : k = n - 1
    BY <1>3
  <2>2. t[k] = q[k + 1] /\ k + 1 = n /\ Len(t) = k
    BY <1>2, <2>1
  <2>3. k > 0
    BY <2>1
  <2>4. t # <<>>
    BY <2>2, <2>3
  <2> QED
    BY <1>1, <2>2, <2>4
<1>5. \A i \in 1 .. Len(t) - 1 : t[i].t # "csw"
  BY <1>1, <1>2, <1>3 DEF Due
<1> QED
  BY <1>1, <1>4, <1>5 DEF Due

LEMMA DueHead ==
    ASSUME NEW q \in Seq(Item), NEW tag, NEW me, Due(q, tag, me)
    PROVE  /\ q[1].t = "csw" => Len(q) = 1 /\ Tail(q) = <<>> /\ q[1].tag = tag /\ q[1].probe = me
           /\ Len(q) > 1 => q[1].t # "csw"
           /\ Len(q) > 1 /\ q[2].t = "csw" => Len(q) = 2
<1>1. Len(q) \in Nat /\ Len(q) > 0
  BY QueueFacts DEF Due
<1>2. Len(q) > 1 => q[1].t # "csw"
  BY <1>1 DEF Due
<1>3. Len(q) > 2 => q[2].t # "csw"
  BY <1>1 DEF Due
<1>4. Len(q) = 1 => Tail(q) = <<>>
  <2>1. q # <<>>
    BY DEF Due
  <2>2. PICK t \in Seq(Item) : t = Tail(q)
    BY <2>1, QueueFacts
  <2>3. Len(t) = Len(q) - 1
    BY <2>1, <2>2, QueueFacts
  <2> QED
    BY <2>2, <2>3
<1>5. ASSUME q[1].t = "csw" PROVE Len(q) = 1 /\ q[1].tag = tag /\ q[1].probe = me
  <2>1. Len(q) = 1
    BY <1>1, <1>2, <1>5, SMTT(30)
  <2> QED
    BY <2>1 DEF Due
<1>6. ASSUME Len(q) > 1, q[2].t = "csw" PROVE Len(q) = 2
  <2>1. PICK n \in Nat : n = Len(q)
    BY <1>1
  <2>2. n > 1 /\ ~(n > 2)
    BY <1>3, <1>6, <2>1
  <2>3. n = 2
    BY <2>2
  <2> QED
    BY <2>1, <2>3
<1> QED
  BY <1>2, <1>4, <1>5, <1>6

LEMMA DueDoomed ==
    ASSUME NEW q \in Seq(Item), NEW tag \in Nat, NEW me, Due(q, tag, me)
    PROVE  Doomed(q, tag + 1)
<1>1. Len(q) \in Nat /\ Len(q) > 0
  BY QueueFacts DEF Due
<1>2. Len(q) \in 1 .. Len(q)
  BY <1>1
<1>3. tag # tag + 1
  OBVIOUS
<1> QED
  BY <1>2, <1>3 DEF Due, Doomed

LEMMA DoomedTail ==
    ASSUME NEW q \in Seq(Item), NEW tag, Doomed(q, tag)
    PROVE  /\ q # <<>> /\ ~(q[1].t = "csw" /\ q[1].tag = tag)
           /\ q[1].t # "csw" => Doomed(Tail(q), tag)
<1>1. PICK i \in 1 .. Len(q) : /\ q[i].t = "csw" /\ q[i].tag # tag
                               /\ \A j \in 1 .. i - 1 : q[j].t # "csw"
  BY DEF Doomed
<1>2. Len(q) \in Nat
  BY QueueFacts
<1>3. i \in Nat /\ i >= 1 /\ i <= Len(q)
  BY <1>2
<1>4. q # <<>>
  BY <1>2, <1>3
<1>5. ~(q[1].t = "csw" /\ q[1].tag = tag)
  <2>1. CASE i = 1
    BY <1>1, <2>1
  <2>2. CASE i > 1
    BY <1>1, <1>3, <2>2
  <2> QED
    BY <1>3, <2>1, <2>2
<1>6. ASSUME q[1].t # "csw" PROVE Doomed(Tail(q), tag)
  <2>0. PICK t \in Seq(Item) : t = Tail(q)
    BY <1>4, QueueFacts
  <2>1. /\ t = Tail(q) /\ Len(t) = Len(q) - 1
        /\ \A k \in 1 .. Len(q) - 1 : t[k] = q[k + 1]
    BY <1>4, <2>0, QueueFacts
  <2>2. i > 1
    BY <1>1, <1>3, <1>6
  <2>3. PICK m \in 1 .. Len(t) : m = i - 1
    BY <1>2, <1>3, <2>1, <2>2
  <2>4. t[m] = q[i]
    BY <1>2, <1>3, <2>1, <2>3
  <2>5. \A j \in 1 .. m - 1 : t[j].t # "csw"
    BY <1>1, <1>2, <1>3, <2>1, <2>3
  <2> QED
    BY <1>1, <2>1, <2>3, <2>4, <2>5 DEF Doomed
<1> QED
  BY <1>4, <1>5, <1>6

LEMMA DoomedJoin ==
    ASSUME NEW q \in Seq(Item), NEW s \in Seq(Item), NEW tag, Doomed(q, tag)
    PROVE  Doomed(q \o s, tag)
<1>1. PICK i \in 1 .. Len(q) : /\ q[i].t = "csw" /\ q[i].tag # tag
                               /\ \A j \in 1 .. i - 1 : q[j].t # "csw"
  BY DEF Doomed
<1>2. Len(q) \in Nat /\ Len(s) \in Nat
  BY QueueFacts
<1>0. PICK t \in Seq(Item) : t = q \o s
  BY JoinFacts
<1>3. /\ t = q \o s /\ Len(t) = Len(q) + Len(s)
      /\ \A k \in 1 .. Len(q) : t[k] = q[k]
  BY <1>0, JoinFacts
<1>4. i \in 1 .. Len(t) /\ t[i] = q[i]
  BY <1>2, <1>3
<1>5. \A j \in 1 .. i - 1 : t[j].t # "csw"
  BY <1>1, <1>2, <1>3
<1> QED
  BY <1>1, <1>3, <1>4, <1>5 DEF Doomed

LEMMA BelowFacts ==
    ASSUME NEW q \in Seq(Item), NEW tag \in Nat, Below(q, tag)
    PROVE  Below(q, tag + 1) /\ (q # <<>> => Below(Tail(q), tag))
<1>1. Len(q) \in Nat /\ \A i \in 1 .. Len(q) : q[i].t = "csw" => q[i].tag \in Nat
  BY QueueFacts, ItemFacts
<1>2. Below(q, tag + 1)
  BY <1>1 DEF Below
<1>3. ASSUME q # <<>> PROVE Below(Tail(q), tag)
  <2>0. PICK t \in Seq(Item) : t = Tail(q)
    BY <1>3, QueueFacts
  <2>1. /\ t = Tail(q) /\ Len(t) = Len(q) - 1
        /\ \A k \in 1 .. Len(q) - 1 : t[k] = q[k + 1]
    BY <1>3, <2>0, QueueFacts
  <2>2. \A k \in 1 .. Len(t) : k + 1 \in 1 .. Len(q) /\ t[k] = q[k + 1]
    BY <1>1, <2>1
  <2> QED
    BY <2>1, <2>2 DEF Below
<1> QED
  BY <1>2, <1>3

LEMMA BelowJoin ==
    ASSUME NEW q \in Seq(Item), NEW s \in Seq(Item), NEW tag, Below(q, tag), Below(s, tag)
    PROVE  Below(q \o s, tag)
<1>1. PICK t \in Seq(Item) : t = q \o s
  BY JoinFacts
<1>2. /\ Len(t) = Len(q) + Len(s) /\ \A i \in 1 .. Len(q) : t[i] = q[i]
      /\ \A i \in 1 .. Len(s) : t[Len(q) + i] = s[i]
  BY <1>1, JoinFacts
<1>3. PICK m \in Nat, n \in Nat : m = Len(q) /\ n = Len(s)
  BY QueueFacts
<1>4. ASSUME NEW i \in 1 .. Len(t), t[i].t = "csw" PROVE t[i].tag < tag
  <2>1. CASE i \in 1 .. m
    BY <1>2, <1>3, <1>4, <2>1 DEF Below
  <2>2. CASE i \notin 1 .. m
    <3>1. Len(t) = m + n
      BY <1>2, <1>3
    <3>2. PICK k \in 1 .. n : k = i - m
      BY <2>2, <3>1
    <3>3. i = m + k
      BY <3>2
    <3>4. t[i] = s[k]
      BY <1>2, <1>3, <3>3
    <3> QED
      BY <1>3, <1>4, <3>4 DEF Below
  <2> QED
    BY <2>1, <2>2
<1> QED
  BY <1>1, <1>4 DEF Below

LEMMA BelowAppend ==
    ASSUME NEW q \in Seq(Item), NEW x \in Item, NEW tag \in Nat, Below(q, tag),
           x.t = "csw" => x.tag < tag
    PROVE  Below(Append(q, x), tag)
<1>1. PICK t \in Seq(Item) : /\ t = Append(q, x) /\ Len(t) = Len(q) + 1
                             /\ \A k \in 1 .. Len(q) : t[k] = q[k]
                             /\ t[Len(q) + 1] = x
  BY AppendFacts, ZenonT(60)
<1>2. Len(q) \in Nat
  BY QueueFacts
<1>3. \A k \in 1 .. Len(t) : k \in 1 .. Len(q) \/ k = Len(q) + 1
  BY <1>1, <1>2
<1> QED
  BY <1>1, <1>3 DEF Below

-------------------------------------------------------------------------------
(* A step within a command, and the end of one *)

\* Nothing but the phase, the data and the ghost split changes.
Moved(r, q, ph, data, split) ==
    /\ DOMAIN r = Fields
    /\ r.phase = ph /\ r.data = data /\ r.split = split
    /\ r.kind = q.kind /\ r.at = q.at /\ r.run = q.run /\ r.tag = q.tag
    /\ r.held = q.held /\ r.failed = q.failed /\ r.intact = q.intact /\ r.alien = q.alien
    /\ r.passed = q.passed /\ r.restored = q.restored /\ r.before = q.before
    /\ r.clean = q.clean

LEMMA MovedTyped ==
    ASSUME NEW q, ProbeTyped(q), FieldsTyped(q), q.at \in Commands,
           NEW ph \in {"data", "csw", "reread"}, NEW data \in Seq(Unit),
           NEW split \in BOOLEAN, q.at \in {"tur", "again"} => ph # "data",
           NEW r, Moved(r, q, ph, data, split)
    PROVE  ProbeTyped(r) /\ FieldsTyped(r)
<1>1. ProbeTyped(r)
  BY DEF ProbeTyped, Moved
<1>2. FieldsTyped(r)
  BY DEF FieldsTyped, Moved
<1> QED
  BY <1>1, <1>2

\* What a command notes of its own transfers.
Noted(q) ==
    /\ ProbeTyped(q) /\ FieldsTyped(q)
    /\ q.kind = p.kind /\ q.at = p.at /\ q.tag = p.tag /\ q.held = p.held
    /\ q.data = p.data /\ q.failed = p.failed /\ q.before = p.before /\ q.clean = p.clean

LEMMA NotedIs ==
    ASSUME ProbeTyped(p), FieldsTyped(p), p.at \in Commands
    PROVE  /\ Noted(p)
           /\ Noted(Broken(Cut(p))) /\ ~Alive(Broken(Cut(p)))
           /\ Noted(BrokenIn(p)) /\ (p.kind = "bot" => ~Alive(BrokenIn(p)))
           /\ Noted(BrokenIn(Cut(p))) /\ (p.kind = "bot" => ~Alive(BrokenIn(Cut(p))))
<1>1. DOMAIN p = Fields /\ ~p.passed /\ p.intact \in BOOLEAN /\ p.split \in BOOLEAN
  BY DEF ProbeTyped, FieldsTyped, Commands, BotAts, WriteAts
<1> DEFINE Marked(q, intact, split) ==
        /\ DOMAIN q = Fields /\ q.split = split /\ q.intact = intact
        /\ q.kind = p.kind /\ q.at = p.at /\ q.run = p.run /\ q.tag = p.tag
        /\ q.phase = p.phase /\ q.data = p.data /\ q.held = p.held
        /\ q.failed = p.failed /\ q.passed = p.passed /\ q.restored = p.restored
        /\ q.alien = p.alien /\ q.before = p.before /\ q.clean = p.clean
<1>2. ASSUME NEW q, NEW intact \in BOOLEAN, NEW split \in BOOLEAN, Marked(q, intact, split)
      PROVE  Noted(q) /\ (~intact => ~Alive(q))
  <2>2. ProbeTyped(q)
    BY <1>2 DEF ProbeTyped
  <2>3. FieldsTyped(q)
    BY <1>1, <1>2 DEF FieldsTyped
  <2> QED
    BY <1>2, <2>2, <2>3 DEF Noted, Alive
<1>3. /\ Marked(p, p.intact, p.split) /\ Marked(Broken(p), FALSE, p.split)
      /\ Marked(Cut(p), p.intact, TRUE) /\ Marked(Broken(Cut(p)), FALSE, TRUE)
  BY <1>1 DEF Broken, Cut, Fields
<1> HIDE DEF Marked
<1>4. Noted(p) /\ Noted(Cut(p))
  BY <1>1, <1>2, <1>3
<1>5. Noted(Broken(p)) /\ ~Alive(Broken(p))
  BY <1>1, <1>2, <1>3
<1>6. Noted(Broken(Cut(p))) /\ ~Alive(Broken(Cut(p)))
  BY <1>1, <1>2, <1>3
<1>7. BrokenIn(p) = IF p.kind = "bot" THEN Broken(p) ELSE p
  BY DEF BrokenIn
<1>8. Cut(p).kind = p.kind
  BY <1>4 DEF Noted
<1>9. BrokenIn(Cut(p)) = IF p.kind = "bot" THEN Broken(Cut(p)) ELSE Cut(p)
  BY <1>8 DEF BrokenIn
<1> QED
  BY <1>4, <1>5, <1>6, <1>7, <1>9

\* A command that failed leaves the invariant standing whatever the probe does next,
\* provided what it left on the pipes cannot be taken for the answer to the next one.
LEMMA GivesKeeps ==
    ASSUME ProbeInv, p.at \in Commands, NEW q, Noted(q), p' = Gives(q), DeviceTyped',
           p.at = "sense" /\ Alive(q) =>
               /\ out' = None /\ ~q.alien
               /\ (in' = <<>> /\ ~q.split) \/ Doomed(in', p.tag + 1),
           p.kind = "write" /\ p.clean =>
               /\ Below(in', p.tag + 1) /\ out'.tag < p.tag + 1
               /\ \A b \in 1 .. Blocks : b > MaxBlocks => medium'[b] = p.before[b]
    PROVE  ProbeInv'
<1>0. p.tag \in Nat /\ q.at \in Commands
  BY DEF ProbeInv, FieldsTyped, Noted
<1>1. PICK r : r = Gives(q)
  OBVIOUS
<1>2. Concluded(r, q, FALSE) /\ (r.failed \/ (q.at = "sense" /\ r.at = "again"))
  BY <1>0, <1>1, ConcludesIs DEF Gives, Noted
<1>3. ProbeTyped(p)' /\ FieldsTyped(p)'
  BY <1>1, <1>2 DEF Concluded, ProbeTyped, FieldsTyped
<1>4. InStep'
  <2>1. ASSUME Alive(r) PROVE p.at = "sense" /\ r.at = "again" /\ Alive(q)
    BY <1>2, <2>1 DEF Alive, Concluded, Carries, Noted
  <2>2. ASSUME Alive(r)
        PROVE /\ ~r.alien /\ r.phase = "cbw" /\ r.tag = p.tag + 1 /\ out' = None
              /\ (in' = <<>> /\ ~r.split) \/ Doomed(in', r.tag)
    BY <1>2, <2>1, <2>2 DEF Concluded, Carries, Noted
  <2> QED
    BY <1>1, <2>1, <2>2 DEF InStep, Alive, AtRest, BeforeCbw, BeforeData, BeforeCsw, AtCsw
<1>5. PutBackInv'
  <2>1. SUFFICES ASSUME r.kind = "write", r.clean PROVE PutBackInv'
    BY <1>1 DEF PutBackInv
  <2>2. p.kind = "write" /\ p.clean /\ q.before = p.before /\ r.before = p.before
    BY <1>2, <2>1 DEF Concluded, Carries, Noted
  <2>3. ~r.restored
    BY <1>2 DEF Concluded
  <2>4. ASSUME r.at # "done" PROVE (Saving /\ TagsKnown /\ Restoring)'
    <3>1. /\ r.phase = "cbw" /\ r.tag = p.tag + 1 /\ r.at # "save" /\ r.at \in WriteAts
      BY <1>2, <2>1, <2>4 DEF Concluded, Noted, ProbeTyped, Commands
    <3>2. p.at # "save"
      <4>1. ASSUME p.at = "save" PROVE FALSE
        <5>1. q.at = "save" /\ q.kind = "write" /\ DOMAIN q = Fields
          BY <2>2, <4>1 DEF Noted, ProbeTyped
        <5>2. Gives(q) = Fails(q)
          BY <5>1 DEF Gives, Concludes, WriteStep
        <5> QED
          BY <1>1, <2>4, <5>1, <5>2, FailsIs
      <4> QED
        BY <4>1
    <3>3. r.held = p.held /\ (r.at = "restore" => Len(r.held) = 2 * MaxBlocks)
      BY <1>2, <3>1, <3>2 DEF Concluded, Noted
    <3>4. p.at \in {"write", "back", "restore"}
      BY <2>2, <3>2 DEF ProbeInv, ProbeTyped, Commands, BotAts, WriteAts
    <3>5. Saved(p.held)
      BY <2>2, <3>4 DEF ProbeInv, PutBackInv, Restoring
    <3>6. Saving'
      BY <1>1, <3>1 DEF Saving
    <3>7. TagsKnown'
      <4>1. Below(in', p.tag + 1) /\ out'.tag < p.tag + 1
        BY <2>2
      <4>2. in' \in Seq(Item) /\ out'.tag \in Nat
        BY DEF DeviceTyped, None
      <4>3. Below(in', (p.tag + 1) + 1)
        BY <1>0, <4>1, <4>2, BelowFacts
      <4>4. out'.tag < (p.tag + 1) + 1
        BY <1>0, <4>1, <4>2
      <4> QED
        BY <1>1, <3>1, <4>1, <4>3, <4>4 DEF TagsKnown
    <3>8. Restoring'
      <4>1. \A b \in 1 .. Blocks : b > MaxBlocks => medium'[b] = r.before[b]
        BY <2>2
      <4>2. Saved(p.held)'
        BY <1>1, <2>2, <3>3, <3>5 DEF Saved, Whole
      <4> QED
        BY <1>1, <3>1, <3>3, <4>1, <4>2 DEF Restoring, AtCsw
    <3> QED
      BY <3>6, <3>7, <3>8
  <2> QED
    BY <1>1, <2>3, <2>4 DEF PutBackInv
<1> QED
  BY <1>3, <1>4, <1>5 DEF ProbeInv

LEMMA Here ==
    ASSUME ProbeInv, p.phase # "none"
    PROVE  /\ p.at \in Commands /\ p.at # "done" /\ p.tag \in Nat /\ ProbeTyped(p) /\ FieldsTyped(p)
           /\ in \in Seq(Item) /\ medium \in Medium /\ probes \in Nat
           /\ out \in {None} \cup [tag : Nat, probe : Probe, at : Commands] /\ out.tag \in Nat
           /\ p.at = "sense" => p.kind = "bot"
           /\ Me \in Probe
           /\ p.kind = "write" /\ p.clean => Saving /\ TagsKnown /\ Restoring
<1>1. p.at \in Commands /\ p.tag \in Nat /\ ProbeTyped(p) /\ FieldsTyped(p) /\ DeviceTyped
  BY DEF ProbeInv, ProbeTyped, FieldsTyped
<1>2. out.tag \in Nat
  BY <1>1 DEF DeviceTyped, None
<1>3. p.at # "done" /\ (p.at = "sense" => p.kind = "bot")
  BY <1>1 DEF Commands, BotAts, WriteAts, ProbeTyped
<1>4. Me \in Probe
  <2>1. p.kind \in {"none", "bot", "write"} /\ probes \in Nat
    BY <1>1 DEF ProbeTyped, DeviceTyped
  <2> QED
    BY <2>1, Zenon DEF Me, Probe
<1> QED
  BY <1>1, <1>2, <1>3, <1>4 DEF DeviceTyped, ProbeInv, PutBackInv

\* A failed command that took nothing, put nothing and stored nothing.
LEMMA IdleGiveUp ==
    ASSUME ProbeInv, p.phase # "none", NEW q, Noted(q), p' = Gives(q),
           UNCHANGED <<in, out, medium, probes>>,
           p.at = "sense" /\ Alive(q) =>
               /\ out = None /\ ~q.alien
               /\ (in = <<>> /\ ~q.split) \/ Doomed(in, p.tag + 1)
    PROVE  ProbeInv'
<1>1. DeviceTyped'
  BY DEF ProbeInv, DeviceTyped
<1>2. p.kind = "write" /\ p.clean =>
        /\ Below(in', p.tag + 1) /\ out'.tag < p.tag + 1
        /\ \A b \in 1 .. Blocks : b > MaxBlocks => medium'[b] = p.before[b]
  BY Here DEF TagsKnown, Restoring
<1> QED
  BY <1>1, <1>2, Here, GivesKeeps

LEMMA CbwFailsKeeps ==
    ASSUME ProbeInv, CbwStalls \/ CbwLost PROVE ProbeInv'
<1>1. p.phase # "none" /\ p.phase = "cbw" /\ p' = Gives(p) /\ UNCHANGED <<in, out, medium, probes>>
  BY DEF CbwStalls, CbwLost, AtCbw, dev
<1>2. Noted(p)
  BY <1>1, Here, NotedIs
<1>3. p.at = "sense" /\ Alive(p) =>
        /\ out = None /\ ~p.alien
        /\ (in = <<>> /\ ~p.split) \/ Doomed(in, p.tag + 1)
  BY <1>1 DEF ProbeInv, InStep, BeforeCbw
<1> QED
  BY <1>1, <1>2, <1>3, IdleGiveUp

LEMMA CbwSplitKeeps ==
    ASSUME ProbeInv, CbwSplit PROVE ProbeInv'
<1>1. /\ p.phase # "none" /\ p.phase = "cbw" /\ p' = Gives(Broken(Cut(p)))
      /\ in' = Append(in, Stall) /\ UNCHANGED <<out, medium, probes>>
  BY DEF CbwSplit, AtCbw
<1>2. PICK q : q = Broken(Cut(p))
  OBVIOUS
<1>3. Noted(q) /\ ~Alive(q)
  BY <1>1, <1>2, Here, NotedIs
<1>4. in' \in Seq(Item)
  BY <1>1, Here, AppendFacts, ItemsAre
<1>5. DeviceTyped'
  BY <1>1, <1>4 DEF ProbeInv, DeviceTyped
<1>6. ASSUME p.kind = "write", p.clean
      PROVE  /\ Below(in', p.tag + 1) /\ out'.tag < p.tag + 1
             /\ \A b \in 1 .. Blocks : b > MaxBlocks => medium'[b] = p.before[b]
  <2>1. Below(in, p.tag + 1) /\ out.tag < p.tag + 1 /\ Restoring
    BY <1>1, <1>6, Here DEF TagsKnown
  <2>2. Below(in', p.tag + 1)
    BY <1>1, <2>1, Here, BelowAppend, ItemsAre DEF Stall
  <2> QED
    BY <1>1, <2>1, <2>2 DEF Restoring
<1> QED
  BY <1>1, <1>2, <1>3, <1>5, <1>6, Here, GivesKeeps

-------------------------------------------------------------------------------
(* What the commands carry *)

LEMMA RunsAre ==
    ASSUME NEW k \in 1 .. 2
    PROVE  Runs[k] \in Nat /\ Runs[k] >= 1 /\ Runs[k] <= MaxBlocks /\ Len(Runs) = 2
<1>1. MaxBlocks \in Nat /\ MaxBlocks >= 1
  BY ProbeAssumption
<1>2. Runs[1] = 1 /\ Runs[2] = MaxBlocks /\ Len(Runs) = 2
  BY DEF Runs
<1>3. k = 1 \/ k = 2
  OBVIOUS
<1> QED
  BY <1>1, <1>2, <1>3

LEMMA LengthIs ==
    ASSUME ProbeTyped(p), p.at \in Commands
    PROVE  (Length(p) > 0 <=> p.at \notin {"tur", "again"}) /\ (Length(p) = 0 <=> p.at \in {"tur", "again"})
<1>1. MaxBlocks \in Nat /\ MaxBlocks >= 1 /\ Multi \in Nat /\ Multi >= 1
  BY ProbeAssumption
<1>2. CASE p.at \in {"write", "back"}
  <2>1. PICK n \in Nat : n = Runs[p.run] /\ n >= 1
    BY <1>2, RunsAre DEF ProbeTyped
  <2>2. Length(p) = 2 * n
    BY <1>2, <2>1 DEF Length
  <2> QED
    BY <1>2, <2>1, <2>2
<1>3. CASE p.at \notin {"write", "back"}
  BY <1>1, <1>3 DEF Length
<1> QED
  BY <1>2, <1>3

LEMMA ContentsIs ==
    ASSUME NEW m \in Medium, NEW n \in 1 .. Blocks
    PROVE  Contents(m, n) \in Seq(Unit) /\ Len(Contents(m, n)) = 2 * n
<1>1. Blocks \in Nat /\ n \in Nat /\ n <= Blocks
  BY ProbeAssumption
<1>2. ASSUME NEW u \in 1 .. 2 * n PROVE m[(u + 1) \div 2] \in Unit
  <2>1. (u + 1) \div 2 \in 1 .. n
    BY <1>1
  <2>2. (u + 1) \div 2 \in 1 .. Blocks
    BY <1>1, <2>1
  <2> QED
    BY <2>2 DEF Medium
<1>3. PICK k \in Nat : k = 2 * n
  BY <1>1
<1>4. [u \in 1 .. k |-> m[(u + 1) \div 2]] \in Seq(Unit)
  BY <1>2, <1>3
<1>5. Len([u \in 1 .. k |-> m[(u + 1) \div 2]]) = k
  BY <1>3
<1> QED
  BY <1>3, <1>4, <1>5 DEF Contents

LEMMA AnswersTyped ==
    ASSUME ProbeInv, p.at \in Commands
    PROVE  Answers \subseteq Seq(Unit)
<1>1. PICK t : t = True(p.at)
  OBVIOUS
<1>2. medium \in Medium /\ ProbeTyped(p)
  BY DEF ProbeInv, DeviceTyped
<1>3. Blocks \in Nat /\ Blocks >= 1 /\ MaxBlocks \in 1 .. Blocks /\ Multi \in Nat /\ Multi >= 1
  BY ProbeAssumption
<1>4. t \in Seq(Unit) /\ Len(t) > 0
  <2>1. CASE p.at \in {"read", "over"}
    <3>1. 1 \in 1 .. Blocks
      BY <1>3
    <3>2. PICK c : c = Contents(medium, 1)
      OBVIOUS
    <3>3. c \in Seq(Unit) /\ Len(c) = 2 * 1
      BY <1>2, <3>1, <3>2, ContentsIs
    <3>4. t = c
      BY <1>1, <2>1, <3>2 DEF True
    <3> QED
      BY <3>3, <3>4
  <2>2. CASE p.at = "multi"
    BY <1>1, <1>2, <1>3, <2>2, ContentsIs DEF True, ProbeTyped
  <2>3. CASE p.at = "save"
    BY <1>1, <1>2, <1>3, <2>3, ContentsIs DEF True
  <2>4. CASE p.at = "back"
    <3>1. PICK n \in 1 .. Blocks : n = Runs[p.run]
      BY <1>2, <1>3, <2>4, RunsAre DEF ProbeTyped
    <3> QED
      BY <1>1, <1>2, <2>4, <3>1, ContentsIs DEF True
  <2>5. CASE p.at \notin {"read", "over", "multi", "save", "back"}
    <3>1. t = <<p.at, p.at>>
      BY <1>1, <2>5 DEF True
    <3>2. p.at \in Unit
      BY Zenon DEF Unit
    <3> QED
      BY <3>1, <3>2
  <2> QED
    BY <2>1, <2>2, <2>3, <2>4, <2>5
<1>5. SubSeq(t, 1, 1) \in Seq(Unit) /\ <<>> \in Seq(Unit)
  BY <1>4
<1>6. <<"odd", "odd">> \in Seq(Unit)
  <2>1. "odd" \in Unit
    BY Zenon DEF Unit
  <2> QED
    BY <2>1
<1> QED
  BY <1>1, <1>4, <1>5, <1>6 DEF Answers

-------------------------------------------------------------------------------
(* The device takes a CBW *)

Plain(s) == s \in Seq(Item) /\ \A i \in 1 .. Len(s) : s[i].t # "csw"

\* What a command puts on the pipe: an optional answer, an optional stall, its status.
LEMMA AnswerIs ==
    ASSUME NEW d, NEW s, Plain(d), Plain(s), NEW x \in Item, x.t = "csw",
           NEW e, e = (d \o s) \o <<x>>
    PROVE  /\ e \in Seq(Item) /\ Due(e, x.tag, x.probe)
           /\ Len(d) > 0 => Len(e) > 1 /\ e[1] = d[1]
           /\ \A tag : x.tag < tag => Below(e, tag)
<1>0. /\ d \in Seq(Item) /\ \A i \in 1 .. Len(d) : d[i].t # "csw"
      /\ s \in Seq(Item) /\ \A i \in 1 .. Len(s) : s[i].t # "csw"
  BY DEF Plain
<1>1. PICK a \in Seq(Item) : a = d \o s
  BY <1>0, JoinFacts
<1>2. /\ Len(a) = Len(d) + Len(s) /\ \A i \in 1 .. Len(d) : a[i] = d[i]
      /\ \A i \in 1 .. Len(s) : a[Len(d) + i] = s[i]
  BY <1>0, <1>1, JoinFacts
<1>3. PICK m \in Nat, n \in Nat : m = Len(d) /\ n = Len(s)
  BY <1>0, QueueFacts
<1>4. \A i \in 1 .. Len(a) : a[i].t # "csw"
  <2>1. TAKE i \in 1 .. Len(a)
  <2>2. CASE i \in 1 .. m
    BY <1>0, <1>2, <1>3, <2>2
  <2>3. CASE i \notin 1 .. m
    <3>0. Len(a) = m + n
      BY <1>2, <1>3
    <3>1. PICK k \in 1 .. n : k = i - m
      BY <2>3, <3>0
    <3>2. i = m + k
      BY <3>1
    <3>3. a[i] = s[k]
      BY <1>2, <1>3, <3>2
    <3>4. s[k].t # "csw"
      BY <1>0, <1>3
    <3> QED
      BY <3>3, <3>4
  <2> QED
    BY <2>2, <2>3
<1>5. a \o <<x>> = Append(a, x)
  OBVIOUS
<1>6. e \in Seq(Item) /\ e = Append(a, x)
  BY <1>1, <1>5, AppendFacts
<1>7. Len(e) = Len(a) + 1 /\ (\A i \in 1 .. Len(a) : e[i] = a[i]) /\ e[Len(a) + 1] = x
  <2>1. PICK b \in Seq(Item) : b = Append(a, x)
    BY <1>6
  <2>2. Len(b) = Len(a) + 1 /\ (\A i \in 1 .. Len(a) : b[i] = a[i]) /\ b[Len(a) + 1] = x
    BY <2>1, AppendFacts
  <2>3. e = b
    BY <1>6, <2>1
  <2> QED
    BY <2>2, <2>3
<1>8. Len(a) \in Nat
  BY QueueFacts
<1>9. e # <<>> /\ e[Len(e)] = x
  BY <1>7, <1>8
<1>10. \A i \in 1 .. Len(e) - 1 : e[i].t # "csw"
  <2>1. TAKE i \in 1 .. Len(e) - 1
  <2>2. i \in 1 .. Len(a)
    BY <1>7, <1>8
  <2> QED
    BY <1>4, <1>7, <2>2
<1>11. Due(e, x.tag, x.probe)
  BY <1>9, <1>10 DEF Due
<1>12. ASSUME Len(d) > 0 PROVE Len(e) > 1 /\ e[1] = d[1]
  <2>1. Len(e) = (m + n) + 1 /\ m > 0
    BY <1>2, <1>3, <1>7, <1>12
  <2>2. Len(e) > 1
    BY <1>3, <2>1
  <2>3. 1 \in 1 .. m /\ 1 \in 1 .. m + n
    BY <1>3, <2>1
  <2>4. a[1] = d[1] /\ e[1] = a[1]
    BY <1>2, <1>3, <1>7, <2>3
  <2> QED
    BY <2>2, <2>4
<1>13. \A tag : x.tag < tag => Below(e, tag)
  <2>1. \A i \in 1 .. Len(e) : i \in 1 .. Len(e) - 1 \/ i = Len(e)
    BY <1>7, <1>8
  <2> QED
    BY <1>9, <1>10, <2>1 DEF Below
<1> QED
  BY <1>6, <1>11, <1>12, <1>13

\* A command that is not a write: its answer, stall and status join what is on the pipe.
Joins(e) ==
    /\ e \in Seq(Item) /\ in' = in \o e /\ Due(e, p.tag, Me) /\ Below(e, p.tag + 1)
    /\ Length(p) > 0 => /\ Len(e) > 1
                        /\ e[1] = Stall \/ (e[1].t = "data" /\ e[1].units \in Answers)

LEMMA TakesIs ==
    ASSUME ProbeInv, AtCbw, Takes
    PROVE  /\ Writes(p.at) => in' = in /\ out' = [tag |-> p.tag, probe |-> Me, at |-> p.at]
           /\ ~Writes(p.at) => out' = out /\ \E e : Joins(e)
<1>1. p.phase # "none"
  BY DEF AtCbw
<1>2. PICK c : c = [tag |-> p.tag, probe |-> Me, at |-> p.at]
  OBVIOUS
<1>3. CASE Writes(p.at)
  BY <1>2, <1>3 DEF Takes, Me
<1>4. CASE ~Writes(p.at)
  <2>1. PICK d \in IF Length(p) = 0 THEN {<<>>}
                   ELSE {<<Stall>>} \cup {<<Data(u)>> : u \in Answers},
             s \in {<<>>, <<Stall>>}, st \in 0 .. 2 :
               in' = in \o d \o s \o <<Csw(c, st)>>
    BY <1>2, <1>4 DEF Takes, Me
  <2>2. PICK x : x = Csw(c, st)
    OBVIOUS
  <2>3. x \in Item /\ x.t = "csw" /\ x.tag = p.tag /\ x.probe = Me
    <3>1. c.tag \in Nat /\ c.probe \in Probe
      BY <1>1, <1>2, Here
    <3>2. x \in Item
      BY <2>2, <3>1, ItemsAre
    <3> QED
      BY <1>2, <2>2, <3>2 DEF Csw
  <2>4. s \in Seq(Item) /\ Plain(s)
    <3>1. CASE s = <<>>
      BY <3>1 DEF Plain
    <3>2. CASE s = <<Stall>>
      BY <3>2, ItemsAre DEF Stall, Plain
    <3> QED
      BY <3>1, <3>2
  <2>5. /\ d \in Seq(Item) /\ Plain(d)
        /\ Length(p) > 0 => /\ Len(d) > 0
                            /\ d[1] = Stall \/ (d[1].t = "data" /\ d[1].units \in Answers)
    <3>1. CASE d = <<>>
      BY <1>1, <3>1, Here, LengthIs DEF Plain
    <3>2. CASE d = <<Stall>>
      BY <3>2, ItemsAre DEF Stall, Plain
    <3>3. ASSUME NEW u \in Answers, d = <<Data(u)>>
          PROVE  /\ d \in Seq(Item) /\ Plain(d)
                 /\ Length(p) > 0 =>
                       Len(d) > 0 /\ d[1].t = "data" /\ d[1].units \in Answers
      <4>1. PICK y : y = Data(u)
        OBVIOUS
      <4>2. y \in Item /\ y.t = "data" /\ y.units = u
        BY <1>1, <4>1, Here, AnswersTyped, ItemsAre DEF Data
      <4>3. d = <<y>>
        BY <3>3, <4>1
      <4> QED
        BY <4>2, <4>3 DEF Plain
    <3> QED
      BY <3>1, <3>2, <3>3
  <2>6. PICK e : e = (d \o s) \o <<x>>
    OBVIOUS
  <2>7. /\ e \in Seq(Item) /\ Due(e, x.tag, x.probe)
        /\ Len(d) > 0 => Len(e) > 1 /\ e[1] = d[1]
        /\ \A tag : x.tag < tag => Below(e, tag)
    BY <2>3, <2>4, <2>5, <2>6, AnswerIs, ZenonT(60)
  <2>8. in' = in \o e
    <3>1. in \in Seq(Item) /\ <<x>> \in Seq(Item) /\ d \o s \in Seq(Item)
      BY <1>1, <2>3, <2>4, <2>5, Here, JoinFacts
    <3>0. \A j, k, l \in Seq(Item) : (j \o k) \o l = j \o (k \o l)
      BY ConcatAssociative, SMTT(30)
    <3>2. (in \o d) \o s = in \o (d \o s)
      <4>1. in \in Seq(Item) /\ d \in Seq(Item) /\ s \in Seq(Item)
        BY <2>4, <2>5, <3>1
      <4> QED
        BY <3>0, <4>1, Zenon
    <3>3. (in \o (d \o s)) \o <<x>> = in \o ((d \o s) \o <<x>>)
      BY <3>0, <3>1, Zenon
    <3> QED
      BY <2>1, <2>2, <2>6, <3>2, <3>3
  <2>9. p.tag < p.tag + 1
    BY <1>1, Here
  <2>10. Joins(e)
    BY <2>3, <2>5, <2>7, <2>8, <2>9 DEF Joins
  <2>11. out' = out
    BY <1>4 DEF Takes
  <2> QED
    BY <1>4, <2>10, <2>11
<1> QED
  BY <1>3, <1>4

\* The probe goes on to the data or to the status.
LEMMA GoesOn ==
    ASSUME ProbeInv, AtCbw, p' = [p EXCEPT !.phase = IF Length(p) > 0 THEN "data" ELSE "csw"]
    PROVE  /\ ProbeTyped(p)' /\ FieldsTyped(p)'
           /\ Moved(p', p, IF p.at \in {"tur", "again"} THEN "csw" ELSE "data", p.data, p.split)
           /\ p'.phase = "data" <=> p.at \notin {"tur", "again"}
           /\ p'.phase \in {"data", "csw"}
<1>1. PICK x \in {"data", "csw"} : x = IF p.at \in {"tur", "again"} THEN "csw" ELSE "data"
  OBVIOUS
<1>2. p.at \in Commands /\ ProbeTyped(p) /\ FieldsTyped(p)
  BY Here DEF AtCbw
<1>3. p' = [p EXCEPT !.phase = x]
  BY <1>1, <1>2, LengthIs
<1>4. Moved(p', p, x, p.data, p.split)
  BY <1>2, <1>3 DEF Moved, ProbeTyped, Fields
<1>5. p.data \in Seq(Unit) /\ p.split \in BOOLEAN
  BY <1>2 DEF FieldsTyped
<1>6. ProbeTyped(p') /\ FieldsTyped(p')
  BY <1>1, <1>2, <1>4, <1>5, MovedTyped
<1> QED
  BY <1>1, <1>4, <1>6 DEF Moved, ProbeTyped, FieldsTyped

LEMMA CbwGoesOnKeeps ==
    ASSUME ProbeInv, AtCbw, ~haltOut, out = None, Takes, UNCHANGED <<medium, probes>>,
           p' = [p EXCEPT !.phase = IF Length(p) > 0 THEN "data" ELSE "csw"]
    PROVE  ProbeInv'
<1>0. p.phase # "none" /\ p.phase = "cbw"
  BY DEF AtCbw
<1>1. /\ p.at \in Commands /\ p.at # "done" /\ p.tag \in Nat /\ in \in Seq(Item)
      /\ Me \in Probe /\ (p.kind = "write" /\ p.clean => Saving /\ TagsKnown /\ Restoring)
      /\ ProbeTyped(p)
  BY <1>0, Here
<1>2. /\ ProbeTyped(p)' /\ FieldsTyped(p)'
      /\ p'.phase = "data" <=> p.at \notin {"tur", "again"}
      /\ p'.phase \in {"data", "csw"}
      /\ Me' = Me
  BY GoesOn DEF Moved, Me
<1>3. /\ p'.at = p.at /\ p'.tag = p.tag /\ p'.kind = p.kind /\ p'.clean = p.clean
      /\ p'.failed = p.failed /\ p'.intact = p.intact /\ p'.alien = p.alien
      /\ p'.split = p.split /\ p'.before = p.before /\ p'.held = p.held
      /\ p'.restored = p.restored
  BY GoesOn DEF Moved
<1>4. CASE Writes(p.at)
  <2>1. in' = in /\ out' = [tag |-> p.tag, probe |-> Me, at |-> p.at] /\ p'.phase = "data"
    BY <1>2, <1>4, TakesIs DEF Writes
  <2>2. DeviceTyped'
    BY <1>1, <2>1 DEF ProbeInv, DeviceTyped
  <2>3. InStep'
    <3>1. Alive(p') => Alive(p)
      BY <1>3 DEF Alive
    <3>2. Alive(p) => ~p.alien /\ in = <<>> /\ ~p.split
      BY <1>0, <1>4 DEF ProbeInv, InStep, BeforeCbw, Writes
    <3> QED
      BY <1>2, <1>3, <1>4, <2>1, <3>1, <3>2
         DEF InStep, Alive, AtRest, BeforeCbw, BeforeData, BeforeCsw, AtCsw
  <2>4. PutBackInv'
    <3>1. SUFFICES ASSUME p.kind = "write", p.clean PROVE (Saving /\ TagsKnown /\ Restoring)' /\ ~p'.restored
      BY <1>3 DEF PutBackInv
    <3>2. ~p'.restored
      BY <1>1, <1>3 DEF ProbeInv, FieldsTyped
    <3>3. Saving'
      BY <1>3, <1>4 DEF Saving, Writes
    <3>4. TagsKnown'
      <4>1. Below(in, p.tag + 1) /\ Below(in, p.tag)
        BY <1>0, <1>1, <3>1 DEF TagsKnown
      <4>2. out'.tag = p.tag /\ p.tag < p.tag + 1
        BY <1>1, <2>1
      <4> QED
        BY <1>3, <2>1, <4>1, <4>2 DEF TagsKnown
    <3>5. Restoring'
      BY <1>1, <1>3, <2>1, <3>1 DEF Restoring, Saved, Whole, AtCsw
    <3> QED
      BY <3>2, <3>3, <3>4, <3>5
  <2> QED
    BY <1>2, <2>2, <2>3, <2>4 DEF ProbeInv
<1>5. CASE ~Writes(p.at)
  <2>1. PICK e : Joins(e)
    BY <1>5, TakesIs
  <2>2. out' = None /\ e \in Seq(Item) /\ in' = in \o e /\ Due(e, p.tag, Me)
    BY <1>5, <2>1, TakesIs DEF Joins
  <2>3. in' \in Seq(Item)
    BY <1>1, <2>2, JoinFacts
  <2>4. DeviceTyped'
    BY <2>2, <2>3 DEF ProbeInv, DeviceTyped
  <2>5. p.at \notin {"tur", "again"} => Len(e) > 1 /\ (e[1] = Stall \/ (e[1].t = "data" /\ e[1].units \in Answers))
    BY <1>1, <2>1, LengthIs DEF Joins
  <2>6. in = <<>> => in' = e
    BY <2>2
  <2>7. InStep'
    <3>1. ASSUME Alive(p') PROVE /\ Alive(p) /\ ~p.alien
                                 /\ (in = <<>> /\ ~p.split) \/ (p.at = "again" /\ Doomed(in, p.tag))
      BY <1>0, <1>3, <3>1 DEF Alive, ProbeInv, InStep, BeforeCbw
    <3>2. CASE in = <<>> /\ ~p.split
      <4>1. in' = e
        BY <2>6, <3>2
      <4> QED
        BY <1>2, <1>3, <1>5, <2>2, <2>5, <3>1, <3>2, <4>1
           DEF InStep, AtRest, BeforeCbw, BeforeData, BeforeCsw, AtCsw
    <3>3. CASE p.at = "again" /\ Doomed(in, p.tag)
      <4>1. Doomed(in', p.tag)
        BY <1>1, <2>2, <3>3, DoomedJoin
      <4> QED
        BY <1>2, <1>3, <2>2, <3>1, <3>3, <4>1
           DEF InStep, AtRest, BeforeCbw, BeforeData, BeforeCsw, AtCsw
    <3> QED
      BY <3>1, <3>2, <3>3 DEF InStep
  <2>8. PutBackInv'
    <3>1. SUFFICES ASSUME p.kind = "write", p.clean PROVE (Saving /\ TagsKnown /\ Restoring)' /\ ~p'.restored
      BY <1>3 DEF PutBackInv
    <3>2. ~p'.restored
      BY <1>1, <1>3 DEF ProbeInv, FieldsTyped
    <3>3. Saving'
      <4>1. SUFFICES ASSUME p.at = "save" PROVE Saving'
        BY <1>3 DEF Saving
      <4>2. ~p.failed /\ p.intact /\ medium = p.before
        BY <1>1, <3>1, <4>1 DEF Saving
      <4>3. in' = e
        BY <1>0, <2>6, <3>1, <4>1, <4>2 DEF ProbeInv, InStep, Alive, BeforeCbw
      <4>4. Answers = {Whole, SubSeq(Whole, 1, 1), <<>>}
        BY <4>1, <4>2 DEF Answers, True, Whole
      <4>5. Whole' = Whole
        BY <1>3 DEF Whole
      <4> QED
        BY <1>2, <1>3, <2>5, <4>1, <4>2, <4>3, <4>4, <4>5 DEF Saving, AtCsw
    <3>4. TagsKnown'
      <4>1. Below(in, p.tag + 1) /\ Below(e, p.tag + 1)
        BY <1>1, <2>1, <3>1 DEF TagsKnown, Joins
      <4>2. Below(in', p.tag + 1)
        BY <1>1, <2>2, <4>1, BelowJoin
      <4>3. out'.tag < p.tag + 1
        BY <1>1, <2>2 DEF None
      <4> QED
        BY <1>2, <1>3, <1>5, <4>2, <4>3 DEF TagsKnown
    <3>5. Restoring'
      BY <1>1, <1>3, <1>5, <3>1 DEF Restoring, Saved, Whole, AtCsw, Writes
    <3> QED
      BY <3>2, <3>3, <3>4, <3>5
  <2> QED
    BY <1>2, <2>4, <2>7, <2>8 DEF ProbeInv
<1> QED
  BY <1>4, <1>5

LEMMA CbwGivesUpKeeps ==
    ASSUME ProbeInv, AtCbw, ~haltOut, out = None, Takes, UNCHANGED <<medium, probes>>,
           p' = Gives(p)
    PROVE  ProbeInv'
<1>0. p.phase # "none" /\ p.phase = "cbw"
  BY DEF AtCbw
<1>1. /\ p.at \in Commands /\ p.tag \in Nat /\ in \in Seq(Item) /\ Me \in Probe
      /\ p.kind = "write" /\ p.clean => Saving /\ TagsKnown /\ Restoring
  BY <1>0, Here
<1>2. Noted(p)
  BY <1>0, Here, NotedIs
<1>3. CASE Writes(p.at)
  <2>1. in' = in /\ out' = [tag |-> p.tag, probe |-> Me, at |-> p.at]
    BY <1>3, TakesIs
  <2>2. DeviceTyped'
    BY <1>1, <2>1 DEF ProbeInv, DeviceTyped
  <2>3. p.at # "sense"
    BY <1>3 DEF Writes
  <2>4. p.kind = "write" /\ p.clean =>
          /\ Below(in', p.tag + 1) /\ out'.tag < p.tag + 1
          /\ \A b \in 1 .. Blocks : b > MaxBlocks => medium'[b] = p.before[b]
    BY <1>1, <2>1 DEF TagsKnown, Restoring
  <2> QED
    BY <1>1, <1>2, <2>2, <2>3, <2>4, GivesKeeps
<1>4. CASE ~Writes(p.at)
  <2>1. PICK e : Joins(e)
    BY <1>4, TakesIs
  <2>2. out' = None /\ e \in Seq(Item) /\ in' = in \o e /\ Due(e, p.tag, Me)
    BY <1>4, <2>1, TakesIs DEF Joins
  <2>3. in' \in Seq(Item)
    BY <1>1, <2>2, JoinFacts
  <2>4. DeviceTyped'
    BY <2>2, <2>3 DEF ProbeInv, DeviceTyped
  <2>5. ASSUME p.at = "sense", Alive(p) PROVE ~p.alien /\ Doomed(in', p.tag + 1)
    <3>1. in = <<>> /\ ~p.alien
      BY <1>0, <2>5 DEF ProbeInv, InStep, BeforeCbw
    <3>2. in' = e
      BY <2>2, <3>1
    <3> QED
      BY <1>1, <2>2, <3>1, <3>2, DueDoomed
  <2>6. ASSUME p.kind = "write", p.clean
        PROVE  /\ Below(in', p.tag + 1) /\ out'.tag < p.tag + 1
               /\ \A b \in 1 .. Blocks : b > MaxBlocks => medium'[b] = p.before[b]
    <3>1. Below(in, p.tag + 1) /\ Below(e, p.tag + 1) /\ Restoring
      BY <1>1, <2>1, <2>6 DEF TagsKnown, Joins
    <3>2. Below(in', p.tag + 1)
      BY <1>1, <2>2, <3>1, BelowJoin
    <3>3. out'.tag < p.tag + 1
      BY <1>1, <2>2 DEF None
    <3> QED
      BY <3>1, <3>2, <3>3 DEF Restoring
  <2> QED
    BY <1>1, <1>2, <2>2, <2>4, <2>5, <2>6, GivesKeeps
<1> QED
  BY <1>3, <1>4

LEMMA CbwGoesKeeps ==
    ASSUME ProbeInv, CbwGoes PROVE ProbeInv'
    BY CbwGoesOnKeeps, CbwGivesUpKeeps DEF CbwGoes

-------------------------------------------------------------------------------
(* The device has the data of a write *)

LEMMA StoresIs ==
    ASSUME ProbeInv, p.phase # "none", out # None, NEW units \in Seq(Unit), NEW st \in 0 .. 2,
           Stores(units, st)
    PROVE  /\ in' = Append(in, Csw(out, st)) /\ Csw(out, st) \in Item /\ in' \in Seq(Item)
           /\ out' = None /\ medium' \in Medium
           /\ \A b \in 1 .. Blocks : 2 * b > Len(units) => medium'[b] = medium[b]
           /\ st = 0 => \A b \in 1 .. Blocks : 2 * b <= Len(units) => medium'[b] = units[2 * b]
<1>1. in \in Seq(Item) /\ medium \in Medium /\ out.tag \in Nat /\ out.probe \in Probe
  BY Here
<1>2. in' = Append(in, Csw(out, st)) /\ out' = None
  BY DEF Stores
<1>3. Csw(out, st) \in Item
  BY <1>1, ItemsAre
<1>4. in' \in Seq(Item)
  BY <1>1, <1>2, <1>3, AppendFacts
<1>5. Blocks \in Nat /\ Len(units) \in Nat
  BY ProbeAssumption
<1>6. PICK new : new = [b \in 1 .. Blocks |-> IF 2 * b <= Len(units) THEN units[2 * b] ELSE medium[b]]
  OBVIOUS
<1>7. (medium' = new \/ medium' = medium) /\ (st = 0 => medium' = new)
  BY <1>6 DEF Stores
<1>8. new \in Medium
  <2>1. ASSUME NEW b \in 1 .. Blocks, 2 * b <= Len(units) PROVE units[2 * b] \in Unit
    <3>1. 2 * b \in 1 .. Len(units)
      BY <1>5, <2>1
    <3> QED
      BY <3>1
  <2> QED
    BY <1>1, <1>6, <2>1 DEF Medium
<1>9. /\ \A b \in 1 .. Blocks : 2 * b > Len(units) => new[b] = medium[b]
      /\ \A b \in 1 .. Blocks : 2 * b <= Len(units) => new[b] = units[2 * b]
  BY <1>5, <1>6
<1> QED
  BY <1>1, <1>2, <1>3, <1>4, <1>7, <1>8, <1>9

LEMMA PatternIs ==
    ASSUME NEW n \in Nat
    PROVE  Pattern(n) \in Seq(Unit) /\ Len(Pattern(n)) = 2 * n
<1>1. ASSUME NEW u \in 1 .. 2 * n PROVE <<"new", (u + 1) \div 2>> \in Unit
  <2>1. PICK k \in Nat : k = (u + 1) \div 2
    OBVIOUS
  <2>2. <<"new", k>> \in Unit
    BY Zenon DEF Unit
  <2> QED
    BY <2>1, <2>2
<1>2. PICK m \in Nat : m = 2 * n
  OBVIOUS
<1>3. [u \in 1 .. m |-> <<"new", (u + 1) \div 2>>] \in Seq(Unit)
  BY <1>1, <1>2
<1>4. Len([u \in 1 .. m |-> <<"new", (u + 1) \div 2>>]) = m
  BY <1>2
<1> QED
  BY <1>2, <1>3, <1>4 DEF Pattern

LEMMA PayloadIs ==
    ASSUME ProbeInv, AtOut
    PROVE  /\ p.phase # "none" /\ p.at \in {"write", "restore"} /\ p.kind = "write"
           /\ Payload(p) \in Seq(Unit)
           /\ p.clean => Len(Payload(p)) <= 2 * MaxBlocks
           /\ p.at = "restore" => Payload(p) = p.held
<1>1. p.phase # "none" /\ p.at \in {"write", "restore"} /\ MaxBlocks \in Nat
  BY ProbeAssumption DEF AtOut, Writes
<1>2. ProbeTyped(p) /\ p.held \in Seq(Unit)
  BY DEF ProbeInv, FieldsTyped
<1>3. p.kind = "write"
  BY <1>1, <1>2 DEF ProbeTyped, WriteAts
<1>4. CASE p.at = "write"
  <2>1. PICK n \in Nat : n = Runs[p.run] /\ n <= MaxBlocks
    BY <1>2, <1>4, RunsAre DEF ProbeTyped
  <2>2. Payload(p) = Pattern(n)
    BY <1>4, <2>1 DEF Payload
  <2>3. PICK u : u = Pattern(n)
    OBVIOUS
  <2>4. u \in Seq(Unit) /\ Len(u) = 2 * n
    BY <2>3, PatternIs
  <2>5. 2 * n <= 2 * MaxBlocks
    BY <1>1, <2>1
  <2> QED
    BY <1>1, <1>3, <1>4, <2>2, <2>3, <2>4, <2>5
<1>5. CASE p.at = "restore"
  <2>1. Payload(p) = p.held
    BY <1>5 DEF Payload
  <2>2. p.clean => Len(p.held) = 2 * MaxBlocks
    BY <1>1, <1>3, <1>5, Here DEF Restoring
  <2> QED
    BY <1>1, <1>2, <1>3, <1>5, <2>1, <2>2
<1> QED
  BY <1>1, <1>4, <1>5

LEMMA SameMedium ==
    ASSUME NEW m \in Medium, NEW n \in Medium, \A b \in 1 .. Blocks : m[b] = n[b]
    PROVE  m = n
<1>1. m = [b \in 1 .. Blocks |-> m[b]]
  BY DEF Medium
<1>2. n = [b \in 1 .. Blocks |-> n[b]]
  BY DEF Medium
<1>3. [b \in 1 .. Blocks |-> m[b]] = [b \in 1 .. Blocks |-> n[b]]
  OBVIOUS
<1> QED
  BY <1>1, <1>2, <1>3

LEMMA CbwSwallowedKeeps ==
    ASSUME ProbeInv, CbwSwallowed PROVE ProbeInv'
<1>0. /\ p.phase # "none" /\ p.phase = "cbw" /\ AtCbw /\ out # None /\ Stores(<<>>, 2)
      /\ p' = [p EXCEPT !.phase = IF Length(p) > 0 THEN "data" ELSE "csw"]
      /\ probes' = probes
  BY DEF CbwSwallowed, AtCbw
<1>1. /\ p.at \in Commands /\ p.at # "done" /\ p.tag \in Nat /\ in \in Seq(Item)
      /\ out.tag \in Nat /\ medium \in Medium
      /\ p.kind = "write" /\ p.clean => Saving /\ TagsKnown /\ Restoring
  BY <1>0, Here
<1>2. /\ ProbeTyped(p)' /\ FieldsTyped(p)' /\ p'.phase \in {"data", "csw"}
      /\ p'.phase = "data" <=> p.at \notin {"tur", "again"}
  BY <1>0, GoesOn
<1>3. /\ p'.at = p.at /\ p'.tag = p.tag /\ p'.kind = p.kind /\ p'.clean = p.clean
      /\ p'.failed = p.failed /\ p'.intact = p.intact /\ p'.before = p.before
      /\ p'.held = p.held /\ p'.restored = p.restored
  BY <1>0, GoesOn DEF Moved
<1>4. PICK x : x = Csw(out, 2)
  OBVIOUS
<1>5. /\ in' = Append(in, x) /\ x \in Item /\ in' \in Seq(Item) /\ out' = None
      /\ medium' \in Medium
      /\ \A b \in 1 .. Blocks : 2 * b > Len(<<>>) => medium'[b] = medium[b]
  <2>1. <<>> \in Seq(Unit) /\ 2 \in 0 .. 2
    OBVIOUS
  <2> QED
    BY <1>0, <1>4, <2>1, StoresIs
<1>6. medium' = medium
  <2>1. \A b \in 1 .. Blocks : 2 * b > Len(<<>>)
    BY ProbeAssumption
  <2>2. \A b \in 1 .. Blocks : medium'[b] = medium[b]
    BY <1>5, <2>1
  <2> QED
    BY <1>1, <1>5, <2>2, SameMedium
<1>7. DeviceTyped'
  BY <1>0, <1>5 DEF ProbeInv, DeviceTyped
<1>8. ~Alive(p)
  BY <1>0 DEF ProbeInv, InStep, BeforeCbw
<1>9. InStep'
  BY <1>3, <1>8 DEF InStep, Alive
<1>10. PutBackInv'
  <2>1. SUFFICES ASSUME p.kind = "write", p.clean PROVE (Saving /\ TagsKnown /\ Restoring)' /\ ~p'.restored
    BY <1>3 DEF PutBackInv
  <2>2. ~p'.restored
    BY <1>1, <1>3 DEF ProbeInv, FieldsTyped
  <2>3. Saving /\ TagsKnown /\ Restoring
    BY <1>1, <2>1
  <2>4. p.at # "save"
    BY <1>8, <2>1, <2>3 DEF Saving, Alive
  <2>5. Saving'
    BY <1>3, <2>4 DEF Saving
  <2>6. TagsKnown'
    <3>1. Below(in, p.tag) /\ out.tag < p.tag
      BY <1>0, <2>3 DEF TagsKnown
    <3>2. x.tag = out.tag
      BY <1>4 DEF Csw
    <3>3. Below(in', p.tag)
      BY <1>1, <1>5, <3>1, <3>2, BelowAppend
    <3>4. Below(in', p.tag + 1)
      BY <1>1, <1>5, <3>3, BelowFacts
    <3>5. out'.tag < p.tag + 1
      BY <1>1, <1>5 DEF None
    <3> QED
      BY <1>2, <1>3, <3>3, <3>4, <3>5 DEF TagsKnown
  <2>7. Restoring'
    BY <1>2, <1>3, <1>6, <2>3 DEF Restoring, Saved, Whole, AtCsw
  <2> QED
    BY <2>2, <2>5, <2>6, <2>7
<1> QED
  BY <1>2, <1>7, <1>9, <1>10 DEF ProbeInv

\* What was saved whole, written back whole, is what was there.
LEMMA PutBackWhole ==
    ASSUME NEW before \in Medium, NEW m \in Medium, NEW units,
           units = Contents(before, MaxBlocks),
           \A b \in 1 .. Blocks : 2 * b > 2 * MaxBlocks => m[b] = before[b],
           \A b \in 1 .. Blocks : 2 * b <= 2 * MaxBlocks => m[b] = units[2 * b]
    PROVE  m = before
<1>1. MaxBlocks \in Nat /\ Blocks \in Nat
  BY ProbeAssumption
<1>2. ASSUME NEW b \in 1 .. Blocks PROVE m[b] = before[b]
  <2>1. CASE 2 * b > 2 * MaxBlocks
    BY <2>1
  <2>2. CASE 2 * b <= 2 * MaxBlocks
    <3>1. PICK u \in 1 .. 2 * MaxBlocks : u = 2 * b
      BY <1>1, <2>2
    <3>2. (u + 1) \div 2 = b
      BY <3>1
    <3>3. units[u] = before[(u + 1) \div 2]
      BY <3>1 DEF Contents
    <3> QED
      BY <2>2, <3>1, <3>2, <3>3
  <2> QED
    BY <1>1, <2>1, <2>2
<1> QED
  BY <1>2, SameMedium

LEMMA OutGoesOnKeeps ==
    ASSUME ProbeInv, AtOut, out # None, NEW st \in 0 .. 2, Stores(Payload(p), st),
           p' = [p EXCEPT !.phase = "csw"], probes' = probes
    PROVE  ProbeInv'
<1>0. p.phase # "none" /\ p.phase = "data" /\ p.at \in {"write", "restore"} /\ Writes(p.at)
  BY PayloadIs DEF AtOut
<1>1. /\ p.at \in Commands /\ p.at # "done" /\ p.tag \in Nat /\ in \in Seq(Item)
      /\ out.tag \in Nat /\ medium \in Medium /\ ProbeTyped(p) /\ FieldsTyped(p)
      /\ p.kind = "write" /\ p.clean => Saving /\ TagsKnown /\ Restoring
  BY <1>0, Here
<1>2. Moved(p', p, "csw", p.data, p.split)
  BY <1>1 DEF Moved, ProbeTyped, Fields
<1>3. ProbeTyped(p)' /\ FieldsTyped(p)'
  <2>1. p.data \in Seq(Unit) /\ p.split \in BOOLEAN
    BY <1>1 DEF FieldsTyped
  <2>2. ProbeTyped(p') /\ FieldsTyped(p')
    BY <1>1, <1>2, <2>1, MovedTyped
  <2> QED
    BY <2>2 DEF ProbeTyped, FieldsTyped
<1>4. PICK units \in Seq(Unit) : units = Payload(p)
  BY PayloadIs
<1>5. PICK x : x = Csw(out, st)
  OBVIOUS
<1>6. /\ in' = Append(in, x) /\ x \in Item /\ in' \in Seq(Item)
      /\ out' = None /\ medium' \in Medium
      /\ \A b \in 1 .. Blocks : 2 * b > Len(units) => medium'[b] = medium[b]
      /\ st = 0 => \A b \in 1 .. Blocks : 2 * b <= Len(units) => medium'[b] = units[2 * b]
  BY <1>0, <1>4, <1>5, StoresIs
<1>7. DeviceTyped'
  BY <1>6 DEF ProbeInv, DeviceTyped
<1>8. x.t = "csw" /\ x.tag = out.tag /\ x.st = st
  BY <1>5 DEF Csw
<1>9. Me' = Me
  BY <1>2 DEF Me, Moved
<1>10. InStep'
  <2>1. SUFFICES ASSUME Alive(p) PROVE InStep'
    BY <1>2 DEF InStep, Alive, Moved
  <2>2. ~p.alien /\ ~p.split /\ in = <<>> /\ out.tag = p.tag /\ out.probe = Me
    BY <1>0, <2>1 DEF ProbeInv, InStep, BeforeData
  <2>3. x.probe = Me /\ x.tag = p.tag
    BY <1>5, <2>2 DEF Csw
  <2>4. in' = <<x>>
    BY <1>6, <2>2
  <2>5. Due(in', p.tag, Me)
    BY <1>8, <2>3, <2>4 DEF Due
  <2> QED
    BY <1>2, <1>6, <1>9, <2>2, <2>5
       DEF InStep, AtRest, BeforeCbw, BeforeData, BeforeCsw, AtCsw, Moved
<1>11. PutBackInv'
  <2>1. SUFFICES ASSUME p.kind = "write", p.clean PROVE (Saving /\ TagsKnown /\ Restoring)' /\ ~p'.restored
    BY <1>2 DEF PutBackInv, Moved
  <2>2. ~p'.restored
    BY <1>1, <1>2 DEF FieldsTyped, Moved
  <2>3. Saving /\ TagsKnown /\ Restoring
    BY <1>1, <2>1
  <2>4. Saving'
    BY <1>0, <1>2 DEF Saving, Moved
  <2>5. Below(in, p.tag) /\ out.tag < p.tag + 1 /\ Below(in, p.tag + 1)
    BY <1>0, <2>3 DEF TagsKnown
  <2>6. TagsKnown'
    <3>1. Below(in', p.tag + 1)
      <4>1. p.tag + 1 \in Nat /\ x.tag < p.tag + 1
        BY <1>1, <1>8, <2>5
      <4>2. Below(Append(in, x), p.tag + 1)
        BY <1>1, <1>6, <2>5, <4>1, BelowAppend, Zenon
      <4> QED
        BY <1>6, <4>2
    <3>2. out'.tag < p.tag + 1
      BY <1>1, <1>6 DEF None
    <3> QED
      BY <1>2, <3>1, <3>2 DEF TagsKnown, Moved
  <2>7. \A b \in 1 .. Blocks : b > MaxBlocks => medium'[b] = p.before[b]
    <3>1. Len(units) \in Nat /\ Len(units) <= 2 * MaxBlocks /\ MaxBlocks \in Nat /\ Blocks \in Nat
      BY <1>4, <2>1, PayloadIs, ProbeAssumption
    <3>2. ASSUME NEW b \in 1 .. Blocks, b > MaxBlocks PROVE medium'[b] = p.before[b]
      <4>1. 2 * b > Len(units)
        BY <3>1, <3>2
      <4> QED
        BY <1>6, <2>3, <3>2, <4>1 DEF Restoring
    <3> QED
      BY <3>2
  <2>8. ASSUME p.at = "restore", NEW i \in 1 .. Len(in'),
               in'[i].t = "csw", in'[i].tag = p.tag, in'[i].st = 0
        PROVE  medium' = p.before
    <3>1. PICK n \in Nat : n = Len(in)
      BY <1>1, QueueFacts
    <3>2. Len(in') = n + 1 /\ (\A k \in 1 .. n : in'[k] = in[k]) /\ in'[n + 1] = x
      BY <1>1, <1>6, <3>1, AppendFacts
    <3>3. i \notin 1 .. n
      <4>1. ASSUME i \in 1 .. n PROVE FALSE
        <5>1. in[i].t = "csw" /\ in[i].tag = p.tag
          BY <2>8, <3>2, <4>1
        <5>2. p.tag < p.tag
          BY <2>5, <3>1, <4>1, <5>1 DEF Below
        <5> QED
          BY <1>1, <5>2
      <4> QED
        BY <4>1
    <3>4. i = n + 1
      BY <3>2, <3>3
    <3>5. st = 0
      BY <1>8, <2>8, <3>2, <3>4
    <3>6. units = p.held /\ Len(units) = 2 * MaxBlocks /\ p.held = Contents(p.before, MaxBlocks)
      BY <1>4, <2>3, <2>8, PayloadIs DEF Restoring, Saved, Whole
    <3>7. p.before \in Medium
      BY <1>1 DEF FieldsTyped
    <3>8. \A b \in 1 .. Blocks : 2 * b > 2 * MaxBlocks => medium'[b] = p.before[b]
      <4>1. MaxBlocks \in Nat /\ Blocks \in Nat
        BY ProbeAssumption
      <4>2. \A b \in 1 .. Blocks : 2 * b > 2 * MaxBlocks => b > MaxBlocks
        BY <4>1
      <4> QED
        BY <2>7, <4>2
    <3>9. PICK before \in Medium, m \in Medium : before = p.before /\ m = medium'
      BY <1>6, <3>7
    <3>10. units = Contents(before, MaxBlocks)
      BY <3>6, <3>9
    <3>11. \A b \in 1 .. Blocks : 2 * b > 2 * MaxBlocks => m[b] = before[b]
      BY <3>8, <3>9
    <3>12. \A b \in 1 .. Blocks : 2 * b <= 2 * MaxBlocks => m[b] = units[2 * b]
      BY <1>6, <3>5, <3>6, <3>9
    <3>13. m = before
      BY <3>10, <3>11, <3>12, PutBackWhole
    <3> QED
      BY <3>9, <3>13
  <2>9. Restoring'
    <3>1. Saved(p.held)'  <=> Saved(p.held)
      BY <1>2 DEF Saved, Whole, Moved
    <3> QED
      BY <1>2, <2>3, <2>7, <2>8, <3>1 DEF Restoring, Moved
  <2> QED
    BY <2>2, <2>4, <2>6, <2>9
<1> QED
  BY <1>3, <1>7, <1>10, <1>11 DEF ProbeInv

\* A write that failed: nothing of the sort happens to a REQUEST SENSE.
LEMMA WriteGivesUp ==
    ASSUME ProbeInv, AtOut, NEW q, Noted(q), p' = Gives(q), probes' = probes,
           in' \in Seq(Item), out' = None \/ out' = out, medium' \in Medium,
           p.clean => /\ Below(in', p.tag + 1)
                      /\ \A b \in 1 .. Blocks : b > MaxBlocks => medium'[b] = p.before[b]
    PROVE  ProbeInv'
<1>1. /\ p.phase # "none" /\ p.kind = "write" /\ p.at # "sense"
  BY PayloadIs
<1>2. p.tag \in Nat /\ p.at \in Commands /\ (p.clean => out.tag < p.tag + 1)
  BY <1>1, Here DEF TagsKnown
<1>3. DeviceTyped'
  BY DEF ProbeInv, DeviceTyped
<1>4. p.clean => out'.tag < p.tag + 1
  BY <1>2 DEF None
<1> QED
  BY <1>1, <1>2, <1>3, <1>4, GivesKeeps

LEMMA OutGoesKeeps ==
    ASSUME ProbeInv, OutGoes PROVE ProbeInv'
<1>1. PICK st \in 0 .. 2 : Stores(Payload(p), st)
  BY DEF OutGoes
<1>2. AtOut /\ out # None /\ probes' = probes
  BY DEF OutGoes
<1>3. CASE p' = [p EXCEPT !.phase = "csw"]
  BY <1>1, <1>2, <1>3, OutGoesOnKeeps
<1>4. CASE p' = Gives(p)
  <2>1. p.phase # "none" /\ p.kind = "write"
    BY <1>2, PayloadIs
  <2>2. p.at \in Commands /\ p.tag \in Nat /\ in \in Seq(Item) /\ Noted(p)
    BY <2>1, Here, NotedIs
  <2>3. PICK units \in Seq(Unit) : units = Payload(p)
    BY <1>2, PayloadIs
  <2>4. PICK x : x = Csw(out, st)
    OBVIOUS
  <2>5. /\ in' = Append(in, x) /\ x \in Item /\ in' \in Seq(Item)
        /\ out' = None /\ medium' \in Medium
        /\ \A b \in 1 .. Blocks : 2 * b > Len(units) => medium'[b] = medium[b]
    BY <1>1, <1>2, <2>1, <2>3, <2>4, StoresIs
  <2>6. ASSUME p.clean
        PROVE  /\ Below(in', p.tag + 1)
               /\ \A b \in 1 .. Blocks : b > MaxBlocks => medium'[b] = p.before[b]
    <3>1. TagsKnown /\ Restoring
      BY <2>1, <2>6, Here
    <3>2. x.tag = out.tag
      BY <2>4 DEF Csw
    <3>3. Below(in', p.tag + 1)
      BY <2>2, <2>5, <3>1, <3>2, BelowAppend DEF TagsKnown
    <3>4. Len(units) \in Nat /\ Len(units) <= 2 * MaxBlocks /\ MaxBlocks \in Nat /\ Blocks \in Nat
      BY <1>2, <2>3, <2>6, PayloadIs, ProbeAssumption
    <3>5. ASSUME NEW b \in 1 .. Blocks, b > MaxBlocks PROVE medium'[b] = p.before[b]
      <4>1. 2 * b > Len(units)
        BY <3>4, <3>5
      <4> QED
        BY <2>5, <3>1, <3>5, <4>1 DEF Restoring
    <3> QED
      BY <3>3, <3>5
  <2> QED
    BY <1>2, <1>4, <2>2, <2>5, <2>6, WriteGivesUp
<1> QED
  BY <1>3, <1>4 DEF OutGoes

LEMMA OutFailsKeeps ==
    ASSUME ProbeInv, OutStalls \/ OutLost PROVE ProbeInv'
<1>1. /\ AtOut /\ p' = Gives(p) /\ medium' = medium /\ probes' = probes
      /\ out' = None \/ out' = out
      /\ in' = in \/ (out # None /\ in' = Append(in, Csw(out, 1)))
  BY DEF OutStalls, OutLost, dev
<1>2. p.phase # "none" /\ p.kind = "write"
  BY <1>1, PayloadIs
<1>3. /\ p.at \in Commands /\ p.tag \in Nat /\ in \in Seq(Item) /\ Noted(p) /\ medium \in Medium
      /\ p.clean => TagsKnown /\ Restoring
  BY <1>2, Here, NotedIs
<1>4. CASE in' = in
  BY <1>1, <1>3, <1>4, WriteGivesUp DEF TagsKnown, Restoring
<1>5. CASE out # None /\ in' = Append(in, Csw(out, 1))
  <2>1. PICK x : x = Csw(out, 1)
    OBVIOUS
  <2>2. x \in Item /\ x.tag = out.tag
    <3>1. out.tag \in Nat /\ out.probe \in Probe /\ 1 \in 0 .. 2
      BY <1>2, <1>5, Here
    <3>2. x \in Item
      BY <2>1, <3>1, ItemsAre
    <3> QED
      BY <2>1, <3>2 DEF Csw
  <2>3. in' \in Seq(Item)
    BY <1>3, <1>5, <2>1, <2>2, AppendFacts
  <2>4. p.clean => Below(in', p.tag + 1)
    BY <1>3, <1>5, <2>1, <2>2, BelowAppend DEF TagsKnown
  <2> QED
    BY <1>1, <1>3, <2>3, <2>4, WriteGivesUp DEF Restoring
<1> QED
  BY <1>1, <1>4, <1>5

LEMMA OutSplitKeeps ==
    ASSUME ProbeInv, OutSplit PROVE ProbeInv'
<1>1. AtOut /\ p' = Gives(Broken(Cut(p))) /\ in' = in /\ out' = out /\ probes' = probes
  BY DEF OutSplit
<1>2. p.phase # "none" /\ p.kind = "write"
  BY <1>1, PayloadIs
<1>3. /\ p.at \in Commands /\ p.tag \in Nat /\ in \in Seq(Item) /\ medium \in Medium
      /\ p.clean => TagsKnown /\ Restoring
  BY <1>2, Here
<1>4. PICK q : q = Broken(Cut(p))
  OBVIOUS
<1>5. Noted(q)
  BY <1>2, <1>4, Here, NotedIs
<1>6. PICK units \in Seq(Unit) : units = Payload(p)
  BY <1>1, PayloadIs
<1>7. PICK n \in Nat : n = Len(units)
  BY QueueFacts
<1>8. PICK k \in Nat : k = n \div 2 /\ k <= n
  OBVIOUS
<1>9. PICK half : half = SubSeq(units, 1, k)
  OBVIOUS
<1>10. half \in Seq(Unit) /\ Len(half) = k
  BY <1>7, <1>8, <1>9
<1>11. medium' = [b \in 1 .. Blocks |-> IF 2 * b <= Len(half) THEN half[2 * b] ELSE medium[b]]
  BY <1>6, <1>7, <1>8, <1>9 DEF OutSplit
<1>12. medium' \in Medium
  <2>1. ASSUME NEW b \in 1 .. Blocks, 2 * b <= Len(half) PROVE half[2 * b] \in Unit
    <3>1. 2 * b \in 1 .. Len(half)
      BY <1>10, <2>1, ProbeAssumption
    <3> QED
      BY <1>10, <3>1
  <2> QED
    BY <1>3, <1>11, <2>1 DEF Medium
<1>13. ASSUME p.clean, NEW b \in 1 .. Blocks, b > MaxBlocks PROVE medium'[b] = p.before[b]
  <2>1. n <= 2 * MaxBlocks /\ MaxBlocks \in Nat /\ Blocks \in Nat
    BY <1>1, <1>6, <1>7, <1>13, PayloadIs, ProbeAssumption
  <2>2. ~(2 * b <= Len(half))
    BY <1>8, <1>10, <1>13, <2>1
  <2>3. medium'[b] = medium[b]
    BY <1>11, <2>2
  <2> QED
    BY <1>3, <1>13, <2>3 DEF Restoring
<1> QED
  BY <1>1, <1>3, <1>4, <1>5, <1>12, <1>13, WriteGivesUp DEF TagsKnown

-------------------------------------------------------------------------------
(* The data of a read *)

LEMMA InFailsKeeps ==
    ASSUME ProbeInv, InFails PROVE ProbeInv'
<1>1. /\ p.phase # "none" /\ p.phase = "data" /\ ~Writes(p.at) /\ p' = Gives(p)
      /\ in' = in \/ (in # <<>> /\ in' = Tail(in))
      /\ UNCHANGED <<out, medium, probes>>
  BY DEF InFails, AtIn
<1>2. /\ p.at \in Commands /\ p.tag \in Nat /\ in \in Seq(Item) /\ Noted(p)
      /\ p.kind = "write" /\ p.clean => TagsKnown /\ Restoring
  BY <1>1, Here, NotedIs
<1>3. in' \in Seq(Item)
  BY <1>1, <1>2, QueueFacts
<1>4. DeviceTyped'
  BY <1>1, <1>3 DEF ProbeInv, DeviceTyped
<1>5. ASSUME p.at = "sense", Alive(p)
      PROVE  out' = None /\ ~p.alien /\ Doomed(in', p.tag + 1)
  <2>1. out = None /\ Due(in, p.tag, Me) /\ Len(in) > 1 /\ ~p.alien
    BY <1>1, <1>5 DEF ProbeInv, InStep, BeforeData
  <2>2. Due(in', p.tag, Me)
    BY <1>1, <1>2, <2>1, DueTail
  <2> QED
    BY <1>1, <1>2, <1>3, <2>1, <2>2, DueDoomed
<1>6. ASSUME p.kind = "write", p.clean
      PROVE  /\ Below(in', p.tag + 1) /\ out'.tag < p.tag + 1
             /\ \A b \in 1 .. Blocks : b > MaxBlocks => medium'[b] = p.before[b]
  <2>1. TagsKnown /\ Restoring /\ p.tag + 1 \in Nat
    BY <1>2, <1>6
  <2>2. Below(in', p.tag + 1)
    BY <1>1, <1>2, <2>1, BelowFacts DEF TagsKnown
  <2> QED
    BY <1>1, <2>1, <2>2 DEF TagsKnown, Restoring
<1> QED
  BY <1>1, <1>2, <1>4, <1>5, <1>6, GivesKeeps

LEMMA InMovesKeeps ==
    ASSUME ProbeInv, AtIn, NEW d \in Seq(Unit), NEW split \in BOOLEAN,
           Moved(p', p, "csw", d, split), in' \in Seq(Item), UNCHANGED <<out, medium, probes>>,
           Alive(p) => \/ in' = <<>> /\ (split => p.at # "sense")
                       \/ Due(in', p.tag, Me) /\ (split => in'[1].t = "data"),
           p.kind = "write" /\ p.clean => Below(in', p.tag + 1),
           p.at = "save" /\ p.clean /\ in' # <<>> => Saved(d)
    PROVE  ProbeInv'
<1>0. p.phase # "none" /\ p.phase = "data" /\ ~Writes(p.at)
  BY DEF AtIn
<1>1. /\ p.at \in Commands /\ p.at # "done" /\ p.tag \in Nat /\ ProbeTyped(p) /\ FieldsTyped(p)
      /\ p.kind = "write" /\ p.clean => Saving /\ TagsKnown /\ Restoring
  BY <1>0, Here
<1>2. ProbeTyped(p)' /\ FieldsTyped(p)'
  <2>1. ProbeTyped(p') /\ FieldsTyped(p')
    BY <1>1, MovedTyped
  <2> QED
    BY <2>1 DEF ProbeTyped, FieldsTyped
<1>3. DeviceTyped'
  BY DEF ProbeInv, DeviceTyped
<1>4. Me' = Me
  BY DEF Me, Moved
<1>5. InStep'
  <2>1. SUFFICES ASSUME Alive(p) PROVE InStep'
    BY DEF InStep, Alive, Moved
  <2>2. ~p.alien /\ out = None
    BY <1>0, <2>1 DEF ProbeInv, InStep, BeforeData
  <2>3. \/ in' = <<>> /\ (split => p.at # "sense")
        \/ Due(in', p.tag, Me) /\ (split => in'[1].t = "data")
    BY <2>1
  <2>4. /\ p'.phase = "csw" /\ p'.split = split /\ p'.at = p.at /\ p'.tag = p.tag
        /\ p'.alien = p.alien
    BY DEF Moved
  <2> QED
    BY <1>4, <2>2, <2>3, <2>4 DEF InStep, AtRest, BeforeCbw, BeforeData, BeforeCsw, AtCsw
<1>6. PutBackInv'
  <2>1. SUFFICES ASSUME p.kind = "write", p.clean PROVE (Saving /\ TagsKnown /\ Restoring)' /\ ~p'.restored
    BY DEF PutBackInv, Moved
  <2>2. ~p'.restored
    BY <1>1 DEF FieldsTyped, Moved
  <2>3. Saving /\ TagsKnown /\ Restoring
    BY <1>1, <2>1
  <2>4. \A s : Saved(s)' <=> Saved(s)
    BY DEF Saved, Whole, Moved
  <2>5. Saving'
    <3>1. SUFFICES ASSUME p.at = "save" PROVE Saving'
      BY DEF Saving, Moved
    <3>2. in' # <<>> => Saved(d)'
      BY <2>1, <2>4, <3>1
    <3>3. in' # <<>> => Saved(p.data)'
      BY <3>2 DEF Moved, Saved
    <3> QED
      BY <2>3, <3>1, <3>3 DEF Saving, Moved
  <2>6. TagsKnown'
    BY <1>0, <2>1, <2>3 DEF TagsKnown, Moved
  <2>7. Restoring'
    <3>1. Saved(p.held)' <=> Saved(p.held)
      BY DEF Saved, Whole, Moved
    <3> QED
      BY <1>0, <2>3, <3>1 DEF Restoring, Moved, Writes
  <2> QED
    BY <2>2, <2>5, <2>6, <2>7
<1> QED
  BY <1>2, <1>3, <1>5, <1>6 DEF ProbeInv

\* What such a read finds on the pipe.
LEMMA ReadFinds ==
    ASSUME ProbeInv, AtIn
    PROVE  /\ Alive(p) => ~p.split /\ Due(in, p.tag, Me) /\ Len(in) > 1
           /\ p.at = "save" /\ p.clean =>
                /\ Alive(p)
                /\ in[1] = Stall \/ in[1].units \in {Whole, SubSeq(Whole, 1, 1), <<>>}
           /\ p.kind = "write" /\ p.clean => Below(in, p.tag + 1)
           /\ p.phase # "none" /\ DOMAIN p = Fields
           /\ MaxBlocks \in Nat /\ MaxBlocks > 0
<1>0. p.phase # "none" /\ p.phase = "data" /\ ~Writes(p.at)
  BY DEF AtIn
<1>1. Alive(p) => ~p.split /\ Due(in, p.tag, Me) /\ Len(in) > 1
  BY <1>0 DEF ProbeInv, InStep, BeforeData
<1>2. p.at = "save" => p.kind = "write"
  BY DEF ProbeInv, ProbeTyped, WriteAts
<1>3. p.at = "save" /\ p.clean =>
        Alive(p) /\ (in[1] = Stall \/ in[1].units \in {Whole, SubSeq(Whole, 1, 1), <<>>})
  BY <1>0, <1>2, Here DEF Saving, Alive
<1> QED
  BY <1>0, <1>1, <1>3, Here, ProbeAssumption DEF TagsKnown, ProbeTyped

\* A saved part that is not whole is shorter than what was asked for.
LEMMA ShortIsSaved ==
    ASSUME ProbeInv, NEW d, d \in {Whole, SubSeq(Whole, 1, 1), <<>>} \/ Len(d) = 1
    PROVE  Saved(d)
<1>1. MaxBlocks \in 1 .. Blocks /\ Blocks \in Nat /\ p.before \in Medium
  BY ProbeAssumption DEF ProbeInv, FieldsTyped
<1>2. PICK w \in Seq(Unit) : w = Whole /\ Len(w) = 2 * MaxBlocks
  BY <1>1, ContentsIs DEF Whole
<1>3. Len(SubSeq(w, 1, 1)) = 1 /\ Len(<<>>) = 0
  BY <1>1, <1>2
<1>4. 2 * MaxBlocks # 1 /\ 2 * MaxBlocks # 0
  BY <1>1
<1> QED
  BY <1>2, <1>3, <1>4 DEF Saved

LEMMA InComesKeeps ==
    ASSUME ProbeInv, InComes PROVE ProbeInv'
<1>1. /\ AtIn /\ in # <<>> /\ Head(in) # Stall /\ in' = Tail(in)
      /\ p' = [p EXCEPT !.data = Units(Head(in)), !.phase = "csw"]
      /\ UNCHANGED <<out, medium, probes>>
  BY DEF InComes
<1>2. in \in Seq(Item) /\ in' \in Seq(Item) /\ Head(in) = in[1] /\ in[1] \in Item /\ p.tag \in Nat
  BY <1>1, ReadFinds, Here, QueueFacts
<1>3. PICK d \in Seq(Unit) : d = Units(in[1]) /\ (in[1].t = "data" => d = in[1].units)
  <2>1. <<"csw">> \in Seq(Unit)
    <3>1. "csw" \in Unit
      BY Zenon DEF Unit
    <3> QED
      BY <3>1
  <2>2. in[1].t \in {"data", "csw"} /\ (in[1].t = "data" => in[1].units \in Seq(Unit))
    BY <1>1, <1>2, ItemFacts
  <2>3. CASE in[1].t = "csw"
    BY <2>1, <2>3 DEF Units
  <2>4. CASE in[1].t = "data"
    BY <2>2, <2>4 DEF Units
  <2> QED
    BY <2>2, <2>3, <2>4
<1>4. p' = [p EXCEPT !.data = d, !.phase = "csw"]
  BY <1>1, <1>2, <1>3
<1>5. Moved(p', p, "csw", d, p.split) /\ p.split \in BOOLEAN
  BY <1>1, <1>4, ReadFinds DEF Moved, Fields, ProbeInv, FieldsTyped
<1>6. Alive(p) => Due(in', p.tag, Me) /\ ~p.split
  BY <1>1, <1>2, ReadFinds, DueTail
<1>7. p.kind = "write" /\ p.clean => Below(in', p.tag + 1)
  <2>1. p.tag + 1 \in Nat
    BY <1>2
  <2> QED
    BY <1>1, <1>2, <2>1, ReadFinds, BelowFacts
<1>8. ASSUME p.at = "save", p.clean PROVE Saved(d)
  <2>1. Due(in, p.tag, Me) /\ Len(in) > 1
    BY <1>1, <1>8, ReadFinds
  <2>2. in[1].t = "data"
    BY <1>1, <1>2, <2>1, DueHead, ItemFacts
  <2>3. d \in {Whole, SubSeq(Whole, 1, 1), <<>>}
    BY <1>1, <1>2, <1>3, <1>8, <2>2, ReadFinds
  <2> QED
    BY <1>1, <1>8, <2>3, ShortIsSaved
<1> QED
  BY <1>1, <1>2, <1>5, <1>6, <1>7, <1>8, InMovesKeeps

\* The rest of what was cut takes its place at the head of the pipe.
LEMMA HeadReplaced ==
    ASSUME NEW q \in Seq(Item), q # <<>>, NEW x \in Item, x.t # "csw"
    PROVE  LET r == <<x>> \o Tail(q)
           IN  /\ r \in Seq(Item) /\ r[1] = x
               /\ \A tag, me : Due(q, tag, me) /\ Len(q) > 1 => Due(r, tag, me)
               /\ \A tag \in Nat : Below(q, tag) => Below(r, tag)
<1>1. PICK t \in Seq(Item) : t = Tail(q)
  BY QueueFacts
<1>2. <<x>> \in Seq(Item) /\ Len(<<x>>) = 1 /\ <<x>>[1] = x
  OBVIOUS
<1>3. PICK r \in Seq(Item) : r = <<x>> \o t
  BY <1>2, JoinFacts
<1>4. Len(r) = 1 + Len(t) /\ r[1] = x /\ \A i \in 1 .. Len(t) : r[1 + i] = t[i]
  BY <1>2, <1>3, JoinFacts
<1>5. PICK n \in Nat : n = Len(t)
  BY QueueFacts
<1>6. ASSUME NEW tag, NEW me, Due(q, tag, me), Len(q) > 1 PROVE Due(r, tag, me)
  <2>1. Due(t, tag, me)
    BY <1>1, <1>6, DueTail
  <2>2. n > 0 /\ t[n].t = "csw" /\ t[n].tag = tag /\ t[n].probe = me
    BY <1>5, <2>1, QueueFacts DEF Due
  <2>3. r # <<>> /\ r[Len(r)] = t[n]
    <3>1. n \in 1 .. n /\ Len(r) = 1 + n
      BY <1>4, <1>5, <2>2
    <3>2. r[1 + n] = t[n]
      BY <1>4, <1>5, <3>1
    <3> QED
      BY <3>1, <3>2
  <2>4. ASSUME NEW i \in 1 .. Len(r) - 1 PROVE r[i].t # "csw"
    <3>1. CASE i = 1
      BY <1>4, <3>1
    <3>2. CASE i > 1
      <4>1. PICK k \in 1 .. n - 1 : i = 1 + k
        <5>1. i - 1 \in 1 .. n - 1 /\ i = 1 + (i - 1)
          BY <1>4, <1>5, <2>4, <3>2
        <5> QED
          BY <5>1
      <4>2. r[i] = t[k] /\ t[k].t # "csw"
        BY <1>4, <1>5, <2>1, <4>1 DEF Due
      <4> QED
        BY <4>2
    <3> QED
      BY <1>4, <1>5, <2>4, <3>1, <3>2
  <2> QED
    BY <2>2, <2>3, <2>4 DEF Due
<1>7. ASSUME NEW tag \in Nat, Below(q, tag) PROVE Below(r, tag)
  <2>1. Below(t, tag)
    BY <1>1, <1>7, BelowFacts
  <2>2. Below(<<x>>, tag)
    BY <1>2 DEF Below
  <2> QED
    BY <1>2, <1>3, <2>1, <2>2, BelowJoin
<1> QED
  BY <1>1, <1>3, <1>4, <1>6, <1>7

LEMMA InCutKeeps ==
    ASSUME ProbeInv, InCut PROVE ProbeInv'
<1>1. /\ AtIn /\ in # <<>> /\ Head(in).t = "data" /\ Len(Head(in).units) \in 2 .. Offer(p)
      /\ in' = <<Data(Tail(Head(in).units))>> \o Tail(in)
      /\ p' = [Cut(p) EXCEPT !.data = <<Head(in).units[1]>>, !.phase = "csw"]
      /\ UNCHANGED <<out, medium, probes>>
  BY DEF InCut
<1>2. in \in Seq(Item) /\ Head(in) \in Item /\ p.tag \in Nat /\ DOMAIN p = Fields
  BY <1>1, ReadFinds, Here, QueueFacts
<1>3. PICK u \in Seq(Unit) : u = Head(in).units
  BY <1>1, <1>2, ItemFacts
<1>4. u # <<>>
  BY <1>1, <1>3
<1>5. Tail(u) \in Seq(Unit) /\ u[1] \in Unit
  BY <1>4, QueueFacts
<1>6. PICK d \in Seq(Unit) : d = <<u[1]>> /\ Len(d) = 1
  <2>1. PICK y \in Unit : y = u[1]
    BY <1>5
  <2>2. <<y>> \in Seq(Unit) /\ Len(<<y>>) = 1
    OBVIOUS
  <2> QED
    BY <2>1, <2>2
<1>7. PICK x : x = Data(Tail(u))
  OBVIOUS
<1>8. x \in Item /\ x.t = "data"
  BY <1>5, <1>7, ItemsAre DEF Data
<1>9. in' = <<x>> \o Tail(in)
  BY <1>1, <1>3, <1>7
<1>10. /\ in' \in Seq(Item) /\ in'[1] = x
       /\ \A tag, me : Due(in, tag, me) /\ Len(in) > 1 => Due(in', tag, me)
       /\ \A tag \in Nat : Below(in, tag) => Below(in', tag)
  BY <1>1, <1>2, <1>8, <1>9, HeadReplaced
<1>11. p' = [Cut(p) EXCEPT !.data = d, !.phase = "csw"]
  BY <1>1, <1>3, <1>6
<1>12. Moved(p', p, "csw", d, TRUE)
  BY <1>2, <1>11 DEF Moved, Cut, Fields
<1>13. Alive(p) => Due(in', p.tag, Me) /\ in'[1].t = "data"
  BY <1>1, <1>8, <1>10, ReadFinds
<1>14. p.kind = "write" /\ p.clean => Below(in', p.tag + 1)
  <2>1. p.tag + 1 \in Nat
    BY <1>2
  <2> QED
    BY <1>1, <1>10, <2>1, ReadFinds
<1>15. Saved(d)
  BY <1>6, ShortIsSaved
<1> QED
  BY <1>1, <1>10, <1>12, <1>13, <1>14, <1>15, InMovesKeeps

LEMMA InJoinedKeeps ==
    ASSUME ProbeInv, InJoined PROVE ProbeInv'
<1>1. /\ AtIn /\ Len(in) > 1 /\ Head(in).t = "data" /\ in[2].t = "csw"
      /\ in' = Tail(Tail(in))
      /\ p' = [Joined(p) EXCEPT !.data = Append(Head(in).units, "csw"), !.phase = "csw"]
      /\ UNCHANGED <<out, medium, probes>>
  BY DEF InJoined
<1>2. in \in Seq(Item) /\ p.tag \in Nat /\ DOMAIN p = Fields /\ p.tag + 1 \in Nat
  BY <1>1, ReadFinds, Here
<1>3. in # <<>>
  BY <1>1, <1>2
<1>4. Head(in) \in Item
  BY <1>2, <1>3, QueueFacts
<1>5. PICK d \in Seq(Unit) : d = Append(Head(in).units, "csw")
  <2>1. "csw" \in Unit
    BY Zenon DEF Unit
  <2>2. Head(in).units \in Seq(Unit)
    BY <1>1, <1>4, ItemFacts
  <2> QED
    BY <2>1, <2>2, AppendFacts
<1>6. PICK split \in BOOLEAN : split = (p.split \/ p.at # "sense")
  BY Zenon
<1>8. p.split \in BOOLEAN
  BY DEF ProbeInv, FieldsTyped
<1>7. Moved(p', p, "csw", d, split)
  <2>1. p' = [Joined(p) EXCEPT !.data = d, !.phase = "csw"]
    BY <1>1, <1>5
  <2>2. CASE p.at = "sense"
    <3>1. Joined(p) = [p EXCEPT !.senseJoined = TRUE]
      BY <2>2 DEF Joined
    <3>2. /\ DOMAIN p' = Fields /\ p'.split = p.split
          /\ p'.phase = "csw" /\ p'.data = d
      BY <1>2, <2>1, <3>1 DEF Fields
    <3>3. split = p.split
      BY <1>6, <1>8, <2>2
    <3> QED
      BY <1>2, <2>1, <3>1, <3>2, <3>3 DEF Moved, Fields
  <2>3. CASE p.at # "sense"
    <3>1. Joined(p) = [p EXCEPT !.split = TRUE]
      BY <2>3 DEF Joined, Cut
    <3>2. split = TRUE
      BY <1>6, <2>3
    <3> QED
      BY <1>2, <2>1, <3>1, <3>2 DEF Moved, Fields
  <2> QED
    BY <2>2, <2>3
<1>9. PICK t \in Seq(Item) : t = Tail(in)
  BY <1>2, <1>3, QueueFacts
<1>10. Len(t) = Len(in) - 1 /\ t # <<>> /\ t[1] = in[2]
  <2>1. /\ Len(t) = Len(in) - 1 /\ Len(in) \in Nat
        /\ \A i \in 1 .. Len(in) - 1 : t[i] = in[i + 1]
    BY <1>2, <1>3, <1>9, QueueFacts
  <2> QED
    BY <1>1, <2>1
<1>11. in' = Tail(t) /\ in' \in Seq(Item)
  BY <1>1, <1>9, <1>10, QueueFacts
<1>12. ASSUME Alive(p) PROVE in' = <<>> /\ (split => p.at # "sense")
  <2>1. Due(in, p.tag, Me) /\ ~p.split
    BY <1>1, <1>12, ReadFinds
  <2>2. Due(t, p.tag, Me)
    BY <1>1, <1>2, <1>9, <2>1, DueTail
  <2>3. Tail(t) = <<>>
    BY <1>1, <1>10, <2>2, DueHead
  <2> QED
    BY <1>6, <1>11, <2>1, <2>3
<1>13. p.kind = "write" /\ p.clean => Below(in', p.tag + 1)
  <2>1. ASSUME p.kind = "write", p.clean PROVE Below(in', p.tag + 1)
    <3>1. Below(in, p.tag + 1)
      BY <1>1, <2>1, ReadFinds
    <3>2. Below(t, p.tag + 1)
      BY <1>2, <1>3, <1>9, <3>1, BelowFacts
    <3> QED
      BY <1>2, <1>10, <1>11, <3>2, BelowFacts
  <2> QED
    BY <2>1
<1>14. p.at = "save" /\ p.clean => in' = <<>>
  BY <1>1, <1>12, ReadFinds
<1> QED
  BY <1>1, <1>7, <1>11, <1>12, <1>13, <1>14, InMovesKeeps

LEMMA InStallsKeeps ==
    ASSUME ProbeInv, InStalls PROVE ProbeInv'
<1>1. /\ AtIn /\ in # <<>> /\ Head(in) = Stall /\ (in' = in \/ in' = Tail(in))
      /\ p' = IF p.kind = "bot" THEN [p EXCEPT !.phase = "csw"] ELSE Gives(p)
      /\ UNCHANGED <<out, medium, probes>>
  BY DEF InStalls, ClearsIn
<1>2. in \in Seq(Item) /\ p.tag \in Nat /\ DOMAIN p = Fields /\ p.phase # "none"
  BY <1>1, ReadFinds, Here
<1>3. in' \in Seq(Item)
  BY <1>1, <1>2, QueueFacts
<1>4. CASE p.kind = "bot"
  <2>1. Moved(p', p, "csw", p.data, p.split)
    BY <1>1, <1>2, <1>4 DEF Moved, Fields
  <2>2. p.data \in Seq(Unit) /\ p.split \in BOOLEAN
    BY DEF ProbeInv, FieldsTyped
  <2>3. Alive(p) => Due(in', p.tag, Me) /\ ~p.split
    BY <1>1, <1>2, ReadFinds, DueTail
  <2>4. p.at # "save"
    BY <1>4 DEF ProbeInv, ProbeTyped, WriteAts
  <2> QED
    BY <1>1, <1>3, <1>4, <2>1, <2>2, <2>3, <2>4, InMovesKeeps
<1>5. CASE p.kind # "bot"
  <2>1. InFails
    BY <1>1, <1>5 DEF InFails, InStalls
  <2> QED
    BY <2>1, InFailsKeeps
<1> QED
  BY <1>4, <1>5

-------------------------------------------------------------------------------
(* The status *)

\* A status that failed to come, or came as something else.
LEMMA CswGivesUp ==
    ASSUME ProbeInv, AtCsw, NEW q, Noted(q), p' = Gives(q), in' \in Seq(Item),
           UNCHANGED <<out, medium, probes>>,
           p.at = "sense" /\ Alive(q) =>
               ~q.alien /\ ((in' = <<>> /\ ~q.split) \/ Doomed(in', p.tag + 1)),
           p.at = "sense" /\ Alive(q) => Alive(p),
           p.kind = "write" /\ p.clean => Below(in', p.tag + 1)
    PROVE  ProbeInv'
<1>1. p.phase # "none"
  BY DEF AtCsw
<1>2. /\ p.at \in Commands /\ (p.kind = "write" /\ p.clean => TagsKnown /\ Restoring)
  BY <1>1, Here
<1>3. DeviceTyped'
  BY DEF ProbeInv, DeviceTyped
<1>4. Alive(p) => out' = None
  BY DEF ProbeInv, InStep, BeforeCsw
<1>5. p.kind = "write" /\ p.clean =>
        /\ Below(in', p.tag + 1) /\ out'.tag < p.tag + 1
        /\ \A b \in 1 .. Blocks : b > MaxBlocks => medium'[b] = p.before[b]
  BY <1>2 DEF TagsKnown, Restoring
<1> QED
  BY <1>2, <1>3, <1>4, <1>5, GivesKeeps

LEMMA CswWrongKeeps ==
    ASSUME ProbeInv, CswWrong \/ CswCut PROVE ProbeInv'
<1>1. AtCsw /\ p.phase # "none" /\ in # <<>> /\ UNCHANGED <<out, medium, probes>>
  BY DEF CswWrong, CswCut, AtCsw
<1>2. /\ in \in Seq(Item) /\ p.tag \in Nat /\ p.tag + 1 \in Nat /\ p.at \in Commands
      /\ p.at = "sense" => p.kind = "bot"
      /\ p.kind = "write" /\ p.clean => Below(in, p.tag + 1)
  BY <1>1, Here DEF TagsKnown
<1>3. CASE CswWrong
  <2>1. PICK q : q = BrokenIn(p)
    OBVIOUS
  <2>2. Noted(q) /\ (p.at = "sense" => ~Alive(q)) /\ p' = Gives(q) /\ in' = Tail(in)
    BY <1>1, <1>2, <1>3, <2>1, Here, NotedIs DEF CswWrong
  <2>3. in' \in Seq(Item) /\ (p.kind = "write" /\ p.clean => Below(in', p.tag + 1))
    BY <1>1, <1>2, <2>2, QueueFacts, BelowFacts
  <2> QED
    BY <1>1, <2>2, <2>3, CswGivesUp
<1>4. CASE CswCut
  <2>1. PICK q : q = BrokenIn(Cut(p))
    OBVIOUS
  <2>2. PICK x : x = Data(<<"csw">>)
    OBVIOUS
  <2>3. /\ Noted(q) /\ (p.at = "sense" => ~Alive(q)) /\ p' = Gives(q)
        /\ in' = <<x>> \o Tail(in)
    BY <1>1, <1>2, <1>4, <2>1, <2>2, Here, NotedIs DEF CswCut
  <2>4. x \in Item /\ x.t # "csw"
    <3>1. "csw" \in Unit
      BY Zenon DEF Unit
    <3>2. <<"csw">> \in Seq(Unit)
      BY <3>1
    <3> QED
      BY <2>2, <3>2, ItemsAre DEF Data
  <2>5. in' \in Seq(Item) /\ (p.kind = "write" /\ p.clean => Below(in', p.tag + 1))
    BY <1>1, <1>2, <2>3, <2>4, HeadReplaced
  <2> QED
    BY <1>1, <2>3, <2>5, CswGivesUp
<1> QED
  BY <1>3, <1>4

LEMMA CswFailsKeeps ==
    ASSUME ProbeInv, AtCsw, in' = in \/ (in # <<>> /\ in' = Tail(in)), p' = Gives(p),
           UNCHANGED <<out, medium, probes>>
    PROVE  ProbeInv'
<1>1. p.phase # "none"
  BY DEF AtCsw
<1>2. /\ in \in Seq(Item) /\ p.tag \in Nat /\ p.tag + 1 \in Nat /\ Noted(p)
      /\ p.kind = "write" /\ p.clean => Below(in, p.tag + 1)
  BY <1>1, Here, NotedIs DEF TagsKnown
<1>3. in' \in Seq(Item) /\ (p.kind = "write" /\ p.clean => Below(in', p.tag + 1))
  BY <1>1, <1>2, QueueFacts, BelowFacts
<1>4. ASSUME p.at = "sense", Alive(p)
      PROVE  ~p.alien /\ ((in' = <<>> /\ ~p.split) \/ Doomed(in', p.tag + 1))
  <2>1. /\ ~p.alien
        /\ (in = <<>> /\ ~p.split) \/ (Due(in, p.tag, Me) /\ (p.split => in[1].t = "data"))
    BY <1>4 DEF ProbeInv, InStep, BeforeCsw
  <2>2. CASE in = <<>> /\ ~p.split
    BY <2>1, <2>2
  <2>3. CASE Due(in, p.tag, Me) /\ (p.split => in[1].t = "data")
    <3>1. CASE in' = in
      BY <1>2, <2>1, <2>3, <3>1, DueDoomed
    <3>2. CASE in # <<>> /\ in' = Tail(in) /\ Len(in) > 1
      <4>1. Due(in', p.tag, Me)
        BY <1>2, <2>3, <3>2, DueTail
      <4> QED
        BY <1>2, <1>3, <2>1, <4>1, DueDoomed
    <3>3. CASE in # <<>> /\ in' = Tail(in) /\ ~(Len(in) > 1)
      <4>0. PICK n \in Nat : n = Len(in) /\ n > 0
        BY <1>2, <3>3, QueueFacts
      <4>1. Len(in) = 1
        BY <3>3, <4>0
      <4>2. in[1].t = "csw"
        BY <2>3, <4>1 DEF Due
      <4>3. Tail(in) = <<>>
        BY <1>2, <2>3, <4>2, DueHead
      <4> QED
        BY <2>1, <2>3, <3>3, <4>2, <4>3
    <3> QED
      BY <3>1, <3>2, <3>3
  <2> QED
    BY <2>1, <2>2, <2>3
<1> QED
  BY <1>2, <1>3, <1>4, CswGivesUp

LEMMA CswStallsKeeps ==
    ASSUME ProbeInv, CswStalls PROVE ProbeInv'
<1>1. /\ AtCsw /\ in # <<>> /\ Head(in) = Stall /\ UNCHANGED <<out, medium, probes>>
      /\ \/ p.phase = "csw" /\ (in' = in \/ in' = Tail(in)) /\ p' = [p EXCEPT !.phase = "reread"]
         \/ in' = in /\ p' = Gives(p)
  BY DEF CswStalls, ClearsIn
<1>2. CASE in' = in /\ p' = Gives(p)
  BY <1>1, <1>2, CswFailsKeeps
<1>3. CASE p.phase = "csw" /\ (in' = in \/ in' = Tail(in)) /\ p' = [p EXCEPT !.phase = "reread"]
  <2>0. p.phase # "none"
    BY <1>3
  <2>1. /\ in \in Seq(Item) /\ p.tag \in Nat /\ p.tag + 1 \in Nat /\ p.at \in Commands
        /\ ProbeTyped(p) /\ FieldsTyped(p) /\ p.at # "done"
        /\ p.kind = "write" /\ p.clean => Saving /\ TagsKnown /\ Restoring
    BY <2>0, Here
  <2>2. Moved(p', p, "reread", p.data, p.split)
    BY <1>3, <2>1 DEF Moved, Fields, ProbeTyped
  <2>3. ProbeTyped(p)' /\ FieldsTyped(p)'
    <3>1. p.data \in Seq(Unit) /\ p.split \in BOOLEAN
      BY <2>1 DEF FieldsTyped
    <3>2. ProbeTyped(p') /\ FieldsTyped(p')
      BY <2>1, <2>2, <3>1, MovedTyped
    <3> QED
      BY <3>2 DEF ProbeTyped, FieldsTyped
  <2>4. in' \in Seq(Item)
    <3>1. Tail(in) \in Seq(Item) /\ in \in Seq(Item)
      BY <1>1, <2>1, QueueFacts
    <3> QED
      BY <1>3, <3>1
  <2>5. DeviceTyped'
    BY <1>1, <2>4 DEF ProbeInv, DeviceTyped
  <2>6. in[1].t = "stall"
    <3>1. in[1] = Stall
      BY <1>1, <2>1, QueueFacts
    <3> QED
      BY <3>1 DEF Stall
  <2>7. Me' = Me
    BY <1>1, <2>2 DEF Me, Moved
  <2>8. InStep'
    <3>1. SUFFICES ASSUME Alive(p) PROVE InStep'
      BY <2>2 DEF InStep, Alive, Moved
    <3>2. /\ ~p.alien /\ out = None
          /\ \/ p.at = "again" /\ Doomed(in, p.tag)
             \/ Due(in, p.tag, Me) /\ ~p.split
      BY <1>1, <2>6, <3>1 DEF ProbeInv, InStep, BeforeCsw
    <3>3. \/ p.at = "again" /\ Doomed(in', p.tag)
          \/ Due(in', p.tag, Me) /\ ~p.split
      <4>1. CASE p.at = "again" /\ Doomed(in, p.tag)
        <5>1. Doomed(Tail(in), p.tag)
          BY <2>1, <2>6, <4>1, DoomedTail
        <5> QED
          BY <1>3, <4>1, <5>1
      <4>2. CASE Due(in, p.tag, Me) /\ ~p.split
        <5>1. Len(in) > 1
          <6>1. PICK n \in Nat : n = Len(in) /\ n > 0
            BY <1>1, <2>1, QueueFacts
          <6>2. Len(in) # 1
            BY <2>6, <4>2 DEF Due
          <6> QED
            BY <6>1, <6>2
        <5> QED
          BY <1>3, <2>1, <4>2, <5>1, DueTail
      <4> QED
        BY <3>2, <4>1, <4>2
    <3>4. /\ p'.phase = "reread" /\ p'.split = p.split /\ p'.at = p.at /\ p'.tag = p.tag
          /\ p'.alien = p.alien
      BY <2>2 DEF Moved
    <3> QED
      BY <1>1, <2>7, <3>2, <3>3, <3>4 DEF InStep, AtRest, BeforeCbw, BeforeData, BeforeCsw, AtCsw
  <2>9. PutBackInv'
    <3>1. SUFFICES ASSUME p.kind = "write", p.clean PROVE (Saving /\ TagsKnown /\ Restoring)' /\ ~p'.restored
      BY <2>2 DEF PutBackInv, Moved
    <3>2. ~p'.restored
      BY <2>1, <2>2 DEF FieldsTyped, Moved
    <3>3. Saving /\ TagsKnown /\ Restoring
      BY <2>1, <3>1
    <3>4. Saved(p.data)' <=> Saved(p.data)
      BY <2>2 DEF Saved, Whole, Moved
    <3>5. Saving'
      BY <1>1, <2>2, <3>3, <3>4 DEF Saving, Moved, AtCsw
    <3>6. TagsKnown'
      <4>1. Below(in', p.tag + 1)
        BY <1>1, <1>3, <2>1, <3>3, BelowFacts DEF TagsKnown
      <4> QED
        BY <1>1, <2>2, <3>3, <4>1 DEF TagsKnown, Moved
    <3>7. Restoring'
      <4>1. Saved(p.held)' <=> Saved(p.held)
        BY <2>2 DEF Saved, Whole, Moved
      <4>2. ASSUME p.at = "restore", NEW i \in 1 .. Len(in'),
                   in'[i].t = "csw", in'[i].tag = p.tag, in'[i].st = 0
            PROVE  medium = p.before
        <5>1. \E k \in 1 .. Len(in) : in[k] = in'[i]
          <6>1. CASE in' = in
            BY <4>2, <6>1
          <6>2. CASE in' = Tail(in)
            <7>1. /\ Len(in) \in Nat /\ Len(in') = Len(in) - 1
                  /\ \A j \in 1 .. Len(in) - 1 : in'[j] = in[j + 1]
              BY <1>1, <2>1, <6>2, QueueFacts
            <7>2. i + 1 \in 1 .. Len(in) /\ in'[i] = in[i + 1]
              BY <4>2, <7>1
            <7> QED
              BY <7>2
          <6> QED
            BY <1>3, <6>1, <6>2
        <5> QED
          BY <1>1, <3>3, <4>2, <5>1 DEF Restoring
      <4> QED
        BY <1>1, <2>2, <3>3, <4>1, <4>2 DEF Restoring, Moved
    <3> QED
      BY <3>2, <3>5, <3>6, <3>7
  <2> QED
    BY <2>3, <2>5, <2>8, <2>9 DEF ProbeInv
<1> QED
  BY <1>1, <1>2, <1>3

LEMMA CswComesKeeps ==
    ASSUME ProbeInv, CswComes PROVE ProbeInv'
<1>1. AtCsw /\ p.phase # "none" /\ in # <<>> /\ in' = Tail(in) /\ UNCHANGED <<out, medium, probes>>
  BY DEF CswComes, AtCsw
<1>2. /\ in \in Seq(Item) /\ p.tag \in Nat /\ p.tag + 1 \in Nat /\ p.at \in Commands
      /\ ProbeTyped(p) /\ FieldsTyped(p)
      /\ p.kind = "write" /\ p.clean => Saving /\ TagsKnown /\ Restoring
  BY <1>1, Here
<1>3. PICK x \in Item : x = Head(in) /\ x = in[1]
  BY <1>1, <1>2, QueueFacts
<1>4. x.t = "csw" /\ x.tag = p.tag
  BY <1>3 DEF CswComes, IsOwnCsw
<1>5. PICK al \in BOOLEAN : al = (p.alien \/ ~((x.probe = Me /\ x.tag = p.tag) \/ Drained(p.at, x.st)))
  BY Zenon
<1>6. PICK ok \in BOOLEAN, check \in BOOLEAN : ok = (x.st = 0) /\ check = (x.st = 1)
  BY Zenon
<1>7. PICK q : q = [p EXCEPT !.alien = al]
  OBVIOUS
<1>8. p' = Concludes(q, ok, check)
  BY <1>3, <1>5, <1>6, <1>7 DEF CswComes, Me
<1>9. /\ DOMAIN q = Fields /\ q.alien = al
      /\ q.kind = p.kind /\ q.at = p.at /\ q.run = p.run /\ q.tag = p.tag
      /\ q.phase = p.phase /\ q.data = p.data /\ q.held = p.held
      /\ q.failed = p.failed /\ q.passed = p.passed /\ q.restored = p.restored
      /\ q.intact = p.intact /\ q.split = p.split /\ q.before = p.before /\ q.clean = p.clean
  BY <1>2, <1>7 DEF ProbeTyped, Fields
<1>10. ProbeTyped(q) /\ FieldsTyped(q)
  <2>1. ProbeTyped(q)
    BY <1>2, <1>9 DEF ProbeTyped
  <2>2. FieldsTyped(q)
    BY <1>2, <1>9 DEF FieldsTyped
  <2> QED
    BY <2>1, <2>2
<1>11. Concluded(p', q, ok)
  BY <1>2, <1>8, <1>9, <1>10, ConcludesIs
<1>12. ProbeTyped(p)' /\ FieldsTyped(p)'
  BY <1>11 DEF Concluded, ProbeTyped, FieldsTyped
<1>13. in' \in Seq(Item)
  BY <1>1, <1>2, QueueFacts
<1>14. DeviceTyped'
  BY <1>1, <1>13 DEF ProbeInv, DeviceTyped
<1>15. \/ p'.at = "done" /\ p'.phase = "none" /\ p'.tag = p.tag
       \/ p'.at \in Commands /\ p'.phase = "cbw" /\ p'.tag = p.tag + 1 /\ p'.at # "save"
  BY <1>9, <1>11 DEF Concluded
<1>16. /\ p'.kind = p.kind /\ p'.clean = p.clean /\ p'.before = p.before /\ p'.split = p.split
       /\ p'.alien = al /\ p'.intact = p.intact /\ (p.failed => p'.failed)
       /\ p'.restored => p.at = "restore" /\ ok
       /\ p'.at \in WriteAts => p'.held = IF p.at = "save" THEN p.data ELSE p.held
       /\ p'.at = "restore" => p.at # "save" /\ Len(p'.held) = 2 * MaxBlocks
  BY <1>9, <1>11 DEF Concluded, Carries
<1>17. InStep'
  <2>1. SUFFICES ASSUME Alive(p') PROVE InStep'
    BY DEF InStep, Alive
  <2>2. Alive(p)
    BY <1>16, <2>1 DEF Alive
  <2>3. /\ ~p.alien /\ out = None
        /\ \/ p.at = "again" /\ Doomed(in, p.tag)
           \/ Due(in, p.tag, Me) /\ (p.split => in[1].t = "data")
    BY <1>1, <2>2 DEF ProbeInv, InStep, BeforeCsw
  <2>4. ~Doomed(in, p.tag)
    BY <1>2, <1>3, <1>4, DoomedTail
  <2>5. Due(in, p.tag, Me) /\ ~p.split
    BY <1>3, <1>4, <2>3, <2>4
  <2>6. in' = <<>> /\ x.probe = Me
    BY <1>1, <1>2, <1>3, <1>4, <2>5, DueHead
  <2>7. ~al
    BY <1>4, <1>5, <2>3, <2>6
  <2> QED
    BY <1>1, <1>15, <1>16, <2>3, <2>5, <2>6, <2>7
       DEF InStep, InPhase, AtRest, BeforeCbw, BeforeData, BeforeCsw, AtCsw
<1>18. PutBackInv'
  <2>1. SUFFICES ASSUME p.kind = "write", p.clean PROVE PutBackInv'
    BY <1>16 DEF PutBackInv
  <2>2. Saving /\ TagsKnown /\ Restoring
    BY <1>2, <2>1
  <2>3. \A s : Saved(s)' <=> Saved(s)
    BY <1>16 DEF Saved, Whole
  <2>4. p'.restored => medium' = p'.before
    <3>1. ASSUME p'.restored PROVE medium = p.before
      <4>1. p.at = "restore" /\ x.st = 0
        BY <1>6, <1>16, <3>1
      <4>2. 1 \in 1 .. Len(in)
        <5>1. PICK n \in Nat : n = Len(in) /\ n > 0
          BY <1>1, <1>2, QueueFacts
        <5> QED
          BY <5>1
      <4> QED
        BY <1>1, <1>3, <1>4, <2>2, <4>1, <4>2 DEF Restoring
    <3> QED
      BY <1>1, <1>16, <3>1
  <2>5. ASSUME p'.at # "done" PROVE (Saving /\ TagsKnown /\ Restoring)'
    <3>1. p'.at \in Commands /\ p'.phase = "cbw" /\ p'.tag = p.tag + 1 /\ p'.at # "save"
      BY <1>15, <2>5
    <3>2. p'.at \in WriteAts
      BY <1>12, <1>16, <2>1, <3>1 DEF ProbeTyped, Commands
    <3>3. Saving'
      BY <3>1 DEF Saving
    <3>4. TagsKnown'
      <4>1. Below(in, p.tag + 1) /\ out.tag < p.tag + 1 /\ out.tag \in Nat
        BY <1>1, <2>2, Here DEF TagsKnown
      <4>2. Below(in', p.tag + 1)
        BY <1>1, <1>2, <4>1, BelowFacts
      <4>3. Below(in', (p.tag + 1) + 1)
        BY <1>2, <1>13, <4>2, BelowFacts
      <4>4. out.tag < (p.tag + 1) + 1
        BY <1>2, <4>1
      <4> QED
        BY <1>1, <3>1, <4>1, <4>2, <4>3, <4>4 DEF TagsKnown
    <3>5. Saved(p'.held)
      <4>1. CASE p.at = "save"
        BY <1>1, <1>16, <2>2, <3>2, <4>1 DEF Saving
      <4>2. CASE p.at # "save"
        <5>1. p.at \in {"write", "back", "restore"}
          BY <1>2, <2>1, <4>2 DEF ProbeTyped, Commands, BotAts, WriteAts
        <5> QED
          BY <1>16, <2>2, <3>2, <4>2, <5>1 DEF Restoring
      <4> QED
        BY <4>1, <4>2
    <3>6. Saved(p.held)'
      BY <1>16, <3>5 DEF Saved, Whole
    <3>7. Restoring'
      BY <1>1, <1>16, <2>2, <3>1, <3>6 DEF Restoring, AtCsw
    <3> QED
      BY <3>3, <3>4, <3>7
  <2> QED
    BY <2>4, <2>5 DEF PutBackInv
<1> QED
  BY <1>12, <1>14, <1>17, <1>18 DEF ProbeInv

-------------------------------------------------------------------------------
(* The probes begin *)

\* A probe that has not done anything yet.
New(q) ==
    /\ DOMAIN q = Fields /\ q.tag = 0 /\ q.run = 0 /\ q.phase = "none" /\ q.data = <<>>
    /\ q.held = <<>> /\ q.failed = FALSE /\ q.intact = TRUE /\ q.passed = FALSE
    /\ q.restored = FALSE /\ q.split = FALSE /\ q.alien = FALSE

LEMMA NewTyped ==
    ASSUME NEW q, New(q), q.before \in Medium, q.clean \in BOOLEAN
    PROVE  FieldsTyped(q)
<1>1. <<>> \in Seq(Unit) /\ 0 \in Nat
  OBVIOUS
<1>2. q.tag \in Nat /\ q.data \in Seq(Unit) /\ q.held \in Seq(Unit)
  BY <1>1 DEF New
<1>3. /\ q.failed \in BOOLEAN /\ q.intact \in BOOLEAN /\ q.split \in BOOLEAN
      /\ q.alien \in BOOLEAN /\ q.restored \in BOOLEAN
  BY Zenon DEF New
<1>4. ~q.passed /\ ~q.restored /\ ~q.failed
  BY DEF New
<1> QED
  BY <1>2, <1>3, <1>4 DEF FieldsTyped

LEMMA OriginalIs == Original \in Medium
<1>1. ASSUME NEW b \in 1 .. Blocks PROVE Old(b) \in Unit
  <2>1. b \in Nat
    BY ProbeAssumption
  <2> QED
    BY <2>1, Zenon DEF Old, Unit
<1> QED
  BY <1>1 DEF Original, Medium

LEMMA InitHolds == ProbeInit => ProbeInv
<1>1. SUFFICES ASSUME ProbeInit PROVE ProbeInv
  OBVIOUS
<1>2. New(p) /\ p.kind = "none" /\ p.at = "none" /\ p.before = Original /\ p.clean = TRUE
  BY <1>1 DEF ProbeInit, Fresh, New, Fields
<1>3. in = <<>> /\ out = None /\ medium = Original /\ probes = 0
  BY <1>1 DEF ProbeInit
<1>4. ProbeTyped(p)
  BY <1>2 DEF ProbeTyped, New, Commands, BotAts, WriteAts
<1>5. <<>> \in Seq(Unit) /\ <<>> \in Seq(Item)
  OBVIOUS
<1>6. FieldsTyped(p)
  BY <1>2, OriginalIs, NewTyped
<1>7. DeviceTyped
  BY <1>3, <1>5, OriginalIs DEF DeviceTyped
<1>8. InStep
  BY <1>2, <1>3 DEF InStep, InPhase, AtRest, BeforeCbw, BeforeData, BeforeCsw, AtCsw, New
<1>9. PutBackInv
  BY <1>2 DEF PutBackInv
<1> QED
  BY <1>4, <1>6, <1>7, <1>8, <1>9 DEF ProbeInv

LEMMA BeginBotKeeps ==
    ASSUME ProbeInv, BeginBot PROVE ProbeInv'
<1>1. UNCHANGED <<in, out, medium>> /\ probes' = probes + 1
  BY DEF BeginBot, dev
<1>2. PICK c \in BOOLEAN : c = InPhase
  BY Zenon DEF InPhase
<1>3. p' = [Fresh EXCEPT !.kind = "bot", !.at = "lun", !.clean = c]
  BY <1>2 DEF BeginBot
<1>4. New(p') /\ p'.kind = "bot" /\ p'.at = "lun" /\ p'.before = Original /\ p'.clean = c
  BY <1>3 DEF Fresh, New, Fields
<1>5. ProbeTyped(p)'
  BY <1>4 DEF ProbeTyped, New, Commands, BotAts, WriteAts
<1>6. FieldsTyped(p)'
  <2>1. FieldsTyped(p')
    BY <1>2, <1>4, OriginalIs, NewTyped
  <2> QED
    BY <2>1 DEF FieldsTyped
<1>7. DeviceTyped'
  BY <1>1 DEF ProbeInv, DeviceTyped
<1>8. InStep'
  <2>1. SUFFICES ASSUME c PROVE InStep'
    BY <1>4 DEF InStep, Alive
  <2>2. in' = <<>> /\ out' = None
    BY <1>1, <1>2, <2>1 DEF InPhase
  <2> QED
    BY <1>4, <2>2 DEF InStep, InPhase, AtRest, BeforeCbw, BeforeData, BeforeCsw, AtCsw, New
<1>9. PutBackInv'
  BY <1>4 DEF PutBackInv
<1> QED
  BY <1>5, <1>6, <1>7, <1>8, <1>9 DEF ProbeInv

LEMMA GetMaxLunKeeps ==
    ASSUME ProbeInv, GetMaxLun PROVE ProbeInv'
<1>1. p.at = "lun" /\ UNCHANGED <<in, out, medium, probes>>
  BY DEF GetMaxLun, dev
<1>2. PICK f \in BOOLEAN : p' = Issue([p EXCEPT !.failed = f], "tur")
  BY DEF GetMaxLun
<1>3. PICK q : q = [p EXCEPT !.failed = f]
  OBVIOUS
<1>4. /\ ProbeTyped(p) /\ FieldsTyped(p) /\ DOMAIN p = Fields /\ p.kind = "bot"
      /\ p.phase = "none" /\ ~p.failed /\ ~p.passed /\ ~p.restored /\ p.tag \in Nat
  BY <1>1 DEF ProbeInv, ProbeTyped, FieldsTyped, Commands, BotAts, WriteAts
<1>5. /\ DOMAIN q = Fields /\ q.failed = f
      /\ q.kind = p.kind /\ q.tag = p.tag /\ q.held = p.held /\ q.passed = p.passed
      /\ q.restored = p.restored /\ q.intact = p.intact /\ q.split = p.split
      /\ q.alien = p.alien /\ q.before = p.before /\ q.clean = p.clean
  BY <1>3, <1>4 DEF Fields
<1>6. PICK r : r = Issue(q, "tur")
  OBVIOUS
<1>7. /\ DOMAIN r = Fields /\ r.at = "tur" /\ r.tag = p.tag + 1 /\ r.phase = "cbw"
      /\ r.data = <<>> /\ r.held = p.held /\ r.failed = f /\ r.kind = "bot"
      /\ r.restored = p.restored /\ r.passed = p.passed /\ r.intact = p.intact
      /\ r.split = p.split /\ r.alien = p.alien /\ r.before = p.before /\ r.clean = p.clean
  BY <1>4, <1>5, <1>6, IssueIs DEF Carries
<1>8. p' = r
  BY <1>2, <1>3, <1>6
<1>9. ProbeTyped(r)
  BY <1>7 DEF ProbeTyped, Commands, BotAts, WriteAts
<1>10. FieldsTyped(r)
  <2>1. <<>> \in Seq(Unit)
    OBVIOUS
  <2> QED
    BY <1>4, <1>7, <2>1 DEF FieldsTyped
<1>11. ProbeTyped(p)' /\ FieldsTyped(p)'
  BY <1>8, <1>9, <1>10 DEF ProbeTyped, FieldsTyped
<1>12. DeviceTyped'
  BY <1>1 DEF ProbeInv, DeviceTyped
<1>13. InStep'
  <2>1. SUFFICES ASSUME Alive(r) PROVE InStep'
    BY <1>8 DEF InStep, Alive
  <2>2. Alive(p)
    BY <1>4, <1>7, <2>1 DEF Alive
  <2>3. in = <<>> /\ out = None /\ ~p.split /\ ~p.alien
    BY <1>4, <2>2 DEF ProbeInv, InStep, AtRest, InPhase
  <2> QED
    BY <1>1, <1>7, <1>8, <2>3 DEF InStep, AtRest, BeforeCbw, BeforeData, BeforeCsw, AtCsw
<1>14. PutBackInv'
  BY <1>7, <1>8 DEF PutBackInv
<1> QED
  BY <1>11, <1>12, <1>13, <1>14 DEF ProbeInv

LEMMA BeginWriteKeeps ==
    ASSUME ProbeInv, BeginWrite PROVE ProbeInv'
<1>1. UNCHANGED <<in, out, medium, probes>>
  BY DEF BeginWrite, dev
<1>2. PICK c \in BOOLEAN : c = InPhase
  BY Zenon DEF InPhase
<1>3. PICK q : q = [Fresh EXCEPT !.kind = "write", !.before = medium, !.clean = c]
  OBVIOUS
<1>4. New(q) /\ q.kind = "write" /\ q.before = medium /\ q.clean = c
  BY <1>3 DEF Fresh, New, Fields
<1>5. PICK r : r = Issue(q, "save")
  OBVIOUS
<1>6. p' = r
  BY <1>2, <1>3, <1>5 DEF BeginWrite
<1>7. /\ DOMAIN r = Fields /\ r.at = "save" /\ r.tag = 0 + 1 /\ r.phase = "cbw"
      /\ r.data = <<>> /\ r.held = <<>> /\ r.failed = FALSE /\ r.kind = "write"
      /\ r.restored = FALSE /\ r.passed = FALSE /\ r.intact = TRUE
      /\ r.split = FALSE /\ r.alien = FALSE /\ r.before = medium /\ r.clean = c
  BY <1>4, <1>5, IssueIs DEF Carries, New
<1>8. medium \in Medium
  BY DEF ProbeInv, DeviceTyped
<1>9. ProbeTyped(r)
  BY <1>7 DEF ProbeTyped, Commands, BotAts, WriteAts
<1>10. FieldsTyped(r)
  <2>1. <<>> \in Seq(Unit) /\ 0 + 1 \in Nat
    OBVIOUS
  <2>2. r.tag \in Nat /\ r.data \in Seq(Unit) /\ r.held \in Seq(Unit) /\ r.before \in Medium
    BY <1>7, <1>8, <2>1
  <2>3. /\ r.failed \in BOOLEAN /\ r.intact \in BOOLEAN /\ r.clean \in BOOLEAN
        /\ r.split \in BOOLEAN /\ r.alien \in BOOLEAN /\ r.restored \in BOOLEAN
    BY <1>2, <1>7, Zenon
  <2>4. ~r.passed /\ ~r.restored /\ ~r.failed
    BY <1>7
  <2> QED
    BY <2>2, <2>3, <2>4 DEF FieldsTyped
<1>11. ProbeTyped(p)' /\ FieldsTyped(p)'
  BY <1>6, <1>9, <1>10 DEF ProbeTyped, FieldsTyped
<1>12. DeviceTyped'
  BY <1>1 DEF ProbeInv, DeviceTyped
<1>13. c => in = <<>> /\ out = None
  BY <1>2 DEF InPhase
<1>14. InStep'
  BY <1>1, <1>6, <1>7, <1>13
     DEF InStep, Alive, AtRest, BeforeCbw, BeforeData, BeforeCsw, AtCsw
<1>15. PutBackInv'
  <2>1. SUFFICES ASSUME c PROVE (Saving /\ TagsKnown /\ Restoring)' /\ ~p'.restored
    BY <1>6, <1>7 DEF PutBackInv
  <2>2. in' = <<>> /\ out'.tag = 0
    BY <1>1, <1>13, <2>1 DEF None
  <2>3. Saving'
    BY <1>1, <1>6, <1>7 DEF Saving, AtCsw
  <2>4. TagsKnown'
    <3>1. \A tag : Below(<<>>, tag)
      BY DEF Below
    <3> QED
      BY <1>6, <1>7, <2>2, <3>1 DEF TagsKnown
  <2>5. Restoring'
    BY <1>1, <1>6, <1>7 DEF Restoring
  <2> QED
    BY <1>6, <1>7, <2>3, <2>4, <2>5
<1> QED
  BY <1>11, <1>12, <1>14, <1>15 DEF ProbeInv

-------------------------------------------------------------------------------
(* The storage probe: the theorems *)

LEMMA StutterKeeps ==
    ASSUME ProbeInv, UNCHANGED probeVars PROVE ProbeInv'
<1>1. p' = p /\ in' = in /\ out' = out /\ medium' = medium /\ probes' = probes
  BY DEF probeVars, dev
<1>2. ProbeTyped(p)' /\ FieldsTyped(p)' /\ DeviceTyped'
  BY <1>1 DEF ProbeInv, ProbeTyped, FieldsTyped, DeviceTyped
<1>3. InStep'
  BY <1>1 DEF ProbeInv, InStep, Alive, InPhase, AtRest, BeforeCbw, BeforeData, BeforeCsw, AtCsw, Me
<1>4. PutBackInv'
  BY <1>1 DEF ProbeInv, PutBackInv, Saving, TagsKnown, Restoring, Saved, Whole, AtCsw
<1> QED
  BY <1>2, <1>3, <1>4 DEF ProbeInv

LEMMA TransferKeeps ==
    ASSUME ProbeInv, Transfer PROVE ProbeInv'
<1>1. CASE CbwGoes
  BY <1>1, CbwGoesKeeps
<1>2. CASE CbwSwallowed
  BY <1>2, CbwSwallowedKeeps
<1>3. CASE CbwStalls \/ CbwLost
  BY <1>3, CbwFailsKeeps
<1>4. CASE CbwSplit
  BY <1>4, CbwSplitKeeps
<1>5. CASE OutGoes
  BY <1>5, OutGoesKeeps
<1>6. CASE OutStalls \/ OutLost
  BY <1>6, OutFailsKeeps
<1>7. CASE OutSplit
  BY <1>7, OutSplitKeeps
<1>8. CASE InComes
  BY <1>8, InComesKeeps
<1>9. CASE InCut
  BY <1>9, InCutKeeps
<1>10. CASE InJoined
  BY <1>10, InJoinedKeeps
<1>11. CASE InStalls
  BY <1>11, InStallsKeeps
<1>12. CASE InFails
  BY <1>12, InFailsKeeps
<1>13. CASE CswComes
  BY <1>13, CswComesKeeps
<1>14. CASE CswWrong \/ CswCut
  BY <1>14, CswWrongKeeps
<1>15. CASE CswStalls
  BY <1>15, CswStallsKeeps
<1>16. CASE CswFails
  <2>1. /\ AtCsw /\ p' = Gives(p) /\ UNCHANGED <<out, medium, probes>>
        /\ in' = in \/ (in # <<>> /\ in' = Tail(in))
    BY <1>16 DEF CswFails
  <2> QED
    BY <2>1, CswFailsKeeps
<1> QED
  BY <1>1, <1>2, <1>3, <1>4, <1>5, <1>6, <1>7, <1>8, <1>9, <1>10, <1>11, <1>12, <1>13,
     <1>14, <1>15, <1>16 DEF Transfer

LEMMA StepKeeps == ProbeInv /\ [ProbeNext]_probeVars => ProbeInv'
<1>1. SUFFICES ASSUME ProbeInv, [ProbeNext]_probeVars PROVE ProbeInv'
  OBVIOUS
<1>2. CASE BeginBot
  BY <1>1, <1>2, BeginBotKeeps
<1>3. CASE BeginWrite
  BY <1>1, <1>3, BeginWriteKeeps
<1>4. CASE GetMaxLun
  BY <1>1, <1>4, GetMaxLunKeeps
<1>5. CASE Transfer
  BY <1>1, <1>5, TransferKeeps
<1>6. CASE UNCHANGED probeVars
  BY <1>1, <1>6, StutterKeeps
<1> QED
  BY <1>1, <1>2, <1>3, <1>4, <1>5, <1>6 DEF ProbeNext

\* What the pipes hold at each point of a command, and what was saved, for any medium,
\* any run lengths and any number of probes.
THEOREM ProbeInvariant == ProbeSpec => []ProbeInv
  BY InitHolds, StepKeeps, PTL DEF ProbeSpec

\* BotProbe.cpp:570, WriteProbe.cpp:372: a probe that found the device in phase and
\* reports that it passed leaves it in phase; no transfer beneath it was cut, none but
\* perhaps a REQUEST SENSE's data was joined with the next, and no status it went by was
\* the answer to another command.
THEOREM PassedInPhase == ProbeSpec => []PassedIsInPhase
<1>1. ProbeInv => PassedIsInPhase
  <2>1. SUFFICES ASSUME ProbeInv, p.at = "done", p.passed, p.clean
                 PROVE  InPhase /\ ~p.split /\ ~p.alien
    BY DEF PassedIsInPhase
  <2>2. p.phase = "none" /\ Alive(p)
    BY <2>1 DEF ProbeInv, ProbeTyped, FieldsTyped, Alive, Commands, BotAts, WriteAts
  <2> QED
    BY <2>1, <2>2 DEF ProbeInv, InStep, AtRest
<1> QED
  BY <1>1, ProbeInvariant, PTL

\* WriteProbe.cpp:364-369: when a writing probe that found the device in phase says the
\* original contents were put back, the medium holds them, block for block.
THEOREM RestoredTruly == ProbeSpec => []RestoredIsTrue
<1>1. ProbeInv => RestoredIsTrue
  BY DEF ProbeInv, PutBackInv, RestoredIsTrue, Over
<1> QED
  BY <1>1, ProbeInvariant, PTL

===============================================================================
