------------------------------ MODULE StorageProbe ------------------------------
(***************************************************************************)
(* diag::BotProbe and diag::WriteProbe: the two instruments that drive a   *)
(* mass-storage device through an IUsbDevicePort, one Bulk-Only command    *)
(* (CBW, data, CSW) after another, run the way HubState::importVerify and  *)
(* airusb_net's runConnect run them: the read-only probe as often as it is *)
(* asked for, the writing one only after a read-only one that passed.      *)
(*                                                                         *)
(* The device and the layers beneath the port are external.  The device    *)
(* answers commands in order, may refuse, stall, send less than was asked  *)
(* or report an error, and keeps what was not fetched; what it reports as  *)
(* done it has done.  The layers beneath may lose a transfer before or     *)
(* after it took effect, cut one in two or join two, and fail to clear a   *)
(* halt.  Data is counted in UNITS, two to a block: every length a command *)
(* declares is an even number of them, a CSW read as data is one.          *)
(***************************************************************************)
EXTENDS Integers, Sequences

CONSTANTS
    Blocks,            \* blocks of the medium
    Multi,             \* blocks of the multi-block read (4 in the code)
    MaxBlocks,         \* the largest of Options::runs
    RestoreOriginal,   \* Options::restoreOriginal
    MaxProbes          \* bound: read-only probes asked for

ASSUME ProbeAssumption ==
    /\ Blocks \in Nat \ {0} /\ Multi \in Nat \ {0} /\ MaxProbes \in Nat
    /\ MaxBlocks \in 1 .. Blocks
    /\ RestoreOriginal \in BOOLEAN

VARIABLES
    p,          \* the probe: the command it is at and its result
    in,         \* what the device has ready on its bulk-in endpoint, in order
    out,        \* the command whose data the device waits for on bulk-out, or None
    haltOut,    \* the bulk-out endpoint is halted
    medium,     \* the contents of each block
    probes      \* read-only probes started

dev  == <<in, out, haltOut, medium>>
probeVars == <<p, dev, probes>>

None     == [tag |-> 0]
Stall    == [t |-> "stall"]
Data(d)  == [t |-> "data", units |-> d]
Csw(c, st) == [t |-> "csw", tag |-> c.tag, probe |-> c.probe, st |-> st]

Old(b)   == <<"old", b>>
Original == [b \in 1 .. Blocks |-> Old(b)]

\* Options::runs: the block counts written, in order
Runs == <<1, MaxBlocks>>

\* The payload of a run: writePatternByte is keyed on the block (and on the offset).
Pattern(n) == [u \in 1 .. 2 * n |-> <<"new", (u + 1) \div 2>>]

\* What blocks 1 to n of a medium hold, as units.
Contents(m, n) == [u \in 1 .. 2 * n |-> m[(u + 1) \div 2]]

Fresh == [kind |-> "none", at |-> "none", run |-> 0, tag |-> 0, phase |-> "none",
          data |-> <<>>, sector0 |-> <<>>, held |-> <<>>, failed |-> FALSE,
          intact |-> TRUE, passed |-> FALSE, restored |-> FALSE,
          split |-> FALSE, senseJoined |-> FALSE, alien |-> FALSE,
          before |-> Original, clean |-> TRUE]

ProbeInit ==
    /\ p = Fresh
    /\ in = <<>> /\ out = None /\ haltOut = FALSE
    /\ medium = Original
    /\ probes = 0

-------------------------------------------------------------------------------
(* The commands of the two sequences *)

Writes(at) == at \in {"write", "restore"}

\* dataLen, and offerLen of a read: the fidelity step offers more than it asks for.
Length(q) == CASE q.at \in {"tur", "again"}    -> 0
               [] q.at = "multi"               -> 2 * Multi
               [] q.at \in {"save", "restore"} -> 2 * MaxBlocks
               [] q.at \in {"write", "back"}   -> 2 * Runs[q.run]
               [] OTHER                        -> 2

Offer(q) == IF q.at = "over" THEN Length(q) + 1 ELSE Length(q)

\* dataOut of a write
Payload(q) == IF q.at = "write" THEN Pattern(Runs[q.run]) ELSE q.held

\* command() up to its CBW
Issue(q, at) == [q EXCEPT !.at = at, !.tag = @ + 1, !.phase = "cbw", !.data = <<>>]

\* The end of run() and of runDestructiveWriteTest()
Ends(q) == [q EXCEPT !.at = "done", !.phase = "none", !.data = <<>>,
                     !.passed = ~q.failed /\ q.intact]

Fails(q) == Ends([q EXCEPT !.failed = TRUE])

\* BotProbe::run judges the data of a command whose CSW was good.
Plausible(q) ==
    CASE q.at \in {"inq", "read"} -> Len(q.data) = 2
      [] q.at = "cap"   -> Len(q.data) = 2 /\ q.data[1] # "odd"
      [] q.at = "over"  -> Len(q.data) = 2 /\ q.data = q.sector0
      [] q.at = "multi" -> Len(q.data) = 2 * Multi /\ SubSeq(q.data, 1, 2) = q.sector0
      [] OTHER          -> TRUE

Following == [tur |-> "inq", again |-> "inq", inq |-> "cap", cap |-> "read",
              read |-> "over", over |-> IF Blocks >= Multi THEN "multi" ELSE "done",
              multi |-> "done"]

\* A command of the read-only probe is over.  CHECK CONDITION on the first TEST UNIT
\* READY is drained by a REQUEST SENSE, whose own outcome nobody looks at, and retried.
BotStep(q, ok, check) ==
    CASE q.at = "tur" /\ check           -> Issue(q, "sense")
      [] q.at = "sense"                  -> Issue(q, "again")
      [] q.at # "sense" /\ ~(q.at = "tur" /\ check) ->
           IF ~(ok /\ Plausible(q)) THEN Fails(q)
           ELSE LET r == [q EXCEPT !.sector0 = IF q.at = "read" THEN q.data ELSE @]
                IN  IF Following[q.at] = "done" THEN Ends(r) ELSE Issue(r, Following[q.at])

\* Mutant: what was saved is written back whatever its length.
HeldAnything(q) == TRUE

HeldFits(q) == Len(q.held) = 2 * MaxBlocks

\* "put it back": skipped when nothing is held; a payload that is not as long as the
\* command declares is refused before a CBW is sent.
PutBack(q) ==
    CASE ~RestoreOriginal \/ q.held = <<>> -> Ends(q)
      [] RestoreOriginal /\ q.held # <<>>  ->
           IF HeldFits(q) THEN Issue(q, "restore") ELSE Fails(q)

\* Mutant: what could not be read back is not noted.
WriteStepUnnoted(q, ok) ==
    CASE q.at = "save"    -> IF ok THEN Issue([q EXCEPT !.held = q.data, !.run = 1], "write")
                             ELSE Fails(q)
      [] q.at = "write"   -> IF ok THEN Issue(q, "back")
                             ELSE PutBack([q EXCEPT !.failed = TRUE])
      [] q.at = "back"    -> IF ~(ok /\ q.data = Pattern(Runs[q.run]))
                             THEN PutBack(q)
                             ELSE IF q.run < Len(Runs)
                             THEN Issue([q EXCEPT !.run = @ + 1], "write")
                             ELSE PutBack(q)
      [] q.at = "restore" -> Ends([q EXCEPT !.restored = ok, !.failed = @ \/ ~ok])

\* A command of the writing probe is over.
WriteStep(q, ok) ==
    CASE q.at = "save"    -> IF ok THEN Issue([q EXCEPT !.held = q.data, !.run = 1], "write")
                             ELSE Fails(q)
      [] q.at = "write"   -> IF ok THEN Issue(q, "back")
                             ELSE PutBack([q EXCEPT !.failed = TRUE])
      [] q.at = "back"    -> IF ~(ok /\ q.data = Pattern(Runs[q.run]))
                             THEN PutBack([q EXCEPT !.failed = TRUE])
                             ELSE IF q.run < Len(Runs)
                             THEN Issue([q EXCEPT !.run = @ + 1], "write")
                             ELSE PutBack(q)
      [] q.at = "restore" -> Ends([q EXCEPT !.restored = ok, !.failed = @ \/ ~ok])

Concludes(q, ok, check) == IF q.kind = "bot" THEN BotStep(q, ok, check) ELSE WriteStep(q, ok)

Gives(q) == Concludes(q, FALSE, FALSE)

\* The boundaries the result reports: the read-only probe's cover both directions, the
\* writing probe's only what it sends.
Cut(q)      == [q EXCEPT !.split = TRUE]
Broken(q)   == [q EXCEPT !.intact = FALSE]
BrokenIn(q) == IF q.kind = "bot" THEN Broken(q) ELSE q

\* Two transfers came as one.  What happened to a REQUEST SENSE is kept apart, because
\* the probe never looks at its outcome.
Joined(q)   == IF q.at = "sense" THEN [q EXCEPT !.senseJoined = TRUE] ELSE Cut(q)

-------------------------------------------------------------------------------
(* The device (external): what it does with a command *)

True(at) == CASE at \in {"read", "over"} -> Contents(medium, 1)
              [] at = "multi"            -> Contents(medium, Multi)
              [] at = "save"             -> Contents(medium, MaxBlocks)
              [] at = "back"             -> Contents(medium, Runs[p.run])
              [] OTHER                   -> <<at, at>>

Answers == {True(p.at), SubSeq(True(p.at), 1, 1), <<>>}
              \cup (IF p.at = "cap" THEN {<<"odd", "odd">>} ELSE {})

\* The device takes the CBW of the command the probe is at.
Takes ==
    LET c == [tag |-> p.tag, probe |-> <<p.kind, probes>>, at |-> p.at]
    IN  IF Writes(p.at) THEN out' = c /\ UNCHANGED in
        ELSE /\ UNCHANGED out
             /\ \E d \in IF Length(p) = 0 THEN {<<>>}
                         ELSE {<<Stall>>} \cup {<<Data(u)>> : u \in Answers},
                   s \in {<<>>, <<Stall>>}, st \in 0 .. 2 :
                     in' = in \o d \o s \o <<Csw(c, st)>>

\* It has the data of a write: what it reports as done it has done.
Stores(units, st) ==
    /\ \E done \in BOOLEAN :
         /\ st = 0 => done
         /\ medium' = IF done THEN [b \in 1 .. Blocks |->
                                      IF 2 * b <= Len(units) THEN units[2 * b] ELSE medium[b]]
                      ELSE medium
    /\ in' = Append(in, Csw(out, st)) /\ out' = None

\* The probe clears a halt; a clear that fails leaves the endpoint as it is.
ClearsOut == haltOut' \in BOOLEAN
ClearsIn  == in' \in {in, Tail(in)}

-------------------------------------------------------------------------------
(* command(): the CBW *)

AtCbw == p.phase = "cbw"

CbwGoes ==
    /\ AtCbw /\ ~haltOut /\ out = None
    /\ Takes
    /\ \/ p' = [p EXCEPT !.phase = IF Length(p) > 0 THEN "data" ELSE "csw"]
       \/ p' = Gives(p)                      \* it was reported as failed
    /\ UNCHANGED <<haltOut, medium, probes>>

\* The device was still waiting for the data of a write, and takes the CBW for it.
CbwSwallowed ==
    /\ AtCbw /\ ~haltOut /\ out # None
    /\ Stores(<<>>, 2)
    /\ p' = [p EXCEPT !.phase = IF Length(p) > 0 THEN "data" ELSE "csw"]
    /\ UNCHANGED <<haltOut, probes>>

CbwStalls ==
    /\ AtCbw
    /\ ClearsOut
    /\ p' = Gives(p)
    /\ UNCHANGED <<in, out, medium, probes>>

CbwLost ==
    /\ AtCbw /\ ~haltOut
    /\ p' = Gives(p)
    /\ UNCHANGED <<dev, probes>>

\* moved is not 31: the device halts both endpoints on a CBW that is not one.
CbwSplit ==
    /\ AtCbw /\ ~haltOut
    /\ in' = Append(in, Stall) /\ haltOut' = TRUE
    /\ p' = Gives(Broken(Cut(p)))
    /\ UNCHANGED <<out, medium, probes>>

-------------------------------------------------------------------------------
(* command(): the data of a write *)

AtOut == p.phase = "data" /\ Writes(p.at)

OutGoes ==
    /\ AtOut /\ ~haltOut /\ out # None
    /\ \E st \in 0 .. 2 : Stores(Payload(p), st)
    /\ \/ p' = [p EXCEPT !.phase = "csw"]
       \/ p' = Gives(p)                      \* it was reported as failed
    /\ UNCHANGED <<haltOut, probes>>

\* A refused data phase: the halt is cleared, and no CSW is read.
OutStalls ==
    /\ AtOut
    /\ ClearsOut
    /\ in' = IF out = None THEN in ELSE Append(in, Csw(out, 1))
    /\ out' = None
    /\ p' = Gives(p)
    /\ UNCHANGED <<medium, probes>>

OutLost ==
    /\ AtOut /\ ~haltOut
    /\ p' = Gives(p)
    /\ UNCHANGED <<dev, probes>>

\* wrote is not dataLen: the device has the first half and waits for the rest.
OutSplit ==
    /\ AtOut /\ ~haltOut /\ out # None
    /\ LET half == SubSeq(Payload(p), 1, Len(Payload(p)) \div 2)
       IN  medium' = [b \in 1 .. Blocks |->
                        IF 2 * b <= Len(half) THEN half[2 * b] ELSE medium[b]]
    /\ p' = Gives(Broken(Cut(p)))
    /\ UNCHANGED <<in, out, haltOut, probes>>

-------------------------------------------------------------------------------
(* command(): the data of a read *)

AtIn == p.phase = "data" /\ ~Writes(p.at)

\* A CSW that is read as data is one unit of it.
Units(x) == IF x.t = "csw" THEN <<"csw">> ELSE x.units

InComes ==
    /\ AtIn /\ in # <<>> /\ Head(in) # Stall /\ Len(Units(Head(in))) <= Offer(p)
    /\ in' = Tail(in)
    /\ p' = [p EXCEPT !.data = Units(Head(in)), !.phase = "csw"]
    /\ UNCHANGED <<out, haltOut, medium, probes>>

\* The transfer was cut, and its rest is what the next one brings.
InCut ==
    /\ AtIn /\ in # <<>> /\ Head(in).t = "data" /\ Len(Head(in).units) \in 2 .. Offer(p)
    /\ in' = <<Data(Tail(Head(in).units))>> \o Tail(in)
    /\ p' = [Cut(p) EXCEPT !.data = <<Head(in).units[1]>>, !.phase = "csw"]
    /\ UNCHANGED <<out, haltOut, medium, probes>>

\* The data and what follows it came as one transfer.
InJoined ==
    /\ AtIn /\ Len(in) > 1 /\ Head(in).t = "data" /\ in[2].t = "csw"
    /\ Len(Head(in).units) + 1 <= Offer(p)
    /\ in' = Tail(Tail(in))
    /\ p' = [Joined(p) EXCEPT !.data = Append(Head(in).units, "csw"), !.phase = "csw"]
    /\ UNCHANGED <<out, haltOut, medium, probes>>

\* A stalled data phase: the read-only probe goes on to the CSW, the writing one
\* returns.
InStalls ==
    /\ AtIn /\ in # <<>> /\ Head(in) = Stall
    /\ ClearsIn
    /\ p' = IF p.kind = "bot" THEN [p EXCEPT !.phase = "csw"] ELSE Gives(p)
    /\ UNCHANGED <<out, haltOut, medium, probes>>

\* Nothing came, or what came was lost, or was more than was offered.
InFails ==
    /\ AtIn
    /\ in' \in {in} \cup {Tail(s) : s \in {in} \ {<<>>}}
    /\ p' = Gives(p)
    /\ UNCHANGED <<out, haltOut, medium, probes>>

-------------------------------------------------------------------------------
(* command(): the CSW *)

AtCsw == p.phase \in {"csw", "reread"}

IsOwnCsw(x) == x.t = "csw" /\ x.tag = p.tag

\* The outcomes that do not count: a first CHECK CONDITION, and the REQUEST SENSE.
Drained(at, st) == at = "sense" \/ (at = "tur" /\ st = 1)

CswComes ==
    /\ AtCsw /\ in # <<>> /\ IsOwnCsw(Head(in))
    /\ in' = Tail(in)
    /\ LET x == Head(in)
           own == x.probe = <<p.kind, probes>> /\ x.tag = p.tag
           q == [p EXCEPT !.alien = @ \/ ~(own \/ Drained(p.at, x.st))]
       IN  p' = Concludes(q, x.st = 0, x.st = 1)
    /\ UNCHANGED <<out, haltOut, medium, probes>>

\* The size, the signature or the tag is not that of this command's CSW.
CswWrong ==
    /\ AtCsw /\ in # <<>> /\ Head(in) # Stall /\ ~IsOwnCsw(Head(in))
    /\ in' = Tail(in)
    /\ p' = Gives(BrokenIn(p))
    /\ UNCHANGED <<out, haltOut, medium, probes>>

\* It is not 13 bytes because it was cut.
CswCut ==
    /\ AtCsw /\ in # <<>> /\ Head(in).t = "csw"
    /\ in' = <<Data(<<"csw">>)>> \o Tail(in)
    /\ p' = Gives(BrokenIn(Cut(p)))
    /\ UNCHANGED <<out, haltOut, medium, probes>>

\* One stall before the CSW is cleared and the CSW read again.
CswStalls ==
    /\ AtCsw /\ in # <<>> /\ Head(in) = Stall
    /\ IF p.phase = "csw" THEN ClearsIn /\ p' = [p EXCEPT !.phase = "reread"]
       ELSE UNCHANGED in /\ p' = Gives(p)
    /\ UNCHANGED <<out, haltOut, medium, probes>>

CswFails ==
    /\ AtCsw
    /\ in' \in {in} \cup {Tail(s) : s \in {in} \ {<<>>}}
    /\ p' = Gives(p)
    /\ UNCHANGED <<out, haltOut, medium, probes>>

-------------------------------------------------------------------------------
(* The probes *)

\* The device has nothing ready and waits for nothing: what a probe of a freshly
\* attached device finds.  (What happened: the probes do not look.)
InPhase == in = <<>> /\ out = None

\* importVerify, and the first half of runConnect: a device with a Bulk-Only interface
\* is probed, from tag 0 whatever an earlier probe left behind.
BeginBot ==
    /\ p.at \in {"none", "done"} /\ probes < MaxProbes
    /\ probes' = probes + 1
    /\ p' = [Fresh EXCEPT !.kind = "bot", !.at = "lun", !.clean = InPhase]
    /\ UNCHANGED dev

\* GET_MAX_LUN: a stall is a legal answer; a failure is noted and the probe goes on.
GetMaxLun ==
    /\ p.at = "lun"
    /\ \E f \in BOOLEAN : p' = Issue([p EXCEPT !.failed = f], "tur")
    /\ UNCHANGED <<dev, probes>>

\* The second half of runConnect
BeginWrite ==
    /\ p.at = "done" /\ p.kind = "bot" /\ p.passed
    /\ p' = Issue([Fresh EXCEPT !.kind = "write", !.before = medium, !.clean = InPhase],
                "save")
    /\ UNCHANGED <<dev, probes>>

Transfer ==
    \/ CbwGoes \/ CbwSwallowed \/ CbwStalls \/ CbwLost \/ CbwSplit
    \/ OutGoes \/ OutStalls \/ OutLost \/ OutSplit
    \/ InComes \/ InCut \/ InJoined \/ InStalls \/ InFails
    \/ CswComes \/ CswWrong \/ CswCut \/ CswStalls \/ CswFails

ProbeNext == BeginBot \/ BeginWrite \/ GetMaxLun \/ Transfer

ProbeSpec == ProbeInit /\ [][ProbeNext]_probeVars

-------------------------------------------------------------------------------
(* Properties *)

Over(kind) == p.at = "done" /\ p.kind = kind

\* BotProbe.cpp:570, WriteProbe.cpp:372.  A probe that found the device in phase and
\* reports that it passed leaves it in phase, with nothing ready and nothing awaited,
\* so that the writing probe may follow the read-only one; no transfer beneath it was
\* cut, none was joined with the next but perhaps a REQUEST SENSE's data with its CSW
\* (see IntactMeansUncut), and no CSW it went by was the answer to another command.
\* (A drained CHECK CONDITION and the REQUEST SENSE's own CSW do not count: the code
\* looks at neither again.)
PassedIsInPhase ==
    p.at = "done" /\ p.passed /\ p.clean => InPhase /\ ~p.split /\ ~p.alien

\* BotProbe.h:121-123, "every data phase returned in exactly one transfer.  False means
\* the layer beneath split or coalesced a logical URB".  A read-only probe that found
\* the device in phase, passed and reports the boundaries intact had no transfer cut or
\* joined beneath it.  It does not hold: a short sense answer that is joined with its
\* CSW fits the bytes offered, the CSW read then times out, and BotProbe.cpp:276-280
\* returns that failure to BotProbe.cpp:406-410, which does not look.
IntactMeansUncut ==
    Over("bot") /\ p.passed /\ p.intact /\ p.clean => ~p.split /\ ~p.senseJoined

\* WriteProbe.cpp:364-369.  When a writing probe that found the device in phase says
\* the original contents were put back, the medium holds them, block for block,
\* whatever went wrong in between.
RestoredIsTrue == Over("write") /\ p.restored /\ p.clean => medium = p.before

===============================================================================
