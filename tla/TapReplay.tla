------------------------------ MODULE TapReplay ------------------------------
(***************************************************************************)
(* An archive of raw telemetry: the tap output with raw = true (tap.go)    *)
(* writes it through a bufio.Writer, the replay input (replay.go) reads it *)
(* back through the framing of encap_st.go and feeds the data channels.    *)
(*                                                                         *)
(* Unit <<i, j>> of the archive is the j-th unit of record i, the header   *)
(* first.  rec[i] is the message record i is made of; a message that was   *)
(* received and not written has a number all the same.                     *)
(***************************************************************************)
EXTENDS EncapST, Sequences

CONSTANTS
  NumOut, Depth,   \* data channels replay feeds
  BufSize,         \* size of the bufio.Writer, in units
  MaxRec,          \* bound: messages the tap receives
  MaxStart,        \* bound: starts of the tap's process
  FirstN,          \* values of the option firstn
  Message          \* the messages the tap may receive

ASSUME TapReplayAssumption ==
  /\ Message \subseteq [kind : MsgKind, len : Nat]
  /\ {NumOut, Depth, BufSize, MaxRec, MaxStart} \subseteq Nat /\ NumOut # 0
  /\ FirstN \subseteq Nat

VARIABLES
  file, buf,       \* the archive and what the writer still buffers
  rec,             \* history: the messages the tap received, in order
  tap,             \* "off", "gone" (could not open), "run", "broken" (the
                   \* writer failed), "acked", "lost" (acked, flush failed)
  starts,          \* starts of the process
  firstN, loop,    \* options of replay; loop is read only if firstn is 0
  rep,             \* replay: "start", "select", "read", "test", "send",
                   \* "retry", "acked", or "ended" at the end of the archive
  ctl,             \* "run", or "asked" once SHUTDOWN was sent
  tick,            \* "on", or "off" if the archive could not be opened
  done, count,     \* t.done, t.count (only counted when firstn is set)
  rpos, parser, msg, next, \* position, parser, message in hand, next channel
  queued, dead     \* data channels: queue length, outputs that stopped

tapVars  == <<file, buf, rec, tap, starts>>
confVars == <<firstN, loop>>
repVars  == <<rep, tick, done, count, rpos, parser, msg, next>>
chanVars == <<queued, dead>>
vars     == <<tapVars, confVars, ctl, repVars, chanVars>>

Output  == 1 .. NumOut
None    == [rec |-> 0]
Garbage == [rec |-> MaxRec + 1]

RecLen(i)  == HdrSize + rec[i].len
Record(i, len) == [j \in 1 .. HdrSize + len |-> <<i, j>>]

Init ==
  /\ file = << >> /\ buf = << >> /\ rec = << >> /\ tap = "off" /\ starts = 0
  /\ firstN \in FirstN /\ loop \in IF firstN = 0 THEN {"yes", "no"} ELSE {"no"}
  /\ rep = "start" /\ ctl = "run" /\ tick = "off" /\ done = "no" /\ count = 0
  /\ rpos = 0 /\ parser = NewParser /\ msg = None /\ next = 1
  /\ queued = [o \in Output |-> 0] /\ dead = {}

-----------------------------------------------------------------------------
(* The tap *)

TapStart ==
  /\ tap = "off" /\ starts < MaxStart
  /\ tap' \in {"run", "gone"} /\ starts' = starts + 1
  /\ UNCHANGED <<file, buf, rec, confVars, ctl, repVars, chanVars>>

(* What the writer does with more bytes: it spills once it is full. *)
Buffered(all) ==
  IF Len(all) <= BufSize THEN file' = file /\ buf' = all
  ELSE \E k \in 1 .. Len(all) :
         /\ Len(all) - k <= BufSize
         /\ file' = file \o SubSeq(all, 1, k)
         /\ buf' = SubSeq(all, k + 1, Len(all))

(* A message of a type with no encapsulation is skipped, and every one is *)
(* after a failed write: the error sticks to the writer.                  *)
TapSkip(m) ==
  /\ tap = "broken" \/ (tap = "run" /\ EncapOf(m.kind) = "UNSED")
  /\ Len(rec) < MaxRec /\ rec' = Append(rec, m)
  /\ UNCHANGED <<file, buf, tap, starts, confVars, ctl, repVars, chanVars>>

TapWrite(m) ==
  /\ tap = "run" /\ EncapOf(m.kind) # "UNSED"
  /\ Len(rec) < MaxRec /\ rec' = Append(rec, m)
  /\ Buffered(buf \o Record(Len(rec) + 1, m.len))
  /\ UNCHANGED <<tap, starts, confVars, ctl, repVars, chanVars>>

(* The writer fails to spill, having written a part. *)
TapWriteFails(m) ==
  /\ tap = "run" /\ EncapOf(m.kind) # "UNSED"
  /\ Len(rec) < MaxRec /\ rec' = Append(rec, m)
  /\ LET all == buf \o Record(Len(rec) + 1, m.len)
     IN  /\ Len(all) > BufSize
         /\ \E k \in 0 .. Len(all) - 1 : file' = file \o SubSeq(all, 1, k)
  /\ buf' = << >> /\ tap' = "broken"
  /\ UNCHANGED <<starts, confVars, ctl, repVars, chanVars>>

(* Faulty: acknowledges without a flush. *)
TapShutdownNoFlush ==
  /\ tap \in {"run", "broken"} /\ tap' = "acked"
  /\ UNCHANGED <<file, buf, rec, starts, confVars, ctl, repVars, chanVars>>

(* SHUTDOWN: flush, acknowledge, return.  An error of Flush is ignored. *)
TapShutdown ==
  /\ tap \in {"run", "broken"} /\ buf' = << >>
  /\ \/ tap = "run" /\ tap' = "acked" /\ file' = file \o buf
     \/ tap = "broken" /\ tap' = "lost" /\ UNCHANGED file
     \/ /\ tap = "run" /\ tap' = "lost" /\ buf # << >>
        /\ \E k \in 0 .. Len(buf) - 1 : file' = file \o SubSeq(buf, 1, k)
  /\ UNCHANGED <<rec, starts, confVars, ctl, repVars, chanVars>>

(* The process ends after an acknowledgement, or is killed at any time;   *)
(* what it had buffered is lost.  The archive is opened to append to it.  *)
TapProcessEnds ==
  /\ tap # "off" /\ tap' = "off" /\ buf' = << >>
  /\ UNCHANGED <<file, rec, starts, confVars, ctl, repVars, chanVars>>

-----------------------------------------------------------------------------
(* Replay *)

(* replayInputFeederLoop starts, or is started again after an error.  It  *)
(* gets a parser and opens the archive, which may fail.                   *)
RepOpen ==
  /\ rep \in {"start", "retry"} /\ rep' = "select"
  /\ rpos' = 0 /\ parser' = NewParser
  /\ \/ tick' = "on" /\ UNCHANGED done
     \/ tick' = "off" /\ done' = "yes"
  /\ UNCHANGED <<tapVars, confVars, ctl, count, msg, next, chanVars>>

RepTick ==
  /\ rep = "select" /\ tick = "on" /\ done = "no"
  /\ rep' = "read"
  /\ UNCHANGED <<tapVars, confVars, ctl, tick, done, count, rpos, parser, msg, next, chanVars>>

(* Every error sets t.done and returns; the sticky loop starts over. *)
RepStop ==
  /\ rep' = "retry" /\ done' = "yes"
  /\ UNCHANGED <<tick, count, rpos, parser, msg, next>>

Want  == NextBlockSize(parser)
Left  == Len(file) - rpos
Block == SubSeq(file, rpos + 1, rpos + Want)

(* No buffer of that size, or a read that ends inside the block. *)
RepReadFails ==
  /\ rep = "read" /\ (Want = 0 \/ (Left > 0 /\ Left < Want))
  /\ RepStop
  /\ UNCHANGED <<tapVars, confVars, ctl, chanVars>>

(* Faulty: a new parser, but the file is not rewound. *)
RepEndNoSeek ==
  /\ rep = "read" /\ Want > 0 /\ Left = 0
  /\ IF loop = "no" THEN rep' = "ended" /\ UNCHANGED parser
     ELSE parser' = NewParser /\ UNCHANGED rep
  /\ UNCHANGED <<tapVars, confVars, ctl, tick, done, count, rpos, msg, next, chanVars>>

(* End of the archive: return for good, or go back to its start. *)
RepEnd ==
  /\ rep = "read" /\ Want > 0 /\ Left = 0
  /\ IF loop = "no" THEN rep' = "ended" /\ UNCHANGED <<rpos, parser>>
     ELSE rpos' = 0 /\ parser' = NewParser /\ UNCHANGED rep
  /\ UNCHANGED <<tapVars, confVars, ctl, tick, done, count, msg, next, chanVars>>

(* The headers a block may be decoded to: units that are not a header as  *)
(* it was written may be taken for any.                                   *)
HeaderAt == Block = [j \in 1 .. HdrSize |-> <<Block[1][1], j>>]
Headers ==
  IF HeaderAt
  THEN LET m == rec[Block[1][1]]
       IN {[encap |-> EncapOf(m.kind), len |-> m.len, flag |-> "none"]}
  ELSE Header

RepHeader(hdr) ==
  /\ rep = "read" /\ parser.state = "hdr" /\ Left >= Want
  /\ hdr \in Headers
  /\ IF HeaderOK(hdr)
     THEN /\ rpos' = rpos + Want /\ parser' = AfterHeader(parser, hdr)
          /\ UNCHANGED <<rep, tick, done, count, msg, next>>
     ELSE RepStop
  /\ UNCHANGED <<tapVars, confVars, ctl, chanVars>>

(* blockToDataMsgs: the message a payload was written from; a codec that  *)
(* gets anything else fails or finds some message in it.  The GPB K/V     *)
(* codec always fails.                                                    *)
PayloadAt ==
  /\ Block = [j \in 1 .. Want |-> <<Block[1][1], HdrSize + j>>]
  /\ Want = rec[Block[1][1]].len
  /\ parser.codec = rec[Block[1][1]].kind
Decoded ==
  IF parser.codec = "gpbkv" THEN {None}
  ELSE IF PayloadAt THEN {[rec |-> Block[1][1]]}
  ELSE IF parser.codec = "json" THEN {Garbage} ELSE {None, Garbage}

RepData(m) ==
  /\ rep = "read" /\ parser.state = "data" /\ Want > 0 /\ Left >= Want
  /\ m \in Decoded
  /\ IF m = None THEN RepStop
     ELSE /\ rep' = "test" /\ msg' = m /\ next' = 1
          /\ rpos' = rpos + Want /\ parser' = AfterData(parser)
          /\ UNCHANGED <<tick, done, count>>
  /\ UNCHANGED <<tapVars, confVars, ctl, chanVars>>

(* The next channel; after the last, t.count and perhaps t.done *)
Advance ==
  IF next < NumOut THEN next' = next + 1 /\ rep' = "test" /\ UNCHANGED <<done, count, msg>>
  ELSE /\ next' = 1 /\ rep' = "select" /\ msg' = None
       /\ count' = IF firstN = 0 THEN 0 ELSE count + 1
       /\ done' = IF firstN # 0 /\ count' = firstN THEN "yes" ELSE done

(* len(dataChan) == cap(dataChan): overrun, the message is not sent *)
RepTest ==
  /\ rep = "test"
  /\ IF queued[next] = Depth THEN Advance
     ELSE rep' = "send" /\ UNCHANGED <<next, done, count, msg>>
  /\ UNCHANGED <<tapVars, confVars, ctl, tick, rpos, parser, chanVars>>

RepSend ==
  /\ rep = "send" /\ queued[next] < Depth
  /\ queued' = [queued EXCEPT ![next] = @ + 1]
  /\ Advance
  /\ UNCHANGED <<tapVars, confVars, ctl, tick, rpos, parser, dead>>

RepAsk ==
  /\ ctl = "run" /\ ctl' = "asked"
  /\ UNCHANGED <<tapVars, confVars, repVars, chanVars>>

(* Faulty: SHUTDOWN is not looked at any more once t.done is set. *)
RepAckUnlessDone ==
  /\ rep = "select" /\ ctl = "asked" /\ done = "no" /\ rep' = "acked"
  /\ UNCHANGED <<tapVars, confVars, ctl, tick, done, count, rpos, parser, msg, next, chanVars>>

RepAck ==
  /\ rep = "select" /\ ctl = "asked" /\ rep' = "acked"
  /\ UNCHANGED <<tapVars, confVars, ctl, tick, done, count, rpos, parser, msg, next, chanVars>>

-----------------------------------------------------------------------------
(* The other inputs send to the same channels, the outputs take from them. *)
OtherSends(o) ==
  /\ queued[o] < Depth /\ queued' = [queued EXCEPT ![o] = @ + 1]
  /\ UNCHANGED <<tapVars, confVars, ctl, repVars, dead>>
Take(o) ==
  /\ o \notin dead /\ queued[o] > 0 /\ queued' = [queued EXCEPT ![o] = @ - 1]
  /\ UNCHANGED <<tapVars, confVars, ctl, repVars, dead>>
OutputDies(o) ==
  /\ o \notin dead /\ dead' = dead \union {o}
  /\ UNCHANGED <<tapVars, confVars, ctl, repVars, queued>>

-----------------------------------------------------------------------------
Tap ==
  \/ TapStart \/ TapShutdown \/ TapProcessEnds
  \/ \E m \in Message : TapSkip(m) \/ TapWrite(m) \/ TapWriteFails(m)
Replay ==
  \/ RepOpen \/ RepTick \/ RepReadFails \/ RepEnd \/ RepTest \/ RepSend
  \/ \E hdr \in Header : RepHeader(hdr)
  \/ \E m \in [rec : 1 .. MaxRec + 1] \union {None} : RepData(m)
Outputs == \E o \in Output : OtherSends(o) \/ Take(o) \/ OutputDies(o)

Next == Tap \/ Replay \/ RepAsk \/ RepAck \/ Outputs

(* The goroutine of replay runs, select picks a ready control message in  *)
(* the end, and outputs that live take what is queued.  The channel gets   *)
(* a blocked sender in turn.                                              *)
Fairness ==
  /\ WF_vars(Replay) /\ SF_vars(RepAck) /\ SF_vars(RepSend)
  /\ \A o \in Output : WF_vars(Take(o))

Spec == Init /\ [][Next]_vars /\ Fairness

-----------------------------------------------------------------------------
TypeOK ==
  /\ rec \in Seq(Message) /\ Len(rec) <= MaxRec
  /\ \A k \in DOMAIN file : file[k][1] \in DOMAIN rec
  /\ Len(buf) <= BufSize
  /\ tap \in {"off", "gone", "run", "broken", "acked", "lost"}
  /\ rep \in {"start", "select", "read", "test", "send", "retry", "acked", "ended"}
  /\ rpos \in 0 .. Len(file) /\ parser \in Parser
  /\ msg.rec \in 0 .. MaxRec + 1 /\ next \in 1 .. NumOut
  /\ queued \in [Output -> 0 .. Depth]

(* The units up to pos are whole records. *)
Boundary(pos) ==
  \A k \in 1 .. pos : Cardinality({l \in 1 .. pos : file[l][1] = file[k][1]})
                        = RecLen(file[k][1])
(* Before pos, the archive goes on behind a record that was cut off. *)
TornBefore(pos) ==
  \E k \in 1 .. pos :
    /\ \E l \in k + 1 .. pos : file[l][1] # file[k][1]
    /\ Cardinality({l \in 1 .. Len(file) : file[l][1] = file[k][1]}) # RecLen(file[k][1])

(* What replay sends is a message as the tap received it, the one that    *)
(* ends where replay has read to, unless the archive was torn before.     *)
ReplaysWhatWasTapped ==
  rep \in {"test", "send"} /\ ~TornBefore(rpos) =>
    /\ msg.rec = file[rpos][1]
    /\ Boundary(rpos)

(* SHUTDOWN is acknowledged by a tap whose writer never failed only when   *)
(* the archive has one whole record of each message received that has an   *)
(* encapsulation, in the order received.  gNMI messages have none and are  *)
(* skipped, although "all input streams would be captured"                 *)
(* (README-PIPELINE.md:222-224).                                           *)
AckMeansFlushed ==
  tap = "acked" /\ starts = 1 =>
    /\ Boundary(Len(file))
    /\ \A i \in DOMAIN rec :
         EncapOf(rec[i].kind) # "UNSED" => \E k \in DOMAIN file : file[k][1] = i
    /\ \A k, l \in DOMAIN file : k < l => file[k][1] <= file[l][1]

(* SHUTDOWN is answered, whatever the archive holds, unless replay has     *)
(* ended with the archive, turns for ever round an archive that holds no   *)
(* message, or is blocked on an output that has died.                      *)
ReplayShutdownAcked ==
  ctl = "asked" ~> \/ rep \in {"acked", "ended"}
                   \/ [](rep = "read" /\ loop = "yes" /\ Len(file) <= HdrSize)
                   \/ [](rep = "send" /\ next \in dead)

(* With loop set, the last message of a complete archive is sent again    *)
(* and again.                                                             *)
Playable ==
  /\ file # << >> /\ Boundary(Len(file))
  /\ \A k \in DOMAIN file : rec[file[k][1]].len \in 1 .. MaxPayload
  /\ tick = "on" /\ done = "no" /\ ctl = "run" /\ dead = {}
LoopsForever ==
  loop = "yes" /\ <>[]Playable => []<>(file # << >> /\ msg.rec = file[Len(file)][1])

=============================================================================
