--------------------------- MODULE DeliveryProofs ---------------------------
(***************************************************************************)
(* Proofs, for every modulus of at least 2 and every value of the other    *)
(* constants, that an upload that returns Ok has delivered its file, that  *)
(* it leaves the session idle, and that the upload, a line that loses and  *)
(* either device together take only the steps of UploadPromise.            *)
(*                                                                         *)
(* The argument.  Requests follow one another, so at any time two packets  *)
(* matter: prev, the last one the session has taken an ok for (none yet:   *)
(* SyncBody), and cur, the one it waits for (none: SyncBody); got says     *)
(* that the device has handled cur.  No variable of the model records them *)
(* (after a total timeout the session itself has forgotten cur), so the    *)
(* invariant says that there is such a parcel.  All that is on its way is  *)
(* a copy of, or the answer to, one of the two, and the line keeps order.  *)
(*                                                                         *)
(* Before the first request only handshakes are on their way (Connecting). *)
(* A stale ss line may give the session a number the device does not       *)
(* expect; then the device never handles a packet, and upload fails        *)
(* (Misled).                                                               *)
(***************************************************************************)
EXTENDS UploadProofs, LineLemmas

Parcel == [prev : Packet, cur : Packet, got : BOOLEAN]
Waits(g) == g.cur # SyncBody
Latest(g) == IF Waits(g) THEN g.cur ELSE g.prev
Handled(g) == IF g.got THEN g.cur ELSE g.prev

Handshakes == [sync : Sync, body : {SyncBody}]
OldFrames(g) ==
    IF g.prev = SyncBody THEN Handshakes \cup {Trigger}
    ELSE { f \in [sync : Sync, body : {g.prev}] : NextSync(f.sync) = sync }
NewFrames(g) == IF Waits(g) THEN {[sync |-> sync, body |-> g.cur]} ELSE {}

(* The device that counts answers a packet once, the text before the ok;   *)
(* FakeDevice answers every copy.                                          *)
Texts == { TextLine(text) : text \in FileText }
OtherLines == { RsLine(n) : n \in Sync } \cup {FeLine}
OldLines(g) ==
    IF g.prev = SyncBody THEN {SsLine(InitialSync, block)}
    ELSE { OkLine(n) : n \in { m \in Sync : NextSync(m) = sync } }
NewLines(g) == IF g.got THEN {OkLine(sync)} ELSE {}
SomeTexts(g) == IF g.got \/ ~counts THEN Texts ELSE {}

OnTheWay(g) ==
    /\ toDevice \in Seq(OldFrames(g) \cup NewFrames(g))
    /\ Ordered(toDevice, OldFrames(g), NewFrames(g))
    /\ g.got => Waits(g) /\ NoneOf(toDevice, OldFrames(g))

OnTheWayBack(g, lines) ==
    /\ lines \in Seq(OldLines(g) \cup NewLines(g) \cup SomeTexts(g) \cup OtherLines)
    /\ Ordered(lines, OldLines(g), NewLines(g))
    /\ counts => Ordered(lines, Texts, NewLines(g))

(* The session, and where the loop is. *)
KindsOf ==
    [querying |-> {"query"}, opening |-> {"open_raw", "open_heatshrink"},
     writing  |-> {"write"}, closing |-> {"close"}, leaving |-> {"control_close"}]
NoAckThere == \A i \in 1 .. Len(events) : events[i].type # "Ack"

Sender(g) ==
    /\ Prepared /\ is_synced
    /\ queued = <<>>
    /\ in_flight # None => FrameOf(in_flight) \in NewFrames(g)
    /\ outbound \in Seq(NewFrames(g))
    /\ step # "write" => outbound = <<>>
    /\ Latest(g) # SyncBody /\ Latest(g).kind \in KindsOf[phase]
    /\ phase = "leaving" => Latest(g) = ControlClose
    /\ Waits(g) => step # "done" /\ NoAckThere
    /\ Waits(g) /\ phase = "writing" => g.cur.chunk = NextChunk

(* The transfer, which knows no more than the session. *)
StateOf ==
    [querying |-> "AwaitingQueryReply", opening |-> "AwaitingOpenReply",
     writing  |-> "AwaitingWriteAck",   closing |-> "AwaitingCloseReply"]
AllFailed == \A i \in 1 .. Len(out_events) : out_events[i].type = "Failed"

Waiter(g) ==
    /\ Waits(g) => AllFailed
    /\ phase \in TransferPhase =>
          /\ state \in Awaiting => state = StateOf[phase] /\ out_events = <<>>
          /\ Waits(g) => state \in Awaiting \cup {"Failed"}
          /\ state # "Failed" => \A i \in 1 .. Len(out_events) : out_events[i].type # "Failed"
          /\ \A i \in 1 .. Len(out_events) : i > 1 => out_events[i].type = "Failed"
          /\ step = "done" => events = <<>> /\ AllFailed

(* The device, as far as the parcel tells. *)
Receiver(g) ==
    /\ expected = IF counts THEN (IF g.got THEN NextSync(sync) ELSE sync) ELSE InitialSync
    /\ g.prev = SyncBody => sync = InitialSync
    /\ Handled(g) # SyncBody =>
          /\ Handled(g).kind = "write" => kept # <<>> /\ kept[Len(kept)] = Handled(g).chunk
          /\ ~counts /\ Handled(g).kind = "close" => closed
          /\ Handled(g) = ControlClose => ~binary

Stored(g) ==
    IF phase = "writing" /\ step # "done" /\ (g.got \/ ~Waits(g))
    THEN bytes_sent + NextLength ELSE bytes_sent

File(g) ==
    /\ Contiguous
    /\ StoredLen = Stored(g)
    /\ closed \in BOOLEAN
    /\ phase \in {"querying", "opening", "writing"} => ~closed
    /\ phase = "leaving" => closed
    /\ phase \in {"closing", "leaving"} => payload # None /\ bytes_sent = payload
    /\ counts /\ phase = "writing" => file_open

(* "success" is only ever heard, of a device that counts, after it has     *)
(* done what it was asked for.                                             *)
Granted == (phase = "opening" => file_open) /\ (phase = "closing" => closed)
Success == Status("success")
Hopeful ==
    \/ \E i \in 1 .. Len(toHost) : toHost[i] = TextLine(Success)
    \/ \E i \in 1 .. Len(events) : events[i] = AsciiLine(Success)
    \/ pending_ascii \in {Reply("OpenSuccess"), Reply("CloseSuccess")}
    \/ ~AllFailed
    \/ step = "done"
Truthful == counts /\ Hopeful => Granted

Delivering(g) ==
    /\ OnTheWay(g) /\ OnTheWayBack(g, toHost)
    /\ Sender(g) /\ Waiter(g) /\ Receiver(g) /\ File(g) /\ Truthful

-----------------------------------------------------------------------------
(* Nothing that is out is a packet the device will handle.                 *)
Fruitless(frames, lines) ==
    /\ toDevice \in Seq(frames \cup {Trigger}) /\ outbound \in Seq(frames)
    /\ in_flight # None => FrameOf(in_flight) \in frames
    /\ step # "write" => outbound = <<>>
    /\ toHost \in Seq(lines)
    /\ queued = <<>>
    /\ expected = InitialSync /\ kept = <<>> /\ closed = FALSE
    /\ payload = None /\ bytes_sent = 0
    /\ pending_ascii = None /\ AllFailed
    /\ \A i \in 1 .. Len(events) : events[i].type = "AsciiLine" => events[i].text = Chatter

SsLines == { SsLine(n, block) : n \in Sync }
OkLines == { OkLine(n) : n \in Sync }
StrangeFrames == { f \in Frame : f.body = SyncBody \/ f.sync # InitialSync }

Connecting ==
    /\ phase \in {"starting", "syncing"}
    /\ phase = "starting" => step = "done" /\ ~is_synced /\ in_flight = None
    /\ Fruitless(Handshakes, OtherLines \cup SsLines)
    /\ in_flight # None => ~is_synced
    /\ \A i \in 1 .. Len(toHost) :
          toHost[i] \in SsLines \ {SsLine(InitialSync, block)} => counts /\ ~is_synced /\ i = 1
    /\ is_synced /\ ~counts => sync = InitialSync
    /\ NoAckThere
    /\ state = "Idle" /\ out_events = <<>>

Misled ==
    /\ phase = "querying" /\ counts /\ step # "done"
    /\ Fruitless(StrangeFrames, OtherLines \cup SsLines \cup OkLines)
    /\ state \in {"AwaitingQueryReply", "Failed"}

DeliveryInv ==
    IF step = "returned" THEN OkMeansUploaded /\ IdleOnSuccess
    ELSE Connecting \/ Misled \/ \E g \in Parcel : Delivering(g)

-----------------------------------------------------------------------------
(* What the sets depend on.                                                *)
LEMMA SameParcel ==
    ASSUME NEW g, UNCHANGED <<sync, counts, block>>
    PROVE  /\ OldFrames(g)' = OldFrames(g) /\ NewFrames(g)' = NewFrames(g)
           /\ OldLines(g)' = OldLines(g) /\ NewLines(g)' = NewLines(g)
           /\ SomeTexts(g)' = SomeTexts(g)
  BY DEF OldFrames, NewFrames, OldLines, NewLines, SomeTexts, Handshakes, NextSync

LEMMA AParcel ==
    ASSUME NEW p \in Packet, NEW c \in Packet, NEW b \in BOOLEAN
    PROVE  \E g \in Parcel : g.prev = p /\ g.cur = c /\ g.got = b
  <1> DEFINE g == [prev |-> p, cur |-> c, got |-> b]
  <1>1. g \in Parcel /\ g.prev = p /\ g.cur = c /\ g.got = b
    BY DEF Parcel
  <1> QED
    BY <1>1

(* The three kinds of item on the line to the device, and the six kinds of *)
(* line on the way back, are never taken for one another.                  *)
LEMMA TriggerIsNoFrame == Trigger \notin Frame
  <1> SUFFICES ASSUME Trigger \in Frame
               PROVE  FALSE
    OBVIOUS
  <1>1. DOMAIN Trigger = {"sync", "body"}
    BY DEF Frame
  <1>2. DOMAIN Trigger = {"ascii"}
    BY DEF Trigger
  <1> QED
    BY <1>1, <1>2

LEMMA OldIsNotNew ==
    ASSUME SyncMod > 1, sync \in Sync, NEW g \in Parcel
    PROVE  /\ \A f \in OldFrames(g) : f \notin NewFrames(g)
           /\ \A l \in OldLines(g) \cup OtherLines \cup Texts : l \notin NewLines(g)
           /\ OldFrames(g) \cup NewFrames(g) \subseteq Frame \cup {Trigger}
  <1>1. g.prev \in Packet /\ g.cur \in Packet
    BY DEF Parcel
  <1>2. NewFrames(g) \subseteq Frame
    BY <1>1 DEF NewFrames, Frame
  <1>3. \A f \in OldFrames(g) : f \notin NewFrames(g)
    BY <1>1, <1>2, NextSyncIsInjective, TriggerIsNoFrame
       DEF OldFrames, NewFrames, Waits, Handshakes
  <1>4. \A l \in OldLines(g) \cup OtherLines \cup Texts : l \notin NewLines(g)
    BY NextSyncIsInjective
       DEF OldLines, OtherLines, Texts, NewLines, OkLine, SsLine, RsLine, FeLine, TextLine
  <1>5. OldFrames(g) \subseteq Frame \cup {Trigger}
    BY <1>1 DEF OldFrames, Handshakes, Frame, Packet
  <1> QED
    BY <1>2, <1>3, <1>4, <1>5

-----------------------------------------------------------------------------
(* What the parts of the invariant depend on.                              *)
LEMMA WayStays ==
    ASSUME NEW g, UNCHANGED <<sync, counts, block>>
    PROVE  /\ OnTheWay(g) /\ UNCHANGED toDevice => OnTheWay(g)'
           /\ OnTheWayBack(g, toHost') => OnTheWayBack(g, toHost)'
           /\ OnTheWayBack(g, toHost) /\ UNCHANGED toHost => OnTheWayBack(g, toHost)'
  BY SameParcel DEF OnTheWay, OnTheWayBack

LEMMA CallerStays ==
    ASSUME NEW g, NEW h, h.prev = g.prev, h.cur = g.cur, UNCHANGED callerVars
    PROVE  /\ Sender(g) => Sender(h)'
           /\ Waiter(g) => Waiter(h)'
  <1> USE DEF callerVars, fileVars, vars, ftVars, transferVars, loopVars, statVars
  <1>1. Waits(h) = Waits(g) /\ Latest(h) = Latest(g)
    BY DEF Waits, Latest
  <1>2. NewFrames(h)' = NewFrames(g) /\ NextChunk' = NextChunk /\ NoAckThere' = NoAckThere
        /\ AllFailed' = AllFailed
    BY <1>1 DEF NewFrames, NextChunk, NextLength, NoAckThere, AllFailed
  <1> QED
    BY <1>1, <1>2 DEF Sender, Waiter, Prepared, FrameOf

LEMMA ReceiverStays ==
    ASSUME NEW g, Receiver(g), UNCHANGED <<sync, counts, expected, kept, closed, binary>>
    PROVE  Receiver(g)'
  BY DEF Receiver, NextSync

LEMMA SameFile ==
    ASSUME UNCHANGED <<kept, counts>>
    PROVE  StoredLen' = StoredLen /\ Contiguous' = Contiguous
  BY DEF StoredLen, Contiguous, ChunkEnd

LEMMA FileStays ==
    ASSUME NEW g, File(g), UNCHANGED <<phase, kept, counts, statVars, closed, file_open>>,
           (step = "done") = (step' = "done")
    PROVE  File(g)'
  <1>1. Stored(g)' = Stored(g)
    BY DEF Stored, NextLength, statVars
  <1> QED
    BY <1>1, SameFile DEF File, statVars

LEMMA TruthStays ==
    ASSUME Truthful, UNCHANGED <<phase, counts, file_open, closed>>, Hopeful' => Hopeful
    PROVE  Truthful'
  BY DEF Truthful, Granted

(* What comes behind the lines that are there.                             *)
LEMMA BackJoins ==
    ASSUME SyncMod > 1, sync \in Sync, NEW g \in Parcel, NEW lines, OnTheWayBack(g, lines)
    PROVE  /\ \A l \in OtherLines : OnTheWayBack(g, Append(lines, l))
           /\ ~g.got => \A l \in OldLines(g) : OnTheWayBack(g, Append(lines, l))
           /\ g.got => OnTheWayBack(g, Append(lines, OkLine(sync)))
           /\ ~counts \/ NoneOf(lines, NewLines(g))
                 => \A l \in SomeTexts(g) : OnTheWayBack(g, Append(lines, l))
           /\ NoneOf(lines, NewLines(g))
                 => \A l \in SomeTexts(g) : NoneOf(Append(lines, l), NewLines(g))
  <1> DEFINE all == OldLines(g) \cup NewLines(g) \cup SomeTexts(g) \cup OtherLines
  <1>1. /\ lines \in Seq(all)
        /\ Ordered(lines, OldLines(g), NewLines(g))
        /\ counts => Ordered(lines, Texts, NewLines(g))
    BY DEF OnTheWayBack
  <1>2. /\ \A l \in OldLines(g) \cup OtherLines \cup Texts : l \notin NewLines(g)
        /\ SomeTexts(g) \subseteq Texts
    BY OldIsNotNew DEF SomeTexts
  <1>3. /\ \A l \in OtherLines : l \notin OldLines(g) \cup Texts
        /\ \A l \in Texts : l \notin OldLines(g)
        /\ \A l \in OldLines(g) : l \notin Texts
    BY DEF OtherLines, OldLines, Texts, RsLine, FeLine, SsLine, OkLine, TextLine
  <1> HIDE DEF all
  <1>4. ASSUME NEW l \in all,
               l \in OldLines(g) => NoneOf(lines, NewLines(g)),
               counts /\ l \in Texts => NoneOf(lines, NewLines(g))
        PROVE  OnTheWayBack(g, Append(lines, l))
    BY <1>1, <1>4, LastJoins DEF OnTheWayBack, all
  <1>5. ~g.got => NoneOf(lines, NewLines(g))
    BY NoneOfNothing DEF NewLines
  <1>6. g.got => OkLine(sync) \in NewLines(g)
    BY DEF NewLines
  <1>7. NoneOf(lines, NewLines(g)) => \A l \in SomeTexts(g) : NoneOf(Append(lines, l), NewLines(g))
    BY <1>1, <1>2, LastJoins DEF all
  <1>8. ASSUME NEW l \in OtherLines
        PROVE  OnTheWayBack(g, Append(lines, l))
    BY <1>3, <1>4, <1>8 DEF all
  <1>9. ASSUME ~g.got, NEW l \in OldLines(g)
        PROVE  OnTheWayBack(g, Append(lines, l))
    BY <1>3, <1>4, <1>5, <1>9 DEF all
  <1>10. ASSUME g.got
         PROVE  OnTheWayBack(g, Append(lines, OkLine(sync)))
    BY <1>2, <1>4, <1>6, <1>10 DEF all
  <1>11. ASSUME ~counts \/ NoneOf(lines, NewLines(g)), NEW l \in SomeTexts(g)
         PROVE  OnTheWayBack(g, Append(lines, l))
    BY <1>2, <1>3, <1>4, <1>11 DEF all
  <1> QED
    BY <1>7, <1>8, <1>9, <1>10, <1>11

(* The device handles the packet that is waited for.                       *)
LEMMA HandlingBegins ==
    ASSUME SyncMod > 1, sync \in Sync, NEW g \in Parcel, NEW h \in Parcel,
           h.prev = g.prev, h.cur = g.cur, ~g.got, h.got, NEW lines, OnTheWayBack(g, lines)
    PROVE  OnTheWayBack(h, lines) /\ NoneOf(lines, NewLines(h))
  <1> DEFINE some(p) == OldLines(p) \cup NewLines(p) \cup SomeTexts(p) \cup OtherLines
  <1>1. /\ OldLines(h) = OldLines(g) /\ NewLines(g) = {}
        /\ SomeTexts(h) = Texts /\ SomeTexts(g) \subseteq Texts
    BY DEF OldLines, NewLines, SomeTexts
  <1>2. lines \in Seq(some(g)) /\ some(g) \subseteq some(h)
        /\ some(g) \subseteq OldLines(h) \cup OtherLines \cup Texts
    BY <1>1 DEF OnTheWayBack
  <1> HIDE DEF some
  <1>3. NoneOf(lines, NewLines(h))
    <2>1. \A i \in 1 .. Len(lines) : lines[i] \in some(g)
      BY <1>2
    <2> QED
      BY <1>2, <2>1, OldIsNotNew DEF NoneOf
  <1>4. Ordered(lines, OldLines(h), NewLines(h)) /\ Ordered(lines, Texts, NewLines(h))
    BY <1>3 DEF NoneOf, Ordered
  <1> QED
    BY <1>2, <1>3, <1>4 DEF OnTheWayBack, some

-----------------------------------------------------------------------------
(* The oldest item on the line to the device.                              *)
LEMMA ItemGoes ==
    ASSUME NEW g, OnTheWay(g), toDevice # <<>>, toDevice' = Tail(toDevice),
           UNCHANGED <<sync, counts, block>>
    PROVE  /\ OnTheWay(g)'
           /\ Head(toDevice) \in OldFrames(g) \cup NewFrames(g)
           /\ g.got => Head(toDevice) \notin OldFrames(g)
           /\ Head(toDevice) \in NewFrames(g) =>
                 \A h : h.prev = g.prev /\ h.cur = g.cur => OnTheWay(h)'
  <1> DEFINE both == OldFrames(g) \cup NewFrames(g)
  <1>1. toDevice \in Seq(both) /\ Ordered(toDevice, OldFrames(g), NewFrames(g))
    BY DEF OnTheWay
  <1> HIDE DEF both
  <1>2. /\ Head(toDevice) \in both /\ Tail(toDevice) \in Seq(both)
        /\ Ordered(Tail(toDevice), OldFrames(g), NewFrames(g))
        /\ NoneOf(toDevice, OldFrames(g)) =>
              NoneOf(Tail(toDevice), OldFrames(g)) /\ Head(toDevice) \notin OldFrames(g)
        /\ Head(toDevice) \in NewFrames(g) => NoneOf(Tail(toDevice), OldFrames(g))
    BY <1>1, FirstLeaves
  <1>3. OldFrames(g)' = OldFrames(g) /\ NewFrames(g)' = NewFrames(g)
    BY SameParcel
  <1>4. OnTheWay(g)'
    BY <1>2, <1>3 DEF OnTheWay, both
  <1>5. ASSUME NEW h, h.prev = g.prev, h.cur = g.cur, Head(toDevice) \in NewFrames(g)
        PROVE  OnTheWay(h)'
    <2>1. OldFrames(h) = OldFrames(g) /\ NewFrames(h) = NewFrames(g) /\ Waits(h)
      BY <1>5 DEF OldFrames, NewFrames, Waits
    <2>2. OldFrames(h)' = OldFrames(g) /\ NewFrames(h)' = NewFrames(g)
      BY <2>1, SameParcel
    <2> QED
      BY <1>2, <1>5, <2>1, <2>2 DEF OnTheWay, both
  <1> QED
    BY <1>2, <1>4, <1>5 DEF OnTheWay, both

(* A packet that the device looks at is a copy of prev or of cur.          *)
OldCopy(g, frame) ==
    /\ ~g.got /\ frame.body = g.prev
    /\ frame.sync \in Sync /\ NextSync(frame.sync) = sync /\ frame.sync # sync
    /\ OkLine(frame.sync) \in OldLines(g)
NewCopy(g, frame) ==
    frame \in NewFrames(g) /\ Waits(g) /\ frame.body = g.cur /\ frame.sync = sync

LEMMA Copies ==
    ASSUME SyncMod > 1, sync \in Sync, NEW g \in Parcel, NEW frame, frame # Trigger,
           frame \in OldFrames(g) \cup NewFrames(g), g.got => frame \notin OldFrames(g),
           frame.body # SyncBody
    PROVE  OldCopy(g, frame) \/ NewCopy(g, frame)
  <1>1. CASE frame \in NewFrames(g)
    BY <1>1 DEF NewFrames, NewCopy
  <1>2. CASE frame \in OldFrames(g)
    <2>1. /\ g.prev # SyncBody /\ frame.body = g.prev
          /\ frame.sync \in Sync /\ NextSync(frame.sync) = sync /\ ~g.got
      BY <1>2 DEF OldFrames, Handshakes, Trigger, Parcel
    <2>2. frame.sync # sync /\ OkLine(frame.sync) \in OldLines(g)
      BY <2>1, NextSyncIsInjective DEF OldLines
    <2> QED
      BY <2>1, <2>2 DEF OldCopy
  <1> QED
    BY <1>1, <1>2

LEMMA KindTells ==
    ASSUME NEW g, Sender(g)
    PROVE  /\ phase \in {"querying", "opening", "writing", "closing", "leaving"}
           /\ Latest(g).kind = "query" <=> phase = "querying"
           /\ Latest(g).kind \in {"open_raw", "open_heatshrink"} <=> phase = "opening"
           /\ Latest(g).kind = "write" <=> phase = "writing"
           /\ Latest(g).kind = "close" <=> phase = "closing"
           /\ Latest(g).kind = "control_close" <=> phase = "leaving"
  BY DEF Sender, Prepared, TransferPhase, KindsOf

(* A WRITE in flight carries the next piece of the payload.                *)
LEMMA PieceInFlight ==
    ASSUME UploadInv, InWrite
    PROVE  /\ payload \in Nat /\ payload # None /\ bytes_sent \in Nat
           /\ NextLength \in 1 .. (payload - bytes_sent)
           /\ bytes_sent + NextLength \in (bytes_sent + 1) .. payload
  <1>1. /\ payload \in Nat /\ payload # None /\ bytes_sent \in Nat /\ bytes_sent < payload
        /\ chunk_size \in Nat \ {0}
    BY UploadAssumption
       DEF UploadInv, PayloadInv, SizeInv, InWrite, Prepared, TransferPhase
  <1> QED
    BY <1>1 DEF NextLength

LEMMA OneMoreChunk ==
    ASSUME kept \in Seq(Chunk), Contiguous, NEW chunk \in Chunk, kept' = Append(kept, chunk),
           UNCHANGED counts,
           \/ chunk.from = StoredLen
           \/ ~counts /\ kept # <<>> /\ kept[Len(kept)] = chunk
    PROVE  /\ Contiguous' /\ StoredLen' = ChunkEnd(chunk)
           /\ kept' # <<>> /\ kept'[Len(kept')] = chunk
  <1>1. /\ Len(kept) \in Nat /\ Len(kept') = Len(kept) + 1 /\ kept' # <<>>
        /\ kept'[Len(kept')] = chunk
        /\ \A i \in 1 .. Len(kept) : kept'[i] = kept[i]
        /\ kept = <<>> <=> Len(kept) = 0
    OBVIOUS
  <1>2. ASSUME NEW i \in 1 .. Len(kept')
        PROVE  LET before == IF i = 1 THEN 0 ELSE ChunkEnd(kept'[i - 1])
               IN  kept'[i].from = before \/ (~counts' /\ i > 1 /\ kept'[i] = kept'[i - 1])
    <2>1. CASE i \in 1 .. Len(kept)
      <3>1. kept'[i] = kept[i] /\ (i # 1 => i - 1 \in 1 .. Len(kept))
        BY <1>1, <2>1
      <3> QED
        BY <1>1, <2>1, <3>1 DEF Contiguous
    <2>2. CASE i = Len(kept')
      <3>1. kept # <<>> => i - 1 = Len(kept) /\ i > 1 /\ kept'[i - 1] = kept[Len(kept)]
        BY <1>1, <2>2
      <3>2. kept = <<>> => i = 1
        BY <1>1, <2>2
      <3> QED
        BY <1>1, <2>2, <3>1, <3>2 DEF StoredLen
    <2> QED
      BY <1>1, <2>1, <2>2
  <1>3. Contiguous'
    BY <1>2 DEF Contiguous, ChunkEnd
  <1>4. StoredLen' = ChunkEnd(chunk)
    BY <1>1 DEF StoredLen, ChunkEnd
  <1> QED
    BY <1>1, <1>3, <1>4

-----------------------------------------------------------------------------
(* The device handles a packet: the one that is waited for, once (h is     *)
(* then g with got), or, FakeDevice, a copy of what it has handled.        *)
Handling(g, h) ==
    /\ h.prev = g.prev /\ h.cur = g.cur
    /\ Body1 = Handled(h) /\ Body1 # SyncBody
    /\ \/ ~g.got /\ h.got
       \/ ~counts /\ h = g
    /\ IF h.got THEN Waits(g) /\ Head(toDevice).sync = sync
       ELSE OkLine(Head(toDevice).sync) \in OldLines(g)

LEMMA HandlingAnswers ==
    ASSUME SyncMod > 1, sync \in Sync, NEW g \in Parcel, NEW h \in Parcel, Handling(g, h),
           OnTheWayBack(g, toHost), NEW lines, Answers(Acked(lines)),
           lines = <<>> \/ \E l \in Texts : lines = <<l>>
    PROVE  /\ OnTheWayBack(h, toHost')
           /\ \A i \in 1 .. Len(toHost') : toHost'[i] = TextLine(Success) =>
                 \/ lines = <<TextLine(Success)>>
                 \/ \E j \in 1 .. Len(toHost) : toHost[j] = TextLine(Success)
  <1> DEFINE ok == OkLine(Head(toDevice).sync)
  <1>1. OnTheWayBack(h, toHost) /\ (counts => NoneOf(toHost, NewLines(h)))
    BY HandlingBegins DEF Handling, Parcel
  <1>2. \A l \in Texts : l \in SomeTexts(h)
    BY DEF Handling, SomeTexts
  <1>3. ASSUME NEW s, OnTheWayBack(h, s)
        PROVE  OnTheWayBack(h, Append(s, ok))
    <2>1. CASE h.got
      BY <1>3, <2>1, BackJoins DEF Handling
    <2>2. CASE ~h.got
      <3>1. ok \in OldLines(h)
        BY <2>2 DEF Handling, OldLines
      <3> QED
        BY <1>3, <2>2, <3>1, BackJoins
    <2> QED
      BY <2>1, <2>2
  <1> DEFINE all == OldLines(g) \cup NewLines(g) \cup SomeTexts(g) \cup OtherLines
  <1>4. toHost \in Seq(all) /\ toHost' = toHost \o Append(lines, ok)
    BY DEF OnTheWayBack, Answers, Acked
  <1>5. ok # TextLine(Success)
    BY DEF OkLine, TextLine
  <1> HIDE DEF ok, all
  <1>6. CASE lines = <<>>
    <2>1. toHost' = Append(toHost, ok)
      BY <1>4, <1>6, AnswerJoins
    <2> QED
      BY <1>1, <1>3, <1>4, <1>5, <2>1, ItemJoins
  <1>7. ASSUME NEW l \in Texts, lines = <<l>>
        PROVE  /\ OnTheWayBack(h, toHost')
               /\ \A i \in 1 .. Len(toHost') : toHost'[i] = TextLine(Success) =>
                     l = TextLine(Success) \/ \E j \in 1 .. Len(toHost) : toHost[j] = TextLine(Success)
    <2>1. toHost' = Append(Append(toHost, l), ok)
      BY <1>4, <1>7, AnswerJoins
    <2>2. OnTheWayBack(h, Append(toHost, l))
      BY <1>1, <1>2, BackJoins
    <2>3. Append(toHost, l) \in Seq(all \cup {l})
      BY <1>4
    <2>4. \A i \in 1 .. Len(toHost') : toHost'[i] = ok \/
             (i \in 1 .. Len(Append(toHost, l)) /\ toHost'[i] = Append(toHost, l)[i])
      BY <2>1, <2>3, ItemJoins
    <2> QED
      BY <1>3, <1>4, <1>5, <2>1, <2>2, <2>4, ItemJoins
  <1> QED
    BY <1>6, <1>7

LEMMA TextsDiffer ==
    /\ \A word \in StatusWord : TextLine(Status(word)) \in Texts
    /\ \A comp \in DeviceCompression : TextLine(Version(comp)) \in Texts
    /\ \A word : <<TextLine(Status(word))>> = <<TextLine(Success)>> => word = "success"
    /\ \A comp : <<TextLine(Version(comp))>> # <<TextLine(Success)>>
    /\ <<>> # <<TextLine(Success)>>
  <1>1. ASSUME NEW s, NEW t, <<TextLine(s)>> = <<TextLine(t)>>
        PROVE  s = t
    <2>1. TextLine(s) = TextLine(t) /\ TextLine(s).text = s /\ TextLine(t).text = t
      BY <1>1 DEF TextLine
    <2> QED
      BY <2>1
  <1>2. \A word : Status(word).pft = word
    BY DEF Status
  <1>3. \A comp : Version(comp).pft = "version"
    BY DEF Version
  <1>4. /\ \A word \in StatusWord : Status(word) \in FileText
        /\ \A comp \in DeviceCompression : Version(comp) \in FileText
    BY DEF FileText
  <1>5. <<>> # <<TextLine(Success)>>
    OBVIOUS
  <1>6. \A word : <<TextLine(Status(word))>> = <<TextLine(Success)>> => word = "success"
    BY <1>1, <1>2 DEF Success
  <1>7. \A comp : <<TextLine(Version(comp))>> # <<TextLine(Success)>>
    BY <1>1, <1>2, <1>3 DEF Success
  <1> QED
    BY <1>4, <1>5, <1>6, <1>7 DEF Texts

LEMMA HandlingTells ==
    ASSUME SyncMod > 1, sync \in Sync, NEW g \in Parcel, NEW h \in Parcel, Handling(g, h),
           Delivering(g), step = "read", Handles, UNCHANGED <<callerVars, counts>>
    PROVE  OnTheWayBack(h, toHost') /\ Truthful'
  <1>1. OnTheWayBack(g, toHost) /\ Sender(g) /\ Truthful
    BY DEF Delivering
  <1>2. Hopeful' => Hopeful \/ \E i \in 1 .. Len(toHost') : toHost'[i] = TextLine(Success)
    BY DEF Hopeful, AllFailed, callerVars, fileVars, vars, ftVars, transferVars, loopVars
  <1>3. ASSUME NEW lines, Answers(Acked(lines)), lines = <<>> \/ \E l \in Texts : lines = <<l>>
        PROVE  OnTheWayBack(h, toHost') /\ (Hopeful' => Hopeful \/ lines = <<TextLine(Success)>>)
    <2>1. /\ OnTheWayBack(h, toHost')
          /\ \A i \in 1 .. Len(toHost') : toHost'[i] = TextLine(Success) =>
                 \/ lines = <<TextLine(Success)>>
                 \/ \E j \in 1 .. Len(toHost) : toHost[j] = TextLine(Success)
      BY <1>1, <1>3, HandlingAnswers
    <2>2. (\E j \in 1 .. Len(toHost) : toHost[j] = TextLine(Success)) => Hopeful
      BY DEF Hopeful
    <2> QED
      BY <1>2, <2>1, <2>2
  <1>4. counts => Body1 = Latest(g)
    BY DEF Handling, Handled, Latest, Parcel
  <1>5. counts => (Body1.kind = "query" => phase = "querying")
                  /\ (Body1.kind \in {"open_raw", "open_heatshrink"} => phase = "opening")
                  /\ (Body1.kind = "write" => phase = "writing")
                  /\ (Body1.kind = "close" => phase = "closing")
                  /\ (Body1 = ControlClose => phase = "leaving")
    BY <1>1, <1>4, KindTells DEF ControlClose, Plain
  <1>6. phase' = phase /\ counts' = counts
    BY DEF callerVars, loopVars
  <1>7. CASE AnswersQuery
    <2>1. PICK comp \in DeviceCompression : Answers(Acked(<<TextLine(Version(comp))>>))
      BY <1>7 DEF AnswersQuery
    <2> QED
      BY <1>3, <1>5, <1>6, <1>7, <2>1, TextsDiffer DEF AnswersQuery, Truthful, Granted
  <1>8. CASE AnswersOpen
    <2>1. PICK word \in {"success", "busy", "fail"} :
             Answers(Acked(Says(word))) /\ file_open' = (file_open \/ word = "success")
      BY <1>8 DEF AnswersOpen
    <2>2. OnTheWayBack(h, toHost') /\ (Hopeful' => Hopeful \/ word = "success")
      BY <1>3, <2>1, TextsDiffer DEF Says, StatusWord
    <2>3. counts => phase' = "opening" /\ (Hopeful => file_open)
      BY <1>1, <1>5, <1>6, <1>8 DEF AnswersOpen, Truthful, Granted
    <2>4. file_open \/ word = "success" => file_open'
      BY <2>1, Zenon
    <2> QED
      BY <1>6, <2>2, <2>3, <2>4 DEF Truthful, Granted
  <1>9. CASE AnswersWrite \/ AnswersControlClose
    <2>1. OnTheWayBack(h, toHost')
      BY <1>3, <1>9 DEF AnswersWrite, AnswersControlClose
    <2> QED
      BY <1>5, <1>6, <1>9, <2>1 DEF AnswersWrite, AnswersControlClose, Truthful, Granted
  <1>10. CASE AnswersClose
    <2>1. ASSUME Answers(Acked(Says("success"))), closed' = TRUE
          PROVE  OnTheWayBack(h, toHost') /\ Truthful'
      <3>1. OnTheWayBack(h, toHost')
        BY <1>3, <2>1, TextsDiffer DEF Says, StatusWord
      <3> QED
        BY <1>5, <1>6, <1>10, <2>1, <3>1 DEF AnswersClose, Truthful, Granted
    <2>2. ASSUME Answers(Acked(Says("ioerror"))), UNCHANGED closed
          PROVE  OnTheWayBack(h, toHost') /\ Truthful'
      <3>1. OnTheWayBack(h, toHost') /\ (Hopeful' => Hopeful)
        BY <1>3, <2>2, TextsDiffer DEF Says, StatusWord
      <3> QED
        BY <1>1, <1>5, <1>6, <1>10, <2>2, <3>1 DEF AnswersClose, Truthful, Granted
    <2>3. ASSUME ~counts, Answers(Acked(<<>>))
          PROVE  OnTheWayBack(h, toHost') /\ Truthful'
      BY <1>3, <1>6, <2>3 DEF Truthful
    <2> QED
      BY <1>10, <2>1, <2>2, <2>3 DEF AnswersClose
  <1> QED
    BY <1>7, <1>8, <1>9, <1>10 DEF Handles

(* The file on the device, in a step of the promise. *)
FileStep ==
    \/ StoredLen' = StoredLen /\ closed' = closed
    \/ /\ payload # None /\ ~closed
       /\ StoredLen' \in (StoredLen + 1) .. payload /\ closed' = closed
    \/ /\ payload # None /\ StoredLen = payload
       /\ StoredLen' = StoredLen /\ closed' = TRUE

LEMMA HandlingDoes ==
    ASSUME SyncMod > 1, UploadInv, NEW g \in Parcel, NEW h \in Parcel, Handling(g, h),
           Delivering(g), step = "read", HearsFrame, Handles,
           UNCHANGED <<callerVars, counts>>,
           expected' = IF counts THEN NextSync(expected) ELSE expected
    PROVE  Receiver(h)' /\ File(h)' /\ FileStep
  <1>1. Receiver(g) /\ File(g) /\ Sender(g) /\ kept \in Seq(Chunk)
    BY DEF Delivering, UploadInv, WireInv
  <1>2. UNCHANGED <<phase, step, sync, payload, bytes_sent, chunk_size, counts>>
    BY DEF callerVars, fileVars, vars, loopVars, statVars
  <1>3. CASE ~g.got /\ h.got
    <2>1. Waits(g) /\ Waits(h) /\ Body1 = g.cur /\ Handled(h) = g.cur
          /\ (counts => expected = sync)
      BY <1>1, <1>3 DEF Handling, Handled, Waits, Receiver
    <2>2. /\ Body1.kind = "query" <=> phase = "querying"
          /\ Body1.kind \in {"open_raw", "open_heatshrink"} <=> phase = "opening"
          /\ Body1.kind = "write" <=> phase = "writing"
          /\ Body1.kind = "close" <=> phase = "closing"
          /\ Body1 = ControlClose => phase = "leaving"
      BY <1>1, <2>1, KindTells DEF Latest, ControlClose, Plain
    <2>3. Stored(g) = bytes_sent /\ StoredLen = bytes_sent
      BY <1>1, <1>3, <2>1 DEF Stored, File
    <2>4. Stored(h)' = IF phase = "writing" THEN bytes_sent + NextLength ELSE bytes_sent
      BY <1>2, <1>3 DEF Stored, NextLength
    <2>5. /\ expected' = IF counts' THEN IF h.got THEN NextSync(sync)' ELSE sync' ELSE InitialSync
          /\ h.prev = SyncBody => sync' = InitialSync
      BY <1>1, <1>2, <1>3, <2>1 DEF Receiver, Handling, NextSync
    <2>6. CASE AnswersWrite
      <3>1. phase = "writing" /\ InWrite /\ (file_open \/ ~counts)
        BY <1>1, <2>2, <2>6 DEF AnswersWrite, File, InWrite
      <3>2. Body1.chunk = NextChunk /\ Body1.chunk \in Chunk
        <4>1. Head(toDevice) = toDevice[1] /\ 1 \in 1 .. Len(toDevice) /\ Head(toDevice) # Trigger
          BY DEF HearsFrame, Arrived, UploadInv, WireInv
        <4>2. Body1.chunk \in Chunk
          BY <2>6, <4>1 DEF AnswersWrite, Body1, UploadInv, BodiesFit, Fits, Handling
        <4> QED
          BY <1>1, <2>1, <3>1, <4>2 DEF Sender
      <3>3. kept' = Append(kept, NextChunk)
        BY <2>6, <3>1, <3>2 DEF AnswersWrite
      <3>4. NextChunk.from = StoredLen /\ ChunkEnd(NextChunk) = bytes_sent + NextLength
        BY <2>3 DEF NextChunk, ChunkEnd
      <3>5. /\ Contiguous' /\ StoredLen' = bytes_sent + NextLength
            /\ kept' # <<>> /\ kept'[Len(kept')] = NextChunk
        BY <1>1, <1>2, <3>2, <3>3, <3>4, OneMoreChunk DEF File
      <3>6. Receiver(h)'
        <4>1. Handled(h).kind = "write" /\ Handled(h).chunk = NextChunk /\ Handled(h) # ControlClose
          BY <2>1, <2>6, <3>2 DEF AnswersWrite, ControlClose, Plain
        <4> QED
          BY <2>5, <3>5, <4>1 DEF Receiver
      <3>7. UNCHANGED <<closed, file_open>>
        BY <2>6 DEF AnswersWrite
      <3>8. File(h)'
        BY <1>1, <1>2, <2>4, <3>1, <3>5, <3>7 DEF File
      <3>9. FileStep
        <4>1. payload # None /\ StoredLen' \in (StoredLen + 1) .. payload
          BY <2>3, <3>1, <3>5, PieceInFlight
        <4> QED
          BY <1>1, <3>1, <3>7, <4>1 DEF File, FileStep
      <3> QED
        BY <3>6, <3>8, <3>9
    <2>7. CASE Body1.kind # "write" /\ UNCHANGED kept
      <3>1. StoredLen' = StoredLen /\ Contiguous' /\ StoredLen' = Stored(h)'
        BY <1>1, <1>2, <2>2, <2>3, <2>4, <2>7, SameFile DEF File
      <3>2. CASE Body1.kind # "close" /\ UNCHANGED closed /\ (counts => file_open' = file_open \/ phase # "writing")
        <4>1. File(h)' /\ FileStep
          BY <1>1, <1>2, <3>1, <3>2 DEF File, FileStep
        <4>2. Handled(h) = ControlClose => ~binary'
          BY <2>1, <2>7, <3>2 DEF Handles, AnswersControlClose, AnswersQuery, AnswersOpen,
             AnswersWrite, AnswersClose, ControlClose, Plain
        <4> QED
          BY <2>1, <2>5, <2>7, <3>2, <4>1, <4>2 DEF Receiver
      <3>3. CASE AnswersClose
        <4>1. phase = "closing" /\ Body1.kind = "close" /\ closed' \in {TRUE, closed}
              /\ (~counts => closed' = TRUE)
          BY <2>2, <3>3 DEF AnswersClose
        <4>2. payload # None /\ StoredLen = payload
          BY <1>1, <2>3, <4>1 DEF File
        <4>3. File(h)' /\ FileStep
          BY <1>1, <1>2, <3>1, <4>1, <4>2 DEF File, FileStep
        <4>4. Receiver(h)'
          BY <1>2, <2>1, <2>5, <4>1 DEF Receiver, ControlClose, Plain
        <4> QED
          BY <4>3, <4>4
      <3>4. CASE AnswersQuery \/ AnswersOpen \/ AnswersControlClose
        BY <2>2, <3>2, <3>4 DEF AnswersQuery, AnswersOpen, AnswersControlClose, ControlClose, Plain
      <3> QED
        BY <2>7, <3>3, <3>4 DEF Handles, AnswersWrite
    <2>8. AnswersWrite \/ (Body1.kind # "write" /\ UNCHANGED kept)
      BY DEF Handles, AnswersQuery, AnswersOpen, AnswersClose, AnswersControlClose, ControlClose,
             Plain
    <2> QED
      BY <2>6, <2>7, <2>8
  <1>4. CASE ~counts /\ h = g
    <2>1. Body1 = Handled(g) /\ Body1 # SyncBody /\ ~counts
      BY <1>4 DEF Handling
    <2>2. /\ Body1.kind = "write" => kept # <<>> /\ kept[Len(kept)] = Body1.chunk
          /\ Body1.kind = "close" => closed
          /\ Body1 = ControlClose => ~binary
      BY <1>1, <2>1 DEF Receiver
    <2>3. Stored(g)' = Stored(g)
      BY <1>2 DEF Stored, NextLength
    <2>4. CASE UNCHANGED kept
      <3>1. closed' = closed
        <4>1. CASE AnswersClose
          BY <1>1, <2>1, <2>2, <4>1 DEF AnswersClose, File
        <4> QED
          BY <4>1 DEF Handles, AnswersQuery, AnswersOpen, AnswersWrite, AnswersControlClose
      <3>2. Body1 = ControlClose => ~binary'
        BY DEF Handles, AnswersQuery, AnswersOpen, AnswersWrite, AnswersClose,
               AnswersControlClose, ControlClose, Plain
      <3>3. StoredLen' = StoredLen /\ Contiguous'
        BY <1>1, <1>2, <2>4, SameFile DEF File
      <3>4. Receiver(g)'
        BY <1>1, <1>2, <2>1, <2>4, <3>1, <3>2 DEF Receiver
      <3> QED
        BY <1>1, <1>2, <1>4, <2>3, <3>1, <3>3, <3>4 DEF File, FileStep
    <2>5. CASE AnswersWrite
      <3>1. /\ Body1.kind = "write" /\ kept' = Append(kept, Body1.chunk)
            /\ kept # <<>> /\ kept[Len(kept)] = Body1.chunk
            /\ UNCHANGED <<binary, file_open, closed>>
        BY <2>1, <2>2, <2>5 DEF AnswersWrite
      <3>2. Len(kept) \in 1 .. Len(kept) /\ Body1.chunk \in Chunk
        BY <1>1, <3>1
      <3>3. StoredLen = ChunkEnd(Body1.chunk)
        BY <3>1 DEF StoredLen
      <3>4. /\ Contiguous' /\ StoredLen' = StoredLen
            /\ kept' # <<>> /\ kept'[Len(kept')] = Body1.chunk
        BY <1>1, <1>2, <2>1, <3>1, <3>2, <3>3, OneMoreChunk DEF File
      <3>5. Receiver(g)'
        BY <1>1, <1>2, <2>1, <3>1, <3>4 DEF Receiver
      <3> QED
        BY <1>1, <1>2, <1>4, <2>3, <3>1, <3>4, <3>5 DEF File, FileStep
    <2> QED
      BY <2>4, <2>5 DEF Handles, AnswersQuery, AnswersOpen, AnswersClose, AnswersControlClose
  <1> QED
    BY <1>3, <1>4 DEF Handling

-----------------------------------------------------------------------------
(* A device that does nothing, and what it says then.                      *)
LEMMA DeviceIdle ==
    ASSUME NEW g \in Parcel, Delivering(g), UNCHANGED callerVars, OnTheWay(g)',
           OnTheWayBack(g, toHost'),
           UNCHANGED <<counts, block, expected, file_open, kept, closed>>,
           UNCHANGED binary \/ Handled(g) = SyncBody,
           \A i \in 1 .. Len(toHost') : toHost'[i] = TextLine(Success) =>
              \E j \in 1 .. Len(toHost) : toHost[j] = TextLine(Success)
    PROVE  Delivering(g)' /\ FileStep
  <1>1. /\ UNCHANGED <<sync, phase, step, statVars>>
        /\ Sender(g)' /\ Waiter(g)'
    BY CallerStays DEF Delivering, callerVars, fileVars, vars, loopVars
  <1>2. OnTheWayBack(g, toHost)'
    BY <1>1, WayStays
  <1>3. Receiver(g)'
    BY <1>1, ReceiverStays DEF Delivering, Receiver, NextSync
  <1>4. File(g)' /\ FileStep
    BY <1>1, FileStays, SameFile DEF Delivering, FileStep
  <1>5. Hopeful' => Hopeful
    BY DEF Hopeful, AllFailed, callerVars, fileVars, vars, ftVars, transferVars, loopVars
  <1>6. Truthful'
    BY <1>1, <1>5, TruthStays DEF Delivering
  <1> QED
    BY <1>1, <1>2, <1>3, <1>4, <1>6 DEF Delivering

LEMMA OneLineJoins ==
    ASSUME NEW S, NEW s \in Seq(S), NEW l, l # TextLine(Success)
    PROVE  \A i \in 1 .. Len(Append(s, l)) : Append(s, l)[i] = TextLine(Success) =>
              \E j \in 1 .. Len(s) : s[j] = TextLine(Success)
  BY ItemJoins

LEMMA EnvironmentDelivers ==
    ASSUME SyncMod > 1, UploadInv, NEW g \in Parcel, Delivering(g), Environment
    PROVE  (\E h \in Parcel : Delivering(h)') /\ FileStep
  <1> DEFINE all == OldLines(g) \cup NewLines(g) \cup SomeTexts(g) \cup OtherLines
  <1>1. /\ UNCHANGED <<callerVars, counts, block, sync>> /\ step = "read"
        /\ sync \in Sync /\ expected \in Sync
        /\ toHost \in Seq(all) /\ OnTheWay(g) /\ OnTheWayBack(g, toHost)
        /\ Receiver(g)
    <2>1. UNCHANGED <<counts, block>>
      BY DeviceStaysItself DEF LinkNext
    <2> QED
      BY <2>1 DEF Environment, callerVars, fileVars, vars, UploadInv, SessionInv, TypeOK,
                  WireInv, Delivering, OnTheWayBack
  <1> HIDE DEF all
  <1>2. ASSUME OnTheWay(g)', OnTheWayBack(g, toHost'), UNCHANGED deviceVars,
               \A i \in 1 .. Len(toHost') : toHost'[i] = TextLine(Success) =>
                  \E j \in 1 .. Len(toHost) : toHost[j] = TextLine(Success)
        PROVE  (\E h \in Parcel : Delivering(h)') /\ FileStep
    BY <1>1, <1>2, DeviceIdle DEF deviceVars
  <1>3. UNCHANGED toDevice => OnTheWay(g)'
    BY <1>1, WayStays
  <1>4. ASSUME UNCHANGED toHost
        PROVE  /\ OnTheWayBack(g, toHost')
               /\ \A i \in 1 .. Len(toHost') : toHost'[i] = TextLine(Success) =>
                     \E j \in 1 .. Len(toHost) : toHost[j] = TextLine(Success)
    BY <1>1, <1>4
  <1>5. ASSUME NEW l, toHost' = Append(toHost, l), l # TextLine(Success)
        PROVE  \A i \in 1 .. Len(toHost') : toHost'[i] = TextLine(Success) =>
                  \E j \in 1 .. Len(toHost) : toHost[j] = TextLine(Success)
    BY <1>1, <1>5, OneLineJoins
  <1>6. CASE LoseFrame
    <2>1. OnTheWay(g)' /\ UNCHANGED toHost /\ UNCHANGED deviceVars
      BY <1>1, <1>6, ItemGoes DEF LoseFrame
    <2> QED
      BY <1>2, <1>4, <2>1
  <1>7. CASE LoseLine
    <2>1. toHost # <<>> /\ toHost' = Tail(toHost) /\ UNCHANGED <<toDevice, deviceVars>>
      BY <1>7 DEF LoseLine
    <2>2. OnTheWayBack(g, toHost')
      BY <1>1, <2>1, FirstLeaves DEF OnTheWayBack, all
    <2>3. \A i \in 1 .. Len(toHost') : i + 1 \in 1 .. Len(toHost) /\ toHost'[i] = toHost[i + 1]
      BY <1>1, <2>1, ItemLeaves
    <2>4. \A i \in 1 .. Len(toHost') : toHost'[i] = TextLine(Success) =>
             \E j \in 1 .. Len(toHost) : toHost[j] = TextLine(Success)
      BY <2>3
    <2> QED
      BY <1>2, <1>3, <2>1, <2>2, <2>4
  <1>8. CASE DeviceFails
    <2>1. toHost' = Append(toHost, FeLine) /\ UNCHANGED <<toDevice, deviceVars>>
      BY <1>8 DEF DeviceFails
    <2>2. OnTheWayBack(g, toHost') /\ FeLine # TextLine(Success)
      BY <1>1, <2>1, BackJoins DEF OtherLines, FeLine, TextLine
    <2> QED
      BY <1>2, <1>3, <1>5, <2>1, <2>2
  <1>9. ASSUME Arrived, toDevice' = Tail(toDevice)
        PROVE  /\ OnTheWay(g)'
               /\ Head(toDevice) \in OldFrames(g) \cup NewFrames(g)
               /\ g.got => Head(toDevice) \notin OldFrames(g)
               /\ Head(toDevice) \in NewFrames(g) =>
                     \A h : h.prev = g.prev /\ h.cur = g.cur => OnTheWay(h)'
    BY <1>1, <1>9, ItemGoes DEF Arrived
  <1>10. ASSUME NEW lines, Answers(lines)
         PROVE  toDevice' = Tail(toDevice)
                /\ (lines = <<>> => UNCHANGED toHost)
                /\ \A l : lines = <<l>> \/ lines = Append(<<>>, l) => toHost' = Append(toHost, l)
    BY <1>1, <1>10, AnswerJoins DEF Answers
  <1>11. CASE HearsTrigger
    <2>1. Handled(g) = SyncBody
      <3>1. Trigger \in OldFrames(g) \cup NewFrames(g) /\ (g.got => Trigger \notin OldFrames(g))
        BY <1>9, <1>10, <1>11 DEF HearsTrigger
      <3>2. Trigger \notin NewFrames(g)
        BY TriggerIsNoFrame DEF NewFrames, Trigger
      <3>3. g.prev = SyncBody
        BY <3>1, <3>2, <1>1 DEF OldFrames, Trigger
      <3> QED
        BY <3>1, <3>2, <3>3 DEF Handled
    <2>2. OnTheWay(g)' /\ UNCHANGED toHost
          /\ UNCHANGED <<counts, block, expected, file_open, kept, closed>>
      BY <1>9, <1>10, <1>11 DEF HearsTrigger
    <2> QED
      BY <1>1, <1>4, <2>1, <2>2, DeviceIdle
  <1>12. CASE IgnoresFrame
    BY <1>2, <1>4, <1>9, <1>10, <1>12 DEF IgnoresFrame
  <1>13. CASE AsksAgain
    <2>1. toHost' = Append(toHost, RsLine(ResendNumber)) /\ OnTheWay(g)' /\ UNCHANGED deviceVars
      BY <1>9, <1>10, <1>13 DEF AsksAgain, HearsFrame
    <2>2. RsLine(ResendNumber) \in OtherLines
      BY <1>13, ResendIsSync DEF AsksAgain, UploadInv, OtherLines
    <2>3. OnTheWayBack(g, toHost') /\ RsLine(ResendNumber) # TextLine(Success)
      BY <1>1, <2>1, <2>2, BackJoins DEF RsLine, TextLine
    <2> QED
      BY <1>2, <1>5, <2>1, <2>3
  <1>14. CASE AnswersSync
    <2>1. /\ toHost' = Append(toHost, SsLine(expected, block)) /\ OnTheWay(g)'
          /\ UNCHANGED deviceVars /\ Body1 = SyncBody /\ Head(toDevice) # Trigger
          /\ Head(toDevice) \in OldFrames(g) \cup NewFrames(g)
          /\ g.got => Head(toDevice) \notin OldFrames(g)
      BY <1>9, <1>10, <1>14 DEF AnswersSync, HearsFrame
    <2>2. g.prev = SyncBody /\ ~g.got
      BY <2>1 DEF Body1, NewFrames, OldFrames, Waits
    <2>3. SsLine(expected, block) \in OldLines(g)
      BY <1>1, <2>2 DEF OldLines, Receiver, Parcel
    <2>4. OnTheWayBack(g, toHost') /\ SsLine(expected, block) # TextLine(Success)
      BY <1>1, <2>1, <2>2, <2>3, BackJoins DEF SsLine, TextLine
    <2> QED
      BY <1>2, <1>5, <2>1, <2>4
  <1> DEFINE frame == Head(toDevice)
  <1>15. ASSUME DataHeard, toDevice' = Tail(toDevice)
         PROVE  /\ OldCopy(g, frame) \/ NewCopy(g, frame)
                /\ OnTheWay(g)'
                /\ NewCopy(g, frame) => \A h : h.prev = g.prev /\ h.cur = g.cur => OnTheWay(h)'
    BY <1>1, <1>9, <1>15, Copies DEF DataHeard, HearsFrame, Body1, NewCopy
  <1>16. CASE FirmwareRefuses
    <2> DEFINE lines == IF NextSync(frame.sync) = expected THEN Acked(<<>>) ELSE <<>>
    <2>1. /\ counts /\ DataHeard /\ frame.sync # expected /\ Answers(lines)
          /\ UNCHANGED deviceVars /\ toDevice' = Tail(toDevice)
      BY <1>10, <1>16 DEF FirmwareRefuses
    <2>2. OnTheWay(g)' /\ (OldCopy(g, frame) \/ NewCopy(g, frame))
      BY <1>15, <2>1
    <2>3. CASE lines = <<>>
      BY <1>2, <1>4, <1>10, <2>1, <2>2, <2>3
    <2>4. CASE lines = Append(<<>>, OkLine(frame.sync))
      <3>1. toHost' = Append(toHost, OkLine(frame.sync))
        BY <1>10, <2>1, <2>4
      <3>2. /\ OldCopy(g, frame) => ~g.got /\ OkLine(frame.sync) \in OldLines(g)
            /\ NewCopy(g, frame) => g.got /\ frame.sync = sync
        BY <1>1, <2>1 DEF OldCopy, NewCopy, Receiver, Parcel
      <3>3. OnTheWayBack(g, toHost') /\ OkLine(frame.sync) # TextLine(Success)
        BY <1>1, <2>2, <3>1, <3>2, BackJoins DEF OkLine, TextLine
      <3> QED
        BY <1>2, <1>5, <2>1, <2>2, <3>1, <3>3
    <2> QED
      BY <2>3, <2>4 DEF Acked
  <1>17. CASE FakeHandles \/ FirmwareHandles
    <2>1. /\ DataHeard /\ HearsFrame /\ Handles /\ toDevice' = Tail(toDevice)
          /\ expected' = IF counts THEN NextSync(expected) ELSE expected
          /\ counts => frame.sync = expected
      <3>1. Handles => toDevice' = Tail(toDevice)
        BY <1>10 DEF Handles, AnswersQuery, AnswersOpen, AnswersWrite, AnswersClose,
                     AnswersControlClose
      <3> QED
        BY <1>17, <3>1 DEF FakeHandles, FirmwareHandles, DataHeard
    <2>2. ASSUME NEW h \in Parcel, Handling(g, h), OnTheWay(h)'
          PROVE  (\E p \in Parcel : Delivering(p)') /\ FileStep
      <3>1. OnTheWayBack(h, toHost') /\ Truthful' /\ Receiver(h)' /\ File(h)' /\ FileStep
        BY <1>1, <2>1, <2>2, HandlingTells, HandlingDoes
      <3>2. OnTheWayBack(h, toHost)'
        BY <1>1, <3>1, WayStays
      <3>3. Sender(h)' /\ Waiter(h)'
        BY <1>1, <2>2, CallerStays DEF Delivering, Handling
      <3> QED
        BY <2>2, <3>1, <3>2, <3>3 DEF Delivering
    <2>3. OldCopy(g, frame) \/ NewCopy(g, frame)
      BY <1>15, <2>1
    <2>4. CASE OldCopy(g, frame)
      <3>1. ~counts /\ ~g.got /\ Handled(g) = Body1 /\ Body1 # SyncBody
        BY <1>1, <2>1, <2>4 DEF OldCopy, Receiver, Handled, Body1, DataHeard
      <3>2. Handling(g, g)
        BY <2>4, <3>1 DEF Handling, OldCopy
      <3> QED
        BY <1>15, <2>1, <2>2, <3>2
    <2>5. CASE NewCopy(g, frame)
      <3>1. PICK h \in Parcel : h.prev = g.prev /\ h.cur = g.cur /\ h.got = TRUE
        BY AParcel DEF Parcel
      <3>2. /\ Waits(g) /\ frame.sync = sync /\ Body1 = g.cur /\ Body1 # SyncBody
            /\ counts => ~g.got
        BY <1>1, <2>1, <2>5, NextSyncIsInjective
           DEF NewCopy, Receiver, Body1, DataHeard, Parcel
      <3>3. CASE ~g.got
        BY <1>15, <2>1, <2>2, <2>5, <3>1, <3>2, <3>3 DEF Handling, Handled
      <3>4. CASE g.got
        <4>1. Handling(g, g)
          BY <3>2, <3>4 DEF Handling, Handled
        <4> QED
          BY <1>15, <2>1, <2>2, <4>1
      <3> QED
        BY <3>3, <3>4
    <2> QED
      BY <2>3, <2>4, <2>5
  <1> QED
    BY <1>6, <1>7, <1>8, <1>11, <1>12, <1>13, <1>14, <1>16, <1>17 DEF Environment

-----------------------------------------------------------------------------
(* The caller, within a loop.                                              *)
LEMMA Ends ==
    ASSUME NEW with, Return(with), with # Outcome("Ok")
    PROVE  DeliveryInv'
  BY DEF Return, DeliveryInv, OkMeansUploaded, IdleOnSuccess

LEMMA GoesOn ==
    ASSUME NEW g \in Parcel, Delivering(g)', step' # "returned"
    PROVE  DeliveryInv'
  BY DEF DeliveryInv

LEMMA SenderGoesOn ==
    ASSUME NEW g, Sender(g), UNCHANGED <<phase, sync, is_synced, queued, statVars>>,
           step' # "done",
           \/ in_flight' = None
           \/ in_flight # None /\ FrameOf(in_flight') = FrameOf(in_flight),
           outbound' \in Seq(NewFrames(g)), step' # "write" => outbound' = <<>>,
           Waits(g) => NoAckThere'
    PROVE  Sender(g)'
  <1>1. NewFrames(g)' = NewFrames(g) /\ NextChunk' = NextChunk
    BY DEF NewFrames, NextChunk, NextLength, statVars
  <1>2. FrameOf(in_flight)' = FrameOf(in_flight')
    BY DEF FrameOf
  <1> QED
    BY <1>1, <1>2 DEF Sender, Prepared

LEMMA WaiterGoesOn ==
    ASSUME NEW g, Waiter(g), UNCHANGED <<phase, state, out_events>>, step' # "done"
    PROVE  Waiter(g)'
  BY DEF Waiter, AllFailed

(* A step that leaves the line on the way back, the transfer and the       *)
(* device alone.                                                           *)
LEMMA LoopGoesOn ==
    ASSUME UploadInv, NEW g \in Parcel, Delivering(g), step \notin {"done", "returned"},
           step' \notin {"done", "returned"}, UNCHANGED <<phase, statVars, deviceVars, toHost>>,
           UNCHANGED <<sync, is_synced, queued, state, pending_ascii, out_events>>,
           OnTheWay(g)',
           \/ in_flight' = None
           \/ in_flight # None /\ FrameOf(in_flight') = FrameOf(in_flight),
           outbound' \in Seq(NewFrames(g)), step' # "write" => outbound' = <<>>,
           events' = events \/ \E e : events' = Append(events, e) /\ e.type \notin {"Ack", "AsciiLine"}
    PROVE  DeliveryInv'
  <1>1. /\ OnTheWayBack(g, toHost)' /\ Receiver(g)' /\ Waiter(g)' /\ File(g)'
    BY WayStays, ReceiverStays, WaiterGoesOn, FileStays DEF Delivering, deviceVars
  <1>2. \A i \in 1 .. Len(events') : events'[i].type \in {"Ack", "AsciiLine"} =>
           i \in 1 .. Len(events) /\ events'[i] = events[i]
    <2>1. CASE events' = events
      BY <2>1
    <2>2. ASSUME NEW e, events' = Append(events, e), e.type \notin {"Ack", "AsciiLine"}
          PROVE  \A i \in 1 .. Len(events') : events'[i].type \in {"Ack", "AsciiLine"} =>
                    i \in 1 .. Len(events) /\ events'[i] = events[i]
      <3>1. events \in Seq(Event)
        BY DEF UploadInv, SessionInv, TypeOK
      <3> QED
        BY <2>2, <3>1, ItemJoins
    <2> QED
      BY <2>1, <2>2
  <1>3. Sender(g)'
    <2>1. Waits(g) => NoAckThere'
      BY <1>2 DEF Delivering, Sender, NoAckThere
    <2> QED
      BY <2>1, SenderGoesOn DEF Delivering
  <1>4. Truthful'
    <2>1. Hopeful' => Hopeful
      BY <1>2 DEF Hopeful, AllFailed, AsciiLine
    <2> QED
      BY <2>1, TruthStays DEF Delivering, deviceVars
  <1> QED
    BY <1>1, <1>3, <1>4, GoesOn DEF Delivering

LEMMA FailuresAreNotOk ==
    /\ \A kind : kind # "Ok" => Outcome(kind) # Outcome("Ok")
    /\ \A error : Transfer(error) # Outcome("Ok")
  <1>1. \A kind : Outcome(kind).outcome = kind
    BY DEF Outcome
  <1>2. \A error : Transfer(error).outcome = "Transfer"
    BY DEF Transfer
  <1> QED
    BY <1>1, <1>2

LEMMA NothingQueuedThere ==
    ASSUME queued = <<>>, NEW flight, NEW n, DispatchIfIdle(flight, queued, n)
    PROVE  in_flight' = flight /\ queued' = <<>> /\ UNCHANGED outbound
  BY DEF DispatchIfIdle

LEMMA WritesOutDelivers ==
    ASSUME SyncMod > 1, UploadInv, NEW g \in Parcel, Delivering(g), WritesOut, UNCHANGED deviceVars
    PROVE  DeliveryInv'
  <1>1. /\ step = "write" /\ sync \in Sync /\ outbound \in Seq(NewFrames(g)) /\ OnTheWay(g)
        /\ UNCHANGED <<phase, toHost, statVars, ftVars, counts, block>>
        /\ UNCHANGED <<sync, is_synced, queued, in_flight, events>>
    BY DEF WritesOut, Goto, PollOutbound, loopVars, vars, deviceVars, Delivering, Sender,
           UploadInv, SessionInv, TypeOK
  <1>2. CASE outbound = <<>> /\ Goto("read") /\ UNCHANGED <<vars, toDevice>>
    <2>1. OnTheWay(g)' /\ step' = "read"
      BY <1>1, <1>2, WayStays DEF Goto
    <2> QED
      BY <1>1, <1>2, <2>1, LoopGoesOn DEF vars, ftVars, transferVars
  <1>3. CASE PollOutbound /\ toDevice' = Carry(toDevice, Head(outbound)) /\ UNCHANGED loopVars
    <2> DEFINE both == OldFrames(g) \cup NewFrames(g)
    <2>1. /\ Head(outbound) \in NewFrames(g) /\ Tail(outbound) \in Seq(NewFrames(g))
          /\ outbound' = Tail(outbound)
      BY <1>1, <1>3 DEF PollOutbound
    <2>2. Head(outbound) \notin OldFrames(g)
      BY <1>1, <2>1, OldIsNotNew
    <2>3. /\ toDevice \in Seq(both) /\ Ordered(toDevice, OldFrames(g), NewFrames(g))
          /\ g.got => NoneOf(toDevice, OldFrames(g))
      BY <1>1 DEF OnTheWay
    <2>4. Head(outbound) \in both
      BY <2>1
    <2> HIDE DEF both
    <2>5. /\ toDevice' \in Seq(both) /\ Ordered(toDevice', OldFrames(g), NewFrames(g))
          /\ g.got => NoneOf(toDevice', OldFrames(g))
      BY <1>3, <2>2, <2>3, <2>4, LastJoins DEF Carry
    <2>6. OldFrames(g)' = OldFrames(g) /\ NewFrames(g)' = NewFrames(g)
      BY <1>1, SameParcel
    <2>7. OnTheWay(g)'
      BY <1>1, <2>5, <2>6 DEF OnTheWay, both
    <2>8. step' = "write" /\ UNCHANGED phase
      BY <1>1, <1>3 DEF loopVars
    <2> QED
      BY <1>1, <2>1, <2>7, <2>8, LoopGoesOn DEF Delivering, Sender, ftVars, transferVars
  <1> QED
    BY <1>2, <1>3 DEF WritesOut

LEMMA ReadsDeliver ==
    ASSUME UploadInv, NEW g \in Parcel, Delivering(g), UNCHANGED deviceVars,
           ReadWaits \/ ReadTimesOut \/ ReadReturnsNothing \/ FeedEnds
    PROVE  DeliveryInv'
  <1>1. /\ step \in {"read", "feed"} /\ step' \in {"read", "drain"}
        /\ UNCHANGED <<phase, lineVars, statVars, ftVars, counts, block>>
        /\ Elapse \/ UNCHANGED vars
    BY DEF ReadWaits, ReadTimesOut, ReadReturnsNothing, FeedEnds, Brings, Goto, loopVars,
           deviceVars, fileVars
  <1>2. /\ UNCHANGED <<sync, is_synced, queued, events, outbound>>
        /\ in_flight' = in_flight \/ (in_flight # None /\ FrameOf(in_flight') = FrameOf(in_flight))
    BY <1>1 DEF Elapse, vars, FrameOf, UploadInv, SessionInv, TypeOK, InFlight
  <1>3. OnTheWay(g)'
    BY <1>1, <1>2, WayStays DEF lineVars, Delivering
  <1>4. outbound' = <<>> /\ outbound' \in Seq(NewFrames(g))
    BY <1>1, <1>2 DEF Delivering, Sender
  <1> QED
    BY <1>1, <1>2, <1>3, <1>4, LoopGoesOn DEF lineVars, ftVars, transferVars

LEMMA TicksDeliver ==
    ASSUME UploadInv, NEW g \in Parcel, Delivering(g), UNCHANGED deviceVars, Ticks
    PROVE  DeliveryInv'
  <1>1. /\ step = "tick" /\ NextTurn /\ UNCHANGED <<lineVars, statVars, ftVars, counts, block>>
        /\ outbound \in Seq(NewFrames(g)) /\ queued = <<>>
        /\ in_flight # None => FrameOf(in_flight) \in NewFrames(g)
    BY DEF Ticks, deviceVars, Delivering, Sender
  <1>2. /\ UNCHANGED <<sync, is_synced, queued>> /\ outbound' \in Seq(NewFrames(g))
        /\ \/ in_flight' = None
           \/ in_flight # None /\ FrameOf(in_flight') = FrameOf(in_flight)
        /\ events' = events \/
              \E e : events' = Append(events, e) /\ e.type \notin {"Ack", "AsciiLine"}
    <2>1. CASE NothingDue /\ UNCHANGED vars
      BY <1>1, <2>1 DEF vars
    <2>2. CASE TickTimeout
      <3>1. /\ UNCHANGED <<sync, is_synced>> /\ queued' = <<>>
            /\ in_flight' = None /\ UNCHANGED outbound
        BY <1>1, <2>2, NothingQueuedThere DEF TickTimeout, AfterTimeout
      <3>2. \E e : events' = Append(events, e) /\ e.type \notin {"Ack", "AsciiLine"}
        <4>1. Timeout(in_flight.sync).type = "Timeout"
          BY DEF Timeout
        <4> QED
          BY <2>2, <4>1 DEF TickTimeout, Emit
      <3> QED
        BY <1>1, <3>1, <3>2
    <2>3. CASE TickRetransmit
      <3>1. in_flight # None /\ in_flight \in InFlight /\ FrameOf(in_flight') = FrameOf(in_flight)
        BY <2>3 DEF TickRetransmit, SentNow, FrameOf, UploadInv, SessionInv, TypeOK, InFlight
      <3>2. outbound' = Append(outbound, FrameOf(in_flight))
        BY <2>3 DEF TickRetransmit, Retransmission
      <3> QED
        BY <1>1, <2>3, <3>1, <3>2 DEF TickRetransmit
    <2> QED
      BY <2>1, <2>2, <2>3 DEF Ticks, Tick
  <1>3. OnTheWay(g)'
    BY <1>1, <1>2, WayStays DEF lineVars, Delivering
  <1>4. CASE iteration + 1 < Iterations
    <2>1. step' = "write" /\ UNCHANGED phase
      BY <1>1, <1>4 DEF NextTurn
    <2> QED
      BY <1>1, <1>2, <1>3, <2>1, LoopGoesOn DEF lineVars, ftVars, transferVars
  <1>5. CASE ~(iteration + 1 < Iterations)
    <2>1. Return(Outcome("HandshakeFailed")) \/ Return(Outcome("Stalled"))
      BY <1>1, <1>5 DEF NextTurn
    <2> QED
      BY <2>1, Ends, FailuresAreNotOk
  <1> QED
    BY <1>4, <1>5

-----------------------------------------------------------------------------
(* The caller drains the events.                                           *)
LEMMA DrainGoesOn ==
    ASSUME UploadInv, NEW g \in Parcel, Delivering(g), step = "drain",
           step' \notin {"done", "returned"},
           UNCHANGED <<phase, statVars, lineVars, deviceVars>>,
           UNCHANGED <<sync, is_synced, in_flight, queued, outbound>>,
           events' = events \/ (events # <<>> /\ events' = Tail(events)),
           Waiter(g)', Truthful'
    PROVE  DeliveryInv'
  <1>1. /\ OnTheWay(g)' /\ OnTheWayBack(g, toHost)' /\ Receiver(g)' /\ File(g)'
    BY WayStays, ReceiverStays, FileStays DEF Delivering, deviceVars, lineVars
  <1>2. events \in Seq(Event)
    BY DEF UploadInv, SessionInv, TypeOK
  <1>3. NoAckThere => NoAckThere'
    BY <1>2, ItemLeaves DEF NoAckThere
  <1>4. outbound = <<>> /\ outbound \in Seq(NewFrames(g)) /\ Sender(g) /\ (Waits(g) => NoAckThere)
        /\ FrameOf(in_flight') = FrameOf(in_flight)
    BY DEF Delivering, Sender
  <1>5. Sender(g)'
    BY <1>3, <1>4, SenderGoesOn
  <1> QED
    BY <1>1, <1>5, GoesOn DEF Delivering

(* What transfers hear and say. *)
LEMMA RepliesDiffer ==
    /\ \A a, b : Reply(a) = Reply(b) => a = b
    /\ \A comp : QueryVersion(comp) \notin {Reply("OpenSuccess"), Reply("CloseSuccess")}
    /\ \A comp : QueryVersion(comp).reply = "QueryVersion"
    /\ \A kind : Reply(kind).reply = kind
    /\ \A text \in FileText : text.pft = "success" => text = Success
    /\ Chatter # Success
  <1>1. \A kind : Reply(kind).reply = kind
    BY DEF Reply
  <1>2. \A comp : QueryVersion(comp).reply = "QueryVersion"
    BY DEF QueryVersion
  <1>3. \A text \in FileText : text.pft = "success" => text = Success
    BY DEF FileText, Version, Status, Chatter, Success
  <1>4. Chatter.pft = "other" /\ Success.pft = "success"
    BY DEF Chatter, Success, Status
  <1> QED
    BY <1>1, <1>2, <1>3, <1>4

LEMMA SuccessIsHeard ==
    ASSUME NEW text \in FileText, HandleAsciiLine(text),
           pending_ascii' \in {Reply("OpenSuccess"), Reply("CloseSuccess")}
    PROVE  text = Success \/ pending_ascii' = pending_ascii
  <1>1. CASE HandleVersion(text.compression)
    <2>1. VersionReply(text.compression) \notin {Reply("OpenSuccess"), Reply("CloseSuccess")}
      BY RepliesDiffer DEF VersionReply
    <2> QED
      BY <1>1, <2>1 DEF HandleVersion
  <1>2. CASE HandleStatus(text.pft) /\ pending_ascii' # pending_ascii
    <2>1. Understood(text.pft) /\ pending_ascii' = Reply(StatusReply[state][text.pft])
      BY <1>2 DEF HandleStatus
    <2>2. StatusReply[state][text.pft] \in {"OpenSuccess", "CloseSuccess"}
      BY <2>1, RepliesDiffer
    <2>3. text.pft = "success"
      BY <2>1, <2>2 DEF Understood, StatusReply
    <2> QED
      BY <2>3, RepliesDiffer
  <1> QED
    BY <1>1, <1>2 DEF HandleAsciiLine

(* What becomes of the transfer that waits when the ok comes: its one      *)
(* event says so.                                                          *)
LEMMA AckConcludes ==
    ASSUME FileInv, HandleAck
    PROVE  \/ UNCHANGED <<state, out_events>> /\ state \notin Awaiting
           \/ /\ state \in Awaiting
              /\ \E event : out_events' = Append(out_events, event)
                    /\ state' \notin Awaiting
                    /\ (event.type = "Failed" <=> state' = "Failed")
                    /\ \/ event.type = "Failed"
                       \/ pending_ascii \in {Reply("OpenSuccess"), Reply("CloseSuccess")}
                       \/ state \notin {"AwaitingOpenReply", "AwaitingCloseReply"}
  <1>1. ASSUME NEW error, Fail(error), state \in Awaiting
        PROVE  \E event : out_events' = Append(out_events, event)
                  /\ state' \notin Awaiting
                  /\ (event.type = "Failed" <=> state' = "Failed")
                  /\ event.type = "Failed"
    <2>1. Failed(error).type = "Failed"
      BY DEF Failed
    <2> QED
      BY <1>1, <2>1 DEF Fail, Move, Awaiting
  <1>2. ASSUME NEW to, NEW event, Move(to, event), to \notin Awaiting \cup {"Failed"},
               event.type # "Failed", state \in Awaiting,
               \/ pending_ascii \in {Reply("OpenSuccess"), Reply("CloseSuccess")}
               \/ state \notin {"AwaitingOpenReply", "AwaitingCloseReply"}
        PROVE  \E e : out_events' = Append(out_events, e)
                  /\ state' \notin Awaiting
                  /\ (e.type = "Failed" <=> state' = "Failed")
                  /\ \/ e.type = "Failed"
                     \/ pending_ascii \in {Reply("OpenSuccess"), Reply("CloseSuccess")}
                     \/ state \notin {"AwaitingOpenReply", "AwaitingCloseReply"}
    BY <1>2 DEF Move
  <1>3. \A type : Progress(type).type = type
    BY DEF Progress
  <1>4. \A comp : Negotiated(comp).type = "Negotiated"
    BY DEF Negotiated
  <1>5. CASE AckOfWrite
    <2>1. state = "AwaitingWriteAck" /\ state \in Awaiting
      BY <1>5 DEF AckOfWrite, Awaiting
    <2>2. CASE pending_ascii = None
      BY <1>2, <1>3, <1>5, <2>1, <2>2 DEF AckOfWrite, Awaiting
    <2>3. CASE pending_ascii # None
      BY <1>1, <1>5, <2>1, <2>3 DEF AckOfWrite
    <2> QED
      BY <2>1, <2>2, <2>3
  <1>6. CASE BareAck
    <2>1. state \in Awaiting /\ Fail("ProtocolViolation")
      BY <1>6 DEF BareAck, PreambleMissing
    <2> QED
      BY <1>1, <2>1
  <1>7. CASE AckIgnored
    <2>1. state \notin Awaiting
      <3>1. pending_ascii # None /\ state # "Failed" => ReplyComplete
        BY DEF ReplyComplete, FileInv, PendingMatchesState
      <3> QED
        BY <1>7, <3>1 DEF AckIgnored, PreambleMissing, Awaiting
    <2> QED
      BY <1>7, <2>1 DEF AckIgnored
  <1>8. CASE AckWithReply
    <2>1. /\ ReplyComplete /\ Conclude(pending_ascii) /\ pending_ascii \in PendingAscii
          /\ state = ReplyTo[pending_ascii.reply]
      BY <1>8 DEF AckWithReply, ReplyComplete, FileInv, FileTypeOK
    <2>2. pending_ascii.reply \in DOMAIN ReplyTo
      BY <2>1, RepliesDiffer DEF PendingAscii, ReplyTo
    <2>3. state \in Awaiting
      BY <2>1, <2>2 DEF ReplyTo, Awaiting
    <2>4. CASE \E error : Fail(error)
      BY <1>1, <2>3, <2>4
    <2>5. CASE pending_ascii.reply = "QueryVersion" /\ Move("Negotiated", Negotiated(pending_ascii.compression))
      <3>1. state \notin {"AwaitingOpenReply", "AwaitingCloseReply"}
        BY <2>1, <2>5 DEF ReplyTo
      <3> QED
        BY <1>2, <1>4, <2>3, <2>5, <3>1 DEF Awaiting
    <2>6. CASE pending_ascii.reply = "AbortSuccess" /\ Move("Aborted", Progress("AbortAcked"))
      <3>1. state \notin {"AwaitingOpenReply", "AwaitingCloseReply"}
        BY <2>1, <2>6 DEF ReplyTo
      <3> QED
        BY <1>2, <1>3, <2>3, <2>6, <3>1 DEF Awaiting
    <2>7. ASSUME NEW kind \in {"OpenSuccess", "CloseSuccess"}, pending_ascii.reply = kind
          PROVE  pending_ascii = Reply(kind)
      BY <2>1, <2>7, RepliesDiffer DEF PendingAscii
    <2>8. CASE pending_ascii.reply = "OpenSuccess" /\ Move("Opened", Progress("Opened"))
      BY <1>2, <1>3, <2>3, <2>7, <2>8 DEF Awaiting
    <2>9. CASE pending_ascii.reply = "CloseSuccess" /\ Move("Closed", Progress("Closed"))
      BY <1>2, <1>3, <2>3, <2>7, <2>9 DEF Awaiting
    <2> QED
      BY <2>1, <2>3, <2>4, <2>5, <2>6, <2>8, <2>9 DEF Conclude
  <1> QED
    BY <1>5, <1>6, <1>7, <1>8 DEF HandleAck

LEMMA PollHandleDelivers ==
    ASSUME UploadInv, NEW g \in Parcel, Delivering(g), step = "drain", phase \in TransferPhase,
           PollHandle, UNCHANGED <<loopVars, statVars, lineVars, deviceVars>>
    PROVE  DeliveryInv'
  <1> DEFINE e == Head(events)
  <1>1. /\ events # <<>> /\ events' = Tail(events) /\ HandleSessionEvent(e)
        /\ UNCHANGED <<sync, is_synced, in_flight, queued, outbound>>
        /\ UNCHANGED <<phase, step, toHost, counts, file_open, closed>>
        /\ Waiter(g) /\ Truthful /\ FileInv /\ out_events \in Seq(FileEvent)
    BY DEF PollHandle, PollEvent, loopVars, lineVars, deviceVars, Delivering, UploadInv,
           FileInv, FileTypeOK
  <1>2. /\ e = events[1] /\ 1 \in 1 .. Len(events)
        /\ \A i \in 1 .. Len(events') : i + 1 \in 1 .. Len(events) /\ events'[i] = events[i + 1]
    <2>1. events \in Seq(Event)
      BY DEF UploadInv, SessionInv, TypeOK
    <2> QED
      BY <1>1, <2>1, ItemLeaves
  <1>3. e.type = "AsciiLine" => e.text \in FileText /\ e = AsciiLine(e.text)
    <2>1. e \in Event
      BY <1>1 DEF UploadInv, SessionInv, TypeOK
    <2> QED
      BY <2>1, FileTextAssumption
         DEF Event, Synced, Ack, ResendRequested, AsciiLine, FatalError, OutOfSync, Timeout
  <1> HIDE DEF e
  <1>4. ASSUME Waiter(g)', Truthful'
        PROVE  DeliveryInv'
    BY <1>1, <1>4, DrainGoesOn
  <1>5. ASSUME Hopeful'
        PROVE  \/ Hopeful
               \/ pending_ascii' \in {Reply("OpenSuccess"), Reply("CloseSuccess")}
               \/ ~AllFailed'
    BY <1>1, <1>2, <1>5 DEF Hopeful
  <1>6. CASE UNCHANGED <<state, out_events>>
    <2>1. Waiter(g)'
      BY <1>1, <1>6, WaiterGoesOn
    <2>2. AllFailed' = AllFailed
      BY <1>6 DEF AllFailed
    <2>3. pending_ascii' \in {Reply("OpenSuccess"), Reply("CloseSuccess")} => Hopeful
      <3>1. SUFFICES ASSUME pending_ascii' \in {Reply("OpenSuccess"), Reply("CloseSuccess")}
                     PROVE  Hopeful
        OBVIOUS
      <3>2. pending_ascii' = pending_ascii => Hopeful
        BY <3>1 DEF Hopeful
      <3>3. CASE e.type = "AsciiLine" /\ HandleAsciiLine(e.text)
        <4>1. e.text = Success \/ pending_ascii' = pending_ascii
          BY <1>3, <3>1, <3>3, SuccessIsHeard
        <4> QED
          BY <1>2, <1>3, <3>2, <3>3, <4>1 DEF Hopeful
      <3>4. pending_ascii' # None
        BY <3>1, FileNoneAssumption DEF PendingAscii, ReplyTo
      <3> QED
        BY <1>1, <3>2, <3>3, <3>4 DEF HandleSessionEvent, HandleAck, transferVars
    <2>4. Hopeful' => Hopeful
      BY <1>5, <2>2, <2>3 DEF Hopeful
    <2>5. Truthful'
      BY <1>1, <2>4, TruthStays
    <2> QED
      BY <1>4, <2>1, <2>5
  <1>7. CASE HandleAck /\ e.type = "Ack" /\ state \in Awaiting
    <2>1. ~Waits(g)
      BY <1>2, <1>7 DEF Delivering, Sender, NoAckThere
    <2>2. PICK event :
             /\ out_events' = Append(out_events, event) /\ state' \notin Awaiting
             /\ (event.type = "Failed" <=> state' = "Failed")
             /\ \/ event.type = "Failed"
                \/ pending_ascii \in {Reply("OpenSuccess"), Reply("CloseSuccess")}
                \/ state \notin {"AwaitingOpenReply", "AwaitingCloseReply"}
      BY <1>1, <1>7, AckConcludes
    <2>3. out_events = <<>> /\ state = StateOf[phase]
      BY <1>1, <1>7 DEF Waiter
    <2>4. Len(out_events') = 1 /\ out_events'[1] = event
      BY <2>2, <2>3
    <2>5. Waiter(g)'
      BY <1>1, <2>1, <2>2, <2>4 DEF Waiter
    <2>6. AllFailed' \/ event.type # "Failed"
      BY <2>4 DEF AllFailed
    <2>7. Truthful'
      <3>1. CASE event.type = "Failed" \/ pending_ascii \in {Reply("OpenSuccess"), Reply("CloseSuccess")}
        <4>1. pending_ascii' = None
          BY <1>7 DEF HandleAck
        <4>2. pending_ascii' \notin {Reply("OpenSuccess"), Reply("CloseSuccess")}
          BY <4>1, FileNoneAssumption DEF PendingAscii, ReplyTo
        <4>3. Hopeful' => Hopeful
          BY <1>5, <2>6, <3>1, <4>2 DEF Hopeful
        <4> QED
          BY <1>1, <4>3, TruthStays
      <3>2. CASE state \notin {"AwaitingOpenReply", "AwaitingCloseReply"}
        <4>1. phase \notin {"opening", "closing"}
          BY <2>3, <3>2 DEF StateOf
        <4> QED
          BY <1>1, <4>1 DEF Truthful, Granted
      <3> QED
        BY <2>2, <3>1, <3>2
    <2> QED
      BY <1>4, <2>5, <2>7
  <1>8. ASSUME NEW error, Fail(error), UNCHANGED pending_ascii
        PROVE  DeliveryInv'
    <2>1. state' = "Failed" /\ out_events' = Append(out_events, Failed(error))
      BY <1>8 DEF Fail, Move
    <2>2. \A i \in 1 .. Len(out_events') :
             \/ out_events'[i].type = "Failed"
             \/ i \in 1 .. Len(out_events) /\ out_events'[i] = out_events[i]
      <3>1. Failed(error).type = "Failed"
        BY DEF Failed
      <3> QED
        BY <1>1, <2>1, <3>1, ItemJoins
    <2>3. AllFailed => AllFailed'
      BY <2>2 DEF AllFailed
    <2>4. Waiter(g)'
      BY <1>1, <2>1, <2>2, <2>3 DEF Waiter, Awaiting
    <2>5. Hopeful' => Hopeful
      BY <1>5, <1>8, <2>3 DEF Hopeful
    <2>6. Truthful'
      BY <1>1, <2>5, TruthStays
    <2> QED
      BY <1>4, <2>4, <2>6
  <1>9. CASE e.type = "Ack" /\ HandleAck
    <2>1. UNCHANGED <<state, out_events>> \/ state \in Awaiting
      BY <1>1, <1>9, AckConcludes
    <2> QED
      BY <1>6, <1>7, <1>9, <2>1
  <1>10. CASE e.type = "AsciiLine" /\ HandleAsciiLine(e.text)
    BY <1>6, <1>10 DEF HandleAsciiLine, HandleVersion, HandleStatus
  <1>11. CASE UNCHANGED transferVars
    BY <1>6, <1>11 DEF transferVars
  <1> QED
    BY <1>1, <1>8, <1>9, <1>10, <1>11 DEF HandleSessionEvent

(* The loop has got what it is for.                                        *)
LEMMA LoopDoneDelivers ==
    ASSUME UploadInv, NEW g \in Parcel, Delivering(g), ~Waits(g), step = "drain", LoopDone,
           UNCHANGED <<lineVars, deviceVars, sync, is_synced, in_flight, queued, outbound>>,
           Waiter(g)', phase \in {"opening", "closing"} => Hopeful
    PROVE  DeliveryInv'
  <1>1. /\ step' = "done" /\ UNCHANGED <<phase, chunk_size, payload>>
        /\ UNCHANGED <<toDevice, toHost, sync, counts, block, expected, kept, closed, binary,
                       file_open>>
        /\ bytes_sent' = IF phase = "writing" THEN bytes_sent + NextLength ELSE bytes_sent
    BY DEF LoopDone, Goto, lineVars, deviceVars
  <1>2. OnTheWay(g)' /\ OnTheWayBack(g, toHost)' /\ Receiver(g)'
    BY <1>1, WayStays, ReceiverStays DEF Delivering
  <1>3. Sender(g)'
    <2>1. NewFrames(g) = {} /\ NewFrames(g)' = {} /\ outbound = <<>>
      BY DEF NewFrames, Delivering, Sender
    <2> QED
      BY <1>1, <2>1 DEF Delivering, Sender, Prepared
  <1>4. File(g)'
    <2>1. Stored(g) = bytes_sent' /\ Stored(g)' = bytes_sent'
      BY <1>1 DEF Stored
    <2>2. phase \in {"closing", "leaving"} => bytes_sent' = bytes_sent
      BY <1>1
    <2> QED
      BY <1>1, <2>1, <2>2, SameFile DEF Delivering, File
  <1>5. Truthful'
    BY <1>1 DEF Delivering, Truthful, Granted
  <1> QED
    BY <1>1, <1>2, <1>3, <1>4, <1>5, GoesOn DEF Delivering

LEMMA PollReturnDelivers ==
    ASSUME UploadInv, NEW g \in Parcel, Delivering(g), step = "drain", phase \in TransferPhase,
           PollReturn, UNCHANGED <<lineVars, deviceVars>>,
           IF out_events # <<>> THEN FileVerdict(Head(out_events))
           ELSE Goto("tick") /\ UNCHANGED statVars
    PROVE  DeliveryInv'
  <1>1. /\ events = <<>> /\ out_events' = IF out_events = <<>> THEN <<>> ELSE Tail(out_events)
        /\ UNCHANGED <<events, sync, is_synced, in_flight, queued, outbound, state, pending_ascii>>
        /\ Waiter(g) /\ Truthful /\ out_events \in Seq(FileEvent)
        /\ UNCHANGED <<toHost, counts, file_open, closed>>
    BY DEF PollReturn, vars, Delivering, UploadInv, FileInv, FileTypeOK, lineVars, deviceVars
  <1>2. ASSUME UNCHANGED phase, step' \notin {"done", "returned"}, UNCHANGED statVars,
               Waiter(g)', AllFailed => AllFailed'
        PROVE  DeliveryInv'
    <2>1. Hopeful' => Hopeful
      BY <1>1, <1>2 DEF Hopeful
    <2>2. Truthful'
      BY <1>1, <1>2, <2>1, TruthStays
    <2> QED
      BY <1>1, <1>2, <2>2, DrainGoesOn
  <1>3. CASE out_events = <<>>
    <2>1. UNCHANGED <<phase, out_events, statVars>> /\ step' = "tick"
      BY <1>1, <1>3 DEF Goto
    <2>2. Waiter(g)' /\ AllFailed' = AllFailed
      BY <1>1, <2>1, WaiterGoesOn DEF AllFailed
    <2> QED
      BY <1>2, <2>1, <2>2
  <1>4. CASE out_events # <<>>
    <2> DEFINE event == Head(out_events)
    <2>1. FileVerdict(event) /\ out_events' = Tail(out_events)
      BY <1>1, <1>4
    <2>2. /\ event = out_events[1] /\ 1 \in 1 .. Len(out_events)
          /\ \A i \in 1 .. Len(out_events') :
                i > 0 /\ i + 1 > 1 /\ i + 1 \in 1 .. Len(out_events) /\ out_events'[i] = out_events[i + 1]
      BY <1>1, <1>4, <2>1, ItemLeaves
    <2> HIDE DEF event
    <2>3. AllFailed' /\ state \notin Awaiting /\ (event.type # "Failed" => ~AllFailed)
      BY <1>1, <1>4, <2>2 DEF Waiter, AllFailed
    <2>4. ASSUME UNCHANGED phase
          PROVE  Waiter(g)'
      BY <1>1, <2>2, <2>3, <2>4 DEF Waiter
    <2>5. CASE event.type = AwaitsFile[phase] /\ LoopDone
      <3>1. event.type # "Failed" /\ UNCHANGED phase
        BY <2>5 DEF AwaitsFile, TransferPhase, LoopDone, Goto
      <3>2. ~AllFailed /\ ~Waits(g) /\ Hopeful
        BY <1>1, <2>3, <3>1 DEF Waiter, Hopeful
      <3> QED
        BY <1>1, <2>4, <2>5, <3>1, <3>2, LoopDoneDelivers
    <2>6. CASE event.type = "Failed" /\ Return(Transfer(event.error))
      BY <2>6, Ends, FailuresAreNotOk
    <2>7. CASE UNCHANGED <<loopVars, statVars>>
      BY <1>2, <2>3, <2>4, <2>7 DEF loopVars
    <2> QED
      BY <2>1, <2>5, <2>6, <2>7 DEF FileVerdict
  <1> QED
    BY <1>3, <1>4

LEMMA DrainsDeliver ==
    ASSUME UploadInv, NEW g \in Parcel, Delivering(g), UNCHANGED deviceVars,
           DrainsTransfer \/ DrainsSession
    PROVE  DeliveryInv'
  <1>1. /\ step = "drain" /\ UNCHANGED lineVars
        /\ Waiter(g) /\ Truthful
    BY DEF DrainsTransfer, DrainsSession, Delivering
  <1>2. ASSUME UNCHANGED <<phase, statVars, vars, state, pending_ascii, out_events>>,
               step' \in {"drain", "tick"}
        PROVE  DeliveryInv'
    <2>1. Waiter(g)'
      BY <1>1, <1>2, WaiterGoesOn
    <2>2. Hopeful' => Hopeful
      BY <1>1, <1>2 DEF Hopeful, AllFailed, vars, lineVars
    <2>3. Truthful'
      BY <1>1, <1>2, <2>2, TruthStays DEF deviceVars
    <2> QED
      BY <1>1, <1>2, <2>1, <2>3, DrainGoesOn DEF vars
  <1>3. CASE DrainsTransfer
    <2>1. CASE PollStart /\ UNCHANGED <<loopVars, statVars>>
      BY <1>1, <1>2, <2>1 DEF PollStart, transferVars, loopVars
    <2>2. CASE PollHandle /\ UNCHANGED <<loopVars, statVars>>
      BY <1>1, <1>3, <2>2, PollHandleDelivers DEF DrainsTransfer
    <2>3. CASE PollReturn /\ IF out_events # <<>> THEN FileVerdict(Head(out_events))
                             ELSE Goto("tick") /\ UNCHANGED statVars
      BY <1>1, <1>3, <2>3, PollReturnDelivers DEF DrainsTransfer
    <2>4. CASE Goto("tick") /\ UNCHANGED <<fileVars, statVars>>
      BY <1>2, <2>4 DEF Goto, fileVars, ftVars, transferVars
    <2> QED
      BY <1>3, <2>1, <2>2, <2>3, <2>4 DEF DrainsTransfer
  <1>4. CASE DrainsSession
    <2>1. phase = "leaving" /\ UNCHANGED <<ftVars, lineVars>>
      BY <1>4, KindTells DEF DrainsSession, SessionPhase, Delivering
    <2>2. CASE Goto("tick") /\ UNCHANGED <<vars, statVars>>
      BY <1>2, <2>1, <2>2 DEF Goto, ftVars, transferVars
    <2>3. CASE PollEvent
      <3> DEFINE type == Head(events).type
      <3>1. /\ events # <<>> /\ events' = Tail(events)
            /\ UNCHANGED <<sync, is_synced, in_flight, queued, outbound>>
        BY <2>3 DEF PollEvent
      <3>2. /\ Head(events) = events[1] /\ 1 \in 1 .. Len(events)
            /\ \A i \in 1 .. Len(events') : i + 1 \in 1 .. Len(events) /\ events'[i] = events[i + 1]
        <4>1. events \in Seq(Event)
          BY DEF UploadInv, SessionInv, TypeOK
        <4> QED
          BY <3>1, <4>1, ItemLeaves
      <3>3. ASSUME UNCHANGED phase
            PROVE  Waiter(g)'
        BY <1>1, <2>1, <3>3 DEF Waiter, AllFailed, ftVars, transferVars, TransferPhase
      <3>4. CASE type = "Ack" /\ LoopDone
        <4>1. ~Waits(g)
          BY <3>2, <3>4 DEF Delivering, Sender, NoAckThere
        <4> QED
          BY <1>1, <2>1, <3>1, <3>3, <3>4, <4>1, LoopDoneDelivers DEF LoopDone, Goto
      <3>5. CASE UNCHANGED <<loopVars, statVars>>
        <4>1. Hopeful' => Hopeful
          BY <1>1, <2>1, <3>2, <3>5
             DEF Hopeful, AllFailed, lineVars, ftVars, transferVars, loopVars
        <4>2. Truthful'
          BY <1>1, <3>5, <4>1, TruthStays DEF deviceVars, loopVars
        <4> QED
          BY <1>1, <3>1, <3>3, <3>5, <4>2, DrainGoesOn DEF loopVars
      <3>6. CASE \E kind \in DOMAIN Verdict : Return(Transfer(Verdict[kind]))
        BY <3>6, Ends, FailuresAreNotOk
      <3> QED
        BY <1>4, <2>1, <2>2, <3>4, <3>5, <3>6 DEF DrainsSession, AwaitedEvent, Awaits
    <2> QED
      BY <1>4, <2>2, <2>3 DEF DrainsSession
  <1> QED
    BY <1>3, <1>4

-----------------------------------------------------------------------------
(* The caller feeds a line to its session.                                 *)
LEMMA LineIsOneOf ==
    ASSUME NEW g \in Parcel, NEW line,
           line \in OldLines(g) \cup NewLines(g) \cup SomeTexts(g) \cup OtherLines
    PROVE  \/ line \in NewLines(g) /\ line = OkLine(sync) /\ g.got /\ line.token = "ok"
                /\ line.sync = sync
           \/ line \in OldLines(g) /\ g.prev # SyncBody /\ line.token = "ok"
                /\ line.sync \in Sync /\ NextSync(line.sync) = sync
           \/ line \in OldLines(g) /\ g.prev = SyncBody /\ line.token = "ss"
                /\ line.sync = InitialSync /\ line.max_block_size = block
           \/ line.token \in {"rs", "fe"}
           \/ line.token = "text" /\ line = TextLine(line.text)
  BY DEF OldLines, NewLines, SomeTexts, Texts, OtherLines, OkLine, SsLine, RsLine, FeLine, TextLine,
         Parcel

(* A line that leaves the packet in flight alone.                          *)
LEMMA LineGoesOn ==
    ASSUME UploadInv, NEW g \in Parcel, Delivering(g), step \in {"read", "feed"}, step' = "feed",
           UNCHANGED <<phase, statVars, deviceVars, ftVars, toDevice>>,
           toHost # <<>>, toHost' = Tail(toHost),
           UNCHANGED <<sync, in_flight, queued, outbound>>, is_synced',
           NEW e, events' = Append(events, e), e.type # "Ack",
           e = AsciiLine(Success) => toHost[1] = TextLine(Success)
    PROVE  DeliveryInv'
  <1> DEFINE all == OldLines(g) \cup NewLines(g) \cup SomeTexts(g) \cup OtherLines
  <1>1. /\ OnTheWay(g)' /\ Receiver(g)' /\ Waiter(g)' /\ File(g)'
    BY WayStays, ReceiverStays, WaiterGoesOn, FileStays
       DEF Delivering, deviceVars, ftVars, transferVars
  <1>2. toHost \in Seq(all) /\ events \in Seq(Event)
    BY DEF Delivering, OnTheWayBack, UploadInv, SessionInv, TypeOK
  <1> HIDE DEF all
  <1>3. OnTheWayBack(g, toHost')
    BY <1>2, FirstLeaves DEF Delivering, OnTheWayBack, all
  <1>4. OnTheWayBack(g, toHost)'
    BY <1>3, WayStays DEF deviceVars
  <1>5. \A i \in 1 .. Len(events') :
           events'[i] = e \/ (i \in 1 .. Len(events) /\ events'[i] = events[i])
    BY <1>2, ItemJoins
  <1>6. Sender(g)'
    <2>1. Waits(g) => NoAckThere'
      BY <1>5 DEF Delivering, Sender, NoAckThere
    <2>2. FrameOf(in_flight') = FrameOf(in_flight) /\ outbound = <<>> /\ is_synced
          /\ outbound \in Seq(NewFrames(g))
      BY DEF Delivering, Sender
    <2> QED
      BY <2>1, <2>2, SenderGoesOn DEF Delivering, Sender
  <1>7. Truthful'
    <2>1. \A i \in 1 .. Len(toHost') : i + 1 \in 1 .. Len(toHost) /\ toHost'[i] = toHost[i + 1]
      BY <1>2, ItemLeaves
    <2>2. 1 \in 1 .. Len(toHost)
      BY <1>2, ItemLeaves
    <2>3. Hopeful' => Hopeful
      BY <1>5, <2>1, <2>2 DEF Hopeful, AllFailed, ftVars, transferVars
    <2> QED
      BY <2>3, TruthStays DEF Delivering, deviceVars
  <1> QED
    BY <1>1, <1>4, <1>6, <1>7, GoesOn DEF Delivering

(* The ok that is waited for: what was new is old, and nothing new is out. *)
LEMMA AckDelivers ==
    ASSUME SyncMod > 1, UploadInv, NEW g \in Parcel, Delivering(g), step \in {"read", "feed"},
           step' = "feed", UNCHANGED <<phase, statVars, deviceVars, ftVars, toDevice>>,
           toHost # <<>>, toHost' = Tail(toHost), Head(toHost) \in NewLines(g), g.got,
           sync' = NextSync(sync), is_synced', in_flight' = None, queued' = <<>>,
           outbound' = <<>>, NEW n, events' = Append(events, Ack(n))
    PROVE  DeliveryInv'
  <1>1. PICK h \in Parcel : h.prev = g.cur /\ h.cur = SyncBody /\ h.got = FALSE
    <2>1. g.cur \in Packet /\ SyncBody \in Packet /\ FALSE \in BOOLEAN
      BY DEF Parcel, Packet
    <2> QED
      BY <2>1, AParcel
  <1>2. /\ sync \in Sync /\ sync' \in Sync /\ Waits(g) /\ ~Waits(h) /\ g.cur # SyncBody
        /\ OnTheWay(g) /\ OnTheWayBack(g, toHost) /\ Sender(g) /\ Waiter(g) /\ Receiver(g)
        /\ File(g) /\ Truthful
        /\ Handled(h) = g.cur /\ Handled(g) = g.cur /\ Latest(h) = g.cur /\ Latest(g) = g.cur
        /\ UNCHANGED <<counts, block>>
    BY <1>1, NextSyncInRange
       DEF UploadInv, SessionInv, TypeOK, Delivering, OnTheWay, Waits, Handled, Latest, deviceVars
  <1>3. NewFrames(h)' = {} /\ NewLines(h)' = {}
    BY <1>1, <1>2 DEF NewFrames, NewLines, Waits
  <1>4. OnTheWay(h)'
    <2>1. NewFrames(g) \subseteq OldFrames(h)'
      BY <1>1, <1>2 DEF NewFrames, OldFrames, NextSync
    <2>2. \A i \in 1 .. Len(toDevice) : toDevice[i] \in OldFrames(h)'
      <3> DEFINE both == OldFrames(g) \cup NewFrames(g)
      <3>1. toDevice \in Seq(both) /\ NoneOf(toDevice, OldFrames(g))
        BY <1>2 DEF OnTheWay
      <3>2. \A i \in 1 .. Len(toDevice) : toDevice[i] \in both
        BY <3>1
      <3> QED
        BY <2>1, <3>1, <3>2 DEF NoneOf
    <2>3. toDevice' \in Seq(OldFrames(h)' \cup NewFrames(h)')
      BY <1>2, <2>2, Reviewed DEF OnTheWay
    <2>4. Ordered(toDevice', OldFrames(h)', NewFrames(h)')
      BY <1>3 DEF Ordered
    <2> QED
      BY <1>1, <2>3, <2>4 DEF OnTheWay
  <1>5. OnTheWayBack(h, toHost)'
    <2> DEFINE all == OldLines(g) \cup NewLines(g) \cup SomeTexts(g) \cup OtherLines
               rest == OldLines(h)' \cup NewLines(h)' \cup SomeTexts(h)' \cup OtherLines
    <2>1. /\ toHost \in Seq(all) /\ Ordered(toHost, OldLines(g), NewLines(g))
          /\ counts => Ordered(toHost, Texts, NewLines(g))
      BY <1>2 DEF OnTheWayBack
    <2>2. NewLines(g) \subseteq OldLines(h)' /\ (~counts => SomeTexts(h)' = Texts)
      BY <1>1, <1>2 DEF NewLines, OldLines, SomeTexts, NextSync
    <2>3. all \subseteq OldLines(g) \cup OldLines(h)' \cup Texts \cup OtherLines
      BY <2>2 DEF SomeTexts
    <2> HIDE DEF all
    <2>4. /\ toHost' \in Seq(all) /\ NoneOf(toHost', OldLines(g))
          /\ counts => NoneOf(toHost', Texts)
      BY <2>1, FirstLeaves
    <2>5. \A i \in 1 .. Len(toHost') : toHost'[i] \in all
      BY <2>4
    <2>6. \A i \in 1 .. Len(toHost') : toHost'[i] \in rest
      BY <2>2, <2>3, <2>4, <2>5 DEF NoneOf
    <2> HIDE DEF rest
    <2>7. toHost' \in Seq(rest)
      BY <2>4, <2>6, Reviewed
    <2>8. Ordered(toHost', OldLines(h)', NewLines(h)') /\ Ordered(toHost', Texts, NewLines(h)')
      BY <1>3 DEF Ordered
    <2> QED
      BY <2>7, <2>8 DEF OnTheWayBack, rest
  <1>6. Sender(h)'
    <2>1. outbound' \in Seq(NewFrames(h)')
      BY <1>3
    <2> QED
      BY <1>2, <1>3, <2>1 DEF Sender, Prepared
  <1>7. Waiter(h)'
    BY <1>2 DEF Waiter, ftVars, transferVars
  <1>8. Receiver(h)'
    BY <1>1, <1>2 DEF Receiver, deviceVars
  <1>9. File(h)'
    <2>1. Stored(h)' = Stored(g)
      BY <1>1, <1>2 DEF Stored, NextLength, statVars
    <2> QED
      BY <1>2, <2>1, SameFile DEF File, deviceVars, statVars
  <1>10. Truthful'
    <2>1. toHost \in Seq(OldLines(g) \cup NewLines(g) \cup SomeTexts(g) \cup OtherLines)
          /\ events \in Seq(Event)
      BY <1>2 DEF OnTheWayBack, UploadInv, SessionInv, TypeOK
    <2>2. \A i \in 1 .. Len(toHost') : i + 1 \in 1 .. Len(toHost) /\ toHost'[i] = toHost[i + 1]
      BY <2>1, ItemLeaves
    <2>3. \A i \in 1 .. Len(events') :
             events'[i] = Ack(n) \/ (i \in 1 .. Len(events) /\ events'[i] = events[i])
      BY <2>1, ItemJoins
    <2>4. Ack(n) # AsciiLine(Success)
      BY DEF Ack, AsciiLine
    <2>5. Hopeful' => Hopeful
      BY <2>2, <2>3, <2>4 DEF Hopeful, AllFailed, ftVars, transferVars
    <2> QED
      BY <1>2, <2>5, TruthStays DEF deviceVars
  <1> QED
    BY <1>1, <1>4, <1>5, <1>6, <1>7, <1>8, <1>9, <1>10, GoesOn DEF Delivering

LEMMA FeedsDeliver ==
    ASSUME SyncMod > 1, UploadInv, NEW g \in Parcel, Delivering(g), FeedsLine,
           UNCHANGED deviceVars
    PROVE  DeliveryInv'
  <1> DEFINE line == Head(toHost)
             all == OldLines(g) \cup NewLines(g) \cup SomeTexts(g) \cup OtherLines
  <1>1. /\ step \in {"read", "feed"} /\ step' = "feed" /\ toHost # <<>> /\ toHost' = Tail(toHost)
        /\ UNCHANGED <<phase, statVars, ftVars, toDevice>>
        /\ ProcessLine(line) /\ sync \in Sync
        /\ toHost \in Seq(all) /\ is_synced /\ queued = <<>> /\ outbound = <<>>
        /\ in_flight # None => FrameOf(in_flight) \in NewFrames(g)
        /\ Receiver(g)
    BY DEF FeedsLine, Brings, Delivering, OnTheWayBack, Sender, UploadInv, SessionInv, TypeOK
  <1>2. line \in all /\ line = toHost[1]
    BY <1>1, ItemLeaves
  <1> HIDE DEF line, all
  <1>3. \/ line \in NewLines(g) /\ line = OkLine(sync) /\ g.got /\ line.token = "ok"
             /\ line.sync = sync
        \/ line \in OldLines(g) /\ g.prev # SyncBody /\ line.token = "ok"
             /\ line.sync \in Sync /\ NextSync(line.sync) = sync
        \/ line \in OldLines(g) /\ g.prev = SyncBody /\ line.token = "ss"
             /\ line.sync = InitialSync /\ line.max_block_size = block
        \/ line.token \in {"rs", "fe"}
        \/ line.token = "text" /\ line = TextLine(line.text)
    BY <1>2, LineIsOneOf DEF all
  <1>4. in_flight # None => Waits(g) /\ in_flight.sync = sync /\ in_flight.body = g.cur
    BY <1>1 DEF NewFrames, FrameOf, Waits
  <1>5. ASSUME NEW e, Emit(e), UNCHANGED <<sync, in_flight, queued, outbound>>, is_synced',
               e.type # "Ack", e = AsciiLine(Success) => line = TextLine(Success)
        PROVE  DeliveryInv'
    BY <1>1, <1>2, <1>5, LineGoesOn DEF Emit
  <1>6. ASSUME NEW e, Surface(e), e.type # "Ack", e = AsciiLine(Success) => line = TextLine(Success)
        PROVE  DeliveryInv'
    BY <1>1, <1>5, <1>6 DEF Surface
  <1>7. \A text : AsciiLine(text) = AsciiLine(Success) => text = Success
    <2>1. \A text : AsciiLine(text).text = text
      BY DEF AsciiLine
    <2> QED
      BY <2>1
  <1>8. CASE line.token = "ok" /\ HandleOk(line.sync)
    <2>1. CASE in_flight = None
      <3>1. Emit(AsciiLine(StrayOk)) /\ UNCHANGED <<sync, is_synced, in_flight, queued, outbound>>
        BY <1>8, <2>1 DEF HandleOk
      <3>2. AsciiLine(StrayOk) # AsciiLine(Success) /\ AsciiLine(StrayOk).type = "AsciiLine"
        BY <1>7, RepliesDiffer, FileTextAssumption DEF AsciiLine
      <3> QED
        BY <1>1, <1>5, <3>1, <3>2
    <2>2. CASE in_flight # None /\ ~Retires(line.sync)
      <3> DEFINE e == OutOfSync(in_flight.sync, line.sync)
      <3>1. Emit(e) /\ UNCHANGED <<sync, is_synced, in_flight, queued, outbound>>
        BY <1>8, <2>2 DEF HandleOk
      <3>2. e.type = "OutOfSync" /\ e # AsciiLine(Success)
        BY DEF OutOfSync, AsciiLine
      <3> QED
        BY <1>1, <1>5, <3>1, <3>2
    <2>3. CASE in_flight # None /\ Retires(line.sync)
      <3>1. line.sync = sync
        BY <1>4, <2>3 DEF Retires
      <3>2. line \in NewLines(g) /\ g.got
        BY <1>1, <1>3, <1>8, <3>1, NextSyncIsInjective
      <3>3. /\ sync' = NextSync(sync) /\ events' = Append(events, Ack(line.sync))
            /\ in_flight' = None /\ queued' = <<>> /\ outbound' = <<>> /\ is_synced'
        BY <1>1, <1>8, <2>3, NothingQueuedThere DEF HandleOk, Emit
      <3> QED
        BY <1>1, <3>2, <3>3, AckDelivers DEF line
    <2> QED
      BY <2>1, <2>2, <2>3
  <1>9. CASE line.token = "ss" /\ HandleSs(line.sync, line.max_block_size)
    <2>1. line.sync = InitialSync /\ g.prev = SyncBody
      BY <1>3, <1>9
    <2>2. sync' = sync
      BY <1>1, <1>9, <2>1, NextSyncIsInjective DEF HandleSs, Receiver
    <2>3. UNCHANGED <<in_flight, queued, outbound>> /\ is_synced' /\ Emit(Synced(line.max_block_size))
      <3>1. ~(in_flight # None /\ IsHandshake(in_flight))
        BY <1>4 DEF IsHandshake, Waits
      <3> QED
        BY <1>1, <1>9, <3>1, NothingQueuedThere DEF HandleSs
    <2>4. Synced(line.max_block_size).type = "Synced"
          /\ Synced(line.max_block_size) # AsciiLine(Success)
      BY DEF Synced, AsciiLine
    <2> QED
      BY <1>5, <2>2, <2>3, <2>4
  <1>10. CASE line.token = "text" /\ Surface(AsciiLine(line.text))
    <2>1. line = TextLine(line.text)
      BY <1>3, <1>10
    <2>2. AsciiLine(line.text).type = "AsciiLine"
      BY DEF AsciiLine
    <2> QED
      BY <1>6, <1>7, <1>10, <2>1, <2>2
  <1>11. CASE \/ line.token = "rs" /\ Surface(ResendRequested(line.sync))
              \/ line.token = "fe" /\ Surface(FatalError)
    <2>1. /\ ResendRequested(line.sync).type = "ResendRequested"
          /\ FatalError.type = "FatalError" /\ AsciiLine(Success).type = "AsciiLine"
      BY DEF ResendRequested, FatalError, AsciiLine
    <2> QED
      BY <1>6, <1>11, <2>1
  <1> QED
    BY <1>1, <1>3, <1>8, <1>9, <1>10, <1>11 DEF ProcessLine

-----------------------------------------------------------------------------
(* The straight-line code.  Between two loops nothing is in flight, the    *)
(* last packet is acknowledged, and all that is out is old.                *)
Between(g) ==
    /\ step = "done" /\ ~Waits(g) /\ ~g.got
    /\ in_flight = None /\ queued = <<>> /\ outbound = <<>> /\ is_synced
    /\ NewFrames(g) = {} /\ NewLines(g) = {}

LEMMA Pause ==
    ASSUME UploadInv, NEW g \in Parcel, Delivering(g), step = "done"
    PROVE  /\ Between(g)
           /\ phase \in {"querying", "opening", "writing", "closing", "leaving"}
           /\ phase # "leaving" => events = <<>> /\ AllFailed
           /\ phase # "leaving" /\ state \notin Awaiting \cup {"Failed"} =>
                 out_events = <<>> /\ pending_ascii = None
  <1>1. Sender(g) /\ Waiter(g) /\ OnTheWay(g)
    BY DEF Delivering
  <1>2. ~Waits(g) /\ ~g.got
    BY <1>1 DEF Sender, OnTheWay, Parcel
  <1>3. NewFrames(g) = {} /\ NewLines(g) = {}
    BY <1>2 DEF NewFrames, NewLines
  <1>4. in_flight = None /\ queued = <<>> /\ outbound = <<>> /\ is_synced
    BY <1>1, <1>3 DEF Sender
  <1>5. phase \in {"querying", "opening", "writing", "closing", "leaving"}
    BY <1>1, KindTells
  <1>6. phase # "leaving" => phase \in TransferPhase
    BY <1>5 DEF TransferPhase
  <1>7. phase # "leaving" => events = <<>> /\ AllFailed
    BY <1>1, <1>6 DEF Waiter
  <1>8. ASSUME phase # "leaving", state \notin Awaiting \cup {"Failed"}
        PROVE  out_events = <<>> /\ pending_ascii = None
    <2>1. \A i \in 1 .. Len(out_events) : FALSE
      BY <1>1, <1>6, <1>7, <1>8 DEF Waiter, AllFailed
    <2>2. out_events \in Seq(FileEvent) /\ pending_ascii \in PendingAscii \cup {None}
      BY DEF UploadInv, FileInv, FileTypeOK
    <2>3. out_events = <<>>
      BY <2>1, <2>2
    <2>4. ASSUME pending_ascii # None
          PROVE  FALSE
      <3>1. state = ReplyTo[pending_ascii.reply]
        BY <1>8, <2>4 DEF UploadInv, FileInv, PendingMatchesState
      <3>2. pending_ascii.reply \in DOMAIN ReplyTo
        BY <2>2, <2>4, RepliesDiffer DEF PendingAscii, ReplyTo
      <3> QED
        BY <1>8, <3>1, <3>2 DEF ReplyTo, Awaiting
    <2> QED
      BY <2>3, <2>4
  <1> QED
    BY <1>2, <1>3, <1>4, <1>5, <1>7, <1>8 DEF Between

(* The next packet goes out.                                               *)
LEMMA Submits ==
    ASSUME queued = <<>>, in_flight = None, outbound = <<>>, NEW packet, Enqueue(packet)
    PROVE  /\ in_flight' = Launched(sync, packet) /\ queued' = <<>>
           /\ outbound' = <<[sync |-> sync, body |-> packet]>>
           /\ FrameOf(in_flight') = [sync |-> sync, body |-> packet]
           /\ UNCHANGED <<sync, is_synced, max_block_size, events>>
  <1>1. Append(queued, packet) # <<>> /\ Head(Append(queued, packet)) = packet
        /\ Tail(Append(queued, packet)) = <<>>
    OBVIOUS
  <1>2. Append(outbound, [sync |-> sync, body |-> packet]) = <<[sync |-> sync, body |-> packet]>>
    OBVIOUS
  <1> QED
    BY <1>1, <1>2 DEF Enqueue, DispatchIfIdle, Launched, FrameOf

LEMMA NextRequest ==
    ASSUME SyncMod > 1, UploadInv, NEW g \in Parcel, Delivering(g), step = "done",
           NEW packet \in Packet, packet # SyncBody, Send(packet), NEW loop, Enter(loop),
           loop \in TransferPhase \cup {"leaving"}, packet.kind \in KindsOf[loop],
           phase # "leaving",
           loop = "leaving" => packet = ControlClose,
           loop = "writing" => packet.chunk = NextChunk,
           UNCHANGED <<lineVars, statVars, deviceVars, out_events, pending_ascii>>,
           loop \in TransferPhase =>
              state' = StateOf[loop] /\ out_events = <<>> /\ pending_ascii = None,
           loop = "leaving" => closed,
           loop # "leaving" => ~closed,
           loop \in {"closing", "leaving"} => payload # None /\ bytes_sent = payload,
           counts /\ loop = "writing" => file_open
    PROVE  DeliveryInv'
  <1>1. PICK h \in Parcel : h.prev = g.prev /\ h.cur = packet /\ h.got = FALSE
    <2>1. g.prev \in Packet
      BY DEF Parcel
    <2> DEFINE fresh == [prev |-> g.prev, cur |-> packet, got |-> FALSE]
    <2>2. fresh \in Parcel /\ fresh.prev = g.prev /\ fresh.cur = packet /\ fresh.got = FALSE
      BY <2>1 DEF Parcel
    <2> QED
      BY <2>2
  <1> DEFINE frame == [sync |-> sync, body |-> packet]
  <1>2. /\ Between(g) /\ Delivering(g) /\ events = <<>> /\ AllFailed /\ sync \in Sync
        /\ phase' = loop /\ step' = "write"
    BY Pause DEF Enter, UploadInv, SessionInv, TypeOK
  <1>3. /\ UNCHANGED <<sync, is_synced, events, toDevice, toHost, counts, block, expected>>
        /\ UNCHANGED <<binary, file_open, kept, closed>>
        /\ queued' = <<>> /\ outbound' = <<frame>> /\ FrameOf(in_flight') = frame
    <2>1. Enqueue(packet) /\ queued = <<>> /\ in_flight = None /\ outbound = <<>>
      BY <1>2 DEF Send, Between
    <2>2. /\ UNCHANGED <<sync, is_synced, events>>
          /\ queued' = <<>> /\ outbound' = <<frame>> /\ FrameOf(in_flight') = frame
      BY <2>1, Submits
    <2> QED
      BY <2>2 DEF lineVars, deviceVars
  <1>4. Waits(h) /\ Latest(h) = packet /\ Handled(h) = g.prev /\ Handled(g) = g.prev
    BY <1>1, <1>2 DEF Waits, Latest, Handled, Between
  <1>5. NewFrames(h)' = {frame} /\ NewLines(h)' = {} /\ OldFrames(h)' = OldFrames(g)
        /\ OldLines(h)' = OldLines(g) /\ SomeTexts(h)' = SomeTexts(g)
    <2>1. NewFrames(h) = {frame} /\ NewLines(h) = {} /\ OldFrames(h) = OldFrames(g)
          /\ OldLines(h) = OldLines(g) /\ SomeTexts(h) = SomeTexts(g)
      BY <1>1, <1>2, <1>4
         DEF NewFrames, NewLines, OldFrames, OldLines, SomeTexts, Between
    <2> QED
      BY <1>3, <2>1, SameParcel
  <1>6. OnTheWay(h)'
    <2>1. toDevice \in Seq(OldFrames(g)) /\ frame \notin OldFrames(g)
      <3>1. NewFrames(h) = {frame}
        BY <1>1, <1>4 DEF NewFrames
      <3>2. OldFrames(h) = OldFrames(g)
        BY <1>1 DEF OldFrames
      <3>3. frame \notin OldFrames(g)
        BY <1>2, <3>1, <3>2, OldIsNotNew
      <3> QED
        BY <1>2, <3>3 DEF Delivering, OnTheWay, Between
    <2>2. \A i \in 1 .. Len(toDevice) : toDevice[i] \notin {frame}
      BY <2>1
    <2>3. Ordered(toDevice, OldFrames(g), {frame})
      BY <2>2 DEF Ordered
    <2>4. toDevice \in Seq(OldFrames(g) \cup {frame})
      BY <2>1
    <2> QED
      BY <1>1, <1>3, <1>5, <2>3, <2>4 DEF OnTheWay
  <1>7. OnTheWayBack(h, toHost)'
    BY <1>2, <1>3, <1>5 DEF Delivering, OnTheWayBack, Between
  <1>8. Sender(h)'
    <2>1. NextChunk' = NextChunk
      BY DEF NextChunk, NextLength, statVars
    <2>2. NoAckThere' /\ is_synced
      BY <1>2, <1>3 DEF NoAckThere, Between
    <2>3. <<frame>> \in Seq({frame})
      OBVIOUS
    <2> QED
      BY <1>2, <1>3, <1>4, <1>5, <2>1, <2>2, <2>3, <1>1 DEF Sender, Prepared
  <1>9. AllFailed' /\ Waiter(h)'
    <2>1. AllFailed'
      BY <1>2 DEF AllFailed
    <2>2. loop \in TransferPhase => state' \in Awaiting /\ state' # "Failed" /\ out_events' = <<>>
      BY DEF StateOf, TransferPhase, Awaiting
    <2> QED
      BY <1>2, <2>1, <2>2 DEF Waiter
  <1>10. Receiver(h)'
    BY <1>1, <1>2, <1>3, <1>4 DEF Delivering, Receiver, Between, NextSync
  <1>11. File(h)'
    <2>1. Stored(g) = bytes_sent /\ Stored(h)' = bytes_sent
      BY <1>1, <1>2, <1>4 DEF Stored, statVars
    <2>2. UNCHANGED <<payload, bytes_sent>> /\ StoredLen' = StoredLen /\ Contiguous' = Contiguous
      BY <1>3, SameFile DEF statVars
    <2> QED
      BY <1>2, <1>3, <2>1, <2>2 DEF Delivering, File
  <1>12. Truthful'
    <2>1. ASSUME counts, loop \in {"opening", "closing"}
          PROVE  ~Hopeful'
      <3>1. \A i \in 1 .. Len(toHost) : toHost[i] # TextLine(Success)
        <4> DEFINE all == OldLines(g) \cup NewLines(g) \cup SomeTexts(g) \cup OtherLines
        <4>1. toHost \in Seq(all)
          BY <1>2 DEF Delivering, OnTheWayBack
        <4>2. SomeTexts(g) = {} /\ NewLines(g) = {}
          BY <1>2, <2>1 DEF SomeTexts, Between
        <4>3. TextLine(Success) \notin all
          BY <4>2 DEF OldLines, OtherLines, OkLine, SsLine, RsLine, FeLine, TextLine
        <4> HIDE DEF all
        <4> QED
          BY <4>1, <4>3
      <3>2. pending_ascii' = None
        BY <2>1 DEF TransferPhase
      <3>3. pending_ascii' \notin {Reply("OpenSuccess"), Reply("CloseSuccess")}
        BY <3>2, FileNoneAssumption DEF PendingAscii, ReplyTo
      <3> QED
        BY <1>2, <1>3, <1>9, <3>1, <3>3 DEF Hopeful
    <2> QED
      BY <1>2, <1>3, <2>1 DEF Truthful, Granted
  <1> QED
    BY <1>1, <1>2, <1>6, <1>7, <1>8, <1>9, <1>10, <1>11, <1>12, GoesOn DEF Delivering
LEMMA OpenOrWriteOrClose ==
    ASSUME SyncMod > 1, UploadInv, NEW g \in Parcel, Delivering(g), UNCHANGED deviceVars,
           StartsOpen \/ StartsWrite \/ StartsClose
    PROVE  DeliveryInv'
  <1>1. /\ step = "done" /\ phase \in {"querying", "opening", "writing"} /\ ~closed
        /\ UNCHANGED <<lineVars, statVars>>
        /\ counts => (phase = "opening" => file_open) /\ (phase = "writing" => file_open)
    BY DEF StartsOpen, StartsWrite, StartsClose, AtChunk, After, Delivering, File, Truthful,
           Hopeful, Granted
  <1>2. ASSUME NEW from, from \notin Awaiting \cup {"Failed"}, NEW loop \in TransferPhase,
               NEW packet \in Body, packet.kind \in KindsOf[loop],
               Request(from, StateOf[loop], packet), Enter(loop),
               UNCHANGED <<out_events, pending_ascii>>,
               loop = "writing" => packet.chunk = NextChunk,
               loop = "closing" => payload # None /\ bytes_sent = payload,
               counts /\ loop = "writing" => file_open
        PROVE  DeliveryInv'
    <2>1. /\ Send(packet) /\ state = from /\ state' = StateOf[loop]
          /\ packet \in Packet /\ packet # SyncBody /\ loop # "leaving"
      BY <1>2, InputsAssumption DEF Request, Packet, TransferPhase
    <2>2. out_events = <<>> /\ pending_ascii = None
      BY <1>1, <1>2, <2>1, Pause
    <2>3. loop \in TransferPhase \cup {"leaving"} /\ phase # "leaving"
          /\ (loop \in {"closing", "leaving"} => payload # None /\ bytes_sent = payload)
      BY <1>1, <1>2, <2>1
    <2> QED
      BY <1>1, <1>2, <2>1, <2>2, <2>3, NextRequest
  <1>3. ASSUME Return(Outcome("Panic"))
        PROVE  DeliveryInv'
    BY <1>3, Ends, FailuresAreNotOk
  <1>4. \A kind : Plain(kind).kind = kind
    BY DEF Plain
  <1>5. CASE StartsOpen
    <2>1. /\ OpenPacket \in Body /\ OpenPacket.kind \in KindsOf["opening"]
      BY <1>4, RequestsAreBodies DEF OpenPacket, KindsOf
    <2>2. CASE Open /\ Enter("opening")
      <3>1. Request("Negotiated", StateOf["opening"], OpenPacket)
            /\ UNCHANGED <<out_events, pending_ascii>>
        BY <2>2 DEF Open, StateOf
      <3>2. "opening" \in TransferPhase /\ "Negotiated" \notin Awaiting \cup {"Failed"}
        BY DEF TransferPhase, Awaiting
      <3> QED
        BY <1>2, <2>1, <2>2, <3>1, <3>2
    <2> QED
      BY <1>3, <1>5, <2>2 DEF StartsOpen, Asserting
  <1>6. CASE StartsWrite
    <2>1. /\ WritePacket(NextChunk) \in Body /\ WritePacket(NextChunk).kind \in KindsOf["writing"]
          /\ WritePacket(NextChunk).chunk = NextChunk
      <3>1. WritePacket(NextChunk) \in Body
        BY <1>6, NextPiece DEF StartsWrite, UploadInv
      <3>2. WritePacket(NextChunk).kind = "write" /\ WritePacket(NextChunk).chunk = NextChunk
        BY DEF WritePacket
      <3> QED
        BY <3>1, <3>2 DEF KindsOf
    <2>2. CASE Write(NextChunk) /\ Enter("writing")
      <3>1. Request("Opened", StateOf["writing"], WritePacket(NextChunk))
            /\ UNCHANGED <<out_events, pending_ascii>>
        BY <2>2 DEF Write, StateOf
      <3>2. "writing" \in TransferPhase /\ "Opened" \notin Awaiting \cup {"Failed"}
        BY DEF TransferPhase, Awaiting
      <3>3. counts => file_open
        BY <1>1, <1>6 DEF StartsWrite, AtChunk, After
      <3> QED
        BY <1>2, <2>1, <2>2, <3>1, <3>2, <3>3
    <2> QED
      BY <1>3, <1>6, <2>2 DEF StartsWrite, Asserting
  <1>7. CASE StartsClose
    <2>1. Plain("close") \in Body /\ Plain("close").kind \in KindsOf["closing"]
      BY <1>4, RequestsAreBodies DEF KindsOf
    <2>2. payload # None /\ bytes_sent = payload
      BY <1>7, UploadAssumption DEF StartsClose, AtChunk, UploadInv, PayloadInv
    <2>3. CASE Close /\ Enter("closing")
      <3>1. Request("Opened", StateOf["closing"], Plain("close"))
            /\ UNCHANGED <<out_events, pending_ascii>>
        BY <2>3 DEF Close, StateOf
      <3>2. "closing" \in TransferPhase /\ "Opened" \notin Awaiting \cup {"Failed"}
        BY DEF TransferPhase, Awaiting
      <3> QED
        BY <1>2, <2>1, <2>2, <2>3, <3>1, <3>2
    <2> QED
      BY <1>3, <1>7, <2>3 DEF StartsClose, Asserting
  <1> QED
    BY <1>5, <1>6, <1>7

(* After the close the transfer is dropped and binary mode is left.        *)
LEMMA StartsLeavingDelivers ==
    ASSUME SyncMod > 1, UploadInv, NEW g \in Parcel, Delivering(g), UNCHANGED deviceVars,
           StartsLeaving
    PROVE  DeliveryInv'
  <1>1. /\ step = "done" /\ phase = "closing" /\ Send(ControlClose) /\ Enter("leaving")
        /\ UNCHANGED <<lineVars, statVars, out_events, pending_ascii>>
        /\ payload # None /\ bytes_sent = payload
    BY DEF StartsLeaving, After, ftVars, transferVars, Delivering, File
  <1>2. ControlClose \in Packet /\ ControlClose # SyncBody /\ ControlClose.kind \in KindsOf["leaving"]
    <2>1. ControlClose.kind = "control_close"
      BY DEF ControlClose, Plain
    <2> QED
      BY <2>1, UploadAssumption, InputsAssumption DEF Packet, KindsOf
  <1>3. closed
    <2>1. counts => closed
      BY <1>1 DEF Delivering, Truthful, Hopeful, Granted
    <2>2. Handled(g) = g.prev /\ Latest(g) = g.prev
      BY <1>1, Pause DEF Handled, Latest, Between
    <2>3. g.prev # SyncBody /\ g.prev.kind = "close"
      BY <1>1, <2>2, KindTells DEF Delivering, Sender
    <2>4. ~counts => closed
      BY <2>2, <2>3 DEF Delivering, Receiver
    <2> QED
      BY <2>1, <2>4
  <1>4. "leaving" \in TransferPhase \cup {"leaving"} /\ "leaving" \notin TransferPhase
    BY DEF TransferPhase
  <1> QED
    BY <1>1, <1>2, <1>3, <1>4, NextRequest

(* Only the source is read; or the compressor refuses.                     *)
LEMMA ReadsSourceDelivers ==
    ASSUME UploadInv, NEW g \in Parcel, Delivering(g), UNCHANGED deviceVars, ReadsSource
    PROVE  DeliveryInv'
  <1>1. /\ step = "done" /\ phase = "opening" /\ ~Waits(g)
        /\ UNCHANGED <<fileVars, lineVars, chunk_size, bytes_sent>>
    BY Pause DEF ReadsSource, After, Between
  <1>2. CASE Return(Outcome("Heatshrink"))
    BY <1>2, Ends, FailuresAreNotOk
  <1>3. CASE UNCHANGED loopVars
    <2>1. /\ UNCHANGED <<sync, counts, block, expected, kept, closed, binary, file_open>>
          /\ UNCHANGED <<toDevice, toHost, phase, step, events, out_events, pending_ascii, state>>
          /\ UNCHANGED <<is_synced, queued, in_flight, outbound>>
      BY <1>1, <1>3 DEF fileVars, vars, ftVars, transferVars, lineVars, loopVars, deviceVars
    <2>2. OnTheWay(g)' /\ OnTheWayBack(g, toHost)' /\ Receiver(g)'
      BY <2>1, WayStays, ReceiverStays DEF Delivering
    <2>3. NewFrames(g)' = NewFrames(g)
      BY <2>1, SameParcel
    <2>4. Sender(g)'
      BY <1>1, <2>1, <2>3 DEF Delivering, Sender, Prepared, NoAckThere, FrameOf
    <2>5. Waiter(g)'
      BY <1>1, <2>1 DEF Delivering, Waiter, AllFailed
    <2>6. File(g)'
      <3>1. Stored(g) = bytes_sent /\ Stored(g)' = bytes_sent
        BY <1>1, <2>1 DEF Stored
      <3> QED
        BY <1>1, <2>1, <3>1, SameFile DEF Delivering, File
    <2>7. Truthful'
      BY <1>1, <2>1 DEF Delivering, Truthful, Granted, Hopeful
    <2> QED
      BY <1>1, <2>1, <2>2, <2>4, <2>5, <2>6, <2>7, GoesOn DEF Delivering
  <1> QED
    BY <1>2, <1>3 DEF ReadsSource

(* The device has answered the last packet: upload says Ok.                *)
LEMMA FinishesDelivers ==
    ASSUME UploadInv, NEW g \in Parcel, Delivering(g), UNCHANGED deviceVars, Finishes
    PROVE  /\ DeliveryInv'
           /\ closed /\ payload # None /\ bytes_sent = payload
  <1>1. /\ step = "done" /\ phase = "leaving" /\ step' = "returned"
        /\ UNCHANGED <<fileVars, lineVars, statVars>> /\ Between(g)
    BY Pause DEF Finishes, After, Return
  <1>2. /\ closed /\ payload # None /\ bytes_sent = payload
        /\ Contiguous /\ StoredLen = payload
    <2>1. Stored(g) = bytes_sent
      BY <1>1 DEF Stored
    <2> QED
      BY <1>1, <2>1 DEF Delivering, File
  <1>3. g.prev = ControlClose /\ ControlClose # SyncBody
    <2>1. Latest(g) = ControlClose /\ Latest(g) # SyncBody
      BY <1>1 DEF Delivering, Sender
    <2> QED
      BY <1>1, <2>1 DEF Latest, Between
  <1>4. ~binary
    BY <1>1, <1>3 DEF Delivering, Receiver, Handled, Between
  <1>5. \A i \in 1 .. Len(toDevice) : toDevice[i].body = ControlClose
    <2>1. toDevice \in Seq(OldFrames(g))
      BY <1>1 DEF Delivering, OnTheWay, Between
    <2>2. \A f \in OldFrames(g) : f.body = ControlClose
      BY <1>3 DEF OldFrames
    <2> QED
      BY <2>1, <2>2
  <1>6. OkMeansUploaded' /\ IdleOnSuccess'
    <2>1. UNCHANGED <<kept, counts, closed, binary, payload, is_synced, in_flight, queued, outbound, toDevice>>
      BY <1>1 DEF fileVars, vars, lineVars, statVars, deviceVars
    <2>2. StoredLen' = payload' /\ Contiguous'
      BY <1>2, <2>1, SameFile
    <2>3. OkMeansUploaded'
      BY <1>2, <1>4, <2>1, <2>2 DEF OkMeansUploaded
    <2> QED
      BY <1>1, <1>5, <2>1, <2>3 DEF IdleOnSuccess, Between
  <1> QED
    BY <1>1, <1>2, <1>6 DEF DeliveryInv
(* One step of the upload, its line and its device on the way.             *)
LEMMA DeliveringStep ==
    ASSUME SyncMod > 1, UploadInv, NEW g \in Parcel, Delivering(g), step # "returned", LinkNext
    PROVE  DeliveryInv'
  <1>1. phase \in {"querying", "opening", "writing", "closing", "leaving"}
    BY KindTells DEF Delivering
  <1>2. CASE Environment
    <2>1. step' # "returned"
      BY <1>2 DEF Environment, callerVars, loopVars
    <2> QED
      BY <1>2, <2>1, EnvironmentDelivers, GoesOn
  <1>3. CASE LoopBody /\ UNCHANGED deviceVars
    BY <1>3, WritesOutDelivers, ReadsDeliver, TicksDeliver, FeedsDeliver, DrainsDeliver DEF LoopBody
  <1>4. CASE StraightLine /\ UNCHANGED deviceVars
    <2>1. ~StartsSync /\ ~StartsQuery
      BY <1>1 DEF StartsSync, StartsQuery, After
    <2> QED
      BY <1>4, <2>1, OpenOrWriteOrClose, StartsLeavingDelivers, ReadsSourceDelivers,
         FinishesDelivers DEF StraightLine
  <1>5. CASE IoFails
    BY <1>5, Ends, FailuresAreNotOk DEF IoFails
  <1> QED
    BY <1>2, <1>3, <1>4, <1>5 DEF LinkNext, CallerStep, UploadStep

-----------------------------------------------------------------------------
(* Before the first request, and when the session is misled, nothing comes *)
(* of what is out.                                                         *)
LEMMA FruitlessDevice ==
    ASSUME UploadInv, NEW frames, NEW lines, Fruitless(frames, lines), Environment,
           frames \subseteq Frame, OtherLines \cup {SsLine(InitialSync, block)} \subseteq lines,
           \A f \in frames :
              f.body = SyncBody \/ (counts /\ f.sync # InitialSync /\ OkLine(f.sync) \in lines)
    PROVE  /\ Fruitless(frames, lines)'
           /\ UNCHANGED <<kept, closed, counts, block>>
           /\ \/ toHost' = toHost
              \/ toHost # <<>> /\ toHost' = Tail(toHost)
              \/ \E l \in lines : l.token \in {"rs", "fe", "ss", "ok"} /\ toHost' = Append(toHost, l)
                    /\ (l.token = "ss" => l = SsLine(InitialSync, block))
  <1>1. /\ UNCHANGED <<callerVars, counts, block>> /\ step = "read"
        /\ toDevice \in Seq(frames \cup {Trigger}) /\ toHost \in Seq(lines)
        /\ expected = InitialSync /\ InitialSync \in Sync
    BY DeviceStaysItself, UploadLinkAssumption DEF LinkNext, Fruitless, Environment, uploadVars
  <1> DEFINE Back ==
        \/ toHost' = toHost
        \/ toHost # <<>> /\ toHost' = Tail(toHost)
        \/ \E l \in lines : l.token \in {"rs", "fe", "ss", "ok"} /\ toHost' = Append(toHost, l)
              /\ (l.token = "ss" => l = SsLine(InitialSync, block))
  <1>2. ASSUME UNCHANGED <<expected, kept, closed>>, toDevice' \in Seq(frames \cup {Trigger}), Back
        PROVE  Fruitless(frames, lines)' /\ UNCHANGED <<kept, closed, counts, block>> /\ Back
    <2>1. toHost' \in Seq(lines)
      <3>1. \A l \in lines : Append(toHost, l) \in Seq(lines)
        BY <1>1
      <3>2. toHost # <<>> => Tail(toHost) \in Seq(lines)
        BY <1>1
      <3> QED
        BY <1>1, <1>2, <3>1, <3>2
    <2> QED
      BY <1>1, <1>2, <2>1
         DEF Fruitless, callerVars, fileVars, vars, ftVars, transferVars, loopVars, statVars,
             AllFailed, FrameOf
  <1>3. toDevice # <<>> => /\ Tail(toDevice) \in Seq(frames \cup {Trigger})
                           /\ Head(toDevice) = Trigger \/ Head(toDevice) \in frames
    BY <1>1
  <1>4. ASSUME toDevice # <<>>, NEW l \in lines, l.token \in {"rs", "fe", "ss", "ok"},
               l.token = "ss" => l = SsLine(InitialSync, block),
               Answers(<<l>>) \/ Answers(Append(<<>>, l)), UNCHANGED <<expected, kept, closed>>
        PROVE  Fruitless(frames, lines)' /\ UNCHANGED <<kept, closed, counts, block>> /\ Back
    <2>1. toHost' = Append(toHost, l) /\ toDevice' = Tail(toDevice)
      BY <1>1, <1>4, AnswerJoins DEF Answers
    <2> QED
      BY <1>2, <1>3, <1>4, <2>1
  <1>5. ASSUME toDevice # <<>>, Answers(<<>>), UNCHANGED <<expected, kept, closed>>
        PROVE  Fruitless(frames, lines)' /\ UNCHANGED <<kept, closed, counts, block>> /\ Back
    <2>1. toHost' = toHost /\ toDevice' = Tail(toDevice)
      BY <1>1, <1>5, AnswerJoins DEF Answers
    <2> QED
      BY <1>2, <1>3, <1>5, <2>1
  <1>6. CASE LoseFrame
    BY <1>2, <1>3, <1>6 DEF LoseFrame, deviceVars
  <1>7. CASE LoseLine
    BY <1>1, <1>2, <1>7 DEF LoseLine, deviceVars
  <1>8. CASE DeviceFails
    <2>1. FeLine \in lines /\ FeLine.token = "fe"
      BY DEF OtherLines, FeLine
    <2> QED
      BY <1>1, <1>2, <1>8, <2>1 DEF DeviceFails, deviceVars
  <1>9. CASE HearsTrigger \/ IgnoresFrame
    BY <1>5, <1>9 DEF HearsTrigger, IgnoresFrame, Arrived, deviceVars
  <1>10. CASE AsksAgain
    <2>1. RsLine(ResendNumber) \in lines /\ RsLine(ResendNumber).token = "rs"
      BY <1>10, ResendIsSync DEF AsksAgain, UploadInv, OtherLines, RsLine
    <2> QED
      BY <1>4, <1>10, <2>1 DEF AsksAgain, HearsFrame, Arrived, deviceVars
  <1>11. CASE AnswersSync
    <2>1. SsLine(expected, block) \in lines /\ SsLine(expected, block).token = "ss"
      BY <1>1 DEF SsLine
    <2> QED
      BY <1>1, <1>4, <1>11, <2>1 DEF AnswersSync, HearsFrame, Arrived, deviceVars
  <1>12. CASE FakeHandles \/ FirmwareHandles
    <2>1. Head(toDevice) \in frames /\ Head(toDevice).body # SyncBody
      BY <1>3, <1>12 DEF FakeHandles, FirmwareHandles, DataHeard, HearsFrame, Arrived, Body1
    <2> QED
      BY <1>1, <1>12, <2>1 DEF FakeHandles, FirmwareHandles
  <1>13. CASE FirmwareRefuses
    <2>1. /\ Head(toDevice) \in frames /\ Head(toDevice).body # SyncBody
          /\ toDevice # <<>> /\ UNCHANGED <<expected, kept, closed>>
      BY <1>3, <1>13 DEF FirmwareRefuses, DataHeard, HearsFrame, Arrived, Body1, deviceVars
    <2>2. OkLine(Head(toDevice).sync) \in lines /\ OkLine(Head(toDevice).sync).token = "ok"
      BY <2>1 DEF OkLine
    <2>3. Answers(<<>>) \/ Answers(Append(<<>>, OkLine(Head(toDevice).sync)))
      BY <1>13 DEF FirmwareRefuses, Acked
    <2> QED
      BY <1>4, <1>5, <2>1, <2>2, <2>3
  <1> QED
    BY <1>6, <1>7, <1>8, <1>9, <1>10, <1>11, <1>12, <1>13 DEF Environment

LEMMA FruitlessTurn ==
    ASSUME UploadInv, NEW frames, NEW lines, Fruitless(frames, lines), UNCHANGED deviceVars,
           WritesOut \/ ReadWaits \/ ReadTimesOut \/ ReadReturnsNothing \/ FeedEnds \/ Ticks,
           step' # "returned"
    PROVE  /\ Fruitless(frames, lines)'
           /\ step' # "done" /\ UNCHANGED <<phase, statVars, ftVars, toHost, sync, is_synced>>
           /\ in_flight = None => in_flight' = None
           /\ NoAckThere => NoAckThere'
  <1>1. /\ outbound \in Seq(frames) /\ toDevice \in Seq(frames \cup {Trigger})
        /\ queued = <<>> /\ events \in Seq(Event) /\ in_flight \in InFlight \cup {None}
        /\ step # "write" => outbound = <<>>
        /\ in_flight # None => FrameOf(in_flight) \in frames
        /\ \A i \in 1 .. Len(events) : events[i].type = "AsciiLine" => events[i].text = Chatter
    BY DEF Fruitless, UploadInv, SessionInv, TypeOK
  <1>2. ASSUME step' # "done", UNCHANGED <<phase, statVars, ftVars, toHost, sync, is_synced, queued>>,
               outbound' \in Seq(frames), step' # "write" => outbound' = <<>>,
               toDevice' \in Seq(frames \cup {Trigger}),
               \/ in_flight' = None
               \/ in_flight # None /\ FrameOf(in_flight') = FrameOf(in_flight),
               events' = events \/
                  \E e : events' = Append(events, e) /\ e.type \notin {"Ack", "AsciiLine"}
        PROVE  /\ Fruitless(frames, lines)'
               /\ step' # "done" /\ UNCHANGED <<phase, statVars, ftVars, toHost, sync, is_synced>>
               /\ in_flight = None => in_flight' = None
               /\ NoAckThere => NoAckThere'
    <2>1. \A i \in 1 .. Len(events') : events'[i].type \in {"Ack", "AsciiLine"} =>
             i \in 1 .. Len(events) /\ events'[i] = events[i]
      BY <1>1, <1>2, ItemJoins
    <2>2. NoAckThere => NoAckThere'
      BY <2>1 DEF NoAckThere
    <2>3. \A i \in 1 .. Len(events') : events'[i].type = "AsciiLine" => events'[i].text = Chatter
      BY <1>1, <2>1
    <2>4. in_flight' # None => FrameOf(in_flight)' \in frames
      BY <1>1, <1>2 DEF FrameOf
    <2> QED
      BY <1>1, <1>2, <2>2, <2>3, <2>4
         DEF Fruitless, deviceVars, statVars, ftVars, transferVars, AllFailed
  <1>3. CASE WritesOut
    <2>1. CASE outbound = <<>> /\ Goto("read") /\ UNCHANGED <<vars, toDevice>>
      BY <1>1, <1>2, <1>3, <2>1 DEF WritesOut, Goto, vars
    <2>2. CASE PollOutbound /\ toDevice' = Carry(toDevice, Head(outbound)) /\ UNCHANGED loopVars
      <3>1. Head(outbound) \in frames /\ outbound' \in Seq(frames)
        BY <1>1, <2>2 DEF PollOutbound
      <3>2. toDevice' \in Seq(frames \cup {Trigger})
        BY <1>1, <2>2, <3>1 DEF Carry
      <3> QED
        BY <1>1, <1>2, <1>3, <2>2, <3>1, <3>2 DEF WritesOut, PollOutbound, loopVars
    <2> QED
      BY <1>3, <2>1, <2>2 DEF WritesOut
  <1>4. CASE ReadWaits \/ ReadTimesOut \/ ReadReturnsNothing \/ FeedEnds
    <2>1. /\ step \in {"read", "feed"} /\ step' \in {"read", "drain"}
          /\ UNCHANGED <<phase, lineVars, statVars, ftVars>>
          /\ Elapse \/ UNCHANGED vars
      BY <1>4 DEF ReadWaits, ReadTimesOut, ReadReturnsNothing, FeedEnds, Brings, Goto, loopVars,
             fileVars
    <2>2. /\ UNCHANGED <<sync, is_synced, queued, events, outbound>>
          /\ in_flight' = in_flight \/ (in_flight # None /\ FrameOf(in_flight') = FrameOf(in_flight))
      BY <1>1, <2>1 DEF Elapse, vars, FrameOf, InFlight
    <2> QED
      BY <1>1, <1>2, <2>1, <2>2 DEF lineVars
  <1>5. CASE Ticks
    <2>1. /\ step = "tick" /\ UNCHANGED <<lineVars, statVars, ftVars>>
          /\ step' = "write" /\ UNCHANGED phase
      BY <1>5 DEF Ticks, NextTurn, Return
    <2>2. CASE UNCHANGED vars
      BY <1>1, <1>2, <2>1, <2>2 DEF vars, lineVars
    <2>3. CASE TickTimeout
      <3>1. UNCHANGED <<sync, is_synced, outbound>> /\ queued' = <<>> /\ in_flight' = None
        BY <1>1, <2>3, NothingQueuedThere DEF TickTimeout, AfterTimeout
      <3>2. Timeout(in_flight.sync).type = "Timeout"
        BY DEF Timeout
      <3>3. \E e : events' = Append(events, e) /\ e.type \notin {"Ack", "AsciiLine"}
        BY <2>3, <3>2 DEF TickTimeout, Emit
      <3> QED
        BY <1>1, <1>2, <2>1, <3>1, <3>3 DEF lineVars
    <2>4. CASE TickRetransmit
      <3>1. in_flight # None /\ FrameOf(in_flight') = FrameOf(in_flight)
        BY <1>1, <2>4 DEF TickRetransmit, SentNow, FrameOf, InFlight
      <3>2. outbound' \in Seq(frames)
        BY <1>1, <2>4, <3>1 DEF TickRetransmit, Retransmission
      <3> QED
        BY <1>1, <1>2, <2>1, <2>4, <3>1, <3>2 DEF TickRetransmit, lineVars
    <2> QED
      BY <1>5, <2>2, <2>3, <2>4 DEF Ticks, Tick
  <1> QED
    BY <1>3, <1>4, <1>5
-----------------------------------------------------------------------------
(* Connecting.                                                             *)
Stale == SsLines \ {SsLine(InitialSync, block)}

LEMMA StaysConnecting ==
    ASSUME phase' \in {"starting", "syncing"}, phase' = "starting" => FALSE, step' # "returned",
           Fruitless(Handshakes, OtherLines \cup SsLines)',
           in_flight' # None => ~is_synced',
           \A i \in 1 .. Len(toHost') :
              toHost'[i] \in Stale' => counts' /\ ~is_synced' /\ i = 1,
           is_synced' /\ ~counts' => sync' = InitialSync,
           NoAckThere', state' = "Idle", out_events' = <<>>
    PROVE  DeliveryInv'
  BY DEF DeliveryInv, Connecting, Stale

LEMMA ConnectingInit == LinkInit => DeliveryInv
  <1> SUFFICES ASSUME LinkInit
               PROVE  Connecting /\ step # "returned"
    BY DEF DeliveryInv
  <1>1. /\ phase = "starting" /\ step = "done" /\ ~is_synced /\ in_flight = None
        /\ queued = <<>> /\ outbound = <<>> /\ events = <<>> /\ toDevice = <<>>
        /\ payload = None /\ bytes_sent = 0 /\ expected = InitialSync /\ kept = <<>>
        /\ closed = FALSE /\ state = "Idle" /\ out_events = <<>> /\ pending_ascii = None
    BY DEF LinkInit, UploadInit, FileInit, Init
  <1>2. toHost = <<>> \/ \E n \in Sync : counts /\ toHost = <<SsLine(n, block)>>
    BY DEF LinkInit
  <1>3. /\ toHost \in Seq(OtherLines \cup SsLines)
        /\ \A i \in 1 .. Len(toHost) : counts /\ i = 1
    <2>1. CASE toHost = <<>>
      BY <2>1
    <2>2. ASSUME NEW n \in Sync, counts, toHost = <<SsLine(n, block)>>
          PROVE  /\ toHost \in Seq(OtherLines \cup SsLines)
                 /\ \A i \in 1 .. Len(toHost) : counts /\ i = 1
      <3>1. SsLine(n, block) \in OtherLines \cup SsLines
        BY DEF SsLines
      <3> QED
        BY <2>2, <3>1
    <2> QED
      BY <1>2, <2>1, <2>2
  <1>4. Fruitless(Handshakes, OtherLines \cup SsLines)
    BY <1>1, <1>3 DEF Fruitless, AllFailed
  <1> QED
    BY <1>1, <1>3, <1>4 DEF Connecting, NoAckThere

LEMMA HandshakesAreFrames ==
    Handshakes \subseteq Frame /\ \A f \in Handshakes : f.body = SyncBody
  BY DEF Handshakes, Frame, Packet

LEMMA SsLinesTell ==
    /\ \A l \in SsLines : l.token = "ss"
    /\ \A l \in OtherLines : l.token \in {"rs", "fe"}
    /\ \A l \in OkLines : l.token = "ok"
    /\ Stale \subseteq SsLines
  BY DEF SsLines, OtherLines, OkLines, Stale, SsLine, OkLine, RsLine, FeLine

LEMMA ConnectingDevice ==
    ASSUME UploadInv, Connecting, step # "returned", Environment
    PROVE  DeliveryInv' /\ UNCHANGED <<kept, closed, counts>>
  <1>1. PICK lines : lines = OtherLines \cup SsLines
    OBVIOUS
  <1>2. Fruitless(Handshakes, lines) /\ InitialSync \in Sync
    BY <1>1, UploadLinkAssumption DEF Connecting
  <1>3. SsLine(InitialSync, block) \in lines
    BY <1>1, <1>2 DEF SsLines
  <1>4. /\ Fruitless(Handshakes, lines)'
        /\ UNCHANGED <<kept, closed, counts, block>>
        /\ \/ toHost' = toHost
           \/ toHost # <<>> /\ toHost' = Tail(toHost)
           \/ \E l \in lines : l.token \in {"rs", "fe", "ss", "ok"} /\ toHost' = Append(toHost, l)
                 /\ (l.token = "ss" => l = SsLine(InitialSync, block))
    BY <1>1, <1>2, <1>3, HandshakesAreFrames, FruitlessDevice
  <1>5. /\ UNCHANGED <<phase, step, in_flight, is_synced, sync, events, state, out_events>>
        /\ step = "read" /\ phase = "syncing"
    BY DEF Environment, callerVars, fileVars, vars, ftVars, transferVars, loopVars, Connecting
  <1>6. lines = (OtherLines \cup SsLines)' /\ Stale' = Stale
    BY <1>1, <1>4 DEF OtherLines, SsLines, Stale
  <1>7. Fruitless(Handshakes, OtherLines \cup SsLines)'
    BY <1>4, <1>6 DEF Fruitless
  <1>8. \A i \in 1 .. Len(toHost') : toHost'[i] \in Stale => counts /\ ~is_synced /\ i = 1
    <2>1. toHost \in Seq(lines) /\ SsLine(InitialSync, block) \notin Stale
          /\ \A l \in Stale : l.token = "ss"
      BY <1>2, SsLinesTell DEF Fruitless, Stale
    <2>2. \A i \in 1 .. Len(toHost) : toHost[i] \in Stale => counts /\ ~is_synced /\ i = 1
      BY DEF Connecting, Stale
    <2>3. ASSUME toHost # <<>>, toHost' = Tail(toHost)
          PROVE  \A i \in 1 .. Len(toHost') : toHost'[i] \notin Stale
      <3>1. \A i \in 1 .. Len(toHost') :
               i \in Nat \ {0} /\ i + 1 \in 1 .. Len(toHost) /\ toHost'[i] = toHost[i + 1]
        BY <2>1, <2>3, ItemLeaves
      <3> QED
        BY <2>2, <3>1
    <2>4. ASSUME NEW l \in lines, l \notin Stale, toHost' = Append(toHost, l)
          PROVE  \A i \in 1 .. Len(toHost') : toHost'[i] \in Stale =>
                    i \in 1 .. Len(toHost) /\ toHost'[i] = toHost[i]
      BY <2>1, <2>4, ItemJoins
    <2>5. \A l \in lines : (l.token = "ss" => l = SsLine(InitialSync, block)) => l \notin Stale
      BY <2>1
    <2> QED
      BY <1>4, <2>2, <2>3, <2>4, <2>5
  <1> QED
    BY <1>4, <1>5, <1>6, <1>7, <1>8, StaysConnecting DEF Connecting, NoAckThere

LEMMA ConnectingTurn ==
    ASSUME UploadInv, Connecting, step # "returned", step' # "returned", UNCHANGED deviceVars,
           WritesOut \/ ReadWaits \/ ReadTimesOut \/ ReadReturnsNothing \/ FeedEnds \/ Ticks
    PROVE  DeliveryInv'
  <1>1. PICK lines : lines = OtherLines \cup SsLines
    OBVIOUS
  <1>2. Fruitless(Handshakes, lines)
    BY <1>1 DEF Connecting
  <1>3. /\ Fruitless(Handshakes, lines)'
        /\ step' # "done" /\ UNCHANGED <<phase, statVars, ftVars, toHost, sync, is_synced>>
        /\ in_flight = None => in_flight' = None
        /\ NoAckThere => NoAckThere'
    BY <1>2, FruitlessTurn
  <1>4. lines = (OtherLines \cup SsLines)' /\ Stale' = Stale /\ UNCHANGED counts
    BY <1>1 DEF OtherLines, SsLines, Stale, deviceVars
  <1>5. Fruitless(Handshakes, OtherLines \cup SsLines)'
    BY <1>3, <1>4 DEF Fruitless
  <1>6. step # "done"
    BY DEF WritesOut, ReadWaits, ReadTimesOut, ReadReturnsNothing, FeedEnds, Ticks
  <1>7. \A i \in 1 .. Len(toHost) : toHost[i] \in Stale => counts /\ ~is_synced /\ i = 1
    BY DEF Connecting, Stale
  <1> QED
    BY <1>3, <1>4, <1>5, <1>6, <1>7, StaysConnecting DEF Connecting, ftVars, transferVars

LEMMA ConnectingFeeds ==
    ASSUME UploadInv, Connecting, step # "returned", UNCHANGED deviceVars, FeedsLine
    PROVE  DeliveryInv'
  <1> DEFINE line == Head(toHost)
  <1>1. /\ step \in {"read", "feed"} /\ step' = "feed" /\ phase = "syncing"
        /\ toHost # <<>> /\ toHost' = Tail(toHost) /\ ProcessLine(line)
        /\ UNCHANGED <<phase, toDevice, statVars, ftVars, counts, block, expected, kept, closed>>
        /\ Fruitless(Handshakes, OtherLines \cup SsLines) /\ NoAckThere
        /\ outbound = <<>> /\ queued = <<>> /\ events \in Seq(Event)
    BY DEF FeedsLine, Brings, Connecting, deviceVars, Fruitless, UploadInv, SessionInv, TypeOK
  <1>2. /\ toHost \in Seq(OtherLines \cup SsLines) /\ toHost' \in Seq(OtherLines \cup SsLines)
        /\ line = toHost[1] /\ 1 \in 1 .. Len(toHost) /\ line \in OtherLines \cup SsLines
        /\ \A i \in 1 .. Len(toHost') :
              i \in Nat \ {0} /\ i + 1 \in 1 .. Len(toHost) /\ toHost'[i] = toHost[i + 1]
    <2> DEFINE both == OtherLines \cup SsLines
    <2>1. toHost \in Seq(both)
      BY <1>1 DEF Fruitless
    <2> HIDE DEF both
    <2>2. Head(toHost) \in both /\ Tail(toHost) \in Seq(both)
      BY <1>1, <2>1
    <2> QED
      BY <1>1, <2>1, <2>2, ItemLeaves DEF both
  <1>3. \A i \in 1 .. Len(toHost) : toHost[i] \in Stale => counts /\ ~is_synced /\ i = 1
    BY DEF Connecting, Stale
  <1>4. \A i \in 1 .. Len(toHost') : toHost'[i] \notin Stale'
    BY <1>1, <1>2, <1>3 DEF Stale, SsLines
  <1>5. ASSUME NEW e, events' = Append(events, e), e.type \notin {"Ack", "AsciiLine"},
               in_flight' = None \/ UNCHANGED <<in_flight, is_synced>>,
               UNCHANGED <<queued, outbound>>, is_synced' /\ ~counts => sync' = InitialSync
        PROVE  DeliveryInv'
    <2>1. \A i \in 1 .. Len(events') :
             events'[i] = e \/ (i \in 1 .. Len(events) /\ events'[i] = events[i])
      BY <1>1, <1>5, ItemJoins
    <2>2. NoAckThere'
      BY <1>1, <1>5, <2>1 DEF NoAckThere
    <2>3. in_flight' # None => FrameOf(in_flight') \in Handshakes /\ ~is_synced'
      BY <1>1, <1>5 DEF Connecting, Fruitless
    <2>4. \A i \in 1 .. Len(events') : events'[i].type = "AsciiLine" => events'[i].text = Chatter
      BY <1>1, <1>5, <2>1 DEF Fruitless
    <2>5. (OtherLines \cup SsLines)' = OtherLines \cup SsLines
      BY <1>1 DEF OtherLines, SsLines
    <2>6. Fruitless(Handshakes, OtherLines \cup SsLines)'
      BY <1>1, <1>2, <1>5, <2>3, <2>4, <2>5
         DEF Fruitless, statVars, ftVars, transferVars, AllFailed, FrameOf
    <2> QED
      BY <1>1, <1>4, <1>5, <2>2, <2>3, <2>6, StaysConnecting
         DEF Connecting, ftVars, transferVars
  <1>6. CASE line \in OtherLines
    <2>1. Surface(ResendRequested(line.sync)) \/ Surface(FatalError)
      BY <1>1, <1>6, SsLinesTell DEF ProcessLine
    <2>2. \A e : Surface(e) => events' = Append(events, e) /\
             UNCHANGED <<sync, is_synced, in_flight, queued, outbound>>
      BY DEF Surface, Emit
    <2>3. ResendRequested(line.sync).type = "ResendRequested" /\ FatalError.type = "FatalError"
      BY DEF ResendRequested, FatalError
    <2>4. is_synced /\ ~counts => sync = InitialSync
      BY DEF Connecting
    <2> QED
      BY <1>5, <2>1, <2>2, <2>3, <2>4
  <1>7. CASE line \in SsLines
    <2>1. PICK n \in Sync : line = SsLine(n, block)
      BY <1>7 DEF SsLines
    <2>2. line.token = "ss" /\ line.sync = n
      BY <2>1 DEF SsLine
    <2>3. HandleSs(n, line.max_block_size)
      BY <1>1, <2>2 DEF ProcessLine
    <2>4. sync' = n
      BY <2>3, NumbersAssumption DEF HandleSs, Sync
    <2>5. in_flight' = None /\ UNCHANGED <<queued, outbound>>
      <3>1. in_flight # None => IsHandshake(in_flight)
        <4>1. in_flight # None => FrameOf(in_flight).body = SyncBody
          BY <1>1, HandshakesAreFrames DEF Fruitless
        <4> QED
          BY <4>1 DEF FrameOf, IsHandshake
      <3> QED
        BY <1>1, <2>3, <3>1, NothingQueuedThere DEF HandleSs
    <2>6. ~counts => sync' = InitialSync
      <3>1. ~counts => line \notin Stale
        BY <1>2, <1>3
      <3>2. line \notin Stale => line = SsLine(InitialSync, block)
        BY <1>7 DEF Stale
      <3>3. line = SsLine(InitialSync, block) => n = InitialSync
        BY <2>2 DEF SsLine
      <3> QED
        BY <2>4, <3>1, <3>2, <3>3
    <2>7. Synced(line.max_block_size).type = "Synced"
          /\ events' = Append(events, Synced(line.max_block_size))
      BY <2>3 DEF HandleSs, Emit, Synced
    <2> QED
      BY <1>5, <2>5, <2>6, <2>7
  <1> QED
    BY <1>2, <1>6, <1>7
LEMMA ConnectingDrains ==
    ASSUME UploadInv, Connecting, step # "returned", step' # "returned", UNCHANGED deviceVars,
           DrainsSession
    PROVE  DeliveryInv'
  <1>1. /\ phase = "syncing" /\ step = "drain" /\ step' \in {"drain", "tick", "done"}
        /\ UNCHANGED <<phase, statVars, lineVars, ftVars, counts, block, expected, kept, closed>>
        /\ UNCHANGED <<sync, is_synced, in_flight, queued, outbound>>
        /\ events' = events \/ (events # <<>> /\ events' = Tail(events))
        /\ Fruitless(Handshakes, OtherLines \cup SsLines) /\ events \in Seq(Event)
    <2>1. phase = "syncing" /\ step = "drain" /\ UNCHANGED <<lineVars, ftVars>>
      BY DEF DrainsSession, Connecting
    <2>2. UNCHANGED <<phase, statVars>> /\ step' \in {"drain", "tick", "done"}
      BY <2>1 DEF DrainsSession, LoopDone, Goto, Return, loopVars, statVars
    <2> QED
      BY <2>1, <2>2
         DEF DrainsSession, PollEvent, vars, deviceVars, Connecting, UploadInv, SessionInv, TypeOK
  <1>2. NoAckThere' /\ \A i \in 1 .. Len(events') : events'[i].type = "AsciiLine" => events'[i].text = Chatter
    <2>1. /\ \A i \in 1 .. Len(events) : events[i].type # "Ack"
          /\ \A i \in 1 .. Len(events) : events[i].type = "AsciiLine" => events[i].text = Chatter
      BY <1>1 DEF Connecting, NoAckThere, Fruitless
    <2>2. events # <<>> /\ events' = Tail(events) =>
             \A i \in 1 .. Len(events') : i + 1 \in 1 .. Len(events) /\ events'[i] = events[i + 1]
      BY <1>1, ItemLeaves
    <2> QED
      BY <1>1, <2>1, <2>2 DEF NoAckThere
  <1>3. (OtherLines \cup SsLines)' = OtherLines \cup SsLines /\ Stale' = Stale
    BY <1>1 DEF OtherLines, SsLines, Stale
  <1>4. Fruitless(Handshakes, OtherLines \cup SsLines)'
    BY <1>1, <1>2, <1>3
       DEF Fruitless, statVars, lineVars, ftVars, transferVars, AllFailed, FrameOf
  <1>5. \A i \in 1 .. Len(toHost) : toHost[i] \in Stale => counts /\ ~is_synced /\ i = 1
    BY DEF Connecting, Stale
  <1> QED
    BY <1>1, <1>2, <1>3, <1>4, <1>5, StaysConnecting
       DEF Connecting, lineVars, ftVars, transferVars

LEMMA StartsSyncConnects ==
    ASSUME UploadInv, Connecting, UNCHANGED deviceVars, StartsSync
    PROVE  DeliveryInv'
  <1>1. /\ phase' = "syncing" /\ step' = "write" /\ Enqueue(SyncBody)
        /\ toDevice' = Carry(toDevice, Trigger) /\ sync \in Sync
        /\ UNCHANGED <<toHost, statVars, ftVars, counts, block, expected, kept, closed>>
        /\ phase = "starting" /\ step = "done" /\ in_flight = None /\ ~is_synced
        /\ Fruitless(Handshakes, OtherLines \cup SsLines)
    BY DEF StartsSync, After, Enter, Connect, Connecting, deviceVars, UploadInv, SessionInv, TypeOK
  <1> DEFINE frame == [sync |-> sync, body |-> SyncBody]
  <1>2. /\ queued' = <<>> /\ outbound' = <<frame>> /\ FrameOf(in_flight') = frame
        /\ UNCHANGED <<sync, is_synced, events>>
    <2>1. queued = <<>> /\ outbound = <<>>
      BY <1>1 DEF Fruitless
    <2> QED
      BY <1>1, <2>1, Submits
  <1>3. frame \in Handshakes /\ outbound' \in Seq(Handshakes)
    <2>1. frame \in Handshakes
      BY <1>1 DEF Handshakes
    <2> QED
      BY <1>2, <2>1
  <1>4. toDevice' \in Seq(Handshakes \cup {Trigger})
    <2>1. toDevice \in Seq(Handshakes \cup {Trigger})
      BY <1>1 DEF Fruitless
    <2> QED
      BY <1>1, <2>1 DEF Carry
  <1>5. (OtherLines \cup SsLines)' = OtherLines \cup SsLines /\ Stale' = Stale
    BY <1>1 DEF OtherLines, SsLines, Stale
  <1>6. Fruitless(Handshakes, OtherLines \cup SsLines)'
    BY <1>1, <1>2, <1>3, <1>4, <1>5
       DEF Fruitless, statVars, ftVars, transferVars, AllFailed, FrameOf
  <1>7. \A i \in 1 .. Len(toHost) : toHost[i] \in Stale => counts /\ ~is_synced /\ i = 1
    BY DEF Connecting, Stale
  <1> QED
    BY <1>1, <1>2, <1>5, <1>6, <1>7, StaysConnecting
       DEF Connecting, ftVars, transferVars, NoAckThere

(* The first request: its number is the one the device expects, or the     *)
(* upload is misled.                                                       *)
LEMMA StartsQueryOpens ==
    ASSUME SyncMod > 1, UploadInv, Connecting, UNCHANGED deviceVars, StartsQuery
    PROVE  DeliveryInv'
  <1> DEFINE packet == Plain("query")
             frame == [sync |-> sync, body |-> packet]
  <1>1. /\ phase = "syncing" /\ step = "done" /\ phase' = "querying" /\ step' = "write"
        /\ is_synced /\ in_flight = None /\ NoAckThere
        /\ Send(packet) /\ state' = "AwaitingQueryReply" /\ out_events = <<>>
        /\ UNCHANGED <<lineVars, payload, bytes_sent, out_events, pending_ascii>>
        /\ UNCHANGED <<counts, block, expected, kept, closed, file_open, binary>>
        /\ Fruitless(Handshakes, OtherLines \cup SsLines) /\ sync \in Sync
        /\ (~counts => sync = InitialSync)
    BY DEF StartsQuery, After, Enter, Query, Request, Connecting, deviceVars,
           UploadInv, SessionInv, TypeOK, BlockInv
  <1>2. /\ queued' = <<>> /\ outbound' = <<frame>> /\ FrameOf(in_flight') = frame
        /\ UNCHANGED <<sync, is_synced, events>>
    <2>1. queued = <<>> /\ outbound = <<>> /\ Enqueue(packet)
      BY <1>1 DEF Fruitless, Send
    <2> QED
      BY <1>1, <2>1, Submits
  <1>3. packet \in Packet /\ packet # SyncBody /\ packet.kind = "query"
    BY RequestsAreBodies, InputsAssumption DEF Packet, Plain
  <1>4. /\ toDevice' \in Seq(Handshakes \cup {Trigger}) /\ toHost' \in Seq(OtherLines \cup SsLines)
        /\ expected' = InitialSync /\ kept' = <<>> /\ closed' = FALSE
        /\ payload' = None /\ bytes_sent' = 0 /\ pending_ascii' = None /\ out_events' = <<>>
        /\ \A i \in 1 .. Len(events') : events'[i].type = "AsciiLine" => events'[i].text = Chatter
    BY <1>1, <1>2 DEF Fruitless, lineVars
  <1> HIDE DEF packet
  <1>5. CASE counts /\ sync # InitialSync
    <2>1. frame \in StrangeFrames /\ Handshakes \subseteq StrangeFrames
      BY <1>1, <1>3, <1>5, HandshakesAreFrames DEF StrangeFrames, Frame
    <2>2. outbound' \in Seq(StrangeFrames) /\ toDevice' \in Seq(StrangeFrames \cup {Trigger})
      <3>1. Handshakes \cup {Trigger} \subseteq StrangeFrames \cup {Trigger}
        BY <2>1
      <3> QED
        BY <1>2, <1>4, <2>1, <3>1, Reviewed
    <2>3. toHost' \in Seq(OtherLines \cup SsLines \cup OkLines)
      BY <1>4, Reviewed
    <2>4. (OtherLines \cup SsLines \cup OkLines)' = OtherLines \cup SsLines \cup OkLines
      BY <1>1 DEF OtherLines, SsLines, OkLines
    <2>5. Fruitless(StrangeFrames, OtherLines \cup SsLines \cup OkLines)'
      BY <1>1, <1>2, <1>4, <2>1, <2>2, <2>3, <2>4 DEF Fruitless, AllFailed, FrameOf
    <2> QED
      BY <1>1, <1>5, <2>5 DEF DeliveryInv, Misled
  <1>6. CASE sync = InitialSync
    <2>1. PICK h \in Parcel : h.prev = SyncBody /\ h.cur = packet /\ h.got = FALSE
      <3> DEFINE first == [prev |-> SyncBody, cur |-> packet, got |-> FALSE]
      <3>1. first \in Parcel /\ first.prev = SyncBody /\ first.cur = packet /\ first.got = FALSE
        BY <1>3 DEF Parcel, Packet
      <3> QED
        BY <3>1
    <2>2. Waits(h) /\ Latest(h) = packet /\ Handled(h) = SyncBody
      BY <1>3, <2>1 DEF Waits, Latest, Handled
    <2>3. /\ NewFrames(h)' = {frame} /\ NewLines(h)' = {}
          /\ OldFrames(h)' = Handshakes \cup {Trigger}
          /\ OldLines(h)' = {SsLine(InitialSync, block)}
      BY <1>1, <1>2, <2>1, <2>2 DEF NewFrames, NewLines, OldFrames, OldLines
    <2>4. OnTheWay(h)'
      <3>1. frame \notin Handshakes \cup {Trigger}
        <4>1. frame \in Frame
          BY <1>1, <1>3 DEF Frame
        <4> QED
          BY <1>3, <4>1, HandshakesAreFrames, TriggerIsNoFrame
      <3> DEFINE old == Handshakes \cup {Trigger}
      <3>2. toDevice' \in Seq(old) /\ frame \notin old
        BY <1>4, <3>1
      <3> HIDE DEF old
      <3>3. Ordered(toDevice', old, {frame}) /\ toDevice' \in Seq(old \cup {frame})
        BY <3>2 DEF Ordered
      <3> QED
        BY <2>1, <2>3, <3>3 DEF OnTheWay, old
    <2>5. OnTheWayBack(h, toHost)'
      <3>1. \A i \in 1 .. Len(toHost') : toHost'[i] \in OtherLines \cup {SsLine(InitialSync, block)}
        <4>1. \A i \in 1 .. Len(toHost') : toHost'[i] \in OtherLines \cup SsLines
          BY <1>4, Reviewed
        <4> QED
          BY <1>1, <4>1 DEF Connecting, lineVars
      <3> DEFINE all == OldLines(h)' \cup NewLines(h)' \cup SomeTexts(h)' \cup OtherLines
      <3>2. \A i \in 1 .. Len(toHost') : toHost'[i] \in all
        BY <2>3, <3>1
      <3> HIDE DEF all
      <3>3. toHost' \in Seq(all)
        BY <1>4, <3>2, Reviewed
      <3>4. OtherLines' = OtherLines /\ Texts' = Texts
        BY DEF OtherLines, Texts
      <3>5. Ordered(toHost', OldLines(h)', NewLines(h)') /\ Ordered(toHost', Texts, NewLines(h)')
        BY <2>3 DEF Ordered
      <3> QED
        BY <3>3, <3>4, <3>5 DEF OnTheWayBack, all
    <2>6. Sender(h)'
      <3>1. outbound' \in Seq({frame})
        BY <1>2
      <3> QED
        BY <1>1, <1>2, <1>3, <2>2, <2>3, <3>1
           DEF Sender, Prepared, TransferPhase, KindsOf, NoAckThere, FrameOf
    <2>7. Waiter(h)'
      BY <1>1, <1>4 DEF Waiter, AllFailed, StateOf, Awaiting
    <2>8. Receiver(h)'
      BY <1>2, <1>4, <1>6, <2>1, <2>2 DEF Receiver
    <2>9. File(h)'
      <3>1. StoredLen' = 0 /\ Contiguous' /\ Stored(h)' = 0
        BY <1>1, <1>4 DEF StoredLen, Contiguous, Stored
      <3> QED
        BY <1>1, <1>4, <3>1 DEF File
    <2>10. Truthful'
      BY <1>1 DEF Truthful, Granted
    <2> QED
      BY <1>1, <2>4, <2>5, <2>6, <2>7, <2>8, <2>9, <2>10, GoesOn DEF Delivering
  <1> QED
    BY <1>1, <1>5, <1>6

LEMMA ConnectingStep ==
    ASSUME SyncMod > 1, UploadInv, Connecting, step # "returned", LinkNext
    PROVE  DeliveryInv'
  <1>1. CASE Environment
    BY <1>1, ConnectingDevice
  <1>2. CASE step' # "returned" /\ LoopBody /\ UNCHANGED deviceVars
    <2>1. ~DrainsTransfer
      BY DEF DrainsTransfer, Connecting, TransferPhase
    <2> QED
      BY <1>2, <2>1, ConnectingTurn, ConnectingFeeds, ConnectingDrains DEF LoopBody
  <1>3. CASE step' = "returned" /\ LoopBody
    <2>1. PICK with : Return(with) /\ with # Outcome("Ok")
      <3>1. CASE Ticks
        BY <1>3, <3>1, FailuresAreNotOk DEF Ticks, NextTurn
      <3>2. CASE DrainsSession
        BY <1>3, <3>2, FailuresAreNotOk DEF DrainsSession, LoopDone, Goto, loopVars
      <3>3. ~DrainsTransfer
        BY DEF DrainsTransfer, Connecting, TransferPhase
      <3> QED
        BY <1>3, <3>1, <3>2, <3>3
           DEF LoopBody, WritesOut, ReadWaits, ReadTimesOut, ReadReturnsNothing, FeedsLine,
               FeedEnds, Goto, Brings, loopVars
    <2> QED
      BY <2>1, Ends
  <1>4. CASE StraightLine /\ UNCHANGED deviceVars
    <2>1. StartsSync \/ StartsQuery
      BY <1>4 DEF StraightLine, StartsOpen, ReadsSource, StartsWrite, StartsClose, StartsLeaving,
                  Finishes, After, AtChunk, Connecting
    <2> QED
      BY <1>4, <2>1, StartsSyncConnects, StartsQueryOpens
  <1>5. CASE IoFails
    BY <1>5, Ends, FailuresAreNotOk DEF IoFails
  <1> QED
    BY <1>1, <1>2, <1>3, <1>4, <1>5 DEF LinkNext, CallerStep, UploadStep
-----------------------------------------------------------------------------
(* Misled.                                                                 *)
AnyLines == OtherLines \cup SsLines \cup OkLines

LEMMA StaysMisled ==
    ASSUME phase' = "querying", counts', step' \notin {"done", "returned"},
           Fruitless(StrangeFrames, AnyLines)', state' \in {"AwaitingQueryReply", "Failed"}
    PROVE  DeliveryInv'
  BY DEF DeliveryInv, Misled, AnyLines

LEMMA SameAnyLines ==
    ASSUME UNCHANGED block
    PROVE  AnyLines' = AnyLines
  BY DEF AnyLines, OtherLines, SsLines, OkLines

LEMMA MisledDevice ==
    ASSUME UploadInv, Misled, Environment
    PROVE  DeliveryInv' /\ UNCHANGED <<kept, closed, counts>>
  <1>1. PICK lines : lines = AnyLines
    OBVIOUS
  <1>2. /\ Fruitless(StrangeFrames, lines) /\ InitialSync \in Sync /\ StrangeFrames \subseteq Frame
        /\ counts /\ block \in BlockSize
    BY <1>1, UploadLinkAssumption DEF Misled, AnyLines, StrangeFrames, UploadInv, WireInv
  <1>3. OtherLines \cup {SsLine(InitialSync, block)} \subseteq lines
    BY <1>1, <1>2 DEF AnyLines, SsLines
  <1>4. \A f \in StrangeFrames :
           f.body = SyncBody \/ (counts /\ f.sync # InitialSync /\ OkLine(f.sync) \in lines)
    BY <1>1, <1>2 DEF StrangeFrames, Frame, AnyLines, OkLines
  <1>5. Fruitless(StrangeFrames, lines)' /\ UNCHANGED <<kept, closed, counts, block>>
    BY <1>2, <1>3, <1>4, FruitlessDevice
  <1>6. lines = AnyLines'
    BY <1>1, <1>5, SameAnyLines
  <1>7. Fruitless(StrangeFrames, AnyLines)'
    BY <1>5, <1>6 DEF Fruitless
  <1>8. UNCHANGED <<phase, step, state>> /\ step = "read" /\ phase = "querying"
    BY DEF Environment, callerVars, fileVars, ftVars, transferVars, loopVars, Misled
  <1> QED
    BY <1>2, <1>5, <1>7, <1>8, StaysMisled DEF Misled

LEMMA MisledTurn ==
    ASSUME UploadInv, Misled, step' # "returned", UNCHANGED deviceVars,
           WritesOut \/ ReadWaits \/ ReadTimesOut \/ ReadReturnsNothing \/ FeedEnds \/ Ticks
    PROVE  DeliveryInv'
  <1>1. PICK lines : lines = AnyLines
    OBVIOUS
  <1>2. Fruitless(StrangeFrames, lines)
    BY <1>1 DEF Misled, AnyLines
  <1>3. /\ Fruitless(StrangeFrames, lines)'
        /\ step' # "done" /\ UNCHANGED <<phase, ftVars>>
    BY <1>2, FruitlessTurn
  <1>4. lines = AnyLines'
    BY <1>1, SameAnyLines DEF deviceVars
  <1>5. Fruitless(StrangeFrames, AnyLines)'
    BY <1>3, <1>4 DEF Fruitless
  <1> QED
    BY <1>3, <1>5, StaysMisled DEF Misled, deviceVars, ftVars, transferVars

(* A step of the loop that leaves the line and the device alone.           *)
LEMMA MisledGoesOn ==
    ASSUME UploadInv, Misled, UNCHANGED <<phase, statVars, toDevice, deviceVars>>,
           step' \notin {"done", "returned", "write"},
           toHost' = toHost \/ (toHost # <<>> /\ toHost' = Tail(toHost)),
           queued' = <<>>, outbound' = <<>>, in_flight' = None \/ UNCHANGED in_flight,
           pending_ascii' = None, AllFailed', state' \in {"AwaitingQueryReply", "Failed"},
           \A i \in 1 .. Len(events') : events'[i].type = "AsciiLine" => events'[i].text = Chatter
    PROVE  DeliveryInv'
  <1>1. Fruitless(StrangeFrames, AnyLines)
    BY DEF Misled, AnyLines
  <1>2. AnyLines' = AnyLines
    BY SameAnyLines DEF deviceVars
  <1>3. outbound' \in Seq(StrangeFrames) /\ toHost' \in Seq(AnyLines)
    <2>1. toHost \in Seq(AnyLines)
      BY <1>1 DEF Fruitless
    <2>2. toHost # <<>> => Tail(toHost) \in Seq(AnyLines)
      BY <2>1
    <2> QED
      BY <2>1, <2>2
  <1>4. Fruitless(StrangeFrames, AnyLines)'
    BY <1>1, <1>2, <1>3 DEF Fruitless, statVars, deviceVars, FrameOf
  <1> QED
    BY <1>4, StaysMisled DEF Misled, deviceVars

LEMMA MisledFeeds ==
    ASSUME UploadInv, Misled, UNCHANGED deviceVars, FeedsLine
    PROVE  DeliveryInv'
  <1> DEFINE line == Head(toHost)
  <1>1. /\ step \in {"read", "feed"} /\ step' = "feed"
        /\ toHost # <<>> /\ toHost' = Tail(toHost) /\ ProcessLine(line)
        /\ UNCHANGED <<phase, toDevice, statVars, ftVars>>
        /\ outbound = <<>> /\ queued = <<>> /\ events \in Seq(Event)
        /\ pending_ascii = None /\ AllFailed /\ state \in {"AwaitingQueryReply", "Failed"}
        /\ \A i \in 1 .. Len(events) : events[i].type = "AsciiLine" => events[i].text = Chatter
    BY DEF FeedsLine, Brings, Misled, Fruitless, UploadInv, SessionInv, TypeOK
  <1>2. line.token \in {"rs", "fe", "ss", "ok"}
    <2>1. toHost \in Seq(AnyLines)
      BY DEF Misled, Fruitless, AnyLines
    <2>2. line \in AnyLines
      BY <1>1, <2>1
    <2> QED
      BY <2>2, SsLinesTell DEF AnyLines
  <1>3. ASSUME NEW e, events' = Append(events, e), e.type = "AsciiLine" => e.text = Chatter,
               in_flight' = None \/ UNCHANGED in_flight, queued' = <<>>, outbound' = <<>>
        PROVE  DeliveryInv'
    <2>1. \A i \in 1 .. Len(events') :
             events'[i] = e \/ (i \in 1 .. Len(events) /\ events'[i] = events[i])
      BY <1>1, <1>3, ItemJoins
    <2>2. \A i \in 1 .. Len(events') : events'[i].type = "AsciiLine" => events'[i].text = Chatter
      BY <1>1, <1>3, <2>1
    <2> QED
      BY <1>1, <1>3, <2>2, MisledGoesOn DEF ftVars, transferVars, AllFailed
  <1>4. CASE line.token = "ok" /\ HandleOk(line.sync)
    <2>1. CASE in_flight = None /\ Emit(AsciiLine(StrayOk))
               /\ UNCHANGED <<in_flight, queued, outbound>>
      <3>1. AsciiLine(StrayOk).text = Chatter
        BY FileTextAssumption DEF AsciiLine
      <3> QED
        BY <1>1, <1>3, <2>1, <3>1 DEF Emit
    <2>2. CASE Emit(OutOfSync(in_flight.sync, line.sync)) /\ UNCHANGED <<in_flight, queued, outbound>>
      <3>1. OutOfSync(in_flight.sync, line.sync).type = "OutOfSync"
        BY DEF OutOfSync
      <3> QED
        BY <1>1, <1>3, <2>2, <3>1 DEF Emit
    <2>3. CASE Emit(Ack(line.sync)) /\ DispatchIfIdle(None, queued, NextSync(sync))
      <3>1. Ack(line.sync).type = "Ack"
        BY DEF Ack
      <3>2. in_flight' = None /\ queued' = <<>> /\ UNCHANGED outbound
        BY <1>1, <2>3, NothingQueuedThere
      <3> QED
        BY <1>1, <1>3, <2>3, <3>1, <3>2 DEF Emit
    <2> QED
      BY <1>4, <2>1, <2>2, <2>3 DEF HandleOk
  <1>5. CASE line.token = "ss" /\ HandleSs(line.sync, line.max_block_size)
    <2>1. Synced(line.max_block_size).type = "Synced"
      BY DEF Synced
    <2>2. (in_flight' = None \/ UNCHANGED in_flight) /\ queued' = <<>> /\ UNCHANGED outbound
      BY <1>1, <1>5, NothingQueuedThere DEF HandleSs
    <2> QED
      BY <1>1, <1>3, <1>5, <2>1, <2>2 DEF HandleSs, Emit
  <1>6. CASE Surface(ResendRequested(line.sync)) \/ Surface(FatalError)
    <2>1. ResendRequested(line.sync).type = "ResendRequested" /\ FatalError.type = "FatalError"
      BY DEF ResendRequested, FatalError
    <2>2. \A e : Surface(e) => events' = Append(events, e) /\
             UNCHANGED <<in_flight, queued, outbound>>
      BY DEF Surface, Emit
    <2> QED
      BY <1>1, <1>3, <1>6, <2>1, <2>2
  <1> QED
    BY <1>1, <1>2, <1>4, <1>5, <1>6 DEF ProcessLine

LEMMA MisledPolls ==
    ASSUME UploadInv, Misled, step = "drain", PollHandle,
           UNCHANGED <<loopVars, statVars, lineVars, deviceVars>>
    PROVE  DeliveryInv'
  <1> DEFINE e == Head(events)
  <1>1. /\ events # <<>> /\ events' = Tail(events) /\ events \in Seq(Event)
        /\ UNCHANGED <<in_flight, queued, outbound>> /\ HandleSessionEvent(e)
        /\ UNCHANGED <<phase, step, toDevice, toHost>>
        /\ outbound = <<>> /\ queued = <<>> /\ out_events \in Seq(FileEvent)
        /\ pending_ascii = None /\ AllFailed /\ state \in {"AwaitingQueryReply", "Failed"}
        /\ \A i \in 1 .. Len(events) : events[i].type = "AsciiLine" => events[i].text = Chatter
    BY DEF PollHandle, PollEvent, loopVars, lineVars, Misled, Fruitless, UploadInv, SessionInv,
           TypeOK, FileInv, FileTypeOK
  <1>2. /\ e = events[1] /\ 1 \in 1 .. Len(events)
        /\ \A i \in 1 .. Len(events') : i + 1 \in 1 .. Len(events) /\ events'[i] = events[i + 1]
    BY <1>1, ItemLeaves
  <1>3. \A i \in 1 .. Len(events') : events'[i].type = "AsciiLine" => events'[i].text = Chatter
    BY <1>1, <1>2
  <1> HIDE DEF e
  <1>4. ASSUME pending_ascii' = None, AllFailed', state' \in {"AwaitingQueryReply", "Failed"}
        PROVE  DeliveryInv'
    BY <1>1, <1>3, <1>4, MisledGoesOn
  <1>5. ASSUME NEW error, Fail(error), pending_ascii' = None
        PROVE  DeliveryInv'
    <2>1. state' = "Failed" /\ out_events' = Append(out_events, Failed(error))
      BY <1>5 DEF Fail, Move
    <2>2. \A i \in 1 .. Len(out_events') :
             \/ out_events'[i] = Failed(error)
             \/ i \in 1 .. Len(out_events) /\ out_events'[i] = out_events[i]
      BY <1>1, <2>1, ItemJoins
    <2>3. Failed(error).type = "Failed"
      BY DEF Failed
    <2>4. AllFailed'
      BY <1>1, <2>2, <2>3 DEF AllFailed
    <2> QED
      BY <1>4, <1>5, <2>1, <2>4
  <1>6. CASE UNCHANGED <<state, out_events>> /\ pending_ascii' = None
    BY <1>1, <1>4, <1>6 DEF AllFailed
  <1>7. CASE e.type = "AsciiLine" /\ HandleAsciiLine(e.text)
    <2>1. e.text = Chatter /\ Chatter.pft = "other"
      BY <1>1, <1>2, <1>7 DEF Chatter
    <2>2. HandleStatus("other")
      BY <1>7, <2>1 DEF HandleAsciiLine
    <2>3. ~Understood("other")
      BY <1>1 DEF Understood, StatusReply
    <2> QED
      BY <1>1, <1>6, <2>2, <2>3 DEF HandleStatus
  <1>8. CASE e.type = "Ack" /\ HandleAck
    <2>1. ~AckWithReply /\ ~AckOfWrite
      BY <1>1 DEF AckWithReply, ReplyComplete, AckOfWrite
    <2> QED
      BY <1>5, <1>6, <1>8, <2>1 DEF HandleAck, BareAck, AckIgnored
  <1>9. CASE UNCHANGED transferVars
    BY <1>1, <1>6, <1>9 DEF transferVars
  <1> QED
    BY <1>1, <1>5, <1>7, <1>8, <1>9 DEF HandleSessionEvent

LEMMA MisledDrains ==
    ASSUME UploadInv, Misled, UNCHANGED deviceVars, DrainsTransfer
    PROVE  DeliveryInv'
  <1>1. /\ step = "drain" /\ UNCHANGED lineVars /\ phase = "querying"
        /\ pending_ascii = None /\ AllFailed /\ state \in {"AwaitingQueryReply", "Failed"}
        /\ outbound = <<>> /\ queued = <<>> /\ out_events \in Seq(FileEvent)
        /\ \A i \in 1 .. Len(events) : events[i].type = "AsciiLine" => events[i].text = Chatter
    BY DEF DrainsTransfer, Misled, Fruitless, UploadInv, FileInv, FileTypeOK
  <1>2. ASSUME UNCHANGED <<phase, statVars, vars, state, pending_ascii, out_events>>,
               step' \in {"drain", "tick"}
        PROVE  DeliveryInv'
    BY <1>1, <1>2, MisledGoesOn DEF vars, lineVars, AllFailed
  <1>3. CASE PollStart /\ UNCHANGED <<loopVars, statVars>>
    BY <1>1, <1>2, <1>3 DEF PollStart, transferVars, loopVars
  <1>4. CASE PollHandle /\ UNCHANGED <<loopVars, statVars>>
    BY <1>1, <1>4, MisledPolls
  <1>5. CASE Goto("tick") /\ UNCHANGED <<fileVars, statVars>>
    BY <1>2, <1>5 DEF Goto, fileVars, ftVars, transferVars
  <1>6. CASE PollReturn /\ IF out_events # <<>> THEN FileVerdict(Head(out_events))
                           ELSE Goto("tick") /\ UNCHANGED statVars
    <2>1. CASE out_events = <<>>
      BY <1>2, <1>6, <2>1 DEF PollReturn, Goto
    <2>2. CASE out_events # <<>>
      <3>1. Head(out_events).type = "Failed"
        BY <1>1, <2>2 DEF AllFailed
      <3>2. Return(Transfer(Head(out_events).error))
        BY <1>1, <1>6, <2>2, <3>1 DEF FileVerdict, AwaitsFile
      <3> QED
        BY <3>2, Ends, FailuresAreNotOk
    <2> QED
      BY <2>1, <2>2
  <1> QED
    BY <1>3, <1>4, <1>5, <1>6 DEF DrainsTransfer

LEMMA MisledStep ==
    ASSUME UploadInv, Misled, step # "returned", LinkNext
    PROVE  DeliveryInv'
  <1>1. CASE Environment
    BY <1>1, MisledDevice
  <1>2. CASE LoopBody /\ UNCHANGED deviceVars
    <2>1. ~DrainsSession
      BY DEF DrainsSession, Misled, SessionPhase
    <2>2. CASE Ticks /\ step' = "returned"
      <3>1. PICK with : Return(with) /\ with # Outcome("Ok")
        BY <2>2, FailuresAreNotOk DEF Ticks, NextTurn
      <3> QED
        BY <3>1, Ends
    <2>3. CASE \/ WritesOut \/ ReadWaits \/ ReadTimesOut \/ ReadReturnsNothing \/ FeedEnds
      <3>1. step' # "returned"
        BY <2>3 DEF WritesOut, ReadWaits, ReadTimesOut, ReadReturnsNothing, FeedEnds, Goto,
                    Brings, loopVars
      <3> QED
        BY <1>2, <2>3, <3>1, MisledTurn
    <2> QED
      BY <1>2, <2>1, <2>2, <2>3, MisledTurn, MisledFeeds, MisledDrains DEF LoopBody
  <1>3. CASE IoFails
    BY <1>3, Ends, FailuresAreNotOk DEF IoFails
  <1>4. ~StraightLine
    BY DEF StraightLine, StartsSync, StartsQuery, StartsOpen, ReadsSource, StartsWrite,
           StartsClose, StartsLeaving, Finishes, After, AtChunk, Misled
  <1> QED
    BY <1>1, <1>2, <1>3, <1>4 DEF LinkNext, CallerStep, UploadStep
-----------------------------------------------------------------------------
(* The three together.                                                     *)
LEMMA NothingDelivers ==
    ASSUME DeliveryInv, UNCHANGED uploadVars
    PROVE  DeliveryInv'
  <1>1. /\ UNCHANGED <<callerVars, toDevice, toHost, counts, block, expected, binary, file_open>>
        /\ UNCHANGED <<kept, closed, phase, step, result, statVars>>
        /\ UNCHANGED <<sync, is_synced, in_flight, queued, outbound, events>>
        /\ UNCHANGED <<state, pending_ascii, out_events>>
    BY DEF uploadVars, lineVars, deviceVars, callerVars, fileVars, vars, ftVars, transferVars,
           loopVars
  <1>2. CASE step = "returned"
    <2>1. StoredLen' = StoredLen /\ Contiguous' = Contiguous /\ payload' = payload
      BY <1>1, SameFile DEF statVars
    <2> QED
      BY <1>1, <1>2, <2>1 DEF DeliveryInv, OkMeansUploaded, IdleOnSuccess
  <1>3. OtherLines' = OtherLines /\ SsLines' = SsLines /\ OkLines' = OkLines
    BY <1>1 DEF OtherLines, SsLines, OkLines
  <1>4. CASE step # "returned" /\ Connecting
    <2>1. Connecting'
      BY <1>1, <1>3, <1>4 DEF Connecting, Fruitless, statVars, AllFailed, NoAckThere, FrameOf
    <2> QED
      BY <1>1, <1>4, <2>1 DEF DeliveryInv
  <1>5. CASE step # "returned" /\ Misled
    <2>1. Misled'
      BY <1>1, <1>3, <1>5 DEF Misled, Fruitless, statVars, AllFailed, FrameOf
    <2> QED
      BY <1>1, <1>5, <2>1 DEF DeliveryInv
  <1>6. ASSUME step # "returned", NEW g \in Parcel, Delivering(g)
        PROVE  DeliveryInv'
    <2>1. OnTheWay(g)' /\ OnTheWayBack(g, toHost)' /\ Receiver(g)'
      BY <1>1, <1>6, WayStays, ReceiverStays DEF Delivering
    <2>2. Sender(g)' /\ Waiter(g)' /\ File(g)'
      BY <1>1, <1>6, CallerStays, FileStays DEF Delivering
    <2>3. Hopeful' => Hopeful
      BY <1>1 DEF Hopeful, AllFailed
    <2>4. Truthful'
      BY <1>1, <1>6, <2>3, TruthStays DEF Delivering
    <2> QED
      BY <1>1, <1>6, <2>1, <2>2, <2>4, GoesOn DEF Delivering
  <1> QED
    BY <1>2, <1>4, <1>5, <1>6 DEF DeliveryInv

LEMMA NothingAfterReturn == LinkNext => step # "returned"
  BY DEF LinkNext, CallerStep, UploadStep, StraightLine, StartsSync, StartsQuery, StartsOpen,
         ReadsSource, StartsWrite, StartsClose, StartsLeaving, Finishes, AtChunk, After,
         LoopBody, WritesOut, ReadWaits, ReadTimesOut, ReadReturnsNothing, FeedsLine, FeedEnds,
         DrainsSession, DrainsTransfer, Ticks, IoFails, Environment

LEMMA DeliveryStep ==
    ASSUME SyncMod > 1
    PROVE  UploadInv /\ DeliveryInv /\ [LinkNext]_uploadVars => DeliveryInv'
  <1> SUFFICES ASSUME UploadInv, DeliveryInv, [LinkNext]_uploadVars
               PROVE  DeliveryInv'
    OBVIOUS
  <1>1. CASE UNCHANGED uploadVars
    BY <1>1, NothingDelivers
  <1>2. CASE LinkNext
    BY <1>2, NothingAfterReturn, ConnectingStep, MisledStep, DeliveringStep DEF DeliveryInv
  <1> QED
    BY <1>1, <1>2

LEMMA DeliveryInvariant ==
    ASSUME SyncMod > 1
    PROVE  LinkSpec => [](UploadInv /\ DeliveryInv)
  <1>1. UploadInv /\ DeliveryInv /\ [LinkNext]_uploadVars => DeliveryInv'
    BY DeliveryStep
  <1> QED
    BY <1>1, ConnectingInit, UploadInvariant, PTL DEF LinkSpec

LEMMA RunningIsNotOk == Running # Outcome("Ok")
  BY FailuresAreNotOk DEF Running

LEMMA OkIsSaidAtTheEnd ==
    ASSUME UploadInv, DeliveryInv
    PROVE  OkMeansUploaded /\ IdleOnSuccess
  <1>1. CASE step = "returned"
    BY <1>1 DEF DeliveryInv
  <1>2. CASE step # "returned"
    BY <1>2, RunningIsNotOk DEF UploadInv, ControlInv, OkMeansUploaded, IdleOnSuccess
  <1> QED
    BY <1>1, <1>2

(* An upload that returns Ok has delivered its file: in order, once,       *)
(* completely, and closed, and the device has left binary mode.            *)
THEOREM OkIsTrue ==
    ASSUME SyncMod > 1
    PROVE  LinkSpec => []OkMeansUploaded
  <1>1. UploadInv /\ DeliveryInv => OkMeansUploaded
    BY OkIsSaidAtTheEnd
  <1> QED
    BY <1>1, DeliveryInvariant, PTL

(* An upload that returns Ok leaves its session synced and idle, with      *)
(* nothing but copies of the last packet on the line to the device.        *)
THEOREM OkLeavesIdle ==
    ASSUME SyncMod > 1
    PROVE  LinkSpec => []IdleOnSuccess
  <1>1. UploadInv /\ DeliveryInv => IdleOnSuccess
    BY OkIsSaidAtTheEnd
  <1> QED
    BY <1>1, DeliveryInvariant, PTL

-----------------------------------------------------------------------------
(* The promise, step by step.                                              *)
LEMMA OnlyFinishesSaysOk ==
    ASSUME CallerStep, step' = "returned", result' = Outcome("Ok")
    PROVE  Finishes
  <1>1. ASSUME NEW with, Return(with), with # Outcome("Ok")
        PROVE  FALSE
    BY <1>1 DEF Return
  <1>2. CASE StartsSync \/ StartsQuery \/ StartsLeaving
    BY <1>2 DEF StartsSync, StartsQuery, StartsLeaving, Enter
  <1>3. CASE StartsOpen \/ StartsWrite \/ StartsClose
    BY <1>1, <1>3, FailuresAreNotOk DEF StartsOpen, StartsWrite, StartsClose, Asserting, Enter
  <1>4. CASE ReadsSource \/ IoFails
    BY <1>1, <1>4, FailuresAreNotOk DEF ReadsSource, IoFails, loopVars, After
  <1>5. CASE Ticks
    BY <1>1, <1>5, FailuresAreNotOk DEF Ticks, NextTurn
  <1>6. CASE DrainsSession
    BY <1>1, <1>6, FailuresAreNotOk DEF DrainsSession, LoopDone, Goto, loopVars
  <1>7. CASE DrainsTransfer
    BY <1>1, <1>7, FailuresAreNotOk DEF DrainsTransfer, FileVerdict, LoopDone, Goto, loopVars
  <1>8. CASE WritesOut \/ ReadWaits \/ ReadTimesOut \/ ReadReturnsNothing \/ FeedsLine \/ FeedEnds
    BY <1>8 DEF WritesOut, ReadWaits, ReadTimesOut, ReadReturnsNothing, FeedsLine, FeedEnds,
                Goto, Brings, loopVars
  <1> QED
    BY <1>2, <1>3, <1>4, <1>5, <1>6, <1>7, <1>8
       DEF CallerStep, UploadStep, StraightLine, LoopBody

(* Progress is reported of what the device has.                            *)
LEMMA Reported ==
    ASSUME UploadInv, DeliveryInv, CallerStep, step = "drain", LoopDone, phase = "writing"
    PROVE  bytes_sent' \in (bytes_sent + 1) .. StoredLen
  <1>1. DrainsTransfer /\ step' = "done" /\ bytes_sent' = bytes_sent + NextLength
    BY DEF CallerStep, UploadStep, StraightLine, StartsSync, StartsQuery, StartsOpen,
           ReadsSource, StartsWrite, StartsClose, StartsLeaving, Finishes, AtChunk, After,
           LoopBody, WritesOut, ReadWaits, ReadTimesOut, ReadReturnsNothing, FeedsLine, FeedEnds,
           DrainsSession, SessionPhase, Ticks, IoFails, LoopDone, Goto
  <1>2. out_events # <<>> /\ Head(out_events).type = "WriteAcked"
    BY <1>1 DEF DrainsTransfer, FileVerdict, AwaitsFile, Return, Goto, loopVars
  <1>3. ~AllFailed
    <2>1. out_events \in Seq(FileEvent)
      BY DEF UploadInv, FileInv, FileTypeOK
    <2>2. Head(out_events) = out_events[1] /\ 1 \in 1 .. Len(out_events)
      BY <1>2, <2>1, ItemLeaves
    <2> QED
      BY <1>2, <2>2 DEF AllFailed
  <1>4. PICK g \in Parcel : Delivering(g)
    BY DEF DeliveryInv, Connecting, Misled
  <1>5. StoredLen = bytes_sent + NextLength
    <2>1. ~Waits(g)
      BY <1>3, <1>4 DEF Delivering, Waiter
    <2> QED
      BY <1>4, <2>1 DEF Delivering, File, Stored
  <1>6. bytes_sent \in Nat /\ bytes_sent + NextLength \in Nat /\ bytes_sent + NextLength >= bytes_sent + 1
    <2>1. /\ bytes_sent \in Nat /\ payload \in Nat
          /\ bytes_sent + NextLength \in (bytes_sent + 1) .. payload
      BY PieceInFlight DEF InWrite
    <2> QED
      BY <2>1
  <1> QED
    BY <1>1, <1>5, <1>6

LEMMA CallerKeepsPromise ==
    ASSUME UploadInv, DeliveryInv, CallerStep
    PROVE  [Promise!Next]_(Promise!promiseVars)
  <1> USE DEF Promise!promiseVars
  <1>1. /\ UNCHANGED deviceVars /\ step # "returned" /\ result = Running
        /\ StoredLen' = StoredLen /\ closed' = closed
    <2>1. UNCHANGED <<kept, counts, closed>>
      BY DEF CallerStep, deviceVars
    <2> QED
      BY <2>1, NothingAfterReturn, SameFile
         DEF CallerStep, LinkNext, UploadInv, ControlInv
  <1>2. ControlInv' /\ StatView
    BY ControlKept, StepStatView DEF LinkNext
  <1>3. CASE UNCHANGED <<result, payload, bytes_sent>>
    BY <1>1, <1>3
  <1>4. CASE step' = "returned"
    <2>1. UNCHANGED <<payload, bytes_sent>>
      BY <1>2, <1>4 DEF StatView, StartsQuery, Enter, ReadsSource, After, loopVars, LoopDone,
                        Goto, statVars
    <2>2. result' # Running
      BY <1>2, <1>4 DEF ControlInv
    <2>3. CASE result' = Outcome("Ok")
      <3>1. Finishes
        BY <1>4, <2>3, OnlyFinishesSaysOk
      <3>2. PICK g \in Parcel : Delivering(g)
        BY <1>1, <3>1 DEF DeliveryInv, Connecting, Misled, Finishes, After
      <3>3. closed /\ bytes_sent = payload
        BY <1>1, <3>1, <3>2, FinishesDelivers
      <3> QED
        BY <1>1, <2>1, <2>2, <2>3, <3>3 DEF Promise!Next, Promise!AnswerOk
    <2>4. CASE result' # Outcome("Ok")
      BY <1>1, <2>1, <2>2, <2>4 DEF Promise!Next, Promise!AnswerFailed
    <2> QED
      BY <2>3, <2>4
  <1>5. CASE step' # "returned" /\ ReadsSource
    <2>1. UNCHANGED <<result, bytes_sent>> /\ payload = None /\ payload' \in PayloadLen
      BY <1>5 DEF ReadsSource, Return, loopVars
    <2>2. payload' \in Nat
      BY <2>1, UploadAssumption
    <2> QED
      BY <1>1, <2>1, <2>2 DEF Promise!Next, Promise!ReadSource
  <1>6. CASE step' # "returned" /\ step = "drain" /\ LoopDone
    <2>1. UNCHANGED <<result, payload>>
      BY <1>6 DEF LoopDone, Goto
    <2>2. CASE phase = "writing"
      <3>1. bytes_sent' \in (bytes_sent + 1) .. StoredLen
        BY <1>6, <2>2, Reported
      <3> QED
        BY <1>1, <2>1, <3>1 DEF Promise!Next, Promise!Report
    <2>3. CASE phase # "writing"
      BY <1>3, <1>6, <2>1, <2>3 DEF LoopDone
    <2> QED
      BY <2>2, <2>3
  <1>7. CASE step' # "returned" /\ (StartsQuery \/ UNCHANGED statVars)
    <2>1. result' = result
      BY <1>1, <1>2, <1>7 DEF ControlInv
    <2> QED
      BY <1>3, <1>7, <2>1 DEF StartsQuery, statVars
  <1> QED
    BY <1>2, <1>4, <1>5, <1>6, <1>7 DEF StatView

LEMMA DeviceKeepsPromise ==
    ASSUME SyncMod > 1, UploadInv, DeliveryInv, Environment
    PROVE  [Promise!Next]_(Promise!promiseVars)
  <1>1. FileStep
    <2>1. step # "returned"
      BY DEF Environment
    <2>2. CASE Connecting \/ Misled
      <3>1. UNCHANGED <<kept, closed, counts>>
        BY <2>1, <2>2, ConnectingDevice, MisledDevice
      <3> QED
        BY <3>1, SameFile DEF FileStep
    <2> QED
      BY <2>1, <2>2, EnvironmentDelivers DEF DeliveryInv
  <1>2. UNCHANGED <<payload, bytes_sent, result>>
    BY DEF Environment, callerVars, statVars, loopVars
  <1> QED
    BY <1>1, <1>2
       DEF FileStep, Promise!Next, Promise!Store, Promise!File, Promise!promiseVars

(* The upload, a line that loses and either device together take only the  *)
(* steps of UploadPromise: the file grows on the device from its start,    *)
(* progress never runs ahead of it, the device closes it when it is whole, *)
(* and Ok is said of a file that is closed and has been reported in full.  *)
THEOREM UploadIsSafePromise ==
    ASSUME SyncMod > 1
    PROVE  LinkSpec => Promise!Init /\ [][Promise!Next]_(Promise!promiseVars)
  <1>1. LinkInit => Promise!Init
    BY DEF LinkInit, UploadInit, Promise!Init, StoredLen
  <1>2. UploadInv /\ DeliveryInv /\ [LinkNext]_uploadVars
            => [Promise!Next]_(Promise!promiseVars)
    <2> SUFFICES ASSUME UploadInv, DeliveryInv, [LinkNext]_uploadVars
                 PROVE  [Promise!Next]_(Promise!promiseVars)
      OBVIOUS
    <2>1. CASE UNCHANGED uploadVars
      <3>1. UNCHANGED <<payload, bytes_sent, closed, kept, counts, result>>
        BY <2>1 DEF uploadVars, callerVars, statVars, loopVars, deviceVars
      <3> QED
        BY <3>1, SameFile DEF Promise!promiseVars
    <2> QED
      BY <2>1, CallerKeepsPromise, DeviceKeepsPromise DEF LinkNext
  <1> QED
    BY <1>1, <1>2, DeliveryInvariant, PTL DEF LinkSpec
=============================================================================
