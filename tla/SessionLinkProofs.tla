------------------------- MODULE SessionLinkProofs -------------------------
(***************************************************************************)
(* Proofs, for every modulus of at least 2, number of packets, timeout and *)
(* bound, and for both devices, that one packet at a time over a line that *)
(* loses is safe: the session, the line and the device take only steps of  *)
(* the reliable channel of ReliableChannel.                                *)
(*                                                                         *)
(* The argument.  Packets 1 .. Acks have been acknowledged, so everything  *)
(* on its way is Old (a copy of packet Acks, or its ok; before the first   *)
(* ack, a handshake or the ss line that answers it) or New (a copy of      *)
(* packet Acks + 1, or its ok).  The line keeps order, so nothing Old is   *)
(* ever behind something New, and a number that comes around again after   *)
(* SyncMod packets never meets what it could be taken for.                 *)
(***************************************************************************)
EXTENDS SessionLink, SessionProofs, LineLemmas

Acks == Len(acked)
Stored == IF received = <<>> THEN 0 ELSE received[Len(received)]

OldFrames ==
    IF Acks = 0 THEN [sync : Sync, body : {SyncBody}]
    ELSE { f \in [sync : Sync, body : {Acks}] : NextSync(f.sync) = sync }
NewFrames ==
    IF submitted = Acks + 1 THEN {[sync |-> sync, body |-> submitted]} ELSE {}

RsLines == { RsLine(n) : n \in Sync }
OldLines ==
    IF Acks = 0
    THEN { SsLine(IF is_synced THEN sync ELSE expected, size) : size \in BlockSize }
    ELSE { OkLine(n) : n \in { m \in Sync : NextSync(m) = sync } }
NewLines == IF Stored = Acks + 1 THEN {OkLine(sync)} ELSE {}

(* What is on its way, from the session to the device and back.            *)
Pipeline ==
    /\ outbound \in Seq(OldFrames \cup NewFrames)
    /\ toDevice \in Seq(OldFrames \cup NewFrames)
    /\ toHost \in Seq(OldLines \cup NewLines \cup RsLines)
    /\ Ordered(outbound, OldFrames, NewFrames)
    /\ Ordered(toDevice, OldFrames, NewFrames)
    /\ Ordered(toHost, OldLines, NewLines)
    /\ NoneOf(toDevice, NewFrames) \/ NoneOf(outbound, OldFrames)
    /\ Stored = Acks + 1 => NoneOf(toDevice, OldFrames) /\ NoneOf(outbound, OldFrames)

(* How far the caller, the session and the device are apart.  An ack that  *)
(* the session has taken and the caller has not polled is in the queue.    *)
AckPlaces == { i \in 1 .. Len(events) : events[i].type = "Ack" }
NoAck == AckPlaces = {}
OneAck == \E i \in AckPlaces : AckPlaces = {i}

Tally ==
    /\ acked \in Seq(Body) /\ \A i \in 1 .. Acks : acked[i] = i
    /\ submitted \in Acks .. (Acks + 1) /\ submitted <= Last
    /\ confirmed \in Nat
    /\ IF confirmed = Acks THEN NoAck
       ELSE confirmed + 1 = Acks /\ submitted = Acks /\ OneAck

Kept ==
    /\ received \in Seq(Body)
    /\ Stored \in Acks .. submitted
    /\ \A n \in 1 .. Stored : \E j \in 1 .. Len(received) : received[j] = n
    /\ ReceivedInOrder

(* The session's counter is the number of packet Acks + 1, and a device    *)
(* that counts expects the packet after the last it has kept.              *)
Numbered ==
    /\ counts \in BOOLEAN /\ expected \in Sync
    /\ ~is_synced => submitted = 0
    /\ is_synced /\ counts => expected = IF Stored = Acks THEN sync ELSE NextSync(sync)
    /\ is_synced /\ ~counts /\ Acks = 0 => expected = sync

Flight ==
    /\ queued = <<>>
    /\ in_flight # None =>
          \/ in_flight.body = SyncBody /\ ~is_synced
          \/ FrameOf(in_flight) \in NewFrames

LinkInv == Pipeline /\ Tally /\ Kept /\ Numbered /\ Flight

-----------------------------------------------------------------------------
(* Old and new, and the three kinds of line, are never taken for one       *)
(* another.                                                                *)
LEMMA OldIsNotNew ==
    ASSUME SyncMod > 1, TypeOK, Tally
    PROVE  /\ \A f \in OldFrames : f \notin NewFrames
           /\ \A l \in OldLines \cup RsLines : l \notin NewLines
           /\ OldFrames \cup NewFrames \subseteq Frame
           /\ Acks \in Nat
  <1>1. Acks \in Nat /\ submitted \in Nat /\ sync \in Sync
    BY DEF Tally, Acks, TypeOK
  <1>2. /\ Acks # 0 => Acks \in Body
        /\ submitted = Acks + 1 => submitted \in Body
    BY <1>1, LinkAssumption DEF Tally
  <1>3. \A f \in OldFrames : f \notin NewFrames
    BY <1>1, <1>2, InputsAssumption DEF OldFrames, NewFrames
  <1>4. \A l \in OldLines \cup RsLines : l \notin NewLines
    BY <1>1, NextSyncIsInjective DEF OldLines, RsLines, NewLines, OkLine, SsLine, RsLine
  <1>5. OldFrames \cup NewFrames \subseteq Frame
    BY <1>1, <1>2 DEF OldFrames, NewFrames, Frame, Packet
  <1> QED
    BY <1>1, <1>3, <1>4, <1>5

-----------------------------------------------------------------------------
(* What is old and what is new depends on these variables alone.           *)
LEMMA SameItems ==
    ASSUME UNCHANGED <<acked, submitted, received, sync, is_synced, expected>>
    PROVE  /\ OldFrames' = OldFrames /\ NewFrames' = NewFrames
           /\ OldLines' = OldLines /\ NewLines' = NewLines /\ RsLines' = RsLines
           /\ Acks' = Acks /\ Stored' = Stored
  <1>1. Acks' = Acks /\ Stored' = Stored
    BY DEF Acks, Stored
  <1> QED
    BY <1>1 DEF OldFrames, NewFrames, OldLines, NewLines, RsLines, NextSync

LEMMA RestStays ==
    ASSUME Tally, Kept, Numbered, Flight,
           UNCHANGED <<acked, submitted, received, sync, is_synced, expected>>,
           UNCHANGED <<confirmed, counts, in_flight, queued, events>>
    PROVE  Tally' /\ Kept' /\ Numbered' /\ Flight'
  <1>1. /\ Acks' = Acks /\ Stored' = Stored /\ NewFrames' = NewFrames
        /\ NextSync(sync)' = NextSync(sync)
    BY SameItems DEF NextSync
  <1>2. NoAck' = NoAck /\ OneAck' = OneAck
    BY DEF NoAck, OneAck, AckPlaces
  <1>3. FrameOf(in_flight)' = FrameOf(in_flight)
    BY DEF FrameOf
  <1> QED
    BY <1>1, <1>2, <1>3 DEF Tally, Kept, Numbered, Flight, ReceivedInOrder

(* The line loses a frame or a line, or the caller writes a frame to it.   *)
LEMMA LoseFrameKeeps ==
    ASSUME LinkInv, LoseFrame
    PROVE  LinkInv'
  <1>1. /\ toDevice # <<>> /\ toDevice' = Tail(toDevice)
        /\ UNCHANGED <<outbound, toHost>>
        /\ UNCHANGED <<acked, submitted, received, sync, is_synced, expected>>
        /\ UNCHANGED <<confirmed, counts, in_flight, queued, events>>
    BY DEF LoseFrame, vars, deviceVars, callerVars, history
  <1>2. Pipeline'
    BY <1>1, SameItems, FirstLeaves DEF LinkInv, Pipeline
  <1> QED
    BY <1>1, <1>2, RestStays DEF LinkInv

LEMMA LoseLineKeeps ==
    ASSUME LinkInv, LoseLine
    PROVE  LinkInv'
  <1>1. /\ toHost # <<>> /\ toHost' = Tail(toHost)
        /\ UNCHANGED <<outbound, toDevice>>
        /\ UNCHANGED <<acked, submitted, received, sync, is_synced, expected>>
        /\ UNCHANGED <<confirmed, counts, in_flight, queued, events>>
    BY DEF LoseLine, vars, deviceVars, callerVars, history
  <1>2. Pipeline'
    BY <1>1, SameItems, FirstLeaves DEF LinkInv, Pipeline
  <1> QED
    BY <1>1, <1>2, RestStays DEF LinkInv

LEMMA CallerWritesKeeps ==
    ASSUME SyncMod > 1, TypeOK, LinkInv, CallerWrites
    PROVE  LinkInv'
  <1>1. /\ outbound # <<>> /\ outbound' = Tail(outbound)
        /\ toDevice' \in {toDevice, Append(toDevice, Head(outbound))}
        /\ UNCHANGED toHost
        /\ UNCHANGED <<acked, submitted, received, sync, is_synced, expected>>
        /\ UNCHANGED <<confirmed, counts, in_flight, queued, events>>
    BY DEF CallerWrites, PollOutbound, deviceVars, callerVars, history
  <1> DEFINE frame == Head(outbound)
             frames == OldFrames \cup NewFrames
  <1>2. /\ outbound \in Seq(frames) /\ toDevice \in Seq(frames)
        /\ Ordered(outbound, OldFrames, NewFrames) /\ Ordered(toDevice, OldFrames, NewFrames)
    BY DEF LinkInv, Pipeline
  <1>3. /\ frame \in frames /\ Tail(outbound) \in Seq(frames)
        /\ Ordered(Tail(outbound), OldFrames, NewFrames)
        /\ NoneOf(outbound, OldFrames) => NoneOf(Tail(outbound), OldFrames) /\ frame \notin OldFrames
        /\ frame \in NewFrames => NoneOf(Tail(outbound), OldFrames)
    BY <1>1, <1>2, FirstLeaves
  <1>4. frame \in OldFrames => NoneOf(toDevice, NewFrames) /\ frame \notin NewFrames
    BY <1>3, OldIsNotNew DEF LinkInv, Pipeline
  <1>5. /\ toDevice' \in Seq(frames)
        /\ Ordered(toDevice', OldFrames, NewFrames)
        /\ NoneOf(toDevice, OldFrames) /\ NoneOf(outbound, OldFrames) => NoneOf(toDevice', OldFrames)
        /\ NoneOf(toDevice, NewFrames) /\ frame \notin NewFrames => NoneOf(toDevice', NewFrames)
    <2>1. CASE toDevice' = toDevice
      BY <1>2, <2>1
    <2>2. CASE toDevice' = Append(toDevice, frame)
      <3>1. Append(toDevice, frame) \in Seq(frames)
        BY <1>2, <1>3, LastJoins
      <3>2. Ordered(Append(toDevice, frame), OldFrames, NewFrames)
        BY <1>2, <1>3, <1>4, LastJoins
      <3>3. \A set : NoneOf(toDevice, set) /\ frame \notin set
                        => NoneOf(Append(toDevice, frame), set)
        BY <1>2, <1>3, LastJoins
      <3> QED
        BY <1>3, <2>2, <3>1, <3>2, <3>3
    <2> QED
      BY <1>1, <2>1, <2>2
  <1>6. NoneOf(toDevice', NewFrames) \/ NoneOf(outbound', OldFrames)
    BY <1>1, <1>3, <1>5 DEF LinkInv, Pipeline
  <1>7. Pipeline'
    BY <1>1, <1>2, <1>3, <1>5, <1>6, SameItems DEF LinkInv, Pipeline
  <1> QED
    BY <1>1, <1>7, RestStays DEF LinkInv

(* The device answers a frame with a line and keeps nothing.               *)
LEMMA AnswerKeeps ==
    ASSUME LinkInv, NEW line, toDevice # <<>>, Answers(line), UNCHANGED deviceVars,
           line \in OldLines \cup NewLines \cup RsLines,
           line \in OldLines => NewLines = {}
    PROVE  LinkInv'
  <1>1. /\ toDevice' = Tail(toDevice) /\ toHost' = Append(toHost, line)
        /\ UNCHANGED outbound
        /\ UNCHANGED <<acked, submitted, received, sync, is_synced, expected>>
        /\ UNCHANGED <<confirmed, counts, in_flight, queued, events>>
    BY DEF Answers, vars, deviceVars, callerVars, history
  <1>2. /\ toHost' \in Seq(OldLines \cup NewLines \cup RsLines)
        /\ Ordered(toHost', OldLines, NewLines)
    BY <1>1, LastJoins, NoneOfNothing DEF LinkInv, Pipeline
  <1>3. /\ OldFrames' = OldFrames /\ NewFrames' = NewFrames
        /\ OldLines' = OldLines /\ NewLines' = NewLines /\ RsLines' = RsLines
        /\ Acks' = Acks /\ Stored' = Stored
    BY <1>1, SameItems
  <1>4. /\ toDevice' \in Seq(OldFrames \cup NewFrames)
        /\ Ordered(toDevice', OldFrames, NewFrames)
        /\ \A set : NoneOf(toDevice, set) => NoneOf(toDevice', set)
    <2>1. /\ toDevice \in Seq(OldFrames \cup NewFrames)
          /\ Ordered(toDevice, OldFrames, NewFrames)
      BY DEF LinkInv, Pipeline
    <2> QED
      BY <1>1, <2>1, FirstLeaves
  <1>5. Pipeline'
    BY <1>1, <1>2, <1>3, <1>4 DEF LinkInv, Pipeline
  <1> QED
    BY <1>1, <1>5, RestStays DEF LinkInv

(* The oldest frame on the line to the device.                             *)
LEMMA Arriving ==
    ASSUME SyncMod > 1, TypeOK, LinkInv, toDevice # <<>>
    PROVE  LET frame == Head(toDevice)
           IN  /\ frame \in OldFrames \cup NewFrames /\ frame.sync \in Sync
               /\ frame.body = SyncBody => Acks = 0 /\ submitted \in {0, 1}
               /\ frame.body # SyncBody => is_synced
               /\ frame \in OldFrames => NewLines = {} /\ Stored = Acks
               /\ frame \in OldFrames /\ frame.body # SyncBody =>
                     frame.body = Acks /\ Acks # 0 /\ NextSync(frame.sync) = sync
               /\ frame \in NewFrames => 
                     /\ frame.body = submitted /\ frame.body \in Body
                     /\ submitted = Acks + 1 /\ frame.sync = sync
                     /\ NoneOf(Tail(toDevice), OldFrames) /\ NoneOf(outbound, OldFrames)
  <1> DEFINE frame == Head(toDevice)
  <1>1. /\ frame \in OldFrames \cup NewFrames
        /\ NoneOf(toDevice, OldFrames) => frame \notin OldFrames
        /\ NoneOf(toDevice, NewFrames) => frame \notin NewFrames
        /\ frame \in NewFrames => NoneOf(Tail(toDevice), OldFrames)
    BY FirstLeaves DEF LinkInv, Pipeline
  <1>2. frame \in OldFrames => NewLines = {} /\ Stored = Acks
    BY <1>1 DEF LinkInv, Pipeline, NewLines, Kept, Tally, Acks
  <1>3. frame \in NewFrames => NoneOf(Tail(toDevice), OldFrames) /\ NoneOf(outbound, OldFrames)
    BY <1>1 DEF LinkInv, Pipeline
  <1>4. Acks \in Nat /\ submitted \in {Acks, Acks + 1} /\ submitted <= Last
    BY DEF LinkInv, Tally, Acks
  <1>5. frame \in NewFrames =>
            /\ frame.body = submitted /\ frame.body \in Body
            /\ submitted = Acks + 1 /\ frame.sync = sync
    BY <1>4, LinkAssumption DEF NewFrames
  <1>6. frame \in OldFrames =>
            /\ frame.sync \in Sync
            /\ Acks = 0 => frame.body = SyncBody
            /\ Acks # 0 => frame.body = Acks /\ Acks \in Body /\ NextSync(frame.sync) = sync
    BY <1>4, LinkAssumption DEF OldFrames
  <1> HIDE DEF frame
  <1>7. frame.body # SyncBody => is_synced
    BY <1>1, <1>4, <1>5, <1>6 DEF LinkInv, Numbered
  <1>8. frame.body = SyncBody => Acks = 0 /\ submitted \in {0, 1}
    BY <1>1, <1>4, <1>5, <1>6, InputsAssumption
  <1> QED
    BY <1>1, <1>2, <1>3, <1>4, <1>5, <1>6, <1>7, <1>8 DEF frame, TypeOK

LEMMA DeviceAsksAgainKeeps ==
    ASSUME SyncMod > 1, TypeOK, LinkInv, DeviceAsksAgain
    PROVE  LinkInv'
  <1>1. ResendNumber \in Sync
    BY Arriving DEF ResendNumber, DeviceAsksAgain, LinkInv, Numbered
  <1>2. RsLine(ResendNumber) \in RsLines /\ RsLine(ResendNumber) \notin OldLines
    BY <1>1 DEF RsLines, RsLine, OldLines, SsLine, OkLine
  <1> QED
    BY <1>2, AnswerKeeps DEF DeviceAsksAgain

LEMMA DeviceSyncsKeeps ==
    ASSUME SyncMod > 1, TypeOK, LinkInv, DeviceSyncs
    PROVE  LinkInv'
  <1> DEFINE frame == Head(toDevice)
  <1>1. toDevice # <<>> /\ frame.body = SyncBody
    BY DEF DeviceSyncs
  <1>2. Acks = 0 /\ frame \in OldFrames /\ NewLines = {} /\ Stored = Acks
    BY <1>1, Arriving, InputsAssumption
  <1>3. is_synced => expected = sync
    BY <1>2 DEF LinkInv, Numbered
  <1>4. ASSUME NEW size \in BlockSize
        PROVE  SsLine(expected, size) \in OldLines
    BY <1>2, <1>3 DEF OldLines
  <1> QED
    BY <1>1, <1>2, <1>4, AnswerKeeps DEF DeviceSyncs

LEMMA FirmwareRefusesKeeps ==
    ASSUME SyncMod > 1, TypeOK, LinkInv, FirmwareRefuses
    PROVE  LinkInv'
  <1> DEFINE frame == Head(toDevice)
             line  == OkLine(frame.sync)
  <1>1. /\ counts /\ toDevice # <<>> /\ frame.body # SyncBody /\ frame.sync # expected
        /\ UNCHANGED deviceVars
    BY DEF FirmwareRefuses, DataArrives
  <1>2. CASE NextSync(frame.sync) = expected
    <2>1. is_synced /\ frame.sync \in Sync /\ sync \in Sync
      BY <1>1, Arriving DEF TypeOK
    <2>2. CASE frame \in OldFrames
      BY <1>1, <1>2, <2>1, <2>2, Arriving, AnswerKeeps DEF FirmwareRefuses, OldLines
    <2>3. CASE frame \in NewFrames
      <3>1. /\ frame.sync = sync /\ submitted = Acks + 1 /\ Acks \in Nat
            /\ Stored \in Acks .. submitted
        BY <1>1, <2>3, Arriving DEF LinkInv, Kept, Acks, Tally
      <3>2. Stored # Acks
        BY <1>1, <2>1, <3>1 DEF LinkInv, Numbered
      <3>3. line \in NewLines
        BY <3>1, <3>2 DEF NewLines
      <3>4. line \notin OldLines
        BY <3>3, OldIsNotNew DEF LinkInv
      <3> QED
        BY <1>1, <1>2, <3>3, <3>4, AnswerKeeps DEF FirmwareRefuses
    <2> QED
      BY <1>1, <2>2, <2>3, Arriving
  <1>3. CASE NextSync(frame.sync) # expected
    <2>1. /\ toDevice' = Tail(toDevice)
          /\ UNCHANGED <<outbound, toHost>>
          /\ UNCHANGED <<acked, submitted, received, sync, is_synced, expected>>
          /\ UNCHANGED <<confirmed, counts, in_flight, queued, events>>
      BY <1>1, <1>3 DEF FirmwareRefuses, vars, deviceVars, callerVars, history
    <2>2. Pipeline'
      BY <1>1, <2>1, SameItems, FirstLeaves DEF LinkInv, Pipeline
    <2> QED
      BY <2>1, <2>2, RestStays DEF LinkInv
  <1> QED
    BY <1>2, <1>3

(* A packet is kept: the next one, or by FakeDevice the last one again.    *)
LEMMA OneMoreKept ==
    ASSUME received \in Seq(Body), ReceivedInOrder, UNCHANGED counts,
           NEW n \in Body, received' = Append(received, n),
           n = Stored + 1 \/ (~counts /\ n = Stored)
    PROVE  /\ Stored' = n /\ received' \in Seq(Body) /\ ReceivedInOrder'
           /\ \E j \in 1 .. Len(received') : received'[j] = n
           /\ \A j \in 1 .. Len(received) : j \in 1 .. Len(received') /\ received'[j] = received[j]
  <1> DEFINE len == Len(received)
  <1>1. /\ received' \in Seq(Body) /\ len \in Nat /\ Len(received') = len + 1
        /\ received'[len + 1] = n /\ received' # <<>>
        /\ \A j \in 1 .. len : j \in 1 .. Len(received') /\ received'[j] = received[j]
    OBVIOUS
  <1>2. Stored' = n
    BY <1>1 DEF Stored
  <1>3. n \in Nat /\ n # 0
    BY LinkAssumption
  <1>4. Stored = IF len = 0 THEN 0 ELSE received[len]
    BY DEF Stored
  <1>5. ReceivedInOrder'
    <2> SUFFICES ASSUME NEW i \in 1 .. (len + 1)
                 PROVE  LET last == IF i = 1 THEN 0 ELSE received'[i - 1]
                        IN  received'[i] = last + 1 \/ (~counts /\ i > 1 /\ received'[i] = last)
      BY <1>1 DEF ReceivedInOrder
    <2>1. CASE i \in 1 .. len
      <3>1. received'[i] = received[i] /\ (i # 1 => received'[i - 1] = received[i - 1])
        BY <1>1, <2>1
      <3> QED
        BY <2>1, <3>1 DEF ReceivedInOrder
    <2>2. CASE i = len + 1
      <3>1. Stored = IF i = 1 THEN 0 ELSE received'[i - 1]
        BY <1>1, <1>4, <2>2
      <3> QED
        BY <1>1, <1>3, <2>2, <3>1
    <2> QED
      BY <1>1, <2>1, <2>2
  <1> QED
    BY <1>1, <1>2, <1>5

(* Either device keeps the oldest frame and acknowledges it.  The firmware *)
(* does so only with a new one.                                            *)
LEMMA DeviceKeeps ==
    ASSUME SyncMod > 1, TypeOK, LinkInv, DataArrives,
           received' = Append(received, Head(toDevice).body),
           Answers(OkLine(Head(toDevice).sync)), UNCHANGED counts,
           IF counts THEN Head(toDevice).sync = expected /\ expected' = NextSync(expected)
           ELSE UNCHANGED expected
    PROVE  LinkInv'
  <1> DEFINE frame == Head(toDevice)
             line  == OkLine(frame.sync)
  <1>1. /\ toDevice # <<>> /\ toDevice' = Tail(toDevice) /\ toHost' = Append(toHost, line)
        /\ UNCHANGED <<acked, submitted, sync, is_synced, outbound>>
        /\ UNCHANGED <<confirmed, counts, in_flight, queued, events>>
    BY DEF DataArrives, Answers, vars, callerVars, history
  <1>2. /\ frame.body # SyncBody /\ is_synced /\ frame \in OldFrames \cup NewFrames
        /\ Acks \in Nat /\ Stored \in {Acks, Acks + 1} /\ sync \in Sync /\ frame.sync \in Sync
        /\ Stored <= submitted
        /\ counts => expected = IF Stored = Acks THEN sync ELSE NextSync(sync)
    BY <1>1, Arriving DEF DataArrives, LinkInv, Numbered, Kept, Tally, Acks, TypeOK
  <1>3. /\ OldFrames' = OldFrames /\ NewFrames' = NewFrames /\ RsLines' = RsLines
        /\ OldLines' = OldLines /\ Acks' = Acks
    BY <1>1, <1>2 DEF OldFrames, NewFrames, OldLines, RsLines, Acks, NextSync
  <1>4. expected' \in Sync
    BY <1>2, NextSyncIsInjective DEF LinkInv, Numbered
  <1>5. \A set : NoneOf(toDevice, set) => NoneOf(toDevice', set)
    <2>1. toDevice \in Seq(OldFrames \cup NewFrames)
      BY DEF LinkInv, Pipeline
    <2>2. \A set : NoneOf(toDevice, set) => NoneOf(Tail(toDevice), set)
      BY <1>1, <2>1, FirstLeaves
    <2> QED
      BY <1>1, <2>2
  <1>6. /\ toDevice' \in Seq(OldFrames \cup NewFrames)
        /\ Ordered(toDevice', OldFrames, NewFrames)
    BY <1>1, FirstLeaves DEF LinkInv, Pipeline
  <1>7. CASE frame \in OldFrames
    <2>1. /\ NewLines = {} /\ Stored = Acks /\ frame.body = Acks /\ Acks # 0
          /\ NextSync(frame.sync) = sync
      BY <1>1, <1>2, <1>7, Arriving
    <2>2. ~counts /\ UNCHANGED expected
      BY <1>2, <2>1, NextSyncIsInjective
    <2>3. frame.body \in Body
      BY <2>1, <1>2, LinkAssumption DEF LinkInv, Tally
    <2>4. /\ Stored' = Acks /\ received' \in Seq(Body) /\ ReceivedInOrder'
          /\ \A j \in 1 .. Len(received) : j \in 1 .. Len(received') /\ received'[j] = received[j]
      BY <1>1, <2>1, <2>2, <2>3, OneMoreKept DEF LinkInv, Kept
    <2>5. line \in OldLines
      BY <1>2, <2>1 DEF OldLines
    <2>6. NewLines' = {}
      BY <1>2, <1>3, <2>4 DEF NewLines
    <2>7. /\ toHost' \in Seq(OldLines \cup NewLines \cup RsLines)
          /\ Ordered(toHost', OldLines, NewLines)
      <3> HIDE DEF line
      <3> DEFINE lines == OldLines \cup NewLines \cup RsLines
      <3>1. toHost \in Seq(lines) /\ Ordered(toHost, OldLines, NewLines) /\ line \in lines
        BY <2>5 DEF LinkInv, Pipeline
      <3>2. NoneOf(toHost, NewLines)
        BY <2>1, NoneOfNothing
      <3> QED
        BY <1>1, <3>1, <3>2, LastJoins
    <2>8. Pipeline'
      BY <1>1, <1>2, <1>3, <1>5, <1>6, <2>1, <2>4, <2>6, <2>7 DEF LinkInv, Pipeline
    <2>9. Kept'
      BY <1>1, <1>3, <2>1, <2>4 DEF LinkInv, Kept
    <2> QED
      BY <1>1, <1>2, <1>3, <1>4, <2>1, <2>2, <2>4, <2>8, <2>9
         DEF LinkInv, Tally, Numbered, Flight, FrameOf, NoAck, OneAck, AckPlaces
  <1>8. CASE frame \in NewFrames
    <2>1. /\ frame.body = submitted /\ frame.body \in Body
          /\ submitted = Acks + 1 /\ frame.sync = sync
          /\ NoneOf(toDevice', OldFrames) /\ NoneOf(outbound', OldFrames)
      BY <1>1, <1>8, Arriving
    <2>2. counts => Stored = Acks
      BY <1>2, <2>1, NextSyncIsInjective
    <2>3. /\ Stored' = Acks + 1 /\ received' \in Seq(Body) /\ ReceivedInOrder'
          /\ \E j \in 1 .. Len(received') : received'[j] = Acks + 1
          /\ \A j \in 1 .. Len(received) : j \in 1 .. Len(received') /\ received'[j] = received[j]
      <3>1. frame.body = Stored + 1 \/ (~counts /\ frame.body = Stored)
        BY <1>2, <2>1, <2>2
      <3> QED
        BY <1>1, <2>1, <3>1, OneMoreKept DEF LinkInv, Kept
    <2>4. NewLines' = {line} /\ NewLines \subseteq {line}
      BY <1>1, <1>3, <2>1, <2>3 DEF NewLines
    <2>5. \A l \in OldLines \cup RsLines : l # line
      BY <1>2, <2>1, NextSyncIsInjective DEF OldLines, RsLines, OkLine, SsLine, RsLine
    <2> DEFINE lines == OldLines \cup {line} \cup RsLines
    <2>6. toHost \in Seq(lines) /\ Ordered(toHost, OldLines, {line})
      <3>1. toHost \in Seq(OldLines \cup NewLines \cup RsLines)
        BY DEF LinkInv, Pipeline
      <3>2. toHost \in Seq(lines)
        BY <2>4, <3>1, Reviewed
      <3>3. CASE NewLines = {line}
        BY <3>2, <3>3 DEF LinkInv, Pipeline
      <3>4. CASE NewLines = {}
        <4>1. \A i \in 1 .. Len(toHost) : toHost[i] \in OldLines \cup RsLines
          BY <3>1, <3>4, Reviewed
        <4> QED
          BY <2>5, <3>2, <4>1 DEF Ordered
      <3> QED
        BY <2>4, <3>3, <3>4
    <2>7. toHost' \in Seq(lines) /\ Ordered(toHost', OldLines, {line})
      BY <1>1, <2>5, <2>6, LastJoins
    <2>8. Pipeline'
      BY <1>1, <1>2, <1>3, <1>6, <2>1, <2>3, <2>4, <2>7 DEF LinkInv, Pipeline
    <2>9. Kept'
      <3>1. \A n \in 1 .. (Acks + 1) : \E j \in 1 .. Len(received') : received'[j] = n
        <4> SUFFICES ASSUME NEW n \in 1 .. (Acks + 1), n # Acks + 1
                     PROVE  \E j \in 1 .. Len(received') : received'[j] = n
          BY <2>3
        <4>1. n \in 1 .. Stored
          BY <1>2
        <4>2. PICK j \in 1 .. Len(received) : received[j] = n
          BY <4>1 DEF LinkInv, Kept
        <4> QED
          BY <2>3, <4>2
      <3>2. /\ received' \in Seq(Body) /\ ReceivedInOrder'
            /\ Stored' = Acks + 1 /\ Acks' = Acks /\ submitted' = Acks + 1
        BY <1>1, <1>3, <2>1, <2>3
      <3>3. Acks \in Nat
        BY <1>2
      <3>4. Stored' \in Acks' .. submitted'
        BY <3>2, <3>3
      <3>5. \A n \in 1 .. Stored' : \E j \in 1 .. Len(received') : received'[j] = n
        BY <3>1, <3>2
      <3> QED
        BY <3>2, <3>4, <3>5 DEF Kept
    <2>10. Numbered'
      BY <1>1, <1>2, <1>3, <1>4, <2>1, <2>2, <2>3 DEF LinkInv, Numbered, NextSync
    <2> QED
      BY <1>1, <1>3, <2>8, <2>9, <2>10
         DEF LinkInv, Tally, Flight, FrameOf, NoAck, OneAck, AckPlaces
  <1> QED
    BY <1>2, <1>7, <1>8

LEMMA FakeKeepsKeeps ==
    ASSUME SyncMod > 1, TypeOK, LinkInv, FakeKeeps
    PROVE  LinkInv'
  BY DeviceKeeps DEF FakeKeeps

LEMMA FirmwareKeepsKeeps ==
    ASSUME SyncMod > 1, TypeOK, LinkInv, FirmwareKeeps
    PROVE  LinkInv'
  BY DeviceKeeps DEF FirmwareKeeps

-----------------------------------------------------------------------------
(* The event queue, looked at for acks.                                    *)
LEMMA EventJoins ==
    ASSUME events \in Seq(Event), NEW e, events' = Append(events, e)
    PROVE  /\ NoAck /\ e.type # "Ack" => NoAck'
           /\ OneAck /\ e.type # "Ack" => OneAck'
           /\ NoAck /\ e.type = "Ack" => OneAck'
  <1>1. /\ Len(events) \in Nat /\ Len(events') = Len(events) + 1
        /\ events'[Len(events) + 1] = e
        /\ \A i \in 1 .. Len(events) : events'[i] = events[i]
    OBVIOUS
  <1>2. AckPlaces' = AckPlaces \cup (IF e.type = "Ack" THEN {Len(events) + 1} ELSE {})
    BY <1>1 DEF AckPlaces
  <1> QED
    BY <1>2 DEF NoAck, OneAck

LEMMA EventLeaves ==
    ASSUME events \in Seq(Event), events # <<>>, events' = Tail(events)
    PROVE  /\ NoAck => NoAck' /\ Head(events).type # "Ack"
           /\ OneAck /\ Head(events).type = "Ack" => NoAck'
           /\ OneAck /\ Head(events).type # "Ack" => OneAck'
  <1>1. /\ Head(events) = events[1] /\ 1 \in 1 .. Len(events)
        /\ Len(events) \in Nat /\ Len(events') = Len(events) - 1
        /\ \A i \in 1 .. Len(events') : i + 1 \in 1 .. Len(events) /\ events'[i] = events[i + 1]
    OBVIOUS
  <1>2. 1 \in AckPlaces <=> Head(events).type = "Ack"
    BY <1>1 DEF AckPlaces
  <1>3. \A i \in Nat : i \in AckPlaces' <=> i # 0 /\ i + 1 \in AckPlaces
    BY <1>1 DEF AckPlaces
  <1>4. AckPlaces \subseteq Nat \ {0} /\ AckPlaces' \subseteq Nat \ {0}
    BY <1>1 DEF AckPlaces
  <1>5. NoAck => NoAck' /\ Head(events).type # "Ack"
    BY <1>2, <1>3, <1>4 DEF NoAck
  <1>6. OneAck /\ Head(events).type = "Ack" => NoAck'
    BY <1>2, <1>3, <1>4 DEF OneAck, NoAck
  <1>7. OneAck /\ Head(events).type # "Ack" => OneAck'
    <2> SUFFICES ASSUME NEW i \in AckPlaces, AckPlaces = {i}, i # 1
                 PROVE  OneAck'
      BY <1>2 DEF OneAck
    <2>1. i - 1 \in AckPlaces' /\ \A j \in AckPlaces' : j = i - 1
      BY <1>3, <1>4
    <2> QED
      BY <2>1 DEF OneAck
  <1> QED
    BY <1>5, <1>6, <1>7

LEMMA CallerPollsKeeps ==
    ASSUME TypeOK, LinkInv, CallerPolls
    PROVE  LinkInv'
  <1>1. /\ events # <<>> /\ events' = Tail(events)
        /\ confirmed' = IF Head(events).type = "Ack" THEN confirmed + 1 ELSE confirmed
        /\ UNCHANGED <<outbound, toDevice, toHost, in_flight, queued, counts>>
        /\ UNCHANGED <<acked, submitted, received, sync, is_synced, expected>>
    BY DEF CallerPolls, PollEvent, lineVars, deviceVars, history
  <1>2. events \in Seq(Event)
    BY DEF TypeOK
  <1>3. Pipeline' /\ Kept' /\ Numbered' /\ Flight'
    BY <1>1, SameItems
       DEF LinkInv, Pipeline, Kept, Numbered, Flight, FrameOf, ReceivedInOrder, NextSync
  <1>4. Tally'
    BY <1>1, <1>2, SameItems, EventLeaves DEF LinkInv, Tally
  <1> QED
    BY <1>3, <1>4 DEF LinkInv

(* A session with nothing queued dispatches nothing but what it is handed. *)
LEMMA NothingQueued ==
    ASSUME queued = <<>>, NEW flight, NEW n, DispatchIfIdle(flight, queued, n)
    PROVE  in_flight' = flight /\ queued' = <<>> /\ UNCHANGED outbound
  BY DEF DispatchIfIdle

LEMMA OneQueued ==
    ASSUME queued = <<>>, in_flight = None, NEW packet, NEW n,
           DispatchIfIdle(in_flight, Append(queued, packet), n)
    PROVE  /\ in_flight' = Launched(n, packet) /\ queued' = <<>>
           /\ outbound' = Append(outbound, [sync |-> n, body |-> packet])
  <1>1. Append(queued, packet) = <<packet>> /\ <<packet>> # <<>>
    OBVIOUS
  <1>2. Head(<<packet>>) = packet /\ Tail(<<packet>>) = <<>>
    OBVIOUS
  <1> QED
    BY <1>1, <1>2 DEF DispatchIfIdle

LEMMA CallerConnectsKeeps ==
    ASSUME SyncMod > 1, TypeOK, LinkInv, CallerConnects
    PROVE  LinkInv'
  <1> DEFINE frame == [sync |-> sync, body |-> SyncBody]
  <1>1. /\ ~is_synced /\ in_flight = None /\ queued = <<>>
        /\ UNCHANGED <<toDevice, toHost, events, confirmed, counts>>
        /\ UNCHANGED <<acked, submitted, received, sync, is_synced, expected>>
    BY DEF CallerConnects, Connect, Enqueue, LinkInv, Flight, lineVars, deviceVars,
           callerVars, history
  <1>2. /\ in_flight' = Launched(sync, SyncBody) /\ queued' = <<>>
        /\ outbound' = Append(outbound, frame)
    BY <1>1, OneQueued DEF CallerConnects, Connect, Enqueue
  <1>3. submitted = 0 /\ Acks = 0 /\ Stored = 0
    BY <1>1 DEF LinkInv, Numbered, Tally, Kept, Acks
  <1>4. NewFrames = {} /\ frame \in OldFrames
    BY <1>3 DEF NewFrames, OldFrames, TypeOK
  <1>5. /\ outbound' \in Seq(OldFrames \cup NewFrames)
        /\ Ordered(outbound', OldFrames, NewFrames)
    <2> HIDE DEF frame
    <2>1. outbound \in Seq(OldFrames \cup NewFrames) /\ Ordered(outbound, OldFrames, NewFrames)
      BY DEF LinkInv, Pipeline
    <2> QED
      BY <1>2, <1>4, <2>1, LastJoins, NoneOfNothing
  <1>6. NoneOf(toDevice, NewFrames) /\ Stored # Acks + 1
    BY <1>3, <1>4, NoneOfNothing
  <1>7. Pipeline'
    BY <1>1, <1>5, <1>6, SameItems DEF LinkInv, Pipeline
  <1>8. Flight'
    BY <1>1, <1>2 DEF Flight, Launched
  <1>9. Tally' /\ Kept' /\ Numbered'
    BY <1>1, SameItems
       DEF LinkInv, Tally, Kept, Numbered, ReceivedInOrder, NextSync, NoAck, OneAck, AckPlaces
  <1> QED
    BY <1>7, <1>8, <1>9 DEF LinkInv

LEMMA CallerSendsKeeps ==
    ASSUME SyncMod > 1, Window = 1, TypeOK, LinkInv, CallerSends
    PROVE  LinkInv'
  <1> DEFINE frame == [sync |-> sync, body |-> submitted + 1]
  <1>1. /\ submitted < Last /\ submitted - confirmed < 1 /\ is_synced
        /\ submitted' = submitted + 1 /\ queued = <<>>
        /\ UNCHANGED <<toDevice, toHost, events, confirmed, counts, acked, received, expected>>
        /\ UNCHANGED <<sync, is_synced>>
    BY DEF CallerSends, Send, Enqueue, LinkInv, Flight, lineVars, deviceVars, history
  <1>2. Acks \in Nat /\ submitted = Acks /\ confirmed = Acks /\ Stored = Acks
    BY <1>1 DEF LinkInv, Tally, Kept, Acks
  <1>3. NewFrames = {}
    BY <1>2 DEF NewFrames
  <1>4. in_flight = None
    BY <1>1, <1>3 DEF LinkInv, Flight
  <1>5. /\ in_flight' = Launched(sync, submitted + 1) /\ queued' = <<>>
        /\ outbound' = Append(outbound, frame)
    BY <1>1, <1>4, OneQueued DEF CallerSends, Send, Enqueue
  <1>6. /\ OldFrames' = OldFrames /\ OldLines' = OldLines /\ NewLines' = NewLines
        /\ RsLines' = RsLines /\ Acks' = Acks /\ Stored' = Stored
    BY <1>1 DEF OldFrames, OldLines, NewLines, RsLines, Acks, Stored, NextSync
  <1>7. NewFrames' = {frame}
    BY <1>1, <1>2, <1>6 DEF NewFrames
  <1>8. frame \notin OldFrames
    <2>1. submitted + 1 # SyncBody /\ submitted + 1 # Acks
      BY <1>1, <1>2, LinkAssumption, InputsAssumption
    <2> QED
      BY <2>1 DEF OldFrames
  <1> HIDE DEF frame
  <1>9. \A s : s \in Seq(OldFrames \cup NewFrames) =>
                  /\ s \in Seq(OldFrames \cup {frame})
                  /\ NoneOf(s, {frame}) /\ Ordered(s, OldFrames, {frame})
    <2> SUFFICES ASSUME NEW s \in Seq(OldFrames)
                 PROVE  /\ s \in Seq(OldFrames \cup {frame})
                        /\ NoneOf(s, {frame}) /\ Ordered(s, OldFrames, {frame})
      BY <1>3
    <2>1. s \in Seq(OldFrames \cup {frame}) /\ \A i \in 1 .. Len(s) : s[i] \in OldFrames
      BY Reviewed
    <2> QED
      BY <1>8, <2>1 DEF NoneOf, Ordered
  <1>10. /\ outbound' \in Seq(OldFrames \cup {frame})
         /\ Ordered(outbound', OldFrames, {frame})
    <2>1. /\ outbound \in Seq(OldFrames \cup {frame}) /\ frame \in OldFrames \cup {frame}
          /\ Ordered(outbound, OldFrames, {frame})
      BY <1>9 DEF LinkInv, Pipeline
    <2> QED
      BY <1>5, <1>8, <2>1, LastJoins
  <1>11. /\ toDevice \in Seq(OldFrames \cup {frame})
         /\ NoneOf(toDevice, {frame}) /\ Ordered(toDevice, OldFrames, {frame})
    BY <1>9 DEF LinkInv, Pipeline
  <1>12. Pipeline'
    BY <1>1, <1>2, <1>6, <1>7, <1>10, <1>11 DEF LinkInv, Pipeline
  <1>13. Flight'
    BY <1>5, <1>7 DEF Flight, Launched, FrameOf, frame
  <1>14. Tally'
    <2>1. NoAck'
      BY <1>1, <1>2 DEF LinkInv, Tally, NoAck, AckPlaces
    <2> QED
      BY <1>1, <1>2, <1>6, <2>1, LinkAssumption DEF LinkInv, Tally
  <1>16. Numbered'
    BY <1>1, <1>6 DEF LinkInv, Numbered, NextSync
  <1>15. Kept'
    BY <1>1, <1>2, <1>6 DEF LinkInv, Kept, ReceivedInOrder
  <1> QED
    BY <1>12, <1>13, <1>14, <1>15, <1>16 DEF LinkInv

(* The clock leaves the packet in flight what it is.                       *)
LEMMA TimePassesKeeps ==
    ASSUME TypeOK, LinkInv, TimePasses
    PROVE  LinkInv'
  <1>1. /\ UNCHANGED <<outbound, toDevice, toHost, queued, events, confirmed, counts>>
        /\ UNCHANGED <<acked, submitted, received, sync, is_synced, expected>>
    BY DEF TimePasses, Elapse, lineVars, deviceVars, callerVars, history
  <1>2. /\ in_flight # None /\ in_flight \in InFlight
        /\ in_flight'.sync = in_flight.sync /\ in_flight'.body = in_flight.body
    BY DEF TimePasses, Elapse, TypeOK, InFlight
  <1>3. Pipeline' /\ Flight'
    BY <1>1, <1>2, SameItems DEF LinkInv, Pipeline, Flight, FrameOf
  <1>4. Tally' /\ Kept' /\ Numbered'
    BY <1>1, SameItems
       DEF LinkInv, Tally, Kept, Numbered, ReceivedInOrder, NextSync, NoAck, OneAck, AckPlaces
  <1> QED
    BY <1>3, <1>4 DEF LinkInv

LEMMA TimeoutKeeps ==
    ASSUME TypeOK, LinkInv, TickTimeout, UNCHANGED <<lineVars, deviceVars, callerVars, acked>>
    PROVE  LinkInv'
  <1>1. /\ UNCHANGED <<outbound, toDevice, toHost, confirmed, counts>>
        /\ UNCHANGED <<acked, submitted, received, sync, is_synced, expected>>
        /\ queued' = <<>> /\ in_flight' = None
    BY NothingQueued
       DEF TickTimeout, AfterTimeout, LinkInv, Flight, lineVars, deviceVars, callerVars
  <1>2. /\ events \in Seq(Event) /\ events' = Append(events, Timeout(in_flight.sync))
        /\ Timeout(in_flight.sync).type # "Ack"
    BY DEF TickTimeout, Emit, TypeOK, Timeout
  <1>3. (NoAck => NoAck') /\ (OneAck => OneAck')
    BY <1>2, EventJoins
  <1>4. Pipeline' /\ Flight'
    BY <1>1, SameItems DEF LinkInv, Pipeline, Flight
  <1>5. Tally' /\ Kept' /\ Numbered'
    BY <1>1, <1>3, SameItems DEF LinkInv, Tally, Kept, Numbered, ReceivedInOrder, NextSync
  <1> QED
    BY <1>4, <1>5 DEF LinkInv

(* A packet that is written again takes its place behind its equals.       *)
LEMMA RetransmitKeeps ==
    ASSUME SyncMod > 1, TypeOK, LinkInv, TickRetransmit,
           UNCHANGED <<lineVars, deviceVars, callerVars, acked>>
    PROVE  LinkInv'
  <1> DEFINE frame == FrameOf(in_flight)
  <1>1. /\ UNCHANGED <<toDevice, toHost, queued, events, confirmed, counts>>
        /\ UNCHANGED <<acked, submitted, received, sync, is_synced, expected>>
        /\ in_flight # None /\ in_flight \in InFlight
        /\ in_flight'.sync = in_flight.sync /\ in_flight'.body = in_flight.body
        /\ outbound' = Append(outbound, frame)
    BY DEF TickRetransmit, Retransmission, SentNow, TypeOK, InFlight, lineVars, deviceVars,
           callerVars
  <1>2. \/ frame \in NewFrames /\ frame \notin OldFrames
        \/ frame \in OldFrames /\ NewFrames = {} /\ Stored # Acks + 1
    <2>1. CASE frame \in NewFrames
      BY <2>1, OldIsNotNew DEF LinkInv
    <2>2. CASE in_flight.body = SyncBody /\ ~is_synced
      <3>1. Acks = 0 /\ submitted = 0 /\ Stored = 0
        BY <2>2 DEF LinkInv, Numbered, Tally, Kept, Acks
      <3>2. frame \in [sync : Sync, body : {SyncBody}]
        BY <1>1, <2>2 DEF FrameOf, InFlight
      <3> QED
        BY <3>1, <3>2 DEF OldFrames, NewFrames
    <2> QED
      BY <1>1, <2>1, <2>2 DEF LinkInv, Flight
  <1> HIDE DEF frame
  <1>3. /\ outbound \in Seq(OldFrames \cup NewFrames) /\ frame \in OldFrames \cup NewFrames
        /\ Ordered(outbound, OldFrames, NewFrames)
        /\ frame \in OldFrames => NoneOf(outbound, NewFrames)
    BY <1>2, NoneOfNothing DEF LinkInv, Pipeline
  <1>4. /\ outbound' \in Seq(OldFrames \cup NewFrames)
        /\ Ordered(outbound', OldFrames, NewFrames)
        /\ NoneOf(outbound, OldFrames) /\ frame \notin OldFrames => NoneOf(outbound', OldFrames)
    BY <1>1, <1>3, LastJoins
  <1>5. Pipeline'
    BY <1>1, <1>2, <1>4, SameItems, NoneOfNothing DEF LinkInv, Pipeline
  <1>6. Flight'
    BY <1>1, SameItems DEF LinkInv, Flight, FrameOf
  <1>7. Tally' /\ Kept' /\ Numbered'
    BY <1>1, SameItems
       DEF LinkInv, Tally, Kept, Numbered, ReceivedInOrder, NextSync, NoAck, OneAck, AckPlaces
  <1> QED
    BY <1>5, <1>6, <1>7 DEF LinkInv

LEMMA CallerTicksKeeps ==
    ASSUME SyncMod > 1, TypeOK, LinkInv, CallerTicks
    PROVE  LinkInv'
  BY TimeoutKeeps, RetransmitKeeps DEF CallerTicks, Tick

-----------------------------------------------------------------------------
(* The oldest line on the way to the host.                                 *)
LEMMA Reading ==
    ASSUME SyncMod > 1, TypeOK, LinkInv, toHost # <<>>, NEW line, line = Head(toHost)
    PROVE  /\ line \in OldLines \cup NewLines \cup RsLines
           /\ line.token \in {"ok", "rs", "ss"}
           /\ line.token = "ok" =>
                 /\ line.sync \in Sync
                 /\ line.sync = sync => line \in NewLines
                 /\ is_synced
           /\ line.token = "ss" =>
                 /\ line.sync = IF is_synced THEN sync ELSE expected
                 /\ Acks = 0 /\ line.max_block_size \in BlockSize
           /\ line \in NewLines => Stored = Acks + 1 /\ NoneOf(Tail(toHost), OldLines)
  <1>1. /\ line \in OldLines \cup NewLines \cup RsLines
        /\ line \in NewLines => NoneOf(Tail(toHost), OldLines)
    BY FirstLeaves DEF LinkInv, Pipeline
  <1>2. sync \in Sync /\ Acks \in Nat /\ Stored \in Nat /\ Stored <= submitted /\ Acks <= submitted
    BY DEF TypeOK, LinkInv, Tally, Kept, Acks
  <1>3. CASE line \in OldLines /\ Acks = 0
    <2>1. /\ line.token = "ss" /\ line.max_block_size \in BlockSize
          /\ line.sync = IF is_synced THEN sync ELSE expected
      <3>1. PICK size \in BlockSize : line = SsLine(IF is_synced THEN sync ELSE expected, size)
        BY <1>3 DEF OldLines
      <3> QED
        BY <3>1 DEF SsLine
    <2>2. line \notin NewLines
      BY <1>3, OldIsNotNew DEF LinkInv
    <2> QED
      BY <1>1, <1>3, <2>1, <2>2
  <1>4. CASE line \in OldLines /\ Acks # 0
    <2>1. is_synced
      BY <1>2, <1>4 DEF LinkInv, Numbered
    <2>2. line.token = "ok" /\ line.sync \in Sync /\ NextSync(line.sync) = sync
      BY <1>4 DEF OldLines, OkLine
    <2>3. line \notin NewLines
      BY <1>4, OldIsNotNew DEF LinkInv
    <2> QED
      BY <1>1, <2>1, <2>2, <2>3, NextSyncIsInjective
  <1>5. CASE line \in NewLines
    <2>1. line.token = "ok" /\ line.sync = sync /\ Stored = Acks + 1
      BY <1>5 DEF NewLines, OkLine
    <2>2. is_synced
      BY <1>2, <2>1 DEF LinkInv, Numbered
    <2> QED
      BY <1>1, <1>2, <1>5, <2>1, <2>2
  <1>6. CASE line \in RsLines
    <2>1. line.token = "rs"
      <3>1. PICK n \in Sync : line = RsLine(n)
        BY <1>6 DEF RsLines
      <3> QED
        BY <3>1 DEF RsLine
    <2>2. line \notin NewLines
      BY <1>6, OldIsNotNew DEF LinkInv
    <2> QED
      BY <1>1, <2>1, <2>2
  <1> QED
    BY <1>1, <1>3, <1>4, <1>5, <1>6

(* A line that only becomes an event.                                      *)
LEMMA EventOnlyKeeps ==
    ASSUME TypeOK, LinkInv, toHost # <<>>, toHost' = Tail(toHost),
           NEW e, e.type # "Ack", Surface(e),
           UNCHANGED <<toDevice, deviceVars, callerVars, acked>>
    PROVE  LinkInv'
  <1>1. /\ UNCHANGED <<outbound, toDevice, queued, in_flight, confirmed, counts>>
        /\ UNCHANGED <<acked, submitted, received, sync, is_synced, expected>>
        /\ events \in Seq(Event) /\ events' = Append(events, e)
    BY DEF Surface, Emit, TypeOK, deviceVars, callerVars
  <1>2. (NoAck => NoAck') /\ (OneAck => OneAck')
    BY <1>1, EventJoins
  <1>3. Pipeline'
    BY <1>1, SameItems, FirstLeaves DEF LinkInv, Pipeline
  <1>4. Tally' /\ Kept' /\ Numbered' /\ Flight'
    BY <1>1, <1>2, SameItems
       DEF LinkInv, Tally, Kept, Numbered, Flight, ReceivedInOrder, NextSync, FrameOf
  <1> QED
    BY <1>3, <1>4 DEF LinkInv

(* The ok that retires the packet in flight is a new line; what was new is *)
(* old from now on, and nothing that was old is left.                      *)
LEMMA RetirementIsNew ==
    ASSUME SyncMod > 1, TypeOK, LinkInv, toHost # <<>>,
           Head(toHost).token = "ok", in_flight # None, Retires(Head(toHost).sync)
    PROVE  /\ Head(toHost) \in NewLines /\ is_synced
           /\ in_flight.body = Acks + 1 /\ submitted = Acks + 1 /\ Stored = Acks + 1
           /\ NoneOf(Tail(toHost), OldLines)
           /\ NoneOf(toDevice, OldFrames) /\ NoneOf(outbound, OldFrames)
  <1>1. FrameOf(in_flight) \in NewFrames /\ Head(toHost).sync = in_flight.sync
    BY DEF LinkInv, Flight, Retires, IsHandshake
  <1>2. in_flight.sync = sync /\ submitted = Acks + 1 /\ in_flight.body = Acks + 1
    BY <1>1 DEF NewFrames, FrameOf
  <1>3. Head(toHost) \in NewLines /\ is_synced
    BY <1>1, <1>2, Reading
  <1> QED
    BY <1>2, <1>3, Reading DEF LinkInv, Pipeline

LEMMA RetireKeeps ==
    ASSUME SyncMod > 1, TypeOK, LinkInv, toHost # <<>>, toHost' = Tail(toHost),
           Head(toHost).token = "ok", in_flight # None, Retires(Head(toHost).sync),
           HandleOk(Head(toHost).sync), acked' = Append(acked, in_flight.body),
           UNCHANGED <<toDevice, deviceVars, callerVars>>
    PROVE  LinkInv'
  <1>1. /\ is_synced /\ in_flight.body = Acks + 1 /\ submitted = Acks + 1
        /\ Stored = Acks + 1 /\ Acks \in Nat /\ sync \in Sync
        /\ NoneOf(toHost', OldLines)
        /\ NoneOf(toDevice, OldFrames) /\ NoneOf(outbound, OldFrames)
    BY RetirementIsNew DEF TypeOK, Acks, LinkInv, Tally
  <1>2. /\ sync' = NextSync(sync) /\ UNCHANGED is_synced
        /\ in_flight' = None /\ queued' = <<>> /\ UNCHANGED outbound
        /\ events' = Append(events, Ack(Head(toHost).sync)) /\ events \in Seq(Event)
        /\ UNCHANGED <<submitted, confirmed, received, counts, expected>>
    BY NothingQueued
       DEF HandleOk, Emit, LinkInv, Flight, TypeOK, deviceVars, callerVars
  <1>3. /\ acked' \in Seq(Body) /\ Acks' = Acks + 1
        /\ \A i \in 1 .. Acks' : acked'[i] = i
    <2>1. Acks + 1 \in Body /\ acked \in Seq(Body) /\ \A i \in 1 .. Acks : acked[i] = i
      BY <1>1, LinkAssumption DEF LinkInv, Tally
    <2> QED
      BY <1>1, <2>1 DEF Acks
  <1>4. Stored' = Stored
    BY <1>2 DEF Stored
  <1>5. NewFrames' = {} /\ NewFrames \subseteq OldFrames'
    BY <1>1, <1>2, <1>3 DEF NewFrames, OldFrames, NextSync
  <1>6. NewLines' = {} /\ NewLines \subseteq OldLines' /\ RsLines' = RsLines
    BY <1>1, <1>2, <1>3, <1>4 DEF NewLines, OldLines, RsLines, NextSync
  <1>7. outbound' \in Seq(OldFrames') /\ toDevice' \in Seq(OldFrames')
    <2>1. \A s \in Seq(OldFrames \cup NewFrames) : NoneOf(s, OldFrames) => s \in Seq(OldFrames')
      BY <1>5, Reviewed DEF NoneOf
    <2> QED
      BY <1>1, <1>2, <2>1 DEF LinkInv, Pipeline
  <1>8. toHost' \in Seq(OldLines' \cup RsLines)
    <2>1. toHost' \in Seq(OldLines \cup NewLines \cup RsLines)
      BY FirstLeaves DEF LinkInv, Pipeline
    <2>2. \A i \in 1 .. Len(toHost') : toHost'[i] \in NewLines \cup RsLines
      BY <1>1, <2>1, Reviewed DEF NoneOf
    <2>3. toHost' \in Seq(NewLines \cup RsLines)
      BY <2>1, <2>2, Reviewed
    <2> QED
      BY <1>6, <2>3, Reviewed
  <1>9. Pipeline'
    BY <1>1, <1>3, <1>4, <1>5, <1>6, <1>7, <1>8 DEF Pipeline, NoneOf, Ordered
  <1>10. Tally'
    <2>1. confirmed = Acks /\ NoAck /\ submitted <= Last
      BY <1>1 DEF LinkInv, Tally
    <2>2. OneAck'
      BY <1>2, <2>1, EventJoins DEF Ack
    <2> QED
      BY <1>1, <1>2, <1>3, <2>1, <2>2 DEF Tally
  <1>11. Kept'
    BY <1>1, <1>2, <1>3, <1>4 DEF LinkInv, Kept, ReceivedInOrder
  <1>12. Numbered'
    BY <1>1, <1>2, <1>3, <1>4 DEF LinkInv, Numbered
  <1> QED
    BY <1>2, <1>9, <1>10, <1>11, <1>12 DEF LinkInv, Flight

(* An ss line brings the number of packet 1, again or for the first time.  *)
LEMMA SyncedKeeps ==
    ASSUME SyncMod > 1, TypeOK, LinkInv, toHost # <<>>, toHost' = Tail(toHost),
           Head(toHost).token = "ss",
           HandleSs(Head(toHost).sync, Head(toHost).max_block_size),
           UNCHANGED <<toDevice, deviceVars, callerVars, acked>>
    PROVE  LinkInv'
  <1>1. /\ Head(toHost).sync = IF is_synced THEN sync ELSE expected
        /\ Acks = 0 /\ sync \in Sync /\ expected \in Sync
    BY Reading DEF TypeOK, LinkInv, Numbered
  <1>2. /\ sync' = (IF is_synced THEN sync ELSE expected) /\ is_synced'
        /\ queued' = <<>> /\ UNCHANGED outbound
        /\ in_flight' = IF in_flight # None /\ in_flight.body = SyncBody THEN None ELSE in_flight
        /\ events' = Append(events, Synced(Head(toHost).max_block_size)) /\ events \in Seq(Event)
        /\ UNCHANGED <<acked, submitted, confirmed, received, counts, expected, toDevice>>
    BY <1>1, NothingQueued, NextSyncIsInjective
       DEF HandleSs, Emit, IsHandshake, LinkInv, Flight, TypeOK, deviceVars, callerVars
  <1>3. (NoAck => NoAck') /\ (OneAck => OneAck')
    BY <1>2, EventJoins DEF Synced
  <1>4. Acks' = Acks /\ Stored' = Stored /\ RsLines' = RsLines
    BY <1>2 DEF Acks, Stored, RsLines
  <1>5. ~is_synced => submitted = 0 /\ Stored = 0 
    BY <1>1 DEF LinkInv, Numbered, Kept
  <1>6. NewFrames' = NewFrames /\ NewLines' = NewLines
    <2>1. CASE is_synced
      BY <1>2, <1>4, <2>1 DEF NewFrames, NewLines
    <2>2. CASE ~is_synced
      BY <1>1, <1>2, <1>4, <1>5, <2>2 DEF NewFrames, NewLines
    <2> QED
      BY <2>1, <2>2
  <1>7. OldFrames' = OldFrames /\ OldLines' = OldLines
    BY <1>1, <1>2, <1>4 DEF OldFrames, OldLines
  <1>8. Pipeline'
    BY <1>2, <1>4, <1>6, <1>7, FirstLeaves DEF LinkInv, Pipeline
  <1>9. Numbered'
    BY <1>1, <1>2, <1>4, <1>5 DEF LinkInv, Numbered, NextSync
  <1>10. Flight'
    BY <1>2, <1>6 DEF LinkInv, Flight, FrameOf
  <1>11. Tally' /\ Kept'
    BY <1>2, <1>3, <1>4 DEF LinkInv, Tally, Kept, ReceivedInOrder
  <1> QED
    BY <1>8, <1>9, <1>10, <1>11 DEF LinkInv

LEMMA CallerReadsKeeps ==
    ASSUME SyncMod > 1, TypeOK, LinkInv, CallerReads
    PROVE  LinkInv'
  <1> DEFINE line == Head(toHost)
  <1>1. /\ toHost # <<>> /\ ProcessLine(line) /\ toHost' = Tail(toHost)
        /\ acked' = IF line.token = "ok" /\ in_flight # None /\ Retires(line.sync)
                    THEN Append(acked, in_flight.body) ELSE acked
        /\ UNCHANGED <<toDevice, deviceVars, callerVars>>
    BY DEF CallerReads
  <1>2. line.token \in {"ok", "rs", "ss"}
    BY <1>1, Reading
  <1> HIDE DEF line
  <1>3. CASE line.token = "rs" /\ Surface(ResendRequested(line.sync))
    BY <1>1, <1>3, EventOnlyKeeps DEF ResendRequested
  <1>4. CASE line.token = "ok" /\ HandleOk(line.sync)
    <2>1. CASE in_flight # None /\ Retires(line.sync)
      BY <1>1, <1>4, <2>1, RetireKeeps DEF line
    <2>2. CASE in_flight = None
      <3>1. Surface(AsciiLine(StrayOk)) /\ UNCHANGED acked
        BY <1>1, <1>4, <2>2 DEF HandleOk, Surface
      <3> QED
        BY <1>1, <3>1, EventOnlyKeeps DEF AsciiLine
    <2>3. CASE in_flight # None /\ ~Retires(line.sync)
      <3>1. Surface(OutOfSync(in_flight.sync, line.sync)) /\ UNCHANGED acked
        BY <1>1, <1>4, <2>3 DEF HandleOk, Surface
      <3> QED
        BY <1>1, <3>1, EventOnlyKeeps DEF OutOfSync
    <2> QED
      BY <2>1, <2>2, <2>3
  <1>5. CASE line.token = "ss" /\ HandleSs(line.sync, line.max_block_size)
    BY <1>1, <1>5, SyncedKeeps DEF line
  <1> QED
    BY <1>1, <1>2, <1>3, <1>4, <1>5 DEF ProcessLine

-----------------------------------------------------------------------------
LEMMA LinkInvInit == LinkInit => LinkInv
  <1> SUFFICES ASSUME LinkInit
               PROVE  LinkInv
    OBVIOUS
  <1>1. /\ Acks = 0 /\ Stored = 0 /\ queued = <<>> /\ outbound = <<>>
        /\ toDevice = <<>> /\ toHost = <<>> /\ received = <<>> /\ acked = <<>>
        /\ events = <<>> /\ in_flight = None /\ ~is_synced
        /\ submitted = 0 /\ confirmed = 0 /\ counts \in BOOLEAN /\ expected \in Sync
    BY DEF LinkInit, Init, Acks, Stored
  <1>2. Pipeline
    BY <1>1, NothingThere, EmptyQueue DEF Pipeline
  <1>3. Tally /\ Kept
    BY <1>1, EmptyQueue, LinkAssumption DEF Tally, Kept, ReceivedInOrder, NoAck, AckPlaces
  <1> QED
    BY <1>1, <1>2, <1>3 DEF LinkInv, Numbered, Flight

LEMMA LinkInvStep ==
    ASSUME SyncMod > 1, Window = 1, TypeOK, LinkInv, [LinkNext]_linkVars
    PROVE  LinkInv'
  <1>1. CASE CallerConnects \/ CallerSends \/ CallerPolls \/ CallerTicks
    BY <1>1, CallerConnectsKeeps, CallerSendsKeeps, CallerPollsKeeps, CallerTicksKeeps
  <1>2. CASE CallerWrites \/ CallerReads \/ TimePasses
    BY <1>2, CallerWritesKeeps, CallerReadsKeeps, TimePassesKeeps
  <1>3. CASE LoseFrame \/ LoseLine
    BY <1>3, LoseFrameKeeps, LoseLineKeeps
  <1>4. CASE DeviceAsksAgain \/ DeviceSyncs \/ FirmwareRefuses
    BY <1>4, DeviceAsksAgainKeeps, DeviceSyncsKeeps, FirmwareRefusesKeeps
  <1>5. CASE FakeKeeps \/ FirmwareKeeps
    BY <1>5, FakeKeepsKeeps, FirmwareKeepsKeeps
  <1>6. CASE UNCHANGED linkVars
    <2>1. /\ UNCHANGED <<outbound, toDevice, toHost>>
          /\ UNCHANGED <<acked, submitted, received, sync, is_synced, expected>>
          /\ UNCHANGED <<confirmed, counts, in_flight, queued, events>>
      BY <1>6 DEF linkVars, vars, lineVars, deviceVars, callerVars, history
    <2>2. Pipeline'
      BY <2>1, SameItems DEF LinkInv, Pipeline
    <2> QED
      BY <2>1, <2>2, RestStays DEF LinkInv
  <1> QED
    BY <1>1, <1>2, <1>3, <1>4, <1>5, <1>6 DEF LinkNext
-----------------------------------------------------------------------------
(* The caller, the line and the devices only ever do to the session what   *)
(* Session's own environment may do.                                       *)
LEMMA LinkStepIsSessionStep ==
    ASSUME SyncMod > 1, TypeOK, LinkInv, [LinkNext]_linkVars
    PROVE  [Next]_vars
  <1>1. CASE CallerConnects \/ CallerPolls \/ CallerTicks \/ CallerWrites \/ TimePasses
    BY <1>1 DEF CallerConnects, CallerPolls, CallerTicks, CallerWrites, TimePasses, Next
  <1>2. CASE CallerSends
    <2>1. submitted + 1 \in Body /\ Send(submitted + 1)
      <3>1. submitted \in Nat /\ submitted < Last
        BY <1>2 DEF LinkInv, Tally, Acks, CallerSends
      <3> QED
        BY <1>2, <3>1, LinkAssumption DEF CallerSends
    <2> QED
      BY <2>1 DEF Next
  <1>3. CASE CallerReads
    <2>1. toHost # <<>> /\ ProcessLine(Head(toHost))
      BY <1>3 DEF CallerReads
    <2>2. Head(toHost) \in OldLines \cup NewLines \cup RsLines
      BY <2>1, Reading
    <2>3. OldLines \cup NewLines \cup RsLines \subseteq Line
      <3>1. sync \in Sync /\ expected \in Sync
        BY DEF TypeOK, LinkInv, Numbered
      <3>2. OldLines \subseteq Line
        BY <3>1, LinkAssumption DEF OldLines, Line
      <3>3. NewLines \subseteq Line /\ RsLines \subseteq Line
        BY <3>1 DEF NewLines, RsLines, Line
      <3> QED
        BY <3>2, <3>3
    <2> QED
      BY <2>1, <2>2, <2>3 DEF Next, Feed
  <1>4. CASE LoseFrame \/ LoseLine \/ DeviceAsksAgain \/ DeviceSyncs
    BY <1>4 DEF LoseFrame, LoseLine, DeviceAsksAgain, DeviceSyncs, Answers
  <1>5. CASE FakeKeeps \/ FirmwareKeeps \/ FirmwareRefuses
    BY <1>5 DEF FakeKeeps, FirmwareKeeps, FirmwareRefuses, Answers
  <1>6. CASE UNCHANGED linkVars
    BY <1>6 DEF linkVars
  <1> QED
    BY <1>1, <1>2, <1>3, <1>4, <1>5, <1>6 DEF LinkNext

(* Two flags only ever go up.                                              *)
Flags == gaveUp \in BOOLEAN /\ rewritten \in BOOLEAN

LEMMA FlagsStep ==
    ASSUME Flags, [LinkNext]_linkVars
    PROVE  Flags'
  <1>1. CASE CallerPolls
    <2>1. gaveUp' \in BOOLEAN
      BY <1>1 DEF CallerPolls
    <2>2. UNCHANGED rewritten
      BY <1>1 DEF CallerPolls, history
    <2> QED
      BY <2>1, <2>2 DEF Flags
  <1>2. CASE CallerTicks
    <2>1. UNCHANGED gaveUp
      BY <1>2 DEF CallerTicks, callerVars
    <2>2. rewritten' \in BOOLEAN
      BY <1>2 DEF CallerTicks
    <2> QED
      BY <2>1, <2>2 DEF Flags
  <1>3. CASE CallerConnects \/ CallerSends \/ CallerWrites \/ CallerReads \/ TimePasses
    BY <1>3 DEF CallerConnects, CallerSends, CallerWrites, CallerReads, TimePasses,
                callerVars, history, Flags
  <1>4. CASE LoseFrame \/ LoseLine \/ DeviceAsksAgain \/ DeviceSyncs
    BY <1>4 DEF LoseFrame, LoseLine, DeviceAsksAgain, DeviceSyncs, Answers,
                callerVars, history, Flags
  <1>5. CASE FakeKeeps \/ FirmwareKeeps \/ FirmwareRefuses
    BY <1>5 DEF FakeKeeps, FirmwareKeeps, FirmwareRefuses, Answers,
                callerVars, history, Flags
  <1>6. CASE UNCHANGED linkVars
    BY <1>6 DEF linkVars, callerVars, history, Flags
  <1> QED
    BY <1>1, <1>2, <1>3, <1>4, <1>5, <1>6 DEF LinkNext

LEMMA LinkInvariant ==
    ASSUME SyncMod > 1, Window = 1
    PROVE  LinkSpec => [](SessionInv /\ LinkInv /\ Flags)
  <1>1. LinkInit => SessionInv /\ LinkInv /\ Flags
    BY SessionInvInit, LinkInvInit DEF LinkInit, Flags
  <1>2. SessionInv /\ LinkInv /\ Flags /\ [LinkNext]_linkVars
            => (SessionInv /\ LinkInv /\ Flags)'
    <2> SUFFICES ASSUME SessionInv, LinkInv, Flags, [LinkNext]_linkVars
                 PROVE  SessionInv' /\ LinkInv' /\ Flags'
      OBVIOUS
    <2>1. TypeOK
      BY DEF SessionInv
    <2>2. SessionInv'
      BY <2>1, LinkStepIsSessionStep, SessionInvStep
    <2> QED
      BY <2>1, <2>2, LinkInvStep, FlagsStep
  <1> QED
    BY <1>1, <1>2, PTL DEF LinkSpec

-----------------------------------------------------------------------------
(* What is proved of the session on its own holds of it over the line.     *)
THEOREM LinkImplementsSession ==
    ASSUME SyncMod > 1, Window = 1
    PROVE  LinkSpec => Spec
  <1>1. LinkInit => Init
    BY DEF LinkInit
  <1>2. SessionInv /\ LinkInv /\ [LinkNext]_linkVars => [Next]_vars
    BY LinkStepIsSessionStep DEF SessionInv
  <1> QED
    BY <1>1, <1>2, LinkInvariant, PTL DEF LinkSpec, Spec

(* The line carries frames and lines, and the caller's tally is in range:  *)
(* no more Acks are polled than packets were sent.                         *)
THEOREM LinkTypeCorrect ==
    ASSUME SyncMod > 1, Window = 1
    PROVE  LinkSpec => []LinkTypeOK
  <1>1. SessionInv /\ LinkInv /\ Flags => LinkTypeOK
    <2> SUFFICES ASSUME TypeOK, LinkInv, Flags
                 PROVE  LinkTypeOK
      BY DEF SessionInv
    <2>1. sync \in Sync /\ expected \in Sync /\ counts \in BOOLEAN
      BY DEF TypeOK, LinkInv, Numbered
    <2>2. toDevice \in Seq(Frame)
      <3>1. OldFrames \cup NewFrames \subseteq Frame
        BY OldIsNotNew DEF LinkInv
      <3> QED
        BY <3>1, Reviewed DEF LinkInv, Pipeline
    <2>3. toHost \in Seq(Line)
      <3>1. OldLines \subseteq Line
        BY <2>1, LinkAssumption DEF OldLines, Line
      <3>2. NewLines \cup RsLines \subseteq Line
        BY <2>1 DEF NewLines, RsLines, Line
      <3> QED
        BY <3>1, <3>2, Reviewed DEF LinkInv, Pipeline
    <2>4. submitted \in 0 .. Last /\ confirmed \in 0 .. submitted
      BY LinkAssumption DEF LinkInv, Tally, Acks
    <2> QED
      BY <2>1, <2>2, <2>3, <2>4 DEF LinkTypeOK, LinkInv, Tally, Kept, Flags
  <1> QED
    BY <1>1, LinkInvariant, PTL

(* An ack the session accepts is for a packet the device has, however      *)
(* often the number has come around and whichever copies are still out.    *)
THEOREM AcksAreTrue ==
    ASSUME SyncMod > 1, Window = 1
    PROVE  LinkSpec => []AckedWasReceived
  <1>1. LinkInv => AckedWasReceived
    <2> SUFFICES ASSUME LinkInv, NEW i \in 1 .. Len(acked)
                 PROVE  \E j \in 1 .. Len(received) : received[j] = acked[i]
      BY DEF AckedWasReceived
    <2>1. acked[i] = i /\ i \in 1 .. Stored
      BY DEF LinkInv, Tally, Kept, Acks
    <2> QED
      BY <2>1 DEF LinkInv, Kept
  <1> QED
    BY <1>1, LinkInvariant, PTL

(* The device gets the packets in the order of their sending, without a    *)
(* gap, and one that counts gets each once.                                *)
THEOREM ReceptionIsInOrder ==
    ASSUME SyncMod > 1, Window = 1
    PROVE  LinkSpec => []ReceivedInOrder
  <1>1. LinkInv => ReceivedInOrder
    BY DEF LinkInv, Kept
  <1> QED
    BY <1>1, LinkInvariant, PTL

-----------------------------------------------------------------------------
(* A step of the link is a step of the channel, or none.                   *)
LEMMA KeepingIsDelivering ==
    ASSUME SyncMod > 1, TypeOK, LinkInv, DataArrives,
           received' = Append(received, Head(toDevice).body),
           UNCHANGED <<acked, callerVars>>
    PROVE  [Channel!Next]_(Channel!channelVars)
  <1>1. /\ received' # <<>> /\ Stored' = Head(toDevice).body
        /\ Acks' = Acks /\ UNCHANGED <<submitted, gaveUp>>
    BY DEF DataArrives, LinkInv, Kept, Stored, Acks, callerVars
  <1>2. /\ Acks \in Nat /\ Stored \in {Acks, Acks + 1} /\ Stored <= submitted
        /\ \/ Head(toDevice).body = Acks /\ Stored = Acks
           \/ Head(toDevice).body = Acks + 1 /\ submitted = Acks + 1
    BY Arriving DEF DataArrives, LinkInv, Kept, Tally, Acks
  <1>3. Stored' = Stored \/ (Stored' = Stored + 1 /\ Stored < submitted)
    BY <1>1, <1>2
  <1> QED
    BY <1>1, <1>3 DEF Stored, Acks, Channel!Next, Channel!Deliver, Channel!channelVars

LEMMA LinkStepIsChannelStep ==
    ASSUME SyncMod > 1, Window = 1, TypeOK, LinkInv, Flags, [LinkNext]_linkVars
    PROVE  [Channel!Next]_(Channel!channelVars)
  <1>1. ASSUME UNCHANGED <<received, acked, callerVars>>
        PROVE  [Channel!Next]_(Channel!channelVars)
    BY <1>1 DEF callerVars, Channel!channelVars
  <1>2. CASE CallerConnects \/ CallerTicks \/ CallerWrites \/ TimePasses
    BY <1>1, <1>2 DEF CallerConnects, CallerTicks, CallerWrites, TimePasses,
                      deviceVars, history
  <1>3. CASE LoseFrame \/ LoseLine \/ DeviceAsksAgain \/ DeviceSyncs \/ FirmwareRefuses
    BY <1>1, <1>3 DEF LoseFrame, LoseLine, DeviceAsksAgain, DeviceSyncs, FirmwareRefuses,
                      Answers, deviceVars, history
  <1>4. CASE UNCHANGED linkVars
    BY <1>1, <1>4 DEF linkVars, deviceVars, history
  <1>5. CASE CallerSends
    <2>1. /\ ~gaveUp /\ submitted < Last /\ submitted - confirmed < 1
          /\ submitted' = submitted + 1 /\ UNCHANGED <<received, acked, gaveUp>>
      BY <1>5 DEF CallerSends, deviceVars, history
    <2>2. submitted = Acks
      BY <2>1 DEF LinkInv, Tally, Acks
    <2> QED
      BY <2>1, <2>2 DEF Acks, Channel!Next, Channel!Submit
  <1>6. CASE CallerPolls
    <2>1. /\ UNCHANGED <<submitted, received, acked>>
          /\ gaveUp => gaveUp'
      BY <1>6 DEF CallerPolls, deviceVars, history
    <2>2. gaveUp' \in BOOLEAN
      BY <1>6, FlagsStep DEF Flags
    <2>3. UNCHANGED gaveUp \/ (~gaveUp /\ gaveUp' = TRUE)
      BY <2>1, <2>2 DEF Flags
    <2> QED
      BY <2>1, <2>3 DEF Channel!Next, Channel!GiveUp, Channel!channelVars
  <1>7. CASE CallerReads
    <2>1. /\ UNCHANGED <<received, submitted, gaveUp>> /\ toHost # <<>>
          /\ acked' = IF Head(toHost).token = "ok" /\ in_flight # None /\ Retires(Head(toHost).sync)
                      THEN Append(acked, in_flight.body) ELSE acked
      BY <1>7 DEF CallerReads, deviceVars, callerVars
    <2>2. CASE acked' = acked
      BY <1>1, <1>7, <2>1, <2>2 DEF CallerReads
    <2>3. CASE acked' # acked
      <3>1. Stored = Acks + 1 /\ acked' = Append(acked, in_flight.body)
        BY <2>1, <2>3, RetirementIsNew
      <3>2. Acks \in Nat /\ Acks' = Acks + 1
        BY <3>1 DEF Acks, LinkInv, Tally
      <3> QED
        BY <2>1, <3>1, <3>2 DEF Stored, Acks, Channel!Next, Channel!Acknowledge
    <2> QED
      BY <2>2, <2>3
  <1>8. CASE FakeKeeps \/ FirmwareKeeps
    BY <1>8, KeepingIsDelivering DEF FakeKeeps, FirmwareKeeps, Answers, history
  <1> QED
    BY <1>2, <1>3, <1>4, <1>5, <1>6, <1>7, <1>8 DEF LinkNext

(* The session, a line that loses and either device together take only the *)
(* steps of the reliable channel: packets arrive one after the other, and  *)
(* are acknowledged after they have arrived.                               *)
THEOREM LinkIsSafeChannel ==
    ASSUME SyncMod > 1, Window = 1
    PROVE  LinkSpec => Channel!Init /\ [][Channel!Next]_(Channel!channelVars)
  <1>1. LinkInit => Channel!Init
    BY DEF LinkInit, Channel!Init
  <1>2. SessionInv /\ LinkInv /\ Flags /\ [LinkNext]_linkVars
            => [Channel!Next]_(Channel!channelVars)
    BY LinkStepIsChannelStep DEF SessionInv
  <1> QED
    BY <1>1, <1>2, LinkInvariant, PTL DEF LinkSpec

-----------------------------------------------------------------------------
(* Over a line that loses, only a retransmission gets the session out of   *)
(* step.  A session that has written every packet once has one frame or    *)
(* line on its way at most, and nothing of the packet before when it sends *)
(* the next.                                                               *)
Quiet == outbound = <<>> /\ toDevice = <<>> /\ toHost = <<>>
OnTheWay == Len(outbound) + Len(toDevice) + Len(toHost)
NothingOld ==
    /\ NoneOf(outbound, OldFrames) /\ NoneOf(toDevice, OldFrames)
    /\ NoneOf(toHost, OldLines)
Told(type) == \E i \in 1 .. Len(events) : events[i].type = type

(* A caller that may connect has nothing left of an earlier handshake: the *)
(* timeout that ended it is in the queue, or has made the caller give up.  *)
OneWriting ==
    /\ OnTheWay <= 1
    /\ is_synced /\ submitted = Acks => Quiet
    /\ is_synced => NothingOld
    /\ ~is_synced /\ in_flight = None /\ ~gaveUp => Quiet \/ Told("Timeout")

InStepInv == ~rewritten => OneWriting /\ ~Told("OutOfSync")

-----------------------------------------------------------------------------
LEMMA Lines ==
    ASSUME LinkInv
    PROVE  /\ outbound \in Seq(OldFrames \cup NewFrames)
           /\ toDevice \in Seq(OldFrames \cup NewFrames)
           /\ toHost \in Seq(OldLines \cup NewLines \cup RsLines)
           /\ Len(outbound) \in Nat /\ Len(toDevice) \in Nat /\ Len(toHost) \in Nat
           /\ outbound = <<>> <=> Len(outbound) = 0
           /\ toDevice = <<>> <=> Len(toDevice) = 0
           /\ toHost = <<>> <=> Len(toHost) = 0
  <1>1. /\ outbound \in Seq(OldFrames \cup NewFrames)
        /\ toDevice \in Seq(OldFrames \cup NewFrames)
        /\ toHost \in Seq(OldLines \cup NewLines \cup RsLines)
    BY DEF LinkInv, Pipeline
  <1>2. \A S : \A s \in Seq(S) : Len(s) \in Nat /\ (s = <<>> <=> Len(s) = 0)
    OBVIOUS
  <1> QED
    BY <1>1, <1>2

(* The one item, where it is.                                              *)
LEMMA TheOnlyItem ==
    ASSUME LinkInv, OneWriting
    PROVE  /\ outbound # <<>> =>
                 Len(outbound) = 1 /\ Tail(outbound) = <<>> /\ toDevice = <<>> /\ toHost = <<>>
           /\ toDevice # <<>> =>
                 outbound = <<>> /\ Len(toDevice) = 1 /\ Tail(toDevice) = <<>> /\ toHost = <<>>
           /\ toHost # <<>> =>
                 outbound = <<>> /\ toDevice = <<>> /\ Len(toHost) = 1 /\ Tail(toHost) = <<>>
  <1>1. ASSUME NEW S, NEW s \in Seq(S), Len(s) = 1
        PROVE  Tail(s) = <<>>
    <2>1. Tail(s) \in Seq(S) /\ Len(Tail(s)) = 0
      BY <1>1
    <2>2. \A t \in Seq(S) : t = <<>> <=> Len(t) = 0
      OBVIOUS
    <2> QED
      BY <2>1, <2>2
  <1>2. Len(outbound) = 1 => Tail(outbound) = <<>>
    BY <1>1, Lines
  <1>3. Len(toDevice) = 1 => Tail(toDevice) = <<>>
    BY <1>1, Lines
  <1>4. Len(toHost) = 1 => Tail(toHost) = <<>>
    BY <1>1, Lines
  <1>5. \A a, b, c \in Nat : a + b + c <= 1 =>
            /\ a # 0 => a = 1 /\ b = 0 /\ c = 0
            /\ b # 0 => a = 0 /\ b = 1 /\ c = 0
            /\ c # 0 => a = 0 /\ b = 0 /\ c = 1
    OBVIOUS
  <1>6. /\ Len(outbound) # 0 => Len(outbound) = 1 /\ Len(toDevice) = 0 /\ Len(toHost) = 0
        /\ Len(toDevice) # 0 => Len(outbound) = 0 /\ Len(toDevice) = 1 /\ Len(toHost) = 0
        /\ Len(toHost) # 0 => Len(outbound) = 0 /\ Len(toDevice) = 0 /\ Len(toHost) = 1
    BY <1>5, Lines DEF OneWriting, OnTheWay
  <1> QED
    BY <1>2, <1>3, <1>4, <1>6, Lines

(* The event queue.                                                        *)
LEMMA TellingMore ==
    ASSUME events \in Seq(Event), NEW e, events' = Append(events, e)
    PROVE  /\ Told("Timeout") => Told("Timeout")'
           /\ e.type = "Timeout" => Told("Timeout")'
           /\ ~Told("OutOfSync") /\ e.type # "OutOfSync" => ~Told("OutOfSync")'
  <1>1. /\ Len(events) \in Nat /\ Len(events') = Len(events) + 1
        /\ events'[Len(events) + 1] = e
        /\ \A i \in 1 .. Len(events) : i \in 1 .. Len(events') /\ events'[i] = events[i]
    OBVIOUS
  <1> QED
    BY <1>1 DEF Told

LEMMA TellingLess ==
    ASSUME events \in Seq(Event), events # <<>>, events' = Tail(events)
    PROVE  /\ Told("Timeout") /\ Head(events).type # "Timeout" => Told("Timeout")'
           /\ ~Told("OutOfSync") => ~Told("OutOfSync")'
  <1>1. /\ Head(events) = events[1] /\ Len(events) \in Nat /\ Len(events') = Len(events) - 1
        /\ \A i \in 1 .. Len(events') : i + 1 \in 1 .. Len(events) /\ events'[i] = events[i + 1]
    OBVIOUS
  <1>2. Told("Timeout") /\ Head(events).type # "Timeout" => Told("Timeout")'
    <2> SUFFICES ASSUME NEW i \in 1 .. Len(events), events[i].type = "Timeout", i # 1
                 PROVE  Told("Timeout")'
      BY <1>1 DEF Told
    <2>1. i - 1 \in 1 .. Len(events') /\ events'[i - 1] = events[i]
      BY <1>1
    <2> QED
      BY <2>1 DEF Told
  <1>3. ~Told("OutOfSync") => ~Told("OutOfSync")'
    BY <1>1 DEF Told
  <1> QED
    BY <1>2, <1>3

(* A line on which nothing is left is in step whatever came of it.         *)
LEMMA QuietIsInStep ==
    ASSUME outbound' = <<>>, toDevice' = <<>>, toHost' = <<>>
    PROVE  OneWriting'
  <1>1. NothingOld'
    BY DEF NothingOld, NoneOf
  <1> QED
    BY <1>1 DEF OneWriting, OnTheWay, Quiet

(* The one item moves on, or becomes another.                              *)
LEMMA MovingOn ==
    ASSUME OneWriting, ~Quiet, OnTheWay' <= 1, is_synced => NothingOld',
           UNCHANGED <<acked, submitted, is_synced, in_flight, gaveUp, events>>
    PROVE  OneWriting'
  <1>1. Acks' = Acks /\ (Told("Timeout") => Told("Timeout")')
    BY DEF Acks, Told
  <1> QED
    BY <1>1 DEF OneWriting

-----------------------------------------------------------------------------
LEMMA ConnectInStep ==
    ASSUME SyncMod > 1, TypeOK, LinkInv, InStepInv, CallerConnects
    PROVE  InStepInv'
  <1> SUFFICES ASSUME ~rewritten, OneWriting, ~Told("OutOfSync"), UNCHANGED rewritten
               PROVE  OneWriting' /\ ~Told("OutOfSync")'
    BY DEF CallerConnects, history, InStepInv
  <1>1. /\ ~is_synced /\ in_flight = None /\ ~gaveUp /\ events = <<>> /\ queued = <<>>
        /\ UNCHANGED <<toDevice, toHost, events, is_synced>>
    BY DEF CallerConnects, Connect, Enqueue, lineVars, LinkInv, Flight
  <1>2. Quiet
    BY <1>1 DEF OneWriting, Told
  <1>3. /\ in_flight' # None
        /\ outbound' = Append(outbound, [sync |-> sync, body |-> SyncBody])
    <2>1. /\ in_flight' = Launched(sync, SyncBody)
          /\ outbound' = Append(outbound, [sync |-> sync, body |-> SyncBody])
      BY <1>1, OneQueued DEF CallerConnects, Connect, Enqueue
    <2>2. Launched(sync, SyncBody) \in InFlight
      BY NumbersAssumption DEF Launched, InFlight, Packet, TypeOK
    <2> QED
      BY <2>1, <2>2, NoneAssumption
  <1>4. OnTheWay' = 1
    BY <1>1, <1>2, <1>3 DEF Quiet, OnTheWay
  <1>5. ~Told("OutOfSync")'
    BY <1>1 DEF Told
  <1> QED
    BY <1>1, <1>3, <1>4, <1>5 DEF OneWriting

LEMMA SendInStep ==
    ASSUME SyncMod > 1, Window = 1, TypeOK, LinkInv, InStepInv, CallerSends
    PROVE  InStepInv'
  <1> SUFFICES ASSUME ~rewritten, OneWriting, ~Told("OutOfSync"), UNCHANGED rewritten
               PROVE  OneWriting' /\ ~Told("OutOfSync")'
    BY DEF CallerSends, history, InStepInv
  <1> DEFINE frame == [sync |-> sync, body |-> submitted + 1]
  <1>1. /\ submitted < Last /\ submitted - confirmed < 1 /\ is_synced
        /\ submitted' = submitted + 1 /\ queued = <<>>
        /\ UNCHANGED <<toDevice, toHost, events, acked, sync, is_synced>>
    BY DEF CallerSends, Send, Enqueue, LinkInv, Flight, lineVars, history
  <1>2. Acks \in Nat /\ submitted = Acks /\ Acks' = Acks
    BY <1>1 DEF LinkInv, Tally, Acks
  <1>3. Quiet
    BY <1>1, <1>2 DEF OneWriting
  <1>4. in_flight = None
    BY <1>1, <1>2 DEF LinkInv, Flight, NewFrames
  <1>5. outbound' = Append(outbound, frame)
    BY <1>1, <1>4, OneQueued DEF CallerSends, Send, Enqueue
  <1>6. /\ Len(outbound') = 1 /\ outbound'[1] = frame
        /\ Len(toDevice') = 0 /\ Len(toHost') = 0
    BY <1>1, <1>3, <1>5 DEF Quiet
  <1>7. NothingOld'
    <2>1. submitted + 1 # SyncBody /\ submitted + 1 # Acks
      BY <1>1, <1>2, LinkAssumption, InputsAssumption
    <2>2. frame \notin OldFrames'
      BY <1>1, <1>2, <2>1 DEF OldFrames
    <2> HIDE DEF frame
    <2> QED
      BY <1>6, <2>2 DEF NothingOld, NoneOf
  <1>8. ~Told("OutOfSync")'
    BY <1>1 DEF Told
  <1> QED
    BY <1>1, <1>2, <1>6, <1>7, <1>8 DEF OneWriting, OnTheWay

LEMMA PollInStep ==
    ASSUME TypeOK, LinkInv, InStepInv, CallerPolls
    PROVE  InStepInv'
  <1> SUFFICES ASSUME ~rewritten, OneWriting, ~Told("OutOfSync"), UNCHANGED rewritten
               PROVE  OneWriting' /\ ~Told("OutOfSync")'
    BY DEF CallerPolls, history, InStepInv
  <1>1. /\ events # <<>> /\ events' = Tail(events) /\ events \in Seq(Event)
        /\ UNCHANGED <<toDevice, toHost, outbound, submitted, acked, is_synced, in_flight, sync>>
        /\ UNCHANGED expected
        /\ gaveUp' = (gaveUp \/ Head(events).type \in {"OutOfSync", "FatalError", "Timeout"})
    BY DEF CallerPolls, PollEvent, lineVars, deviceVars, history, TypeOK
  <1>2. /\ Told("Timeout") /\ ~gaveUp' => Told("Timeout")'
        /\ ~Told("OutOfSync")'
    BY <1>1, TellingLess
  <1>3. /\ Quiet' = Quiet /\ OnTheWay' = OnTheWay /\ Acks' = Acks
        /\ OldFrames' = OldFrames /\ OldLines' = OldLines
    BY <1>1 DEF Quiet, OnTheWay, Acks, OldFrames, OldLines, NextSync
  <1>4. NothingOld => NothingOld'
    BY <1>1, <1>3 DEF NothingOld
  <1> QED
    BY <1>1, <1>2, <1>3, <1>4 DEF OneWriting

(* tick either rewrites, or tells that the time is out.                    *)
LEMMA TickInStep ==
    ASSUME TypeOK, LinkInv, InStepInv, CallerTicks
    PROVE  InStepInv'
  <1>1. CASE TickRetransmit
    BY <1>1 DEF CallerTicks, InStepInv
  <1>2. CASE TickTimeout /\ ~rewritten
    <2>1. OneWriting /\ ~Told("OutOfSync")
      BY <1>2 DEF InStepInv
    <2>2. /\ events' = Append(events, Timeout(in_flight.sync)) /\ events \in Seq(Event)
          /\ UNCHANGED <<toDevice, toHost, outbound, submitted, acked, is_synced, sync, expected>>
      BY <1>2, NothingQueued
         DEF CallerTicks, TickTimeout, AfterTimeout, Emit, lineVars, deviceVars, callerVars,
             LinkInv, Flight, TypeOK
    <2>3. Told("Timeout")' /\ ~Told("OutOfSync")'
      BY <2>1, <2>2, TellingMore DEF Timeout
    <2>4. /\ Quiet' = Quiet /\ OnTheWay' = OnTheWay /\ Acks' = Acks
          /\ OldFrames' = OldFrames /\ OldLines' = OldLines
      BY <2>2 DEF Quiet, OnTheWay, Acks, OldFrames, OldLines, NextSync
    <2>5. NothingOld => NothingOld'
      BY <2>2, <2>4 DEF NothingOld
    <2> QED
      BY <2>1, <2>2, <2>3, <2>4, <2>5 DEF OneWriting, InStepInv
  <1>3. CASE rewritten
    BY <1>3 DEF CallerTicks, InStepInv
  <1> QED
    BY <1>1, <1>2, <1>3 DEF CallerTicks, Tick

LEMMA TimeInStep ==
    ASSUME TypeOK, InStepInv, TimePasses
    PROVE  InStepInv'
  <1>1. /\ in_flight # None /\ in_flight' # None
        /\ UNCHANGED <<toDevice, toHost, outbound, submitted, acked, is_synced, sync>>
        /\ UNCHANGED <<expected, events, rewritten>>
    <2>1. /\ in_flight \in InFlight
          /\ in_flight' = [in_flight EXCEPT !.age = Later(@, TotalTimeout),
                                            !.idle = Later(@, ResponseTimeout)]
      BY DEF TimePasses, Elapse, TypeOK
    <2>2. /\ \A t \in 0 .. TotalTimeout : Later(t, TotalTimeout) \in 0 .. TotalTimeout
          /\ \A t \in 0 .. ResponseTimeout : Later(t, ResponseTimeout) \in 0 .. ResponseTimeout
      BY NumbersAssumption DEF Later
    <2>3. in_flight' \in InFlight
      BY <2>1, <2>2 DEF InFlight
    <2> QED
      BY <2>1, <2>3, NoneAssumption
         DEF TimePasses, Elapse, lineVars, deviceVars, callerVars, history
  <1>2. /\ Quiet' = Quiet /\ OnTheWay' = OnTheWay /\ Acks' = Acks
        /\ OldFrames' = OldFrames /\ OldLines' = OldLines
    BY <1>1 DEF Quiet, OnTheWay, Acks, OldFrames, OldLines, NextSync
  <1>3. /\ NothingOld => NothingOld'
        /\ ~Told("OutOfSync") => ~Told("OutOfSync")'
    BY <1>1, <1>2 DEF NothingOld, Told
  <1> QED
    BY <1>1, <1>2, <1>3 DEF InStepInv, OneWriting

-----------------------------------------------------------------------------
(* What is lost was the only item.                                         *)
LEMMA LossInStep ==
    ASSUME LinkInv, InStepInv, LoseFrame \/ LoseLine
    PROVE  InStepInv'
  <1> SUFFICES ASSUME ~rewritten, OneWriting, ~Told("OutOfSync"), UNCHANGED rewritten
               PROVE  OneWriting' /\ ~Told("OutOfSync")'
    BY DEF LoseFrame, LoseLine, history, InStepInv
  <1>1. UNCHANGED <<outbound, events>>
    BY DEF LoseFrame, LoseLine, vars
  <1>2. outbound' = <<>> /\ toDevice' = <<>> /\ toHost' = <<>>
    <2>1. CASE LoseFrame
      <3>1. toDevice # <<>> /\ toDevice' = Tail(toDevice) /\ UNCHANGED toHost
        BY <2>1 DEF LoseFrame
      <3> QED
        BY <1>1, <3>1, TheOnlyItem
    <2>2. CASE LoseLine
      <3>1. toHost # <<>> /\ toHost' = Tail(toHost) /\ UNCHANGED toDevice
        BY <2>2 DEF LoseLine
      <3> QED
        BY <1>1, <3>1, TheOnlyItem
    <2> QED
      BY <2>1, <2>2
  <1>3. OneWriting'
    BY <1>2, QuietIsInStep
  <1> QED
    BY <1>1, <1>3 DEF Told

LEMMA WriteInStep ==
    ASSUME TypeOK, LinkInv, InStepInv, CallerWrites
    PROVE  InStepInv'
  <1> SUFFICES ASSUME ~rewritten, OneWriting, ~Told("OutOfSync"), UNCHANGED rewritten
               PROVE  OneWriting' /\ ~Told("OutOfSync")'
    BY DEF CallerWrites, history, InStepInv
  <1> DEFINE frame == Head(outbound)
             frames == OldFrames \cup NewFrames
  <1>1. /\ outbound # <<>> /\ outbound' = Tail(outbound)
        /\ toDevice' \in {toDevice, Append(toDevice, frame)}
        /\ UNCHANGED <<toHost, acked, submitted, is_synced, in_flight, gaveUp, events, sync>>
    BY DEF CallerWrites, PollOutbound, callerVars, history
  <1>2. Len(outbound) = 1 /\ toDevice = <<>> /\ toHost = <<>>
    BY <1>1, TheOnlyItem
  <1>3. outbound' = <<>> /\ toHost' = <<>>
    BY <1>1, TheOnlyItem
  <1>4. OldFrames' = OldFrames
    BY <1>1 DEF OldFrames, Acks, NextSync
  <1>5. CASE toDevice' = toDevice
    <2>1. OneWriting'
      BY <1>2, <1>3, <1>5, QuietIsInStep
    <2> QED
      BY <1>1, <2>1 DEF Told
  <1>6. CASE toDevice' = Append(toDevice, frame)
    <2>1. toDevice' = <<frame>> /\ OnTheWay' = 1
      BY <1>2, <1>3, <1>6 DEF OnTheWay
    <2>2. is_synced => frame \notin OldFrames
      BY <1>1, Lines, FirstLeaves DEF OneWriting, NothingOld
    <2> HIDE DEF frame
    <2>3. is_synced => NothingOld'
      BY <1>3, <1>4, <2>1, <2>2 DEF NothingOld, NoneOf
    <2>4. OneWriting'
      BY <1>1, <2>1, <2>3, MovingOn DEF Quiet
    <2> QED
      BY <1>1, <2>4 DEF Told
  <1> QED
    BY <1>1, <1>5, <1>6

(* An answer takes the place of the frame it is for.  To a new frame no    *)
(* old line is an answer.                                                  *)
LEMMA AnswerInStep ==
    ASSUME TypeOK, LinkInv, InStepInv, toDevice # <<>>, NEW line, Answers(line),
           is_synced => line \notin OldLines
    PROVE  InStepInv'
  <1> SUFFICES ASSUME ~rewritten, OneWriting, ~Told("OutOfSync"), UNCHANGED rewritten
               PROVE  OneWriting' /\ ~Told("OutOfSync")'
    BY DEF Answers, history, InStepInv
  <1>1. /\ toDevice' = Tail(toDevice) /\ toHost' = Append(toHost, line)
        /\ UNCHANGED <<outbound, acked, submitted, is_synced, in_flight, gaveUp, events, sync>>
    BY DEF Answers, vars, callerVars, history
  <1>2. outbound = <<>> /\ Len(toDevice) = 1 /\ toHost = <<>>
    BY TheOnlyItem
  <1>3. outbound' = <<>> /\ toDevice' = <<>> /\ toHost' = <<line>>
    BY <1>1, <1>2, TheOnlyItem
  <1>4. is_synced => OldLines' = OldLines
    BY <1>1 DEF OldLines, Acks, NextSync
  <1>5. OnTheWay' = 1
    BY <1>3 DEF OnTheWay
  <1>6. is_synced => NothingOld'
    BY <1>3, <1>4 DEF NothingOld, NoneOf
  <1>7. OneWriting'
    BY <1>1, <1>5, <1>6, MovingOn DEF Quiet
  <1> QED
    BY <1>1, <1>7 DEF Told

LEMMA DeviceInStep ==
    ASSUME SyncMod > 1, TypeOK, LinkInv, InStepInv,
           \/ DeviceAsksAgain \/ DeviceSyncs
           \/ FakeKeeps \/ FirmwareKeeps \/ FirmwareRefuses
    PROVE  InStepInv'
  <1> SUFFICES ASSUME ~rewritten
               PROVE  InStepInv'
    BY DEF DeviceAsksAgain, DeviceSyncs, FakeKeeps, FirmwareKeeps, FirmwareRefuses, Answers,
           history, InStepInv
  <1> DEFINE frame == Head(toDevice)
  <1>1. toDevice # <<>> /\ OneWriting
    BY DEF DeviceAsksAgain, DeviceSyncs, FakeKeeps, FirmwareKeeps, FirmwareRefuses,
           DataArrives, InStepInv
  <1>2. is_synced => frame \notin OldFrames
    BY <1>1, Lines, FirstLeaves DEF OneWriting, NothingOld
  <1>3. is_synced => frame.sync = sync /\ frame.body # SyncBody
    BY <1>1, <1>2, Arriving, InputsAssumption
  <1>4. \A n : RsLine(n) \notin OldLines
    BY DEF RsLine, SsLine, OkLine, OldLines
  <1>5. OkLine(sync) \notin OldLines
    BY NextSyncIsInjective DEF SsLine, OkLine, OldLines, TypeOK
  <1>6. CASE DeviceAsksAgain
    BY <1>1, <1>4, <1>6, AnswerInStep DEF DeviceAsksAgain
  <1>7. CASE DeviceSyncs
    <2>1. frame.body = SyncBody /\ \E size \in BlockSize : Answers(SsLine(expected, size))
      BY <1>7 DEF DeviceSyncs
    <2> QED
      BY <1>1, <1>3, <2>1, AnswerInStep
  <1>8. CASE (FakeKeeps \/ FirmwareKeeps \/ FirmwareRefuses) /\ Answers(OkLine(frame.sync))
    BY <1>1, <1>3, <1>5, <1>8, AnswerInStep
  <1>9. CASE FirmwareRefuses /\ ~Answers(OkLine(frame.sync))
    <2>1. /\ toDevice' = Tail(toDevice) /\ UNCHANGED <<outbound, toHost, events>>
      BY <1>9 DEF FirmwareRefuses, vars
    <2>2. outbound' = <<>> /\ toHost' = <<>> /\ toDevice' = <<>>
      BY <1>1, <2>1, TheOnlyItem
    <2>3. OneWriting'
      BY <2>2, QuietIsInStep
    <2> QED
      BY <2>1, <2>3 DEF InStepInv, Told
  <1> QED
    BY <1>6, <1>7, <1>8, <1>9 DEF FakeKeeps, FirmwareKeeps

(* The line that is read was the only item; it is an ok for the packet in  *)
(* flight, or no ok.                                                       *)
LEMMA ReadInStep ==
    ASSUME SyncMod > 1, TypeOK, LinkInv, InStepInv, CallerReads
    PROVE  InStepInv'
  <1> SUFFICES ASSUME ~rewritten, OneWriting, ~Told("OutOfSync"), UNCHANGED rewritten
               PROVE  OneWriting' /\ ~Told("OutOfSync")'
    BY DEF CallerReads, InStepInv
  <1> DEFINE line == Head(toHost)
  <1>1. toHost # <<>> /\ ProcessLine(line) /\ toHost' = Tail(toHost) /\ UNCHANGED toDevice
    BY DEF CallerReads
  <1>2. outbound = <<>> /\ toDevice = <<>> /\ Tail(toHost) = <<>>
    BY <1>1, TheOnlyItem
  <1>3. queued = <<>> /\ events \in Seq(Event)
    BY DEF LinkInv, Flight, TypeOK
  <1>4. line \in OldLines \cup NewLines \cup RsLines /\ line.token \in {"ok", "rs", "ss"}
    BY <1>1, Reading
  <1>5. line.token = "ok" => is_synced /\ line.sync = sync
    <2>1. line.token = "ok" => is_synced
      BY <1>1, Reading
    <2>2. is_synced => line \notin OldLines
      BY <1>1, Lines, FirstLeaves DEF OneWriting, NothingOld
    <2>3. line \in RsLines => line.token = "rs"
      <3> SUFFICES ASSUME NEW n \in Sync, line = RsLine(n)
                   PROVE  line.token = "rs"
        BY DEF RsLines
      <3> QED
        BY DEF RsLine
    <2>4. line \in NewLines => line.sync = sync
      BY DEF NewLines, OkLine
    <2> QED
      BY <1>4, <2>1, <2>2, <2>3, <2>4
  <1>6. /\ outbound' = <<>>
        /\ \E e : e.type # "OutOfSync" /\ events' = Append(events, e)
    <2> HIDE DEF line
    <2>1. CASE line.token = "rs" /\ Surface(ResendRequested(line.sync))
      BY <1>2, <2>1 DEF Surface, Emit, ResendRequested
    <2>2. CASE line.token = "ss" /\ HandleSs(line.sync, line.max_block_size)
      BY <1>2, <1>3, <2>2, NothingQueued DEF HandleSs, Emit, Synced
    <2>3. CASE line.token = "ok" /\ HandleOk(line.sync)
      <3>1. in_flight # None => Retires(line.sync)
        BY <1>5, <2>3, LinkAssumption, InputsAssumption
           DEF LinkInv, Flight, Tally, Acks, NewFrames, FrameOf, Retires, IsHandshake
      <3> QED
        BY <1>2, <1>3, <2>3, <3>1, NothingQueued DEF HandleOk, Emit, Ack, AsciiLine
    <2> QED
      BY <1>1, <1>4, <2>1, <2>2, <2>3 DEF ProcessLine
  <1>7. toDevice' = <<>> /\ toHost' = <<>>
    BY <1>1, <1>2
  <1>8. OneWriting'
    BY <1>6, <1>7, QuietIsInStep
  <1>9. ~Told("OutOfSync")'
    BY <1>3, <1>6, TellingMore
  <1> QED
    BY <1>8, <1>9

-----------------------------------------------------------------------------
LEMMA InStepStep ==
    ASSUME SyncMod > 1, Window = 1, TypeOK, LinkInv, InStepInv, [LinkNext]_linkVars
    PROVE  InStepInv'
  <1>1. CASE CallerConnects \/ CallerSends \/ CallerPolls
    BY <1>1, ConnectInStep, SendInStep, PollInStep
  <1>2. CASE CallerTicks \/ CallerWrites \/ CallerReads \/ TimePasses
    BY <1>2, TickInStep, WriteInStep, ReadInStep, TimeInStep
  <1>3. CASE LoseFrame \/ LoseLine
    BY <1>3, LossInStep
  <1>4. CASE DeviceAsksAgain \/ DeviceSyncs \/ FakeKeeps \/ FirmwareKeeps \/ FirmwareRefuses
    BY <1>4, DeviceInStep
  <1>5. CASE UNCHANGED linkVars
    BY <1>5
       DEF linkVars, vars, lineVars, deviceVars, callerVars, history, InStepInv, OneWriting,
           Quiet, OnTheWay, Told, NothingOld, OldFrames, OldLines, Acks, NextSync
  <1> QED
    BY <1>1, <1>2, <1>3, <1>4, <1>5 DEF LinkNext

(* A caller that sends one packet at a time is told OutOfSync only after a *)
(* retransmission: losses alone never do it, with either device.           *)
THEOREM LossIsNoMisstep ==
    ASSUME SyncMod > 1, Window = 1
    PROVE  LinkSpec => []InStepUnlessRewritten
  <1>1. LinkInit => InStepInv
    BY DEF LinkInit, Init, InStepInv, OneWriting, OnTheWay, Quiet, Told
  <1>2. SessionInv /\ LinkInv /\ InStepInv /\ [LinkNext]_linkVars => InStepInv'
    BY InStepStep DEF SessionInv
  <1>3. InStepInv => InStepUnlessRewritten
    BY DEF InStepInv, InStepUnlessRewritten, Told
  <1> QED
    BY <1>1, <1>2, <1>3, LinkInvariant, PTL DEF LinkSpec

=============================================================================
