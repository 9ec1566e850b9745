---------------------------- MODULE UploadProofs ----------------------------
(***************************************************************************)
(* Proofs, for every value of the constants, that upload uses its session  *)
(* as the session's specification allows, that its WRITEs fit the device,  *)
(* and that it tells a silent device from a slow one.                      *)
(***************************************************************************)
EXTENDS UploadLink, FileTransferProofs

(* A WRITE is one that the device has room for. *)
Fits(body) ==
    body # SyncBody /\ body.kind = "write" =>
        /\ body.chunk \in Chunk /\ body.chunk.len > 0
        /\ block # 0 => body.chunk.len <= block

BodiesFit ==
    /\ in_flight # None => Fits(in_flight.body)
    /\ \A i \in 1 .. Len(queued) : Fits(queued[i])
    /\ \A i \in 1 .. Len(outbound) : Fits(outbound[i].body)
    /\ \A i \in 1 .. Len(toDevice) : toDevice[i] # Trigger => Fits(toDevice[i].body)

(* Every ss line of the device tells its one block size.                   *)
DeviceLine == { line \in Line : line.token = "ss" => line.max_block_size = block }

WireInv ==
    /\ toDevice \in Seq(Frame \cup {Trigger})
    /\ toHost \in Seq(DeviceLine)
    /\ counts \in BOOLEAN /\ block \in BlockSize /\ expected \in Sync
    /\ kept \in Seq(Chunk)

(* What the session has learnt of the device, and when the caller knows it.*)
Prepared == phase \in TransferPhase \cup {"leaving"}

BlockInv ==
    /\ is_synced => max_block_size = block
    /\ \A i \in 1 .. Len(events) : events[i].type = "Synced" => is_synced
    /\ Prepared \/ After("syncing") => is_synced

SizeInv ==
    /\ Prepared => chunk_size \in Nat \ {0} /\ (block # 0 => chunk_size <= block)
    /\ ~Prepared => chunk_size = None

PayloadInv ==
    /\ payload \in PayloadLen \cup {None}
    /\ bytes_sent \in Nat
    /\ payload = None => bytes_sent = 0
    /\ payload # None => bytes_sent <= payload
    /\ phase = "writing" /\ step \notin {"done", "returned"} =>
          payload # None /\ bytes_sent < payload

ControlInv ==
    /\ phase \in Phase /\ step \in Step
    /\ iteration \in 0 .. (Iterations - 1)
    /\ result \in Result
    /\ step = "returned" <=> result # Running
    /\ hurried \in BOOLEAN

UploadInv ==
    /\ SessionInv /\ FileInv
    /\ ControlInv /\ PayloadInv /\ SizeInv /\ BlockInv /\ WireInv /\ BodiesFit

-----------------------------------------------------------------------------
(* The next piece of the payload. *)
LEMMA NextPiece ==
    ASSUME PayloadInv, SizeInv, WireInv, AtChunk, bytes_sent < payload
    PROVE  /\ NextChunk \in Chunk /\ NextLength \in 1 .. (payload - bytes_sent)
           /\ Fits(WritePacket(NextChunk)) /\ WritePacket(NextChunk) \in Body
  <1>1. /\ payload \in PayloadLen /\ payload \in Nat /\ bytes_sent \in 0 .. (payload - 1)
        /\ chunk_size \in Nat \ {0} /\ (block # 0 => chunk_size <= block)
    BY UploadAssumption
       DEF AtChunk, After, PayloadInv, SizeInv, Prepared, TransferPhase
  <1>2. NextLength \in 1 .. (payload - bytes_sent) /\ NextLength <= chunk_size
    BY <1>1 DEF NextLength
  <1>3. bytes_sent \in 0 .. (payload - 1) /\ NextLength \in 1 .. payload
    BY <1>1, <1>2
  <1> HIDE DEF NextLength
  <1>4. NextChunk \in [from : 0 .. (payload - 1), len : 1 .. payload]
    BY <1>3 DEF NextChunk
  <1>5. NextChunk \in Chunk
    BY <1>1, <1>4, PiecesAssumption
  <1>6. block # 0 => NextLength <= block
    BY <1>1, <1>2, UploadAssumption DEF WireInv
  <1>7. NextChunk.len = NextLength
    BY DEF NextChunk
  <1> HIDE DEF NextChunk
  <1>8. Fits(WritePacket(NextChunk))
    BY <1>2, <1>5, <1>6, <1>7 DEF Fits, WritePacket
  <1> QED
    BY <1>2, <1>5, <1>8, RequestsAreBodies

(* The other packets carry no chunk. *)
LEMMA PlainFits == \A kind : kind # "write" => Fits(Plain(kind))
  BY DEF Fits, Plain

(* The packet the session is handed in a step.                             *)
Hands(packet) ==
    /\ Enqueue(packet)
    /\ packet = SyncBody \/ (packet \in Body /\ is_synced)
    /\ Fits(packet)

(* What a step does to the session.                                        *)
SessionView ==
    \/ \E packet \in Packet : Hands(packet)
    \/ PollOutbound \/ Elapse \/ Tick \/ PollEvent
    \/ \E line \in DeviceLine : ProcessLine(line)
    \/ UNCHANGED vars

LEMMA Handing ==
    ASSUME NEW packet \in Body, Send(packet), Fits(packet)
    PROVE  SessionView
  BY DEF Send, SessionView, Hands, Packet

LEMMA StepSessionView ==
    ASSUME UploadInv, [LinkNext]_uploadVars
    PROVE  SessionView
  <1>1. CASE UNCHANGED vars
    BY <1>1 DEF SessionView
  <1>2. CASE StartsSync
    BY <1>2 DEF StartsSync, Connect, SessionView, Hands, Packet, Fits
  <1>3. CASE StartsQuery
    BY <1>3, RequestsAreBodies, PlainFits, Handing DEF StartsQuery, Query, Request
  <1>4. CASE StartsOpen
    <2>1. Fits(OpenPacket)
      BY PlainFits DEF OpenPacket
    <2> QED
      BY <1>1, <1>4, <2>1, RequestsAreBodies, Handing
         DEF StartsOpen, Asserting, Open, Request, fileVars
  <1>5. CASE StartsWrite
    BY <1>1, <1>5, NextPiece, Handing
       DEF StartsWrite, Asserting, Write, Request, fileVars, UploadInv
  <1>6. CASE StartsClose
    BY <1>1, <1>6, RequestsAreBodies, PlainFits, Handing
       DEF StartsClose, Asserting, Close, Request, fileVars
  <1>7. CASE StartsLeaving
    BY <1>7, UploadAssumption, PlainFits, Handing DEF StartsLeaving, ControlClose
  <1>8. CASE FeedsLine
    <2>1. Head(toHost) \in DeviceLine
      BY <1>8 DEF FeedsLine, UploadInv, WireInv
    <2> QED
      BY <1>8, <2>1 DEF FeedsLine, SessionView
  <1>9. CASE WritesOut \/ ReadWaits \/ ReadTimesOut \/ Ticks
    BY <1>9 DEF WritesOut, ReadWaits, ReadTimesOut, Ticks, SessionView
  <1>10. CASE DrainsSession \/ DrainsTransfer
    BY <1>10 DEF DrainsSession, DrainsTransfer, PollStart, PollHandle, PollReturn, fileVars,
                 SessionView
  <1> QED
    BY <1>1, <1>2, <1>3, <1>4, <1>5, <1>6, <1>7, <1>8, <1>9, <1>10
       DEF LinkNext, CallerStep, UploadStep, StraightLine, LoopBody, Environment, IoFails,
           ReadsSource, Finishes, ReadReturnsNothing, FeedEnds, uploadVars, callerVars, fileVars

LEMMA ViewIsSessionStep == SessionView => [Next]_vars
  <1>1. ASSUME NEW packet \in Packet, Hands(packet)
        PROVE  Next
    BY <1>1 DEF Hands, Next, Connect, Send
  <1>2. ASSUME NEW line \in DeviceLine, ProcessLine(line)
        PROVE  Next
    BY <1>2 DEF DeviceLine, Feed, Next
  <1> QED
    BY <1>1, <1>2 DEF SessionView, Next

-----------------------------------------------------------------------------
(* What the session holds stays within a set of bodies if what it is       *)
(* handed is.                                                              *)
Within(G) ==
    /\ in_flight # None => in_flight.body \in G
    /\ \A i \in 1 .. Len(queued) : queued[i] \in G
    /\ \A i \in 1 .. Len(outbound) : outbound[i].body \in G

LEMMA DispatchWithin ==
    ASSUME TypeOK, NEW G, Within(G),
           NEW flight \in InFlight \cup {None}, NEW pending \in Seq(Packet), NEW n \in Sync,
           DispatchIfIdle(flight, pending, n),
           flight # None => flight.body \in G,
           \A i \in 1 .. Len(pending) : pending[i] \in G
    PROVE  Within(G)'
  <1>1. CASE flight # None \/ pending = <<>>
    BY <1>1 DEF DispatchIfIdle, Within
  <1>2. CASE flight = None /\ pending # <<>>
    <2> DEFINE frame == [sync |-> n, body |-> Head(pending)]
    <2>1. /\ Head(pending) \in G /\ Head(pending) \in Packet
          /\ \A i \in 1 .. Len(Tail(pending)) : Tail(pending)[i] \in G
      <3>1. Head(pending) = pending[1] /\ 1 \in 1 .. Len(pending) /\ Head(pending) \in Packet
        BY <1>2
      <3>2. \A i \in 1 .. Len(Tail(pending)) :
               i + 1 \in 1 .. Len(pending) /\ Tail(pending)[i] = pending[i + 1]
        BY <1>2
      <3> QED
        BY <3>1, <3>2
    <2>2. /\ in_flight'.body = Head(pending)
          /\ queued' = Tail(pending) /\ outbound' = Append(outbound, frame)
      BY <1>2 DEF DispatchIfIdle, Launched
    <2>3. frame \in Frame /\ frame.body = Head(pending) /\ outbound \in Seq(Frame)
      BY <2>1 DEF Frame, TypeOK
    <2> HIDE DEF frame
    <2>4. \A i \in 1 .. Len(outbound') : outbound'[i] = frame \/
               (i \in 1 .. Len(outbound) /\ outbound'[i] = outbound[i])
      BY <2>2, <2>3
    <2> QED
      BY <2>1, <2>2, <2>3, <2>4 DEF Within
  <1> QED
    BY <1>1, <1>2

LEMMA SessionWithin ==
    ASSUME SessionInv, NEW G, Within(G), SessionView,
           \A packet \in Packet : Hands(packet) => packet \in G
    PROVE  Within(G)'
  <1>1. /\ TypeOK /\ in_flight \in InFlight \cup {None} /\ sync \in Sync
        /\ queued \in Seq(Packet) /\ outbound \in Seq(Frame)
    BY DEF SessionInv, TypeOK
  <1>2. ASSUME NEW packet \in Packet, Hands(packet)
        PROVE  Within(G)'
    <2> DEFINE pending == Append(queued, packet)
    <2>1. pending \in Seq(Packet) /\ DispatchIfIdle(in_flight, pending, sync)
      BY <1>1, <1>2 DEF Hands, Enqueue
    <2>2. \A i \in 1 .. Len(pending) : pending[i] \in G
      BY <1>1, <1>2 DEF Within
    <2> HIDE DEF pending
    <2> QED
      BY <1>1, <2>1, <2>2, DispatchWithin DEF Within
  <1>3. CASE PollOutbound
    <2>1. \A i \in 1 .. Len(outbound') :
             i + 1 \in 1 .. Len(outbound) /\ outbound'[i] = outbound[i + 1]
      BY <1>1, <1>3 DEF PollOutbound
    <2> QED
      BY <1>3, <2>1 DEF PollOutbound, Within
  <1>4. CASE Elapse
    <2>1. in_flight'.body = in_flight.body /\ in_flight # None /\ UNCHANGED <<queued, outbound>>
      BY <1>1, <1>4 DEF Elapse, InFlight
    <2> QED
      BY <2>1 DEF Within
  <1>5. CASE TickTimeout
    BY <1>1, <1>5, DispatchWithin DEF TickTimeout, AfterTimeout, Within
  <1>6. CASE TickRetransmit
    <2>1. /\ in_flight'.body = in_flight.body /\ in_flight # None /\ UNCHANGED queued
          /\ outbound' = Append(outbound, FrameOf(in_flight))
          /\ FrameOf(in_flight) \in Frame /\ FrameOf(in_flight).body = in_flight.body
      BY <1>1, <1>6
         DEF TickRetransmit, SentNow, Retransmission, FrameOf, InFlight, Frame
    <2>2. \A i \in 1 .. Len(outbound') : outbound'[i] = FrameOf(in_flight) \/
               (i \in 1 .. Len(outbound) /\ outbound'[i] = outbound[i])
      BY <1>1, <2>1
    <2> QED
      BY <2>1, <2>2 DEF Within
  <1>7. CASE UNCHANGED <<in_flight, queued, outbound>>
    BY <1>7 DEF Within
  <1>8. ASSUME NEW line \in DeviceLine, ProcessLine(line)
        PROVE  Within(G)'
    <2>1. CASE line.token = "ok" /\ HandleOk(line.sync)
      <3>1. CASE in_flight # None /\ Retires(line.sync) /\ DispatchIfIdle(None, queued, NextSync(sync))
        BY <1>1, <3>1, NextSyncInRange, DispatchWithin DEF Within
      <3> QED
        BY <1>7, <2>1, <3>1 DEF HandleOk
    <2>2. CASE line.token = "ss" /\ HandleSs(line.sync, line.max_block_size)
      <3>1. line.sync \in SsNumber
        BY <2>2 DEF DeviceLine, Line, OkLine, RsLine, SsLine, TextLine, FeLine, NoiseLine
      <3>2. line.sync % SyncMod \in Sync
        BY <3>1, InputsAssumption, NextSyncInRange
      <3> DEFINE left == IF in_flight # None /\ IsHandshake(in_flight) THEN None ELSE in_flight
      <3>3. DispatchIfIdle(left, queued, line.sync % SyncMod)
        BY <2>2 DEF HandleSs
      <3>4. left \in InFlight \cup {None} /\ (left # None => left.body \in G)
        BY <1>1 DEF Within
      <3> HIDE DEF left
      <3> QED
        BY <1>1, <3>2, <3>3, <3>4, DispatchWithin DEF Within
    <2> QED
      BY <1>7, <1>8, <2>1, <2>2 DEF ProcessLine, Surface, vars
  <1> QED
    BY <1>2, <1>3, <1>4, <1>5, <1>6, <1>7, <1>8 DEF SessionView, Tick, PollEvent, vars

-----------------------------------------------------------------------------
(* The line. *)
LEMMA DeviceStaysItself == [LinkNext]_uploadVars => UNCHANGED <<counts, block>>
  BY DEF LinkNext, CallerStep, Environment, uploadVars, deviceVars, LoseFrame, LoseLine,
         DeviceFails, HearsTrigger, IgnoresFrame, AsksAgain, AnswersSync, FakeHandles,
         FirmwareHandles, FirmwareRefuses

ToDeviceView ==
    \/ UNCHANGED toDevice
    \/ toDevice # <<>> /\ toDevice' = Tail(toDevice)
    \/ toDevice' = Carry(toDevice, Trigger)
    \/ outbound # <<>> /\ toDevice' = Carry(toDevice, Head(outbound))

LEMMA StepToDeviceView ==
    ASSUME [LinkNext]_uploadVars
    PROVE  ToDeviceView
  <1>1. CASE Environment
    BY <1>1
       DEF Environment, LoseFrame, LoseLine, DeviceFails, HearsTrigger, IgnoresFrame, HearsFrame,
           Arrived, AsksAgain, AnswersSync, FakeHandles, FirmwareHandles, FirmwareRefuses, DataHeard,
           Handles, AnswersQuery, AnswersOpen, AnswersWrite, AnswersClose, AnswersControlClose,
           Answers, ToDeviceView
  <1>2. CASE StartsSync \/ WritesOut
    BY <1>2 DEF StartsSync, WritesOut, PollOutbound, ToDeviceView
  <1> QED
    BY <1>1, <1>2
       DEF LinkNext, CallerStep, UploadStep, StraightLine, LoopBody, IoFails, StartsQuery,
           StartsOpen, ReadsSource, StartsWrite, StartsClose, StartsLeaving, Finishes,
           ReadWaits, ReadTimesOut, ReadReturnsNothing, FeedsLine, FeedEnds, DrainsSession,
           DrainsTransfer, Ticks, lineVars, uploadVars, ToDeviceView

LEMMA ToDeviceKeeps ==
    ASSUME SessionInv, WireInv, BodiesFit, ToDeviceView, UNCHANGED block
    PROVE  /\ toDevice' \in Seq(Frame \cup {Trigger})
           /\ \A i \in 1 .. Len(toDevice') : toDevice'[i] # Trigger => Fits(toDevice'[i].body)
  <1>1. toDevice \in Seq(Frame \cup {Trigger})
    BY DEF WireInv
  <1>2. \A i \in 1 .. Len(toDevice) : toDevice[i] # Trigger => Fits(toDevice[i].body)
    BY DEF BodiesFit
  <1>3. CASE toDevice # <<>> /\ toDevice' = Tail(toDevice)
    <2>1. \A i \in 1 .. Len(toDevice') :
             i + 1 \in 1 .. Len(toDevice) /\ toDevice'[i] = toDevice[i + 1]
      BY <1>1, <1>3
    <2> QED
      BY <1>1, <1>2, <1>3, <2>1
  <1>4. ASSUME NEW item \in Frame \cup {Trigger}, toDevice' = Carry(toDevice, item),
               item # Trigger => Fits(item.body)
        PROVE  /\ toDevice' \in Seq(Frame \cup {Trigger})
               /\ \A i \in 1 .. Len(toDevice') :
                     toDevice'[i] # Trigger => Fits(toDevice'[i].body)
    <2>1. \A i \in 1 .. Len(toDevice') :
             toDevice'[i] = item \/ (i \in 1 .. Len(toDevice) /\ toDevice'[i] = toDevice[i])
      BY <1>1, <1>4 DEF Carry
    <2> QED
      BY <1>1, <1>2, <1>4, <2>1 DEF Carry
  <1>5. ASSUME outbound # <<>>
        PROVE  Head(outbound) \in Frame /\ Fits(Head(outbound).body)
    <2>1. Head(outbound) \in Frame /\ Head(outbound) = outbound[1] /\ 1 \in 1 .. Len(outbound)
      BY <1>5 DEF SessionInv, TypeOK
    <2> QED
      BY <2>1 DEF BodiesFit
  <1> QED
    BY <1>1, <1>2, <1>3, <1>4, <1>5 DEF ToDeviceView

LEMMA BodiesFitKept ==
    ASSUME UploadInv, [LinkNext]_uploadVars
    PROVE  BodiesFit' /\ toDevice' \in Seq(Frame \cup {Trigger})
  <1>0. PICK G : G = { packet \in Packet : Fits(packet) }
    OBVIOUS
  <1>1. block' = block /\ ToDeviceView /\ SessionView /\ SessionInv /\ TypeOK
    BY DeviceStaysItself, StepToDeviceView, StepSessionView DEF UploadInv, SessionInv
  <1>2. Within(G)
    <2>1. \A packet \in Packet : Fits(packet) => packet \in G
      BY <1>0
    <2>2. /\ in_flight # None => in_flight.body \in Packet
          /\ \A i \in 1 .. Len(queued) : queued[i] \in Packet
          /\ \A i \in 1 .. Len(outbound) : outbound[i].body \in Packet
      <3>1. /\ in_flight \in InFlight \cup {None}
            /\ queued \in Seq(Packet) /\ outbound \in Seq(Frame)
        BY <1>1 DEF TypeOK
      <3>2. \A frame \in Frame : frame.body \in Packet
        BY DEF Frame
      <3>3. \A flight \in InFlight : flight.body \in Packet
        BY DEF InFlight
      <3> QED
        BY <3>1, <3>2, <3>3
    <2> QED
      BY <2>1, <2>2 DEF Within, UploadInv, BodiesFit
  <1>3. \A packet \in Packet : Hands(packet) => packet \in G
    BY <1>0 DEF Hands
  <1>4. \A g \in G : Fits(g)
    BY <1>0
  <1>5. Within(G)'
    BY <1>1, <1>2, <1>3, SessionWithin
  <1>6. /\ in_flight' # None => Fits(in_flight'.body)
        /\ \A i \in 1 .. Len(queued') : Fits(queued'[i])
        /\ \A i \in 1 .. Len(outbound') : Fits(outbound'[i].body)
    BY <1>4, <1>5 DEF Within
  <1>7. /\ toDevice' \in Seq(Frame \cup {Trigger})
        /\ \A i \in 1 .. Len(toDevice') : toDevice'[i] # Trigger => Fits(toDevice'[i].body)
    BY <1>1, ToDeviceKeeps DEF UploadInv
  <1> QED
    BY <1>1, <1>6, <1>7 DEF BodiesFit, Fits

(* The device's lines. *)
LEMMA DeviceLines ==
    ASSUME WireInv
    PROVE  /\ \A n \in Sync : OkLine(n) \in DeviceLine /\ RsLine(n) \in DeviceLine
           /\ \A n \in Sync : SsLine(n, block) \in DeviceLine
           /\ FeLine \in DeviceLine
           /\ \A text \in FileText : TextLine(text) \in DeviceLine
  <1>1. \A n \in Sync : OkLine(n) \in DeviceLine /\ RsLine(n) \in DeviceLine
    <2>1. \A n \in Sync : OkLine(n) \in Line /\ RsLine(n) \in Line
      BY DEF Line
    <2> QED
      BY <2>1 DEF DeviceLine, OkLine, RsLine
  <1>2. \A n \in Sync : SsLine(n, block) \in DeviceLine
    <2>1. \A n \in Sync : SsLine(n, block) \in Line
      BY UploadLinkAssumption DEF WireInv, Line
    <2> QED
      BY <2>1 DEF DeviceLine, SsLine
  <1>3. FeLine \in DeviceLine
    BY DEF DeviceLine, Line, FeLine
  <1>4. \A text \in FileText : TextLine(text) \in DeviceLine
    <2>1. \A text \in FileText : TextLine(text) \in Line
      BY FileTextAssumption DEF Line
    <2> QED
      BY <2>1 DEF DeviceLine, TextLine
  <1> QED
    BY <1>1, <1>2, <1>3, <1>4

ToHostView ==
    \/ UNCHANGED toHost
    \/ toHost # <<>> /\ toHost' = Tail(toHost)
    \/ \E lines \in Seq(DeviceLine) : toHost' = toHost \o lines

LEMMA ResendIsSync ==
    ASSUME WireInv, HearsFrame
    PROVE  ResendNumber \in Sync
  <1>1. Head(toDevice) \in Frame
    BY DEF WireInv, HearsFrame, Arrived
  <1> QED
    BY <1>1 DEF WireInv, ResendNumber, Frame

LEMMA AnswersView ==
    ASSUME WireInv, toDevice # <<>>, Head(toDevice) # Trigger, NEW lines \in Seq(DeviceLine),
           Answers(lines) \/ Answers(Acked(lines))
    PROVE  ToHostView
  <1>1. Head(toDevice) \in Frame
    BY DEF WireInv
  <1>2. OkLine(Head(toDevice).sync) \in DeviceLine
    BY <1>1, DeviceLines DEF Frame
  <1>3. Acked(lines) \in Seq(DeviceLine)
    BY <1>2 DEF Acked
  <1> QED
    BY <1>3 DEF Answers, ToHostView

LEMMA HandlesToHost ==
    ASSUME WireInv, HearsFrame, Handles
    PROVE  ToHostView
  <1>1. toDevice # <<>> /\ Head(toDevice) # Trigger /\ <<>> \in Seq(DeviceLine)
    BY DEF HearsFrame, Arrived
  <1>2. ASSUME NEW text \in FileText
        PROVE  <<TextLine(text)>> \in Seq(DeviceLine)
    BY <1>2, DeviceLines
  <1>3. ASSUME NEW word \in StatusWord
        PROVE  Says(word) \in Seq(DeviceLine)
    BY <1>2, <1>3 DEF Says, FileText
  <1>4. CASE AnswersQuery
    <2>1. PICK comp \in DeviceCompression : Answers(Acked(<<TextLine(Version(comp))>>))
      BY <1>4 DEF AnswersQuery
    <2>2. Version(comp) \in FileText
      BY DEF FileText
    <2> QED
      BY <1>1, <1>2, <2>1, <2>2, AnswersView
  <1>5. CASE AnswersOpen
    BY <1>1, <1>3, <1>5, AnswersView DEF AnswersOpen, StatusWord
  <1>6. CASE AnswersClose
    BY <1>1, <1>3, <1>6, AnswersView DEF AnswersClose, StatusWord
  <1>7. CASE AnswersWrite \/ AnswersControlClose
    BY <1>1, <1>7, AnswersView DEF AnswersWrite, AnswersControlClose
  <1> QED
    BY <1>4, <1>5, <1>6, <1>7 DEF Handles

LEMMA StepToHostView ==
    ASSUME WireInv, [LinkNext]_uploadVars
    PROVE  ToHostView
  <1>1. CASE UNCHANGED toHost
    BY <1>1 DEF ToHostView
  <1>2. <<>> \in Seq(DeviceLine)
    OBVIOUS
  <1>3. CASE LoseLine \/ FeedsLine
    BY <1>3 DEF LoseLine, FeedsLine, ToHostView
  <1>4. CASE DeviceFails
    <2>1. toHost' = toHost \o <<FeLine>> /\ <<FeLine>> \in Seq(DeviceLine)
      BY <1>4, DeviceLines DEF DeviceFails, WireInv
    <2> QED
      BY <2>1 DEF ToHostView
  <1>5. CASE HearsTrigger \/ IgnoresFrame
    BY <1>2, <1>5 DEF HearsTrigger, IgnoresFrame, Answers, ToHostView
  <1>6. CASE AsksAgain \/ AnswersSync
    <2>1. HearsFrame => <<RsLine(ResendNumber)>> \in Seq(DeviceLine)
      BY DeviceLines, ResendIsSync
    <2>2. <<SsLine(expected, block)>> \in Seq(DeviceLine)
      BY DeviceLines DEF WireInv
    <2> QED
      BY <1>6, <2>1, <2>2 DEF AsksAgain, AnswersSync, Answers, ToHostView
  <1>7. CASE FakeHandles \/ FirmwareHandles
    BY <1>7, HandlesToHost DEF FakeHandles, FirmwareHandles, DataHeard
  <1>8. CASE FirmwareRefuses
    BY <1>2, <1>8, AnswersView DEF FirmwareRefuses, DataHeard, HearsFrame, Arrived
  <1> QED
    BY <1>1, <1>3, <1>4, <1>5, <1>6, <1>7, <1>8
       DEF LinkNext, CallerStep, UploadStep, StraightLine, LoopBody, IoFails, StartsSync,
           StartsQuery, StartsOpen, ReadsSource, StartsWrite, StartsClose, StartsLeaving, Finishes,
           WritesOut, ReadWaits, ReadTimesOut, ReadReturnsNothing, FeedEnds, DrainsSession,
           DrainsTransfer, Ticks, lineVars, uploadVars, Environment, LoseFrame

LEMMA DeviceKeepsTypes ==
    ASSUME SessionInv, WireInv, BodiesFit, [LinkNext]_uploadVars
    PROVE  expected' \in Sync /\ kept' \in Seq(Chunk)
  <1>1. expected \in Sync /\ NextSync(expected) \in Sync /\ kept \in Seq(Chunk)
    BY NextSyncInRange DEF WireInv
  <1>2. CASE UNCHANGED <<expected, kept>>
    BY <1>1, <1>2
  <1>3. CASE FakeHandles \/ FirmwareHandles
    <2>1. DataHeard /\ Handles /\ expected' \in Sync
      BY <1>1, <1>3 DEF FakeHandles, FirmwareHandles
    <2>2. CASE AnswersWrite
      <3>1. Head(toDevice) = toDevice[1] /\ 1 \in 1 .. Len(toDevice) /\ Head(toDevice) # Trigger
        BY <2>1 DEF DataHeard, HearsFrame, Arrived, WireInv
      <3>2. Body1.chunk \in Chunk
        BY <2>1, <2>2, <3>1 DEF DataHeard, AnswersWrite, Body1, BodiesFit, Fits
      <3> QED
        BY <1>1, <2>1, <2>2, <3>2 DEF AnswersWrite
    <2>3. CASE ~AnswersWrite
      BY <1>1, <2>1, <2>3
         DEF Handles, AnswersQuery, AnswersOpen, AnswersClose, AnswersControlClose
    <2> QED
      BY <2>2, <2>3
  <1> QED
    BY <1>2, <1>3
       DEF LinkNext, CallerStep, Environment, uploadVars, deviceVars, LoseFrame, LoseLine,
           DeviceFails, HearsTrigger, IgnoresFrame, AsksAgain, AnswersSync, FirmwareRefuses

LEMMA WireKept ==
    ASSUME UploadInv, [LinkNext]_uploadVars
    PROVE  WireInv'
  <1>1. UNCHANGED <<counts, block>> /\ ToHostView
    BY DeviceStaysItself, StepToHostView DEF UploadInv
  <1>2. DeviceLine' = DeviceLine
    BY <1>1 DEF DeviceLine
  <1>3. toHost' \in Seq(DeviceLine)
    <2>1. toHost \in Seq(DeviceLine)
      BY DEF UploadInv, WireInv
    <2> HIDE DEF DeviceLine
    <2>2. toHost # <<>> => Tail(toHost) \in Seq(DeviceLine)
      BY <2>1
    <2>3. \A lines \in Seq(DeviceLine) : toHost \o lines \in Seq(DeviceLine)
      BY <2>1
    <2> QED
      BY <1>1, <2>1, <2>2, <2>3 DEF ToHostView
  <1> QED
    BY <1>1, <1>2, <1>3, BodiesFitKept, DeviceKeepsTypes DEF UploadInv, WireInv

-----------------------------------------------------------------------------
(* The transfer. *)
LEMMA FileKept ==
    ASSUME UploadInv, [LinkNext]_uploadVars
    PROVE  FileInv'
  <1>1. FileInv /\ TypeOK
    BY DEF UploadInv, SessionInv
  <1>2. CASE UNCHANGED ftVars
    BY <1>1, <1>2, SessionStepKeepsFile DEF ftVars, FileInv, FileTypeOK
  <1>3. CASE StartsQuery
    BY <1>1, <1>3, QueryKeepsFile, UploadAssumption DEF StartsQuery
  <1>4. CASE StartsOpen \/ StartsWrite \/ StartsClose
    <2>1. CASE Open \/ (\E chunk : Write(chunk)) \/ Close
      BY <1>1, <2>1, RequestKeepsFile DEF Open, Write, Close, Request, Awaiting
    <2> QED
      BY <1>2, <1>4, <2>1 DEF StartsOpen, StartsWrite, StartsClose, Asserting, fileVars
  <1>5. CASE DrainsTransfer
    <2>1. CASE PollStart
      BY <1>1, <2>1, SessionStepKeepsFile DEF PollStart
    <2>2. CASE PollHandle
      BY <1>1, <2>2, HandleSessionEventKeeps DEF PollHandle
    <2>3. CASE PollReturn
      BY <1>1, <2>3, PollReturnKeepsFile
    <2> QED
      BY <1>2, <1>5, <2>1, <2>2, <2>3 DEF DrainsTransfer, fileVars
  <1> QED
    BY <1>2, <1>3, <1>4, <1>5
       DEF LinkNext, CallerStep, UploadStep, StraightLine, LoopBody, Environment, IoFails,
           StartsSync, StartsLeaving, ReadsSource, Finishes, WritesOut, ReadWaits, ReadTimesOut,
           ReadReturnsNothing, FeedsLine, FeedEnds, DrainsSession, Ticks, uploadVars,
           callerVars, fileVars

-----------------------------------------------------------------------------
(* The session learns the device's block size when it is synced, and only  *)
(* its one block size.                                                     *)
Learnt(size) ==
    /\ is_synced => max_block_size = size
    /\ \A i \in 1 .. Len(events) : events[i].type = "Synced" => is_synced

LEMMA SessionLearns ==
    ASSUME SessionInv, SessionView, NEW size, size = block, Learnt(size)
    PROVE  Learnt(size)' /\ (is_synced => is_synced')
  <1>1. events \in Seq(Event)
    BY DEF SessionInv, TypeOK
  <1>2. CASE UNCHANGED <<is_synced, max_block_size, events>>
    BY <1>2 DEF Learnt
  <1>3. CASE PollEvent
    <2>1. \A i \in 1 .. Len(events') : i + 1 \in 1 .. Len(events) /\ events'[i] = events[i + 1]
      BY <1>1, <1>3 DEF PollEvent
    <2> QED
      BY <1>3, <2>1 DEF PollEvent, Learnt
  <1>4. ASSUME NEW e, events' = Append(events, e)
        PROVE  \A i \in 1 .. Len(events') :
                  events'[i] = e \/ (i \in 1 .. Len(events) /\ events'[i] = events[i])
    BY <1>1, <1>4
  <1>5. ASSUME NEW e, Emit(e), e.type # "Synced", UNCHANGED <<is_synced, max_block_size>>
        PROVE  Learnt(size)' /\ (is_synced => is_synced')
    BY <1>4, <1>5 DEF Emit, Learnt
  <1>6. CASE TickTimeout
    BY <1>5, <1>6 DEF TickTimeout, Timeout
  <1>7. ASSUME NEW line \in DeviceLine, ProcessLine(line)
        PROVE  Learnt(size)' /\ (is_synced => is_synced')
    <2>1. CASE line.token = "ok" /\ HandleOk(line.sync)
      BY <1>5, <2>1 DEF HandleOk, AsciiLine, OutOfSync, Ack
    <2>2. CASE line.token = "ss" /\ HandleSs(line.sync, line.max_block_size)
      BY <1>4, <2>2 DEF HandleSs, Emit, Learnt, DeviceLine
    <2>3. CASE \/ line.token = "rs" /\ Surface(ResendRequested(line.sync))
               \/ line.token = "fe" /\ Surface(FatalError)
               \/ line.token = "text" /\ Surface(AsciiLine(line.text))
      BY <1>5, <2>3 DEF Surface, ResendRequested, FatalError, AsciiLine
    <2> QED
      BY <1>2, <1>7, <2>1, <2>2, <2>3 DEF ProcessLine, vars
  <1> QED
    BY <1>2, <1>3, <1>6, <1>7
       DEF SessionView, Hands, Enqueue, PollOutbound, Elapse, Tick, TickRetransmit, vars

-----------------------------------------------------------------------------
(* Control.  What a step does to the variables of the loop.                *)
LoopView ==
    \/ UNCHANGED loopVars
    \/ /\ step # "returned"
       /\ \/ \E next \in Step \ {"returned"} : Goto(next) \/ Brings(next)
          \/ \E loop \in Phase : Enter(loop)
          \/ \E with \in Result \ {Running} : Return(with)
          \/ NextTurn

LEMMA Results ==
    /\ \A kind \in {"Ok", "Io", "Stalled", "HandshakeFailed", "Heatshrink", "Panic"} :
          Outcome(kind) \in Result \ {Running}
    /\ \A error \in FileError : Transfer(error) \in Result \ {Running}
    /\ Running \in Result
  <1>1. \A kind : Outcome(kind).outcome = kind
    BY DEF Outcome
  <1>2. \A error : Transfer(error).outcome = "Transfer"
    BY DEF Transfer
  <1> QED
    BY <1>1, <1>2 DEF Result, Running

LEMMA StepLoopView ==
    ASSUME UploadInv, [LinkNext]_uploadVars
    PROVE  LoopView
  <1>1. CASE UNCHANGED loopVars
    BY <1>1 DEF LoopView
  <1>2. CASE StartsSync \/ StartsQuery \/ StartsLeaving
    BY <1>2
       DEF StartsSync, StartsQuery, StartsLeaving, After, LoopView, Phase, SessionPhase,
           TransferPhase
  <1>3. CASE StartsOpen \/ StartsWrite \/ StartsClose
    <2>1. step # "returned"
      BY <1>3 DEF StartsOpen, StartsWrite, StartsClose, AtChunk, After
    <2> QED
      BY <1>3, <2>1, Results
         DEF StartsOpen, StartsWrite, StartsClose, Asserting, LoopView, Phase, TransferPhase
  <1>4. CASE ReadsSource \/ Finishes \/ IoFails
    <2>1. step # "returned"
      BY <1>4 DEF ReadsSource, Finishes, IoFails, After
    <2> QED
      BY <1>1, <1>4, <2>1, Results DEF ReadsSource, Finishes, IoFails, LoopView
  <1>5. CASE WritesOut \/ ReadTimesOut \/ ReadReturnsNothing \/ FeedsLine \/ FeedEnds \/ Ticks
    <2>1. step # "returned"
      BY <1>5
         DEF WritesOut, ReadTimesOut, ReadReturnsNothing, FeedsLine, FeedEnds, Ticks
    <2> QED
      BY <1>1, <1>5, <2>1
         DEF WritesOut, ReadTimesOut, ReadReturnsNothing, FeedsLine, FeedEnds, Ticks, LoopView, Step
  <1>6. CASE DrainsSession
    <2>1. \A type \in DOMAIN Verdict : Verdict[type] \in FileError
      BY DEF Verdict, FileError
    <2> QED
      BY <1>1, <1>6, <2>1, Results DEF DrainsSession, LoopDone, LoopView, Step
  <1>7. CASE DrainsTransfer
    <2>1. step # "returned"
      BY <1>7 DEF DrainsTransfer
    <2>2. ASSUME out_events # <<>>, FileVerdict(Head(out_events))
          PROVE  LoopView
      <3>1. Head(out_events) \in FileEvent
        BY <2>2 DEF UploadInv, FileInv, FileTypeOK
      <3>2. Head(out_events).type = "Failed" => Head(out_events).error \in FileError
        BY <3>1 DEF FileEvent, Negotiated, Progress, Failed
      <3> QED
        BY <1>1, <2>1, <2>2, <3>2, Results DEF FileVerdict, LoopDone, LoopView, Step
    <2> QED
      BY <1>1, <1>7, <2>1, <2>2 DEF DrainsTransfer, LoopView, Step
  <1> QED
    BY <1>1, <1>2, <1>3, <1>4, <1>5, <1>6, <1>7
       DEF LinkNext, CallerStep, UploadStep, StraightLine, LoopBody, Environment, ReadWaits,
           uploadVars, callerVars

LEMMA ControlKept ==
    ASSUME UploadInv, [LinkNext]_uploadVars
    PROVE  ControlInv'
  <1>1. LoopView /\ ControlInv
    BY StepLoopView DEF UploadInv
  <1>2. CASE UNCHANGED loopVars
    BY <1>1, <1>2 DEF loopVars, ControlInv
  <1>3. ASSUME step # "returned", NEW with \in Result \ {Running}, Return(with)
        PROVE  ControlInv'
    BY <1>1, <1>3 DEF Return, ControlInv, Step
  <1>4. ASSUME step # "returned", NEW next \in Step \ {"returned"}, Goto(next) \/ Brings(next)
        PROVE  ControlInv'
    BY <1>1, <1>4 DEF Goto, Brings, ControlInv
  <1>5. ASSUME step # "returned", NEW loop \in Phase, Enter(loop)
        PROVE  ControlInv'
    <2>1. iteration' \in 0 .. (Iterations - 1)
      BY <1>5, UploadAssumption DEF Enter
    <2> QED
      BY <1>1, <1>5, <2>1 DEF Enter, ControlInv, Step
  <1>6. ASSUME step # "returned", NextTurn
        PROVE  ControlInv'
    <2>1. CASE iteration + 1 < Iterations
      BY <1>1, <1>6, <2>1, UploadAssumption DEF NextTurn, ControlInv, Step
    <2>2. CASE ~(iteration + 1 < Iterations)
      <3>1. \E with \in {Outcome("HandshakeFailed"), Outcome("Stalled")} : Return(with)
        BY <1>6, <2>2 DEF NextTurn
      <3> QED
        BY <1>3, <1>6, <3>1, Results
    <2> QED
      BY <2>1, <2>2
  <1> QED
    BY <1>1, <1>2, <1>3, <1>4, <1>5, <1>6 DEF LoopView

-----------------------------------------------------------------------------
(* The chunk size, the payload and what has been sent of it.               *)
LEMMA ResolvedFits ==
    ASSUME NEW size \in ChunkSizeOption, NEW max \in Nat
    PROVE  /\ ResolveChunkSize(size, max) \in Nat \ {0}
           /\ max # 0 => ResolveChunkSize(size, max) <= max
  BY UploadAssumption DEF ResolveChunkSize

InWrite == phase = "writing" /\ step \notin {"done", "returned"}

(* What a step does to them; only the query prepares the caller, and only  *)
(* a piece that is left starts a WRITE.                                    *)
StatView ==
    \/ StartsQuery
    \/ /\ Prepared' = Prepared
       /\ \/ UNCHANGED statVars /\ (InWrite' => InWrite \/ (AtChunk /\ bytes_sent < payload))
          \/ ReadsSource
          \/ step = "drain" /\ LoopDone

LEMMA LoopStats ==
    ASSUME LoopBody \/ IoFails
    PROVE  StatView
  <1>1. /\ phase' = phase
        /\ \/ UNCHANGED statVars /\ (InWrite' => InWrite)
           \/ step = "drain" /\ LoopDone
    <2>1. ASSUME NEW next \in Step, Goto(next) \/ Brings(next), step \notin {"done", "returned"}
          PROVE  phase' = phase /\ (InWrite' => InWrite)
      BY <2>1 DEF Goto, Brings, InWrite
    <2>2. ASSUME NEW with, Return(with)
          PROVE  phase' = phase /\ ~InWrite'
      BY <2>2 DEF Return, InWrite
    <2>3. ASSUME UNCHANGED loopVars
          PROVE  phase' = phase /\ (InWrite' => InWrite)
      BY <2>3 DEF loopVars, InWrite
    <2>4. CASE WritesOut \/ ReadWaits \/ ReadTimesOut \/ ReadReturnsNothing \/ FeedsLine \/ FeedEnds
      BY <2>1, <2>3, <2>4
         DEF WritesOut, ReadWaits, ReadTimesOut, ReadReturnsNothing, FeedsLine, FeedEnds, Step
    <2>5. CASE Ticks
      BY <2>2, <2>5 DEF Ticks, NextTurn, InWrite
    <2>6. CASE IoFails
      BY <2>2, <2>6 DEF IoFails
    <2>7. ASSUME step = "drain", LoopDone
          PROVE  phase' = phase
      BY <2>7 DEF LoopDone, Goto
    <2>8. CASE DrainsSession
      BY <2>1, <2>2, <2>3, <2>7, <2>8 DEF DrainsSession, Step
    <2>9. CASE DrainsTransfer
      BY <2>1, <2>2, <2>3, <2>7, <2>9 DEF DrainsTransfer, FileVerdict, Step
    <2> QED
      BY <2>4, <2>5, <2>6, <2>8, <2>9 DEF LoopBody
  <1> QED
    BY <1>1 DEF StatView, Prepared

LEMMA StepStatView ==
    ASSUME [LinkNext]_uploadVars
    PROVE  StatView
  <1> USE DEF TransferPhase, Prepared, After, InWrite
  <1>1. CASE UNCHANGED callerVars
    BY <1>1 DEF callerVars, loopVars, StatView
  <1>2. CASE StartsSync
    BY <1>2 DEF StartsSync, Enter, StatView
  <1>3. CASE StartsOpen \/ StartsWrite \/ StartsClose \/ StartsLeaving
    BY <1>3
       DEF StartsOpen, StartsWrite, StartsClose, StartsLeaving, Asserting, AtChunk, Enter,
           Return, StatView
  <1>4. CASE ReadsSource
    BY <1>4 DEF ReadsSource, Return, loopVars, StatView
  <1>5. CASE Finishes
    BY <1>5 DEF Finishes, Return, StatView
  <1> QED
    BY <1>1, <1>2, <1>3, <1>4, <1>5, LoopStats
       DEF LinkNext, CallerStep, UploadStep, StraightLine, Environment, StatView, uploadVars

LEMMA SizeKept ==
    ASSUME UploadInv, [LinkNext]_uploadVars
    PROVE  SizeInv'
  <1>1. block' = block /\ SizeInv
    BY DeviceStaysItself DEF UploadInv
  <1>2. CASE StartsQuery
    <2>1. PICK size \in ChunkSizeOption : chunk_size' = ResolveChunkSize(size, DeviceMax)
      BY <1>2 DEF StartsQuery
    <2>2. DeviceMax = block /\ block \in Nat
      BY <1>2, NoneAssumption, UploadAssumption
         DEF StartsQuery, DeviceMax, UploadInv, BlockInv, WireInv
    <2>3. chunk_size' \in Nat \ {0} /\ (block # 0 => chunk_size' <= block)
      BY <2>1, <2>2, ResolvedFits
    <2> QED
      BY <1>1, <1>2, <2>3 DEF StartsQuery, Enter, SizeInv, Prepared, TransferPhase
  <1> QED
    BY <1>1, <1>2, StepStatView DEF StatView, statVars, SizeInv, ReadsSource, LoopDone

LEMMA PayloadKept ==
    ASSUME UploadInv, [LinkNext]_uploadVars
    PROVE  PayloadInv'
  <1>1. PayloadInv /\ SizeInv /\ WireInv /\ StatView
    BY StepStatView DEF UploadInv
  <1>2. payload \in Nat \/ payload = None
    BY <1>1, UploadAssumption DEF PayloadInv
  <1>3. CASE /\ UNCHANGED <<payload, bytes_sent>>
             /\ InWrite' => InWrite \/ (AtChunk /\ bytes_sent < payload)
    BY <1>1, <1>3 DEF PayloadInv, InWrite, AtChunk
  <1>4. CASE StartsQuery
    BY <1>3, <1>4 DEF StartsQuery, Enter, InWrite
  <1>5. CASE ReadsSource
    <2>1. payload' \in PayloadLen \/ payload' = payload
      BY <1>5 DEF ReadsSource
    <2>2. ~InWrite' /\ bytes_sent = 0 /\ bytes_sent' = 0
      BY <1>1, <1>5 DEF ReadsSource, After, Return, loopVars, InWrite, PayloadInv
    <2> QED
      BY <1>1, <2>1, <2>2, UploadAssumption DEF PayloadInv, InWrite
  <1>6. CASE step = "drain" /\ LoopDone
    <2>1. ~InWrite' /\ UNCHANGED payload
      BY <1>6 DEF LoopDone, Goto, InWrite
    <2>2. CASE phase = "writing"
      <3>1. payload \in Nat /\ bytes_sent \in Nat /\ bytes_sent < payload /\ payload # None
        BY <1>1, <1>2, <1>6, <2>2 DEF PayloadInv
      <3>2. chunk_size \in Nat \ {0}
        BY <1>1, <2>2 DEF SizeInv, Prepared, TransferPhase
      <3>3. bytes_sent' = bytes_sent + NextLength
        BY <1>6, <2>2 DEF LoopDone
      <3>4. bytes_sent' \in Nat /\ bytes_sent' <= payload
        BY <3>1, <3>2, <3>3 DEF NextLength
      <3> QED
        BY <1>1, <2>1, <3>1, <3>4 DEF PayloadInv, InWrite
    <2>3. CASE phase # "writing"
      BY <1>3, <1>6, <2>1, <2>3 DEF LoopDone
    <2> QED
      BY <2>2, <2>3
  <1> QED
    BY <1>1, <1>3, <1>4, <1>5, <1>6 DEF StatView, statVars

(* The caller goes on from the handshake only when it polls Synced.        *)
LEMMA HandshakeEnds ==
    ASSUME [LinkNext]_uploadVars, After("syncing")', ~After("syncing")
    PROVE  events # <<>> /\ Head(events).type = "Synced"
  <1> USE DEF After
  <1>1. ASSUME NEW next \in Step \ {"done"}, Goto(next) \/ Brings(next)
        PROVE  FALSE
    BY <1>1 DEF Goto, Brings
  <1>2. ASSUME NEW loop, Enter(loop)
        PROVE  FALSE
    BY <1>2 DEF Enter
  <1>3. ASSUME NEW with, Return(with)
        PROVE  FALSE
    BY <1>3 DEF Return
  <1>4. ASSUME UNCHANGED loopVars
        PROVE  FALSE
    BY <1>4 DEF loopVars
  <1>5. CASE DrainsSession
    <2>1. PollEvent /\ AwaitedEvent(Head(events).type) /\ LoopDone
      BY <1>1, <1>3, <1>4, <1>5 DEF DrainsSession, Step
    <2>2. phase = "syncing"
      BY <2>1 DEF LoopDone, Goto
    <2> QED
      BY <2>1, <2>2 DEF PollEvent, AwaitedEvent, Awaits
  <1>6. CASE DrainsTransfer
    <2>1. LoopDone
      BY <1>1, <1>3, <1>4, <1>6 DEF DrainsTransfer, FileVerdict, Step
    <2> QED
      BY <1>6, <2>1 DEF DrainsTransfer, LoopDone, Goto, TransferPhase
  <1>7. CASE WritesOut \/ ReadWaits \/ ReadTimesOut \/ ReadReturnsNothing \/ FeedsLine \/ FeedEnds
    BY <1>1, <1>4, <1>7
       DEF WritesOut, ReadWaits, ReadTimesOut, ReadReturnsNothing, FeedsLine, FeedEnds, Step
  <1>8. CASE Ticks \/ IoFails
    BY <1>3, <1>8 DEF Ticks, NextTurn, IoFails
  <1>9. CASE StraightLine
    BY <1>2, <1>3, <1>4, <1>9
       DEF StraightLine, StartsSync, StartsQuery, StartsOpen, ReadsSource, StartsWrite,
           StartsClose, StartsLeaving, Finishes, Asserting
  <1> QED
    BY <1>4, <1>5, <1>6, <1>7, <1>8, <1>9
       DEF LinkNext, CallerStep, UploadStep, LoopBody, Environment, uploadVars, callerVars

LEMMA BlockKept ==
    ASSUME UploadInv, [LinkNext]_uploadVars
    PROVE  BlockInv'
  <1>1. block' = block /\ StatView /\ BlockInv
    BY DeviceStaysItself, StepStatView DEF UploadInv
  <1>2. PICK size : size = block
    OBVIOUS
  <1>3. Learnt(size)' /\ (is_synced => is_synced')
    <2>1. Learnt(size)
      BY <1>1, <1>2 DEF BlockInv, Learnt
    <2> QED
      BY <1>2, <2>1, StepSessionView, SessionLearns DEF UploadInv
  <1>4. ASSUME After("syncing")', ~After("syncing")
        PROVE  is_synced
    <2>1. events # <<>> /\ Head(events).type = "Synced"
      BY <1>4, HandshakeEnds
    <2>2. Head(events) = events[1] /\ 1 \in 1 .. Len(events)
      BY <2>1 DEF UploadInv, SessionInv, TypeOK
    <2> QED
      BY <1>1, <2>1, <2>2 DEF BlockInv
  <1>5. Prepared' \/ After("syncing")' => is_synced
    BY <1>1, <1>4 DEF StatView, StartsQuery, BlockInv
  <1> QED
    BY <1>1, <1>2, <1>3, <1>5 DEF BlockInv, Learnt

-----------------------------------------------------------------------------
LEMMA UploadInvInit == LinkInit => UploadInv
  <1> SUFFICES ASSUME LinkInit
               PROVE  UploadInv
    OBVIOUS
  <1> USE DEF LinkInit, UploadInit
  <1>1. SessionInv /\ FileInv
    BY SessionInvInit, FileInvInit DEF FileInit
  <1>2. ControlInv
    <2>1. /\ phase \in Phase /\ step \in Step /\ hurried \in BOOLEAN
          /\ step # "returned" /\ result = Running
      BY DEF Phase, Step
    <2>2. iteration \in 0 .. (Iterations - 1)
      BY UploadAssumption
    <2> QED
      BY <2>1, <2>2, Results DEF ControlInv
  <1>3. PayloadInv /\ SizeInv
    BY UploadAssumption DEF PayloadInv, SizeInv, Prepared, TransferPhase
  <1>4. /\ queued = <<>> /\ outbound = <<>> /\ events = <<>> /\ in_flight = None
        /\ ~is_synced
    BY DEF FileInit, Init
  <1>5. BlockInv /\ BodiesFit
    BY <1>4, EmptyQueue DEF BlockInv, BodiesFit, Prepared, TransferPhase, After
  <1>6. WireInv
    <2>1. expected \in Sync /\ kept \in Seq(Chunk) /\ toDevice \in Seq(Frame \cup {Trigger})
      BY UploadLinkAssumption, EmptyQueue
    <2>2. \A n \in Sync : <<SsLine(n, block)>> \in Seq(DeviceLine)
      <3>1. \A n \in Sync : SsLine(n, block) \in Line
        BY UploadLinkAssumption DEF Line
      <3>2. \A n \in Sync : SsLine(n, block) \in DeviceLine
        BY <3>1 DEF DeviceLine, SsLine
      <3> QED
        BY <3>2
    <2> QED
      BY <2>1, <2>2, EmptyQueue DEF WireInv
  <1> QED
    BY <1>1, <1>2, <1>3, <1>5, <1>6 DEF UploadInv

LEMMA UploadInvStep == UploadInv /\ [LinkNext]_uploadVars => UploadInv'
  <1> SUFFICES ASSUME UploadInv, [LinkNext]_uploadVars
               PROVE  UploadInv'
    OBVIOUS
  <1>1. SessionInv'
    BY StepSessionView, ViewIsSessionStep, SessionInvStep DEF UploadInv
  <1> QED
    BY <1>1, FileKept, ControlKept, PayloadKept, SizeKept, BlockKept, WireKept, BodiesFitKept
       DEF UploadInv

LEMMA UploadInvariant == LinkSpec => []UploadInv
  BY UploadInvInit, UploadInvStep, PTL DEF LinkSpec

(* upload uses its session, and nothing but, as the session's              *)
(* specification says; what is proved of the session holds in an upload.   *)
THEOREM UploadImplementsSession == LinkSpec => Spec
  <1>1. LinkInit => Init
    BY DEF LinkInit, UploadInit, FileInit
  <1>2. UploadInv /\ [LinkNext]_uploadVars => [Next]_vars
    BY StepSessionView, ViewIsSessionStep
  <1> QED
    BY <1>1, <1>2, UploadInvariant, PTL DEF LinkSpec, Spec

(* Every variable of upload, its line and its device is of its type; in    *)
(* particular no more is reported as sent than there is.                   *)
THEOREM UploadTypeCorrect == LinkSpec => []UploadTypeOK
  <1>1. UploadInv => UploadTypeOK
    <2> SUFFICES ASSUME UploadInv
                 PROVE  UploadTypeOK
      OBVIOUS
    <2>1. bytes_sent = 0 \/ bytes_sent \in 1 .. payload
      BY UploadAssumption DEF UploadInv, PayloadInv
    <2>2. toHost \in Seq(Line)
      <3>1. toHost \in Seq(DeviceLine) /\ DeviceLine \subseteq Line
        BY DEF UploadInv, WireInv, DeviceLine
      <3> HIDE DEF DeviceLine
      <3> QED
        BY <3>1
    <2>3. chunk_size \in Nat \cup {None} /\ payload \in PayloadLen \cup {None}
      BY DEF UploadInv, SizeInv, PayloadInv
    <2> QED
      BY <2>1, <2>2, <2>3 DEF UploadInv, ControlInv, WireInv, UploadTypeOK
  <1> QED
    BY <1>1, UploadInvariant, PTL

(* No WRITE is empty or larger than the block size the device advertised,  *)
(* whatever chunk size the caller asked for.                               *)
THEOREM WritesFit == LinkSpec => []ChunksFit
  <1>1. UploadInv => ChunksFit
    <2> SUFFICES ASSUME UploadInv
                 PROVE  ChunksFit
      OBVIOUS
    <2>1. chunk_size # 0
      BY UploadAssumption DEF UploadInv, SizeInv
    <2>2. ASSUME NEW i \in 1 .. Len(toDevice), toDevice[i] # Trigger, NEW chunk \in Chunk,
                 toDevice[i].body = WritePacket(chunk)
          PROVE  /\ toDevice[i].body.chunk.len > 0
                 /\ block # 0 => toDevice[i].body.chunk.len <= block
      <3>1. toDevice[i].body # SyncBody /\ toDevice[i].body.kind = "write"
        BY <2>2, RequestsAreBodies, InputsAssumption DEF WritePacket
      <3> QED
        BY <2>2, <3>1 DEF UploadInv, BodiesFit, Fits
    <2> QED
      BY <2>1, <2>2 DEF ChunksFit
  <1> QED
    BY <1>1, UploadInvariant, PTL

(* In an upload too the caller allowed the compression in use, and the     *)
(* device offered compression in the last version line read for QUERY.     *)
THEOREM UploadCompressionIsAgreed == LinkSpec => []CompressionAgreed
  <1>1. UploadInv => CompressionAgreed
    BY DEF UploadInv, FileInv
  <1> QED
    BY <1>1, UploadInvariant, PTL

-----------------------------------------------------------------------------
(* Silence.  In a loop whose reads have all timed out a packet is in       *)
(* flight, its age at least the turns behind, and not yet the total        *)
(* timeout; or that timeout is on its way to the caller, in either queue.  *)
Reads == step \in {"write", "read"}
Turns == step \in {"drain", "tick"}

TimeoutComes ==
    /\ step # "tick"
    /\ \/ \E i \in 1 .. Len(events) : events[i].type = "Timeout"
       \/ /\ phase \in TransferPhase
          /\ \E i \in 1 .. Len(out_events) : out_events[i].type = "Failed"

Ages ==
    /\ in_flight # None
    /\ iteration < TotalTimeout
    /\ in_flight.age >= iteration
    /\ Turns => in_flight.age >= iteration + 1

Silent == ~hurried /\ (Reads \/ Turns)

SilenceInv ==
    /\ SilenceIsTimeout
    /\ Silent => Ages \/ TimeoutComes
    /\ step = "feed" => hurried

(* A packet put in flight, or one that was, is there when a loop begins.   *)
LEMMA LoopBegins ==
    ASSUME SessionInv, NEW packet \in Packet, Enqueue(packet), NEW loop, Enter(loop)
    PROVE  Ages'
  <1>1. /\ in_flight \in InFlight \cup {None} /\ queued \in Seq(Packet) /\ sync \in Sync
        /\ DispatchIfIdle(in_flight, Append(queued, packet), sync)
        /\ iteration' = 0 /\ step' = "write"
    BY DEF SessionInv, TypeOK, Enqueue, Enter
  <1>2. Append(queued, packet) # <<>> /\ Append(queued, packet) \in Seq(Packet)
    <2>1. /\ Append(queued, packet) \in Seq(Packet)
          /\ Len(Append(queued, packet)) = Len(queued) + 1 /\ Len(queued) \in Nat
      BY <1>1
    <2> QED
      BY <2>1
  <1>3. in_flight' \in InFlight
    <2>1. CASE in_flight # None
      BY <1>1, <2>1 DEF DispatchIfIdle
    <2>2. CASE in_flight = None
      <3>1. Head(Append(queued, packet)) \in Packet
        BY <1>2
      <3> QED
        BY <1>1, <1>2, <2>2, <3>1, NumbersAssumption DEF DispatchIfIdle, Launched, InFlight
    <2> QED
      BY <2>1, <2>2
  <1>4. in_flight' # None /\ in_flight'.age \in Nat
    BY <1>3, NoneAssumption, NumbersAssumption DEF InFlight
  <1> QED
    BY <1>1, <1>4, NumbersAssumption DEF Ages, Turns

(* Where the two queues lose an element, and how they gain one. *)
LEMMA QueueSteps ==
    ASSUME NEW S, NEW q \in Seq(S), NEW r, NEW type
    PROVE  /\ q # <<>> /\ r = Tail(q) /\ Head(q).type # type
                  /\ (\E i \in 1 .. Len(q) : q[i].type = type)
              => \E i \in 1 .. Len(r) : r[i].type = type
           /\ \A e : r = Append(q, e)
                     /\ (e.type = type \/ \E i \in 1 .. Len(q) : q[i].type = type)
              => \E i \in 1 .. Len(r) : r[i].type = type
  <1>1. ASSUME q # <<>>, r = Tail(q), Head(q).type # type,
               NEW i \in 1 .. Len(q), q[i].type = type
        PROVE  \E j \in 1 .. Len(r) : r[j].type = type
    <2>1. i # 1
      BY <1>1
    <2>2. i - 1 \in 1 .. Len(r) /\ r[i - 1] = q[i]
      BY <1>1, <2>1
    <2> QED
      BY <1>1, <2>2
  <1>2. ASSUME NEW e, r = Append(q, e), e.type = type
        PROVE  \E j \in 1 .. Len(r) : r[j].type = type
    <2>1. Len(q) + 1 \in 1 .. Len(r) /\ r[Len(q) + 1] = e
      BY <1>2
    <2> QED
      BY <1>2, <2>1
  <1>3. ASSUME NEW e, r = Append(q, e), NEW i \in 1 .. Len(q), q[i].type = type
        PROVE  \E j \in 1 .. Len(r) : r[j].type = type
    <2>1. i \in 1 .. Len(r) /\ r[i] = q[i]
      BY <1>3
    <2> QED
      BY <1>3, <2>1
  <1> QED
    BY <1>1, <1>2, <1>3

(* Time passes in a read. *)
LEMMA OneOlder ==
    ASSUME SessionInv, ControlInv, Ages, Elapse
    PROVE  /\ in_flight' # None /\ in_flight'.age \in Nat
           /\ in_flight'.age >= in_flight.age /\ in_flight'.age >= iteration + 1
  <1>1. /\ in_flight \in InFlight /\ iteration \in Nat
        /\ in_flight' = [in_flight EXCEPT !.age = Later(@, TotalTimeout),
                                          !.idle = Later(@, ResponseTimeout)]
    BY UploadAssumption DEF SessionInv, TypeOK, Elapse, ControlInv
  <1>2. in_flight.age \in 0 .. TotalTimeout /\ in_flight.idle \in 0 .. ResponseTimeout
    BY <1>1 DEF InFlight
  <1>3. in_flight'.age = Later(in_flight.age, TotalTimeout)
        /\ in_flight' \in InFlight
    <2>1. /\ Later(in_flight.age, TotalTimeout) \in 0 .. TotalTimeout
          /\ Later(in_flight.idle, ResponseTimeout) \in 0 .. ResponseTimeout
      BY <1>2, NumbersAssumption DEF Later
    <2> QED
      BY <1>1, <2>1 DEF InFlight
  <1> QED
    BY <1>1, <1>2, <1>3, NoneAssumption, NumbersAssumption DEF Later, Ages

LEMMA DrainKeepsSilence ==
    ASSUME UploadInv, SilenceInv, DrainsSession \/ DrainsTransfer, Silent'
    PROVE  Ages' \/ TimeoutComes'
  <1> USE DEF Silent, Reads, Turns
  <1>1. step = "drain" /\ events \in Seq(Event) /\ out_events \in Seq(FileEvent)
    BY DEF DrainsSession, DrainsTransfer, UploadInv, SessionInv, TypeOK, FileInv, FileTypeOK
  <1>2. ~LoopDone /\ \A with : ~Return(with)
    BY DEF LoopDone, Goto, Return
  <1>3. (Ages \/ TimeoutComes) /\ UNCHANGED <<in_flight, iteration, phase>>
    <2>1. UNCHANGED <<in_flight, iteration, phase, hurried>>
      BY <1>2
         DEF DrainsSession, DrainsTransfer, FileVerdict, PollEvent, PollStart, PollHandle,
             PollReturn, Goto, loopVars, vars, fileVars
    <2> QED
      BY <1>1, <2>1 DEF SilenceInv
  <1>4. Ages => Ages'
    BY <1>1, <1>3 DEF Ages
  <1>5. ASSUME TimeoutComes
        PROVE  TimeoutComes'
    <2> DEFINE due == \E i \in 1 .. Len(events) : events[i].type = "Timeout"
               told == \E i \in 1 .. Len(out_events) : out_events[i].type = "Failed"
    <2>1. (due => events # <<>>) /\ (told => out_events # <<>>)
      BY <1>1
    <2>2. due \/ (phase \in TransferPhase /\ told)
      BY <1>5 DEF TimeoutComes
    <2>3. step' # "tick" /\ (due' \/ (phase \in TransferPhase /\ told')) => TimeoutComes'
      BY <1>3 DEF TimeoutComes
    <2>4. ASSUME PollEvent, Head(events).type # "Timeout", due
          PROVE  due'
      <3>1. events # <<>> /\ events' = Tail(events)
        BY <2>4 DEF PollEvent
      <3>2. PICK i \in 1 .. Len(events) : events[i].type = "Timeout" /\ i # 1
        BY <1>1, <2>4, <3>1
      <3>3. i - 1 \in 1 .. Len(events') /\ events'[i - 1] = events[i]
        BY <1>1, <3>1, <3>2
      <3> QED
        BY <3>2, <3>3
    <2> HIDE DEF due, told
    <2>5. CASE DrainsSession
      <3>1. due
        BY <2>2, <2>5 DEF DrainsSession, SessionPhase, TransferPhase
      <3>2. PollEvent /\ Head(events).type # "Timeout" /\ UNCHANGED loopVars
        BY <1>2, <2>1, <2>5, <3>1 DEF DrainsSession, Verdict
      <3> QED
        BY <1>1, <2>3, <2>4, <3>1, <3>2 DEF loopVars
    <2>6. CASE DrainsTransfer
      <3>1. phase \in TransferPhase
        BY <2>6 DEF DrainsTransfer
      <3>2. CASE UNCHANGED <<loopVars, events, out_events>>
        BY <1>1, <2>2, <2>3, <3>1, <3>2 DEF due, told, loopVars
      <3>3. CASE PollHandle /\ UNCHANGED loopVars
        <4>1. PollEvent /\ HandleSessionEvent(Head(events)) /\ step' # "tick"
          BY <1>1, <3>3 DEF PollHandle, loopVars
        <4>2. ASSUME NEW e, out_events' = Append(out_events, e), told \/ e.type = "Failed"
              PROVE  told'
          BY <1>1, <4>2, QueueSteps DEF told
        <4>3. told => told'
          <5>1. out_events' = out_events => (told => told')
            BY DEF told
          <5> QED
            BY <4>1, <4>2, <5>1
               DEF HandleSessionEvent, HandleAsciiLine, HandleVersion, HandleStatus, HandleAck,
                   AckWithReply, AckOfWrite, BareAck, AckIgnored, Conclude, Move, Fail, transferVars
        <4>4. Head(events).type = "Timeout" => told'
          BY <4>1, <4>2 DEF HandleSessionEvent, Fatal, Fail, Move, Failed
        <4> QED
          BY <2>2, <2>3, <2>4, <3>1, <4>1, <4>3, <4>4
      <3>4. CASE PollReturn
        <4>1. told /\ out_events # <<>> /\ out_events' = Tail(out_events)
          BY <2>1, <2>2, <3>4 DEF PollReturn
        <4>2. FileVerdict(Head(out_events))
          BY <1>1, <2>6, <3>4, <4>1 DEF DrainsTransfer, PollReturn, PollStart, PollHandle
        <4>3. Head(out_events).type # "Failed" /\ UNCHANGED loopVars
          BY <1>2, <4>2 DEF FileVerdict
        <4>4. told'
          BY <1>1, <4>1, <4>3, QueueSteps DEF told
        <4> QED
          BY <1>1, <2>3, <3>1, <4>3, <4>4 DEF loopVars
      <3>5. ~(events = <<>> /\ out_events = <<>>)
        BY <2>1, <2>2
      <3> QED
        BY <2>6, <3>2, <3>3, <3>4, <3>5 DEF DrainsTransfer, PollStart, vars, transferVars
    <2> QED
      BY <2>5, <2>6
  <1> QED
    BY <1>3, <1>4, <1>5

(* A read that times out, a turn of the loop, and what comes before.       *)
LEMMA ReadKeepsSilence ==
    ASSUME UploadInv, SilenceInv, WritesOut \/ ReadWaits \/ ReadTimesOut, Silent'
    PROVE  Ages' \/ TimeoutComes'
  <1> USE DEF Silent, Reads, Turns
  <1>1. /\ step \in {"write", "read"} /\ ~hurried
        /\ UNCHANGED <<iteration, phase, events, out_events>> /\ step' # "tick"
    BY DEF WritesOut, ReadWaits, ReadTimesOut, PollOutbound, Elapse, Goto, loopVars, vars,
           ftVars, transferVars
  <1>2. TimeoutComes => TimeoutComes'
    BY <1>1 DEF TimeoutComes
  <1>3. ASSUME Ages, Elapse
        PROVE  Ages'
    <2>1. /\ in_flight' # None /\ in_flight'.age >= in_flight.age
          /\ in_flight'.age >= iteration + 1 /\ in_flight'.age \in Nat
      BY <1>3, OneOlder DEF UploadInv
    <2>2. iteration \in Nat
      BY UploadAssumption DEF UploadInv, ControlInv
    <2> QED
      BY <1>1, <1>3, <2>1, <2>2 DEF Ages
  <1>4. CASE WritesOut
    <2>1. UNCHANGED in_flight /\ step' \in {"write", "read"}
      BY <1>1, <1>4 DEF WritesOut, PollOutbound, Goto, vars, loopVars
    <2> QED
      BY <1>1, <1>2, <2>1 DEF Ages, SilenceInv
  <1>5. CASE ReadWaits \/ (ReadTimesOut /\ Clock)
    BY <1>1, <1>2, <1>3, <1>5 DEF SilenceInv, ReadWaits, ReadTimesOut
  <1>6. CASE ReadTimesOut /\ ~Clock
    <2>1. ASSUME Ages
          PROVE  in_flight.age >= iteration + 1 /\ UNCHANGED in_flight
      <3>1. in_flight \in InFlight /\ iteration \in Nat
        BY <2>1, UploadAssumption DEF UploadInv, ControlInv, SessionInv, TypeOK, Ages
      <3>2. in_flight.age \in 0 .. TotalTimeout
        BY <3>1 DEF InFlight
      <3> QED
        BY <1>6, <2>1, <3>1, <3>2, NumbersAssumption DEF ReadTimesOut, Clock, Ages, vars
    <2> QED
      BY <1>1, <1>2, <2>1 DEF Ages, SilenceInv
  <1> QED
    BY <1>4, <1>5, <1>6

LEMMA TickKeepsSilence ==
    ASSUME TotalTimeout < Iterations, UploadInv, SilenceInv, Ticks
    PROVE  /\ Silent' => Ages' \/ TimeoutComes'
           /\ SilenceIsTimeout'
  <1>1. step = "tick" /\ NextTurn /\ iteration \in Nat /\ UNCHANGED hurried
    BY UploadAssumption DEF Ticks, NextTurn, Return, UploadInv, ControlInv
  <1>2. CASE hurried
    BY <1>1, <1>2 DEF Silent, SilenceIsTimeout
  <1>3. CASE ~hurried
    <2>1. Ages
      BY <1>1, <1>3 DEF SilenceInv, Silent, Turns, TimeoutComes
    <2>2. /\ in_flight # None /\ in_flight \in InFlight
          /\ iteration + 1 < Iterations
          /\ in_flight.age >= iteration + 1 /\ in_flight.age \in Nat
      <3>1. in_flight \in InFlight
        BY <2>1 DEF Ages, UploadInv, SessionInv, TypeOK
      <3>2. in_flight.age \in Nat
        BY <3>1 DEF InFlight
      <3> QED
        BY <1>1, <2>1, <3>1, <3>2, NumbersAssumption, UploadAssumption DEF Ages, Turns
    <2>3. iteration' = iteration + 1 /\ step' = "write" /\ UNCHANGED <<phase, result>>
      BY <1>1, <2>2 DEF NextTurn
    <2>4. SilenceIsTimeout'
      BY <1>1, <2>3 DEF SilenceInv, SilenceIsTimeout
    <2>5. CASE TickTimeout
      <3>1. events' = Append(events, Timeout(in_flight.sync)) /\ events \in Seq(Event)
        BY <2>5 DEF TickTimeout, Emit, UploadInv, SessionInv, TypeOK
      <3>2. \E i \in 1 .. Len(events') : events'[i].type = "Timeout"
        BY <3>1, QueueSteps DEF Timeout
      <3> QED
        BY <2>3, <2>4, <3>2 DEF TimeoutComes
    <2>6. CASE TickRetransmit \/ (NothingDue /\ UNCHANGED vars)
      <3>1. ~BudgetSpent /\ in_flight' # None /\ in_flight'.age = in_flight.age
        BY <2>2, <2>6, NoneAssumption, NumbersAssumption
           DEF TickRetransmit, RetransmitDue, SentNow, NothingDue, InFlight, vars
      <3>2. iteration + 1 < TotalTimeout
        BY <1>1, <2>2, <3>1, NumbersAssumption DEF BudgetSpent
      <3> QED
        BY <2>2, <2>3, <2>4, <3>1, <3>2 DEF Ages, Turns
    <2> QED
      BY <2>5, <2>6 DEF Ticks, Tick
  <1> QED
    BY <1>2, <1>3

(* The straight-line code begins a loop, or ends upload.                   *)
LEMMA LineKeepsSilence ==
    ASSUME UploadInv, SilenceInv, StraightLine
    PROVE  /\ Silent' => Ages' \/ TimeoutComes'
           /\ SilenceIsTimeout' /\ step' # "feed"
  <1>1. step = "done" /\ result = Running
    BY DEF StraightLine, StartsSync, StartsQuery, StartsOpen, ReadsSource, StartsWrite,
           StartsClose, StartsLeaving, Finishes, AtChunk, After, UploadInv, ControlInv
  <1>2. ASSUME NEW with, Return(with), with \notin {Outcome("Stalled"), Outcome("HandshakeFailed")}
        PROVE  /\ Silent' => Ages' \/ TimeoutComes'
               /\ SilenceIsTimeout' /\ step' # "feed"
    BY <1>2 DEF Return, Silent, Reads, Turns, SilenceIsTimeout
  <1>3. ASSUME NEW packet \in Packet, Enqueue(packet), NEW loop, Enter(loop)
        PROVE  /\ Silent' => Ages' \/ TimeoutComes'
               /\ SilenceIsTimeout' /\ step' # "feed"
    BY <1>1, <1>3, LoopBegins DEF UploadInv, Enter, SilenceIsTimeout, Outcome, Running
  <1>4. CASE UNCHANGED loopVars
    BY <1>1, <1>4
       DEF loopVars, Silent, Reads, Turns, SilenceIsTimeout, Outcome, Running
  <1>5. /\ Outcome("Panic") \notin {Outcome("Stalled"), Outcome("HandshakeFailed")}
        /\ Outcome("Ok") \notin {Outcome("Stalled"), Outcome("HandshakeFailed")}
        /\ Outcome("Heatshrink") \notin {Outcome("Stalled"), Outcome("HandshakeFailed")}
    <2>1. \A kind : Outcome(kind).outcome = kind
      BY DEF Outcome
    <2> QED
      BY <2>1
  <1>6. ASSUME NEW body \in Body, Send(body)
        PROVE  body \in Packet /\ Enqueue(body)
    BY <1>6 DEF Send, Packet
  <1>7. CASE StartsSync
    BY <1>3, <1>7 DEF StartsSync, Connect, Packet
  <1>8. CASE StartsQuery \/ StartsLeaving
    BY <1>3, <1>6, <1>8, RequestsAreBodies, UploadAssumption
       DEF StartsQuery, Query, Request, StartsLeaving
  <1>9. CASE StartsOpen \/ StartsClose
    BY <1>2, <1>3, <1>5, <1>6, <1>9, RequestsAreBodies
       DEF StartsOpen, StartsClose, Asserting, Open, Close, Request
  <1>10. CASE StartsWrite
    <2>1. WritePacket(NextChunk) \in Body
      BY <1>10, NextPiece DEF StartsWrite, UploadInv
    <2> QED
      BY <1>2, <1>3, <1>5, <1>6, <1>10, <2>1 DEF StartsWrite, Asserting, Write, Request
  <1>11. CASE ReadsSource \/ Finishes
    BY <1>2, <1>4, <1>5, <1>11 DEF ReadsSource, Finishes
  <1> QED
    BY <1>7, <1>8, <1>9, <1>10, <1>11 DEF StraightLine

LEMMA SilenceStep ==
    ASSUME TotalTimeout < Iterations, UploadInv, SilenceInv, [LinkNext]_uploadVars
    PROVE  SilenceInv'
  <1>1. ASSUME NEW with, Return(with), with \notin {Outcome("Stalled"), Outcome("HandshakeFailed")}
        PROVE  ~Silent' /\ SilenceIsTimeout' /\ step' # "feed"
    BY <1>1 DEF Return, Silent, Reads, Turns, SilenceIsTimeout
  <1>2. /\ Outcome("Io") \notin {Outcome("Stalled"), Outcome("HandshakeFailed")}
        /\ \A error : Transfer(error) \notin {Outcome("Stalled"), Outcome("HandshakeFailed")}
    <2>1. /\ \A kind : Outcome(kind).outcome = kind
          /\ \A error : Transfer(error).outcome = "Transfer"
      BY DEF Outcome, Transfer
    <2> QED
      BY <2>1
  <1>3. CASE UNCHANGED callerVars
    BY <1>3
       DEF callerVars, fileVars, vars, ftVars, transferVars, loopVars, SilenceInv, SilenceIsTimeout,
           Silent, Reads, Turns, Ages, TimeoutComes
  <1>4. CASE StraightLine
    BY <1>4, LineKeepsSilence DEF SilenceInv
  <1>5. CASE IoFails
    BY <1>1, <1>2, <1>5 DEF IoFails, SilenceInv
  <1>6. CASE Ticks
    <2>1. step' # "feed"
      BY <1>6 DEF Ticks, NextTurn, Return
    <2> QED
      BY <1>6, <2>1, TickKeepsSilence DEF SilenceInv
  <1>7. CASE WritesOut \/ ReadWaits \/ ReadTimesOut
    <2>1. UNCHANGED <<result, hurried>> /\ step' # "feed"
      BY <1>7 DEF WritesOut, ReadWaits, ReadTimesOut, Goto, loopVars
    <2> QED
      BY <1>7, <2>1, ReadKeepsSilence DEF SilenceInv, SilenceIsTimeout
  <1>8. CASE ReadReturnsNothing \/ FeedsLine \/ FeedEnds
    BY <1>8
       DEF ReadReturnsNothing, FeedsLine, FeedEnds, Brings, Goto, SilenceInv, SilenceIsTimeout,
           Silent
  <1>9. CASE DrainsSession \/ DrainsTransfer
    <2>1. SilenceIsTimeout' /\ step' # "feed"
      <3>1. CASE UNCHANGED result /\ UNCHANGED hurried /\ step' # "feed"
        BY <3>1 DEF SilenceInv, SilenceIsTimeout
      <3> QED
        BY <1>1, <1>2, <1>9, <3>1
           DEF DrainsSession, DrainsTransfer, FileVerdict, LoopDone, Goto, loopVars
    <2> QED
      BY <1>9, <2>1, DrainKeepsSilence DEF SilenceInv
  <1> QED
    BY <1>3, <1>4, <1>5, <1>6, <1>7, <1>8, <1>9
       DEF LinkNext, CallerStep, UploadStep, LoopBody, Environment, uploadVars

(* If a packet's total timeout is shorter than the turns of a loop, in     *)
(* units of a read that times out, a silent device is reported as          *)
(* SessionTimeout.  With tokio's 20 of 200 it is; with the 200 of 200 of a *)
(* serial port it is not.                                                  *)
THEOREM SilenceIsReported ==
    ASSUME TotalTimeout < Iterations
    PROVE  LinkSpec => []SilenceIsTimeout
  <1>1. LinkInit => SilenceInv
    <2>1. ASSUME LinkInit
          PROVE  step = "done" /\ result = Running
      BY <2>1 DEF LinkInit, UploadInit
    <2> QED
      BY <2>1
         DEF SilenceInv, SilenceIsTimeout, Silent, Reads, Turns, Outcome, Running
  <1>2. UploadInv /\ SilenceInv /\ [LinkNext]_uploadVars => SilenceInv'
    BY SilenceStep
  <1>3. SilenceInv => SilenceIsTimeout
    BY DEF SilenceInv
  <1> QED
    BY <1>1, <1>2, <1>3, UploadInvariant, PTL DEF LinkSpec

=============================================================================
