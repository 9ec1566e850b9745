----------------------------- MODULE UploadLink -----------------------------
(***************************************************************************)
(* An upload, a line that keeps order but loses, and a device.             *)
(*                                                                         *)
(* The device is one of the two of SessionLink, now with a file and a      *)
(* mode: FakeDevice of tests/fixtures/fake_device.rs, which handles and    *)
(* acknowledges every packet it can decode, or the firmware (external),    *)
(* which looks at sync numbers, has one file open at most, hears packets   *)
(* only in binary mode, and may be left over from an abandoned upload: in  *)
(* binary mode, with a file open, an ss line still on its way.             *)
(*                                                                         *)
(* The line and the device move while the caller is in a read.  Their      *)
(* steps commute with all else the caller does, which looks at the line    *)
(* only by reading and adds to it only at the end.                         *)
(***************************************************************************)
EXTENDS Upload

CONSTANTS InitialSync,  \* the device's sync number at first
          MaxLines      \* bound on what the line to the host holds

ASSUME UploadLinkAssumption == InitialSync \in Sync /\ Sync \subseteq SsNumber

VARIABLES
    counts,      \* the device looks at sync numbers (the firmware does)
    block,       \* its block size
    expected,    \* its sync number
    binary,      \* it is in binary mode; for FakeDevice, ~control_closed
    file_open,   \* a file is open
    kept,        \* the chunks it has written, in order
    closed       \* CLOSE has succeeded

deviceVars == <<counts, block, expected, binary, file_open, kept, closed>>
uploadVars == <<callerVars, lineVars, deviceVars>>

-----------------------------------------------------------------------------
(* The line, at any time a read waits. *)
LoseFrame ==
    /\ toDevice # <<>>
    /\ toDevice' = Tail(toDevice)
    /\ UNCHANGED <<toHost, deviceVars>>

LoseLine ==
    /\ toHost # <<>>
    /\ toHost' = Tail(toHost)
    /\ UNCHANGED <<toDevice, deviceVars>>

(* The device takes the oldest item and answers it with lines. *)
Answers(lines) ==
    /\ Len(toHost) + Len(lines) <= MaxLines
    /\ toDevice' = Tail(toDevice)
    /\ toHost' = toHost \o lines

Arrived == toDevice # <<>>
Body1 == Head(toDevice).body
Acked(lines) == Append(lines, OkLine(Head(toDevice).sync))
Says(word) == <<TextLine(Status(word))>>

DeviceFails ==
    /\ Len(toHost) < MaxLines
    /\ toHost' = Append(toHost, FeLine)
    /\ UNCHANGED <<toDevice, deviceVars>>

HearsTrigger ==
    /\ Arrived /\ Head(toDevice) = Trigger
    /\ binary' = TRUE
    /\ Answers(<<>>)
    /\ UNCHANGED <<counts, block, expected, file_open, kept, closed>>

HearsFrame == Arrived /\ Head(toDevice) # Trigger /\ (binary \/ ~counts)

IgnoresFrame ==
    /\ Arrived /\ Head(toDevice) # Trigger
    /\ counts /\ ~binary
    /\ Answers(<<>>)
    /\ UNCHANGED deviceVars

(* The number an rs line names: FakeDevice's is the packet's own, the      *)
(* firmware asks for the packet it expects.                                *)
ResendNumber == IF counts THEN expected ELSE Head(toDevice).sync

AsksAgain ==
    /\ HearsFrame
    /\ Answers(<<RsLine(ResendNumber)>>)
    /\ UNCHANGED deviceVars

AnswersSync ==
    /\ HearsFrame /\ Body1 = SyncBody
    /\ Answers(<<SsLine(expected, block)>>)
    /\ UNCHANGED deviceVars

-----------------------------------------------------------------------------
(* What the device does with a packet it accepts. *)
AnswersQuery ==
    /\ Body1.kind = "query"
    /\ \E comp \in DeviceCompression : Answers(Acked(<<TextLine(Version(comp))>>))
    /\ UNCHANGED <<binary, file_open, kept, closed>>

AnswersOpen ==
    /\ Body1.kind \in {"open_raw", "open_heatshrink"}
    /\ \E word \in IF counts /\ file_open THEN {"busy"} ELSE {"success", "busy", "fail"} :
          /\ Answers(Acked(Says(word)))
          /\ file_open' = (file_open \/ word = "success")
    /\ UNCHANGED <<binary, kept, closed>>

AnswersWrite ==
    /\ Body1.kind = "write"
    /\ Answers(Acked(<<>>))
    /\ kept' = IF file_open \/ ~counts THEN Append(kept, Body1.chunk) ELSE kept
    /\ UNCHANGED <<binary, file_open, closed>>

AnswersClose ==
    /\ Body1.kind = "close"
    /\ file_open' = FALSE
    /\ \/ Answers(Acked(Says("success"))) /\ closed' = TRUE
       \/ counts /\ Answers(Acked(Says("ioerror"))) /\ UNCHANGED closed
       \/ ~counts /\ Answers(Acked(<<>>)) /\ closed' = TRUE
    /\ UNCHANGED <<binary, kept>>

AnswersControlClose ==
    /\ Body1 = ControlClose
    /\ binary' = FALSE
    /\ Answers(Acked(<<>>))
    /\ UNCHANGED <<file_open, kept, closed>>

Handles ==
    \/ AnswersQuery \/ AnswersOpen \/ AnswersWrite \/ AnswersClose \/ AnswersControlClose

DataHeard == HearsFrame /\ Body1 # SyncBody

FakeHandles ==
    /\ ~counts /\ DataHeard
    /\ Handles
    /\ UNCHANGED <<counts, block, expected>>

FirmwareHandles ==
    /\ counts /\ DataHeard
    /\ Head(toDevice).sync = expected
    /\ Handles
    /\ expected' = NextSync(expected)
    /\ UNCHANGED <<counts, block>>

FirmwareRefuses ==
    /\ counts /\ DataHeard
    /\ Head(toDevice).sync # expected
    /\ Answers(IF NextSync(Head(toDevice).sync) = expected THEN Acked(<<>>) ELSE <<>>)
    /\ UNCHANGED deviceVars

Environment ==
    /\ step = "read"
    /\ \/ LoseFrame \/ LoseLine \/ DeviceFails
       \/ HearsTrigger \/ IgnoresFrame \/ AsksAgain \/ AnswersSync
       \/ FakeHandles \/ FirmwareHandles \/ FirmwareRefuses
    /\ UNCHANGED callerVars

-----------------------------------------------------------------------------
LinkInit ==
    /\ UploadInit
    /\ counts \in BOOLEAN
    /\ block \in BlockSize
    /\ expected = InitialSync
    /\ binary \in BOOLEAN /\ file_open \in BOOLEAN
    /\ kept = <<>> /\ closed = FALSE
    /\ toHost \in {<<>>} \cup { <<SsLine(n, block)>> : n \in Sync }
    /\ ~counts => binary /\ ~file_open /\ toHost = <<>>

CallerStep == UploadStep /\ UNCHANGED deviceVars

LinkNext == CallerStep \/ Environment

LinkSpec == LinkInit /\ [][LinkNext]_uploadVars

(* upload runs: a read returns or times out, and the next statement is     *)
(* executed.  Nothing is assumed of the line and the device.               *)
FairLinkSpec == LinkSpec /\ WF_uploadVars(CallerStep)

-----------------------------------------------------------------------------
UploadTypeOK ==
    /\ phase \in Phase /\ step \in Step
    /\ iteration \in 0 .. (Iterations - 1)
    /\ result \in Result
    /\ step = "returned" <=> result # Running
    /\ chunk_size \in Nat \cup {None}
    /\ payload \in PayloadLen \cup {None}
    /\ bytes_sent = 0 \/ bytes_sent \in 1 .. payload
    /\ hurried \in BOOLEAN
    /\ toDevice \in Seq(Frame \cup {Trigger}) /\ toHost \in Seq(Line)
    /\ kept \in Seq(Chunk)

ChunkEnd(chunk) == chunk.from + chunk.len
StoredLen == IF kept = <<>> THEN 0 ELSE ChunkEnd(kept[Len(kept)])

(* Chunks follow one another without a gap from byte 0; FakeDevice may     *)
(* have written one again that it was sent again.                          *)
Contiguous ==
    \A i \in 1 .. Len(kept) :
        LET before == IF i = 1 THEN 0 ELSE ChunkEnd(kept[i - 1])
        IN  kept[i].from = before \/ (~counts /\ i > 1 /\ kept[i] = kept[i - 1])

(* Ok is true: the whole file is on the device, in order and once, the     *)
(* device has closed it and has left binary mode.  Retransmissions, lost   *)
(* replies and what LinkInit lets an earlier upload leave behind (binary   *)
(* mode, a file open, one ss line on its way) do not make upload say Ok of *)
(* anything else.                                                          *)
OkMeansUploaded ==
    result = Outcome("Ok") =>
        /\ Contiguous /\ StoredLen = payload
        /\ closed /\ ~binary

(* "On success, transport is left synced and idle": the session has no     *)
(* packet left to confirm or to write, and what may still be on the line   *)
(* to the device is copies of the last packet.                             *)
IdleOnSuccess ==
    result = Outcome("Ok") =>
        /\ is_synced /\ in_flight = None /\ queued = <<>> /\ outbound = <<>>
        /\ \A i \in 1 .. Len(toDevice) : toDevice[i].body = ControlClose

(* No WRITE is larger than the block size the device has advertised, if it *)
(* has, and none is empty: the caller's wish, the device's zero and the    *)
(* last, short chunk included.  (chunks(0) would panic.)                   *)
ChunksFit ==
    /\ chunk_size # 0
    /\ \A i \in 1 .. Len(toDevice) :
          toDevice[i] # Trigger /\ toDevice[i].body \in { WritePacket(c) : c \in Chunk }
              => LET len == toDevice[i].body.chunk.len
                 IN  len > 0 /\ (block # 0 => len <= block)

(* A device that stays silent is reported as what it is, SessionTimeout:   *)
(* the generic errors mean that reads have returned early and used up the  *)
(* loop's turns.                                                           *)
SilenceIsTimeout ==
    result \in {Outcome("Stalled"), Outcome("HandshakeFailed")} => hurried

(* The upload, its line and either device together keep the promise.  A    *)
(* panic of an assertion is an answer too, and not Ok.                     *)
Promise == INSTANCE UploadPromise
           WITH total <- payload, stored <- StoredLen, reported <- bytes_sent,
                filed <- closed,
                answer <- IF result = Running THEN "none"
                          ELSE IF result = Outcome("Ok") THEN "ok" ELSE "failed"
KeepsPromise == Promise!Spec

=============================================================================
