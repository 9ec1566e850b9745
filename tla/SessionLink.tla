---------------------------- MODULE SessionLink ----------------------------
(***************************************************************************)
(* Session with a caller, a serial line and a device around it.            *)
(*                                                                         *)
(* The line keeps order but loses: frames on the way to the device (a      *)
(* corrupted frame fails its checksum, which is a loss the device may      *)
(* answer with rs<n>) and reply lines on the way back.  Delay is free, so  *)
(* an answer may come after its packet has been written again.             *)
(*                                                                         *)
(* The device is one of two.  The fixture of the tests, FakeDevice in      *)
(* tests/fixtures/fake_device.rs, acknowledges and keeps every packet it   *)
(* can decode, whatever its number.  The firmware the crate is written for *)
(* is not in the repository; here it is what the session's one-byte        *)
(* counter and verbatim retransmissions are for: it keeps the packet whose *)
(* number it expects, only repeats the ok of the one before, and drops     *)
(* every other packet.                                                     *)
(*                                                                         *)
(* The caller connects, waits for Synced, and sends the packets 1, 2, ...  *)
(* with at most Window of them unconfirmed (FileTransfer keeps Window at 1)*)
(* until an event tells it that the session failed.                        *)
(***************************************************************************)
EXTENDS Session

CONSTANTS Last,              \* the caller sends packets 1 .. Last
          Window,            \* packets it may have unconfirmed
          MaxFrames, MaxLines  \* bounds on what is on the line

ASSUME LinkAssumption ==
    /\ Last \in Nat /\ Body = 1 .. Last
    /\ Window \in Nat \ {0}
    /\ BlockSize # {} /\ Sync \subseteq SsNumber

VARIABLES
    toDevice,    \* frames on the line, oldest first
    toHost,      \* lines on the line, oldest first
    counts,      \* the device looks at sync numbers (the firmware does)
    expected,    \* the device's sync number; FakeDevice's initial_sync
    received,    \* history: data packets the device has kept, in order
    submitted,   \* packets 1 .. submitted have been handed to send
    confirmed,   \* Ack events the caller has polled
    gaveUp,      \* the caller has polled OutOfSync, FatalError or Timeout
    acked,       \* history: packets the session has taken an ok<n> for
    rewritten    \* history: some packet has been written twice

lineVars == <<toDevice, toHost>>
deviceVars == <<counts, expected, received>>
callerVars == <<submitted, confirmed, gaveUp>>
history == <<acked, rewritten>>
linkVars == <<vars, lineVars, deviceVars, callerVars, history>>

-----------------------------------------------------------------------------
(* The caller. *)
CallerConnects ==
    /\ ~is_synced /\ in_flight = None /\ ~gaveUp /\ events = <<>>
    /\ Connect
    /\ UNCHANGED <<lineVars, deviceVars, callerVars, history>>

CallerSends ==
    /\ ~gaveUp
    /\ submitted < Last /\ submitted - confirmed < Window
    /\ Send(submitted + 1)
    /\ submitted' = submitted + 1
    /\ UNCHANGED <<lineVars, deviceVars, confirmed, gaveUp, history>>

CallerPolls ==
    /\ PollEvent
    /\ LET type == Head(events).type
       IN  /\ confirmed' = IF type = "Ack" THEN confirmed + 1 ELSE confirmed
           /\ gaveUp' = (gaveUp \/ type \in {"OutOfSync", "FatalError", "Timeout"})
    /\ UNCHANGED <<lineVars, deviceVars, submitted, history>>

CallerTicks ==
    /\ Tick
    /\ rewritten' = (rewritten \/ TickRetransmit)
    /\ UNCHANGED <<lineVars, deviceVars, callerVars, acked>>

TimePasses == Elapse /\ UNCHANGED <<lineVars, deviceVars, callerVars, history>>

(* The caller writes a frame out, and feeds the session a line.  A frame   *)
(* beyond MaxFrames is lost at once.                                       *)
CallerWrites ==
    /\ PollOutbound
    /\ toDevice' = IF Len(toDevice) < MaxFrames
                   THEN Append(toDevice, Head(outbound)) ELSE toDevice
    /\ UNCHANGED <<toHost, deviceVars, callerVars, history>>

CallerReads ==
    /\ toHost # <<>>
    /\ ProcessLine(Head(toHost))
    /\ toHost' = Tail(toHost)
    /\ LET line == Head(toHost)
       IN  acked' = IF line.token = "ok" /\ in_flight # None /\ Retires(line.sync)
                    THEN Append(acked, in_flight.body) ELSE acked
    /\ UNCHANGED <<toDevice, deviceVars, callerVars, rewritten>>

-----------------------------------------------------------------------------
(* The line loses its oldest frame or line; a frame may be found corrupt.  *)
LoseFrame ==
    /\ toDevice # <<>>
    /\ toDevice' = Tail(toDevice)
    /\ UNCHANGED <<vars, toHost, deviceVars, callerVars, history>>

LoseLine ==
    /\ toHost # <<>>
    /\ toHost' = Tail(toHost)
    /\ UNCHANGED <<vars, toDevice, deviceVars, callerVars, history>>

(* The device answers the oldest frame with one line. *)
Answers(line) ==
    /\ Len(toHost) < MaxLines
    /\ toDevice' = Tail(toDevice)
    /\ toHost' = Append(toHost, line)
    /\ UNCHANGED <<vars, callerVars, history>>

(* The number an rs line names: FakeDevice's is the packet's own, the      *)
(* firmware asks for the packet it expects.                                *)
ResendNumber == IF counts THEN expected ELSE Head(toDevice).sync

DeviceAsksAgain ==
    /\ toDevice # <<>>
    /\ Answers(RsLine(ResendNumber))
    /\ UNCHANGED deviceVars

DeviceSyncs ==
    /\ toDevice # <<>> /\ Head(toDevice).body = SyncBody
    /\ \E size \in BlockSize : Answers(SsLine(expected, size))
    /\ UNCHANGED deviceVars

DataArrives == toDevice # <<>> /\ Head(toDevice).body # SyncBody

(* FakeDevice::handle: every packet is kept and acknowledged. *)
FakeKeeps ==
    /\ ~counts /\ DataArrives
    /\ received' = Append(received, Head(toDevice).body)
    /\ Answers(OkLine(Head(toDevice).sync))
    /\ UNCHANGED <<counts, expected>>

(* The firmware. *)
FirmwareKeeps ==
    /\ counts /\ DataArrives
    /\ Head(toDevice).sync = expected
    /\ received' = Append(received, Head(toDevice).body)
    /\ expected' = NextSync(expected)
    /\ Answers(OkLine(Head(toDevice).sync))
    /\ UNCHANGED counts

FirmwareRefuses ==
    /\ counts /\ DataArrives
    /\ Head(toDevice).sync # expected
    /\ IF NextSync(Head(toDevice).sync) = expected
       THEN Answers(OkLine(Head(toDevice).sync))
       ELSE /\ toDevice' = Tail(toDevice)
            /\ UNCHANGED <<vars, toHost, callerVars, history>>
    /\ UNCHANGED deviceVars

-----------------------------------------------------------------------------
LinkInit ==
    /\ Init
    /\ toDevice = <<>> /\ toHost = <<>>
    /\ counts \in BOOLEAN /\ expected \in Sync /\ received = <<>>
    /\ submitted = 0 /\ confirmed = 0 /\ gaveUp = FALSE
    /\ acked = <<>> /\ rewritten = FALSE

LinkNext ==
    \/ CallerConnects \/ CallerSends \/ CallerPolls \/ CallerTicks
    \/ CallerWrites \/ CallerReads \/ TimePasses
    \/ LoseFrame \/ LoseLine
    \/ DeviceAsksAgain \/ DeviceSyncs
    \/ FakeKeeps \/ FirmwareKeeps \/ FirmwareRefuses

LinkSpec == LinkInit /\ [][LinkNext]_linkVars

(* Of the line and the device nothing is assumed: the caller's loop alone, *)
(* with its clock, brings every packet to an end.                          *)
LinkFairness ==
    /\ WF_linkVars(CallerPolls)
    /\ WF_linkVars(CallerWrites)
    /\ WF_linkVars(TimePasses)
    /\ SF_linkVars(CallerTicks)

FairLinkSpec == LinkSpec /\ LinkFairness

-----------------------------------------------------------------------------
LinkTypeOK ==
    /\ toDevice \in Seq(Frame) /\ toHost \in Seq(Line)
    /\ counts \in BOOLEAN /\ expected \in Sync
    /\ received \in Seq(Body) /\ acked \in Seq(Body)
    /\ submitted \in 0 .. Last /\ confirmed \in 0 .. submitted
    /\ gaveUp \in BOOLEAN /\ rewritten \in BOOLEAN

(* An Ack means that the packet it retires has reached the device.  Late   *)
(* acks, acks of second copies and a counter that wraps do not mislead the *)
(* session about which packet an ok<n> is for.                             *)
AckedWasReceived ==
    \A i \in 1 .. Len(acked) : \E j \in 1 .. Len(received) : received[j] = acked[i]

(* The device keeps packets in the order they were sent, without a gap; a  *)
(* device that looks at the counter keeps each once, FakeDevice one copy   *)
(* for every time it got through.                                          *)
ReceivedInOrder ==
    \A i \in 1 .. Len(received) :
        LET last == IF i = 1 THEN 0 ELSE received[i - 1]
        IN  received[i] = last + 1 \/ (~counts /\ i > 1 /\ received[i] = last)

(* The only way out of step is a retransmission whose first copy is        *)
(* answered after all: a session that has written every packet once is     *)
(* never told OutOfSync, whatever the line has lost.                       *)
InStepUnlessRewritten ==
    ~rewritten => \A i \in 1 .. Len(events) : events[i].type # "OutOfSync"

(* With one packet at a time the session, the line and either device       *)
(* together are the reliable channel of ReliableChannel.                   *)
Channel == INSTANCE ReliableChannel
           WITH delivered <- IF received = <<>> THEN 0 ELSE received[Len(received)],
                acknowledged <- Len(acked)
ImplementsChannel == Channel!Spec

=============================================================================
