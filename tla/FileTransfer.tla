---------------------------- MODULE FileTransfer ----------------------------
(***************************************************************************)
(* The file-transfer state machine of src/file_transfer.rs on top of its   *)
(* Session: QUERY, OPEN, WRITE, CLOSE and ABORT packets one at a time,     *)
(* each answered by a PFT:* line (none for WRITE) and then by ok<n>.       *)
(*                                                                         *)
(* The caller calls query, open, write, close and abort, feeds the device's*)
(* lines, ticks, and calls poll.  poll first handles every session event,  *)
(* one step each here while polling is TRUE and nothing else may happen,   *)
(* and then returns the oldest file event.  FileTransfer holds the session *)
(* by &mut: only before a transfer is built (state Idle) does the caller   *)
(* call connect and poll_event on the session itself.                      *)
(*                                                                         *)
(* A PFT line is a record of its keyword; a version line carries what      *)
(* parse_compression_spec makes of its compression spec, none for an       *)
(* unknown one.  Every other line, version lines without a second colon    *)
(* included, is Chatter.  A packet is a record of its kind, WRITE with the *)
(* chunk it carries; file names and the dummy flag are left out.           *)
(***************************************************************************)
EXTENDS Session

CONSTANTS
    Chunk,               \* what a WRITE may carry
    Params,              \* window and lookahead pairs of heatshrink
    ResetAfterFailure    \* whether the caller resets the session, as
                         \* Event::OutOfSync asks, before it retries

(* enum Compression *)
CompNone == [mode |-> "none"]
CompAuto == [mode |-> "auto"]
Heatshrink(p) == [mode |-> "heatshrink", params |-> p]
DeviceCompression == {CompNone} \cup { Heatshrink(p) : p \in Params }
Compression == DeviceCompression \cup {CompAuto}

(* The lines handle_ascii_line tells apart. *)
Version(comp) == [pft |-> "version", compression |-> comp]
Status(word)  == [pft |-> word]
StatusWord == {"success", "busy", "fail", "ioerror", "invalid"}
Chatter == [pft |-> "other"]
FileText ==
    { Version(comp) : comp \in DeviceCompression }
      \cup { Status(word) : word \in StatusWord } \cup {Chatter}

(* The packets a transfer sends; OPEN with its compression byte. *)
Plain(kind) == [kind |-> kind]
WritePacket(chunk) == [kind |-> "write", chunk |-> chunk]
FilePacket ==
    { Plain(kind) : kind \in {"query", "open_raw", "open_heatshrink", "close", "abort"} }
      \cup { WritePacket(chunk) : chunk \in Chunk }

ASSUME FilePacketsAssumption == FilePacket \subseteq Body
ASSUME FileTextAssumption == Text = FileText /\ StrayOk = Chatter
Awaiting == {"AwaitingQueryReply", "AwaitingOpenReply", "AwaitingWriteAck",
             "AwaitingCloseReply", "AwaitingAbortReply"}
Final == {"Closed", "Aborted", "Failed"}
State == Awaiting \cup Final \cup {"Idle", "Negotiated", "Opened"}

(* enum PendingAscii: the PFT half of a reply whose ok<n> is yet to come.  *)
(* ReplyTo is the state in which the line that sets it is looked at.       *)
ReplyTo ==
    [QueryVersion |-> "AwaitingQueryReply", QueryFailed  |-> "AwaitingQueryReply",
     OpenSuccess  |-> "AwaitingOpenReply",  OpenBusy     |-> "AwaitingOpenReply",
     OpenFail     |-> "AwaitingOpenReply",  CloseSuccess |-> "AwaitingCloseReply",
     CloseIoError |-> "AwaitingCloseReply", CloseInvalid |-> "AwaitingCloseReply",
     AbortSuccess |-> "AwaitingAbortReply"]

QueryVersion(comp) == [reply |-> "QueryVersion", compression |-> comp]
Reply(kind) == [reply |-> kind]
PendingAscii ==
    { QueryVersion(comp) : comp \in DeviceCompression }
      \cup { Reply(kind) : kind \in DOMAIN ReplyTo \ {"QueryVersion"} }

ASSUME FileNoneAssumption ==
    /\ ResetAfterFailure \in BOOLEAN
    /\ None \notin Compression \cup PendingAscii

(* enum FileEvent and enum FileError *)
Negotiated(comp) == [type |-> "Negotiated", compression |-> comp]
Progress(type) == [type |-> type]
Failed(error) == [type |-> "Failed", error |-> error]
FileError == {"OpenBusy", "OpenFail", "IoError", "NoOpenFile", "SessionTimeout",
              "SessionFatalError", "SessionOutOfSync", "CompressionUnsupported",
              "ProtocolViolation"}
FileEvent ==
    { Negotiated(comp) : comp \in DeviceCompression }
      \cup { Progress(type) : type \in {"Opened", "WriteAcked", "Closed", "AbortAcked"} }
      \cup { Failed(error) : error \in FileError }

VARIABLES
    state,           \* enum State
    requested,       \* requested_compression
    negotiated,      \* what QUERY settled on, or None
    pending_ascii,   \* a PendingAscii, or None
    out_events,      \* file events poll has yet to return
    polling,         \* poll has been called and has not returned
    advertised       \* history: the last version line's offer, of those read for QUERY

transferVars == <<state, requested, negotiated, pending_ascii, out_events, advertised>>
ftVars == <<transferVars, polling>>
fileVars == <<vars, ftVars>>

-----------------------------------------------------------------------------
(* query, open, write, close and abort: each asserts its state and sends.  *)
(* (As in Session, Mutant_ operators are faulty variants of what follows.) *)
Mutant_Request(from, to, packet) ==
    /\ ~polling
    /\ state \in {from, "AwaitingWriteAck"}
    /\ state' = to
    /\ Send(packet)

Request(from, to, packet) ==
    /\ ~polling
    /\ state = from
    /\ state' = to
    /\ Send(packet)

Query(comp) ==
    /\ Request("Idle", "AwaitingQueryReply", Plain("query"))
    /\ requested' = comp
    /\ UNCHANGED <<negotiated, pending_ascii, out_events, polling, advertised>>

OpenPacket ==
    Plain(IF negotiated # None /\ negotiated.mode = "heatshrink"
          THEN "open_heatshrink" ELSE "open_raw")

Open ==
    /\ Request("Negotiated", "AwaitingOpenReply", OpenPacket)
    /\ UNCHANGED <<requested, negotiated, pending_ascii, out_events, polling, advertised>>

Write(chunk) ==
    /\ Request("Opened", "AwaitingWriteAck", WritePacket(chunk))
    /\ UNCHANGED <<requested, negotiated, pending_ascii, out_events, polling, advertised>>

Close ==
    /\ Request("Opened", "AwaitingCloseReply", Plain("close"))
    /\ UNCHANGED <<requested, negotiated, pending_ascii, out_events, polling, advertised>>

Abort ==
    /\ Request("Opened", "AwaitingAbortReply", Plain("abort"))
    /\ UNCHANGED <<requested, negotiated, pending_ascii, out_events, polling, advertised>>

-----------------------------------------------------------------------------
Move(to, event) ==
    /\ state' = to
    /\ out_events' = Append(out_events, event)

Fail(error) == Move("Failed", Failed(error))

(* choose_compression: the caller's own heatshrink parameters win over the *)
(* device's.  None stands for Err(CompressionUnsupported).                 *)
Mutant_ChooseCompression(device) == IF requested = CompAuto THEN device ELSE requested

Mutant_ChooseCompressionAuto(device) ==
    IF requested # CompNone /\ device = CompNone THEN None ELSE requested

ChooseCompression(device) ==
    IF requested = CompAuto THEN device
    ELSE IF requested # CompNone /\ device = CompNone THEN None
    ELSE requested

VersionReply(device) ==
    LET chosen == ChooseCompression(device)
    IN  IF chosen = None THEN Reply("QueryFailed") ELSE QueryVersion(chosen)

(* What a status line stands for in a state; the pairs not listed are      *)
(* ignored by handle_ascii_line.                                           *)
StatusReply ==
    [AwaitingOpenReply |->
        [success |-> "OpenSuccess", busy |-> "OpenBusy", fail |-> "OpenFail"],
     AwaitingCloseReply |->
        [success |-> "CloseSuccess", ioerror |-> "CloseIoError", invalid |-> "CloseInvalid"],
     AwaitingAbortReply |->
        [success |-> "AbortSuccess"]]

Mutant_HandleVersion(device) ==
    /\ pending_ascii' = VersionReply(device)
    /\ advertised' = device
    /\ UNCHANGED <<state, requested, negotiated, out_events>>

HandleVersion(device) ==
    /\ IF state = "AwaitingQueryReply"
       THEN pending_ascii' = VersionReply(device) /\ advertised' = device
       ELSE UNCHANGED <<pending_ascii, advertised>>
    /\ UNCHANGED <<state, requested, negotiated, out_events>>

Understood(word) ==
    state \in DOMAIN StatusReply /\ word \in DOMAIN StatusReply[state]

HandleStatus(word) ==
    /\ pending_ascii' = IF Understood(word) THEN Reply(StatusReply[state][word])
                        ELSE pending_ascii
    /\ UNCHANGED <<state, requested, negotiated, out_events, advertised>>

HandleAsciiLine(text) ==
    \/ text.pft = "version" /\ HandleVersion(text.compression)
    \/ text.pft # "version" /\ HandleStatus(text.pft)

(* handle_ack takes the pending line and looks at the state.  What each    *)
(* refusal of the device is called by FileError.                           *)
Refusal ==
    [QueryFailed  |-> "CompressionUnsupported",
     OpenBusy     |-> "OpenBusy", OpenFail     |-> "OpenFail",
     CloseIoError |-> "IoError",  CloseInvalid |-> "NoOpenFile"]

Conclude(reply) ==
    \/ reply.reply = "QueryVersion" /\ Move("Negotiated", Negotiated(reply.compression))
    \/ reply.reply = "OpenSuccess"  /\ Move("Opened", Progress("Opened"))
    \/ reply.reply = "CloseSuccess" /\ Move("Closed", Progress("Closed"))
    \/ reply.reply = "AbortSuccess" /\ Move("Aborted", Progress("AbortAcked"))
    \/ reply.reply \in DOMAIN Refusal /\ Fail(Refusal[reply.reply])

(* The reply's PFT half came in this state, and now its ok<n>. *)
Mutant_ReplyComplete == pending_ascii # None

ReplyComplete == pending_ascii # None /\ ReplyTo[pending_ascii.reply] = state

AckWithReply ==
    /\ ReplyComplete
    /\ Conclude(pending_ascii)
    /\ negotiated' = IF pending_ascii.reply = "QueryVersion"
                     THEN pending_ascii.compression ELSE negotiated

AckOfWrite ==
    /\ state = "AwaitingWriteAck"
    /\ IF pending_ascii = None THEN Move("Opened", Progress("WriteAcked"))
       ELSE Fail("ProtocolViolation")
    /\ UNCHANGED negotiated

Mutant_PreambleMissing ==
    pending_ascii = None /\ state \in Awaiting \ {"AwaitingWriteAck", "AwaitingAbortReply"}

PreambleMissing ==
    pending_ascii = None /\ state \in Awaiting \ {"AwaitingWriteAck"}

BareAck ==
    /\ PreambleMissing
    /\ Fail("ProtocolViolation")
    /\ UNCHANGED negotiated

(* The last arm of the match: the ack changes nothing. *)
AckIgnored ==
    /\ ~ReplyComplete /\ state # "AwaitingWriteAck" /\ ~PreambleMissing
    /\ UNCHANGED <<state, negotiated, out_events>>

HandleAck ==
    /\ AckWithReply \/ AckOfWrite \/ BareAck \/ AckIgnored
    /\ pending_ascii' = None
    /\ UNCHANGED <<requested, advertised>>

(* The session events that end a transfer whatever its state; Synced and   *)
(* ResendRequested are passed over.                                        *)
Mutant_Fatal == [FatalError |-> "SessionFatalError", OutOfSync |-> "SessionOutOfSync"]

Fatal == [FatalError |-> "SessionFatalError", OutOfSync |-> "SessionOutOfSync",
          Timeout |-> "SessionTimeout"]

HandleSessionEvent(event) ==
    \/ event.type = "AsciiLine" /\ HandleAsciiLine(event.text)
    \/ event.type = "Ack" /\ HandleAck
    \/ /\ event.type \in DOMAIN Fatal
       /\ Fail(Fatal[event.type])
       /\ UNCHANGED <<requested, negotiated, pending_ascii, advertised>>
    \/ /\ event.type \notin {"AsciiLine", "Ack"} \cup DOMAIN Fatal
       /\ UNCHANGED transferVars

-----------------------------------------------------------------------------
(* poll: handle every session event, then return the oldest file event. *)
PollStart ==
    /\ ~polling
    /\ state = "Idle" => is_synced
    /\ events # <<>> \/ out_events # <<>>
    /\ polling' = TRUE
    /\ UNCHANGED <<vars, transferVars>>

PollHandle ==
    /\ polling
    /\ events # <<>>
    /\ PollEvent
    /\ HandleSessionEvent(Head(events))
    /\ UNCHANGED polling

PollReturn ==
    /\ polling
    /\ events = <<>>
    /\ polling' = FALSE
    /\ out_events' = IF out_events = <<>> THEN <<>> ELSE Tail(out_events)
    /\ UNCHANGED <<vars, state, requested, negotiated, pending_ascii, advertised>>

(* new, with what the caller does to the session before it: after a failure*)
(* a careful one resets it (and connects again, below); after Closed or    *)
(* Aborted the session is fit for another transfer.                        *)
NewTransfer ==
    /\ ~polling
    /\ state \in Final
    /\ state' = "Idle"
    /\ requested' = CompNone
    /\ negotiated' = None
    /\ pending_ascii' = None
    /\ out_events' = <<>>
    /\ advertised' = None
    /\ IF state = "Failed" /\ ResetAfterFailure THEN Reset ELSE UNCHANGED vars
    /\ UNCHANGED polling

(* The caller's own calls of the session: connect once, poll_event until   *)
(* Synced, then a transfer.                                                *)
Handshake ==
    /\ ~is_synced /\ in_flight = None
    /\ Connect

PolledToSynced == \A i \in 1 .. Len(events) : events[i].type # "Synced"

Setup ==
    /\ ~polling
    /\ state = "Idle"
    /\ Handshake \/ PollEvent
    /\ UNCHANGED ftVars

(* feed, tick and poll_outbound pass through to the session.  The bound    *)
(* keeps the events of this model within MaxEvents, file events included.  *)
EventRoom == Len(events) + Len(out_events) < MaxEvents

FileFeed == ~polling /\ EventRoom /\ Feed /\ UNCHANGED ftVars
FileTick == ~polling /\ EventRoom /\ Tick /\ UNCHANGED ftVars
FilePollOutbound == ~polling /\ PollOutbound /\ UNCHANGED ftVars
FileElapse == ~polling /\ Elapse /\ UNCHANGED ftVars

FileInit ==
    /\ Init
    /\ state = "Idle"
    /\ requested = CompNone
    /\ negotiated = None
    /\ pending_ascii = None
    /\ out_events = <<>>
    /\ polling = FALSE
    /\ advertised = None

FileNext ==
    \/ \E comp \in Compression : PolledToSynced /\ Query(comp)
    \/ Open
    \/ \E chunk \in Chunk : Write(chunk)
    \/ Close
    \/ Abort
    \/ PollStart
    \/ PollHandle
    \/ PollReturn
    \/ NewTransfer
    \/ Setup
    \/ FileFeed
    \/ FileTick
    \/ FilePollOutbound
    \/ FileElapse

FileSpec == FileInit /\ [][FileNext]_fileVars

(* A poll runs to its end.  The caller's loop writes, polls and ticks, and *)
(* its clock runs, however many polls come in between; that tick may have  *)
(* to wait for EventRoom and Room is due to the bounds of this model.      *)
FileFairness ==
    /\ WF_fileVars(PollHandle)
    /\ WF_fileVars(PollReturn)
    /\ WF_fileVars(PollStart)
    /\ SF_fileVars(FilePollOutbound)
    /\ SF_fileVars(FileElapse)
    /\ SF_fileVars(FileTick)

FairFileSpec == FileSpec /\ FileFairness

-----------------------------------------------------------------------------
FileTypeOK ==
    /\ state \in State
    /\ requested \in Compression
    /\ negotiated \in DeviceCompression \cup {None}
    /\ pending_ascii \in PendingAscii \cup {None}
    /\ out_events \in Seq(FileEvent)
    /\ polling \in BOOLEAN
    /\ advertised \in DeviceCompression \cup {None}

(* The PFT half of a reply never outlives the wait it was read in, save in *)
(* a failed transfer: handle_ack never meets a pending line meant for      *)
(* another packet, and the arms for such lines are dead.                   *)
PendingMatchesState ==
    pending_ascii # None => state \in {ReplyTo[pending_ascii.reply], "Failed"}

PacketOf ==
    [AwaitingQueryReply |-> {"query"},
     AwaitingOpenReply  |-> {"open_raw", "open_heatshrink"},
     AwaitingWriteAck   |-> {"write"},
     AwaitingCloseReply |-> {"close"},
     AwaitingAbortReply |-> {"abort"}]

Answer(i) == i \in 1 .. Len(events) /\ events[i].type \in {"Ack", "Timeout"}
NoAnswer == \A i \in 1 .. Len(events) : ~Answer(i)
SingleAnswer ==
    \E i \in 1 .. Len(events) :
        Answer(i) /\ \A j \in 1 .. Len(events) : Answer(j) => j = i

(* A transfer that waits for a reply is owed exactly one ack or timeout:   *)
(* that of the packet it sent, still in flight, or already in the event    *)
(* queue.  It never waits for nothing, never shares the session with a     *)
(* packet of an earlier wait, and one that waits for nothing is owed       *)
(* nothing.  (The transfer has &mut Session; nothing else ties its state   *)
(* to the session's.)                                                      *)
OneAnswerOwed ==
    /\ state \in Awaiting =>
          /\ queued = <<>>
          /\ IF in_flight = None THEN SingleAnswer
             ELSE in_flight.body.kind \in PacketOf[state] /\ NoAnswer
    /\ state \in {"Negotiated", "Opened", "Closed", "Aborted"} =>
          queued = <<>> /\ in_flight = None /\ NoAnswer

(* Chunks are compressed only if the caller allowed it and the last        *)
(* version line read while QUERY waited for its reply offered heatshrink;  *)
(* the caller's own parameters win over the device's; Auto follows the     *)
(* device.                                                                 *)
CompressionAgreed ==
    negotiated # None =>
        /\ negotiated # CompNone => requested # CompNone /\ advertised # CompNone
        /\ requested \notin {CompAuto, CompNone} => negotiated = requested
        /\ requested = CompAuto => negotiated = advertised

(* No ack is dropped by a waiting transfer: the ok<n> it waited for always *)
(* ends the wait, in success or in Failed.                                 *)
NothingSwallowed ==
    [][PollHandle /\ Head(events).type = "Ack" /\ state \in Awaiting
           => state' # state]_fileVars

(* "Something failed; the transfer cannot continue": whatever arrives      *)
(* later, a PFT line's ok<n> included, a failed transfer makes no progress *)
(* and reports none.                                                       *)
FailureIsFinal ==
    [][state = "Failed" =>
           /\ state' \in {"Failed", "Idle"}
           /\ Len(out_events') > Len(out_events)
                  => out_events'[Len(out_events')].type = "Failed"]_fileVars

(* Every query, open, write, close and abort gets an outcome: the device's *)
(* reply or, since the session gives up on the packet, a failure.          *)
EveryRequestEnds == \A s \in Awaiting : (state = s) ~> (state # s)

(* "Callers must pump until WriteAcked before issuing the next write", and *)
(* Opened says "the device is ready to receive WRITE packets": when poll   *)
(* returns one of these, write's assertion holds.                          *)
PumpedCallerMayWrite ==
    [][PollReturn /\ out_events # <<>> /\ out_events[1].type \in {"Opened", "WriteAcked"}
           => state = "Opened"]_fileVars

=============================================================================
