------------------------- MODULE FileTransferProofs -------------------------
(***************************************************************************)
(* Proofs, for every value of the constants, that a transfer uses its      *)
(* session as the session's specification allows, and of the transfer's    *)
(* safety properties.                                                      *)
(***************************************************************************)
EXTENDS FileTransfer, SessionProofs

(* The five requests are packets the session may be handed.                *)
LEMMA RequestsAreBodies ==
    /\ \A kind \in {"query", "open_raw", "open_heatshrink", "close", "abort"} :
          Plain(kind) \in Body
    /\ \A chunk \in Chunk : WritePacket(chunk) \in Body
    /\ OpenPacket \in Body
  BY FilePacketsAssumption DEF FilePacket, OpenPacket

(* Whatever the transfer does to its session, it does by the session's own *)
(* operations, one a step.                                                 *)
LEMMA FileStepIsSessionStep == [FileNext]_fileVars => [Next]_vars
  <1> SUFFICES ASSUME FileNext
               PROVE  Next \/ UNCHANGED vars
    BY DEF fileVars
  <1>1. ASSUME NEW comp \in Compression, Query(comp)
        PROVE  Next
    BY <1>1, RequestsAreBodies DEF Query, Request, Next
  <1>2. CASE Open
    BY <1>2, RequestsAreBodies DEF Open, Request, Next
  <1>3. ASSUME NEW chunk \in Chunk, Write(chunk)
        PROVE  Next
    BY <1>3, RequestsAreBodies DEF Write, Request, Next
  <1>4. CASE Close \/ Abort
    BY <1>4, RequestsAreBodies DEF Close, Abort, Request, Next
  <1>5. CASE PollStart \/ PollReturn
    BY <1>5 DEF PollStart, PollReturn
  <1>6. CASE PollHandle
    BY <1>6 DEF PollHandle, Next
  <1>7. CASE NewTransfer
    BY <1>7 DEF NewTransfer, Next
  <1>8. CASE Setup
    BY <1>8 DEF Setup, Handshake, Next
  <1>9. CASE FileFeed \/ FileTick \/ FilePollOutbound \/ FileElapse
    BY <1>9 DEF FileFeed, FileTick, FilePollOutbound, FileElapse, Next
  <1> QED
    BY <1>1, <1>2, <1>3, <1>4, <1>5, <1>6, <1>7, <1>8, <1>9 DEF FileNext

(* A transfer on its session behaves, as far as the session goes, as the   *)
(* session's specification says: what is proved of the session alone holds *)
(* under every transfer.                                                   *)
THEOREM TransferImplementsSession == FileSpec => Spec
  <1>1. FileInit => Init
    BY DEF FileInit
  <1>2. [FileNext]_fileVars => [Next]_vars
    BY FileStepIsSessionStep
  <1> QED
    BY <1>1, <1>2, PTL DEF FileSpec, Spec

-----------------------------------------------------------------------------
(* The compression that a pending version reply would settle on is what    *)
(* choose_compression makes of the last offer, and nothing is settled      *)
(* while it may still change.                                              *)
OfferAgreed ==
    /\ state \in {"Idle", "AwaitingQueryReply"} => negotiated = None
    /\ state = "Idle" => pending_ascii = None
    /\ pending_ascii # None /\ pending_ascii.reply = "QueryVersion" =>
          /\ advertised # None
          /\ pending_ascii.compression = ChooseCompression(advertised)

FileInv ==
    /\ FileTypeOK
    /\ PendingMatchesState
    /\ OfferAgreed
    /\ CompressionAgreed

(* The steps that leave the transfer itself alone.                         *)
LEMMA SessionStepKeepsFile ==
    ASSUME FileInv, UNCHANGED transferVars, polling' \in BOOLEAN
    PROVE  FileInv'
  BY DEF FileInv, FileTypeOK, PendingMatchesState, OfferAgreed, CompressionAgreed,
         transferVars, ChooseCompression

(* A request starts a wait with no reply pending.                          *)
LEMMA RequestKeepsFile ==
    ASSUME FileInv, NEW to \in Awaiting \ {"AwaitingQueryReply"},
           state \in {"Negotiated", "Opened"}, state' = to,
           UNCHANGED <<requested, negotiated, pending_ascii, out_events, polling, advertised>>
    PROVE  FileInv'
  <1>1. pending_ascii = None
    BY DEF FileInv, FileTypeOK, PendingMatchesState, PendingAscii, ReplyTo, Reply, QueryVersion
  <1> QED
    BY <1>1
       DEF FileInv, FileTypeOK, PendingMatchesState, OfferAgreed, CompressionAgreed,
           Awaiting, State

(* What choose_compression returns is a device's compression or None, and  *)
(* agrees with the caller and with the offer.                              *)
LEMMA ChoiceAgrees ==
    ASSUME requested \in Compression, NEW device \in DeviceCompression,
           NEW chosen, chosen = ChooseCompression(device), chosen # None
    PROVE  /\ chosen \in DeviceCompression
           /\ chosen # CompNone => requested # CompNone /\ device # CompNone
           /\ requested \notin {CompAuto, CompNone} => chosen = requested
           /\ requested = CompAuto => chosen = device
  <1>1. CompAuto # CompNone
    BY DEF CompAuto, CompNone
  <1> QED
    BY <1>1 DEF ChooseCompression, Compression

LEMMA HandleVersionKeeps ==
    ASSUME FileInv, NEW device \in DeviceCompression, HandleVersion(device), UNCHANGED polling
    PROVE  FileInv'
  <1>1. CASE state # "AwaitingQueryReply"
    BY <1>1, SessionStepKeepsFile DEF HandleVersion, transferVars, FileInv, FileTypeOK
  <1>2. CASE state = "AwaitingQueryReply"
    <2> DEFINE chosen == ChooseCompression(device)
    <2>1. /\ pending_ascii' = (IF chosen = None THEN Reply("QueryFailed") ELSE QueryVersion(chosen))
          /\ advertised' = device /\ negotiated = None /\ device # None
          /\ UNCHANGED <<state, requested, negotiated, out_events>>
          /\ chosen' = chosen
      BY <1>2, FileNoneAssumption
         DEF HandleVersion, VersionReply, FileInv, OfferAgreed, ChooseCompression, Compression
    <2>2. chosen # None => chosen \in DeviceCompression
      BY ChoiceAgrees DEF FileInv, FileTypeOK
    <2>3. chosen' = ChooseCompression(device)'
      OBVIOUS
    <2> HIDE DEF chosen
    <2>4. /\ pending_ascii' \in PendingAscii
          /\ ReplyTo[pending_ascii'.reply] = "AwaitingQueryReply"
          /\ pending_ascii'.reply = "QueryVersion" => pending_ascii'.compression = chosen
      BY <2>1, <2>2 DEF PendingAscii, Reply, QueryVersion, ReplyTo
    <2>5. FileTypeOK' /\ PendingMatchesState'
      BY <1>2, <2>1, <2>4 DEF FileInv, FileTypeOK, PendingMatchesState
    <2>6. ChooseCompression(advertised)' = chosen
      BY <2>1 DEF chosen, ChooseCompression
    <2> QED
      BY <1>2, <2>1, <2>4, <2>5, <2>6 DEF FileInv, OfferAgreed, CompressionAgreed
  <1> QED
    BY <1>1, <1>2

LEMMA HandleStatusKeeps ==
    ASSUME FileInv, NEW word, HandleStatus(word), UNCHANGED polling
    PROVE  FileInv'
  <1>1. CASE ~Understood(word)
    BY <1>1, SessionStepKeepsFile DEF HandleStatus, transferVars, FileInv, FileTypeOK
  <1>2. CASE Understood(word)
    <2>1. /\ pending_ascii' = Reply(StatusReply[state][word])
          /\ StatusReply[state][word] \in DOMAIN ReplyTo \ {"QueryVersion"}
          /\ ReplyTo[StatusReply[state][word]] = state
          /\ state \notin {"Idle", "AwaitingQueryReply"}
      BY <1>2 DEF HandleStatus, Understood, StatusReply, ReplyTo
    <2>2. pending_ascii' \in PendingAscii /\ pending_ascii'.reply = StatusReply[state][word]
      BY <2>1 DEF PendingAscii, Reply
    <2> QED
      BY <2>1, <2>2
         DEF HandleStatus, FileInv, FileTypeOK, PendingMatchesState, OfferAgreed, CompressionAgreed
  <1> QED
    BY <1>1, <1>2

LEMMA FailKeeps ==
    ASSUME FileInv, NEW error \in FileError, Fail(error),
           pending_ascii' \in {pending_ascii, None},
           UNCHANGED <<requested, negotiated, advertised, polling>>
    PROVE  FileInv'
  <1>1. Failed(error) \in FileEvent
    BY DEF FileEvent
  <1>2. out_events' \in Seq(FileEvent) /\ state' = "Failed"
    BY <1>1 DEF Fail, Move, FileInv, FileTypeOK
  <1> QED
    BY <1>2
       DEF FileInv, FileTypeOK, PendingMatchesState, OfferAgreed, CompressionAgreed,
           State, Final, ChooseCompression

LEMMA QueryKeepsFile ==
    ASSUME FileInv, NEW comp \in Compression, Query(comp)
    PROVE  FileInv'
  BY DEF Query, Request, FileInv, FileTypeOK, PendingMatchesState, OfferAgreed,
         CompressionAgreed, State, Awaiting

LEMMA PollReturnKeepsFile ==
    ASSUME FileInv, PollReturn
    PROVE  FileInv'
  <1>1. out_events' \in Seq(FileEvent)
    BY EmptyQueue DEF PollReturn, FileInv, FileTypeOK
  <1> QED
    BY <1>1
       DEF PollReturn, FileInv, FileTypeOK, PendingMatchesState, OfferAgreed,
           CompressionAgreed, ChooseCompression

(* An ack that moves the transfer on, with nothing new settled.            *)
LEMMA ProgressKeeps ==
    ASSUME FileInv, pending_ascii' = None,
           NEW to \in {"Opened", "Closed", "Aborted"},
           NEW type \in {"Opened", "WriteAcked", "Closed", "AbortAcked"},
           Move(to, Progress(type)),
           UNCHANGED <<requested, negotiated, advertised, polling>>
    PROVE  FileInv'
  <1>1. Progress(type) \in FileEvent
    BY DEF FileEvent
  <1>2. out_events' \in Seq(FileEvent) /\ state' = to
    BY <1>1 DEF Move, FileInv, FileTypeOK
  <1> QED
    BY <1>2
       DEF FileInv, FileTypeOK, PendingMatchesState, OfferAgreed, CompressionAgreed,
           State, Final

LEMMA AckWithReplyKeeps ==
    ASSUME FileInv, AckWithReply, pending_ascii' = None,
           UNCHANGED <<requested, advertised, polling>>
    PROVE  FileInv'
  <1> DEFINE kind == pending_ascii.reply
  <1>1. /\ pending_ascii \in PendingAscii /\ kind \in DOMAIN ReplyTo
        /\ ReplyTo[kind] = state /\ Conclude(pending_ascii)
        /\ kind = "QueryVersion" => pending_ascii.compression \in DeviceCompression
    BY DEF AckWithReply, ReplyComplete, FileInv, FileTypeOK, PendingAscii, Reply,
           QueryVersion, ReplyTo
  <1>2. CASE kind = "QueryVersion"
    <2> DEFINE chosen == pending_ascii.compression
    <2>1. /\ negotiated' = chosen /\ chosen \in DeviceCompression
          /\ Move("Negotiated", Negotiated(chosen))
      BY <1>1, <1>2 DEF AckWithReply, Conclude, Refusal
    <2>2. /\ advertised \in DeviceCompression /\ requested \in Compression
          /\ chosen = ChooseCompression(advertised)
      BY <1>1, <1>2 DEF FileInv, FileTypeOK, OfferAgreed, AckWithReply, ReplyComplete
    <2>3. chosen # None
      BY <2>1, FileNoneAssumption DEF Compression
    <2> HIDE DEF chosen
    <2>4. Negotiated(chosen) \in FileEvent
      BY <2>1 DEF FileEvent
    <2>5. out_events' \in Seq(FileEvent) /\ state' = "Negotiated"
      BY <2>1, <2>4 DEF Move, FileInv, FileTypeOK
    <2> QED
      BY <2>1, <2>2, <2>3, <2>5, ChoiceAgrees
         DEF FileInv, FileTypeOK, PendingMatchesState, OfferAgreed, CompressionAgreed, State
  <1>3. CASE kind \in {"OpenSuccess", "CloseSuccess", "AbortSuccess"}
    BY <1>1, <1>3, ProgressKeeps DEF AckWithReply, Conclude, Refusal
  <1>4. CASE kind \notin {"QueryVersion", "OpenSuccess", "CloseSuccess", "AbortSuccess"}
    BY <1>1, <1>4, FailKeeps DEF AckWithReply, Conclude, Refusal, FileError
  <1> QED
    BY <1>2, <1>3, <1>4

LEMMA HandleAckKeeps ==
    ASSUME FileInv, HandleAck, UNCHANGED polling
    PROVE  FileInv'
  <1>1. pending_ascii' = None /\ UNCHANGED <<requested, advertised, polling>>
    BY DEF HandleAck
  <1>2. CASE AckWithReply
    BY <1>1, <1>2, AckWithReplyKeeps
  <1>3. CASE AckOfWrite
    BY <1>1, <1>3, ProgressKeeps, FailKeeps DEF AckOfWrite, FileError
  <1>4. CASE BareAck
    BY <1>1, <1>4, FailKeeps DEF BareAck, FileError
  <1>5. CASE AckIgnored
    BY <1>1, <1>5
       DEF AckIgnored, FileInv, FileTypeOK, PendingMatchesState, OfferAgreed, CompressionAgreed
  <1> QED
    BY <1>2, <1>3, <1>4, <1>5 DEF HandleAck

(* What the session hands the transfer.                                    *)
LEMMA PolledEvent ==
    ASSUME TypeOK, events # <<>>
    PROVE  /\ Head(events) \in Event
           /\ Head(events).type = "AsciiLine" => Head(events).text \in FileText
  <1>1. Head(events) \in Event
    BY DEF TypeOK
  <1> QED
    BY <1>1, FileTextAssumption
       DEF Event, Synced, Ack, ResendRequested, AsciiLine, FatalError, OutOfSync, Timeout

LEMMA HandleAsciiLineKeeps ==
    ASSUME FileInv, NEW text \in FileText, HandleAsciiLine(text), UNCHANGED polling
    PROVE  FileInv'
  <1>1. CASE text.pft = "version"
    <2>1. text.compression \in DeviceCompression
      BY <1>1 DEF FileText, Version, Status, StatusWord, Chatter
    <2> QED
      BY <1>1, <2>1, HandleVersionKeeps DEF HandleAsciiLine
  <1>2. CASE text.pft # "version"
    BY <1>2, HandleStatusKeeps DEF HandleAsciiLine
  <1> QED
    BY <1>1, <1>2

LEMMA HandleSessionEventKeeps ==
    ASSUME FileInv, TypeOK, events # <<>>, HandleSessionEvent(Head(events)), UNCHANGED polling
    PROVE  FileInv'
  <1> DEFINE event == Head(events)
  <1>1. event.type = "AsciiLine" => event.text \in FileText
    BY PolledEvent
  <1> HIDE DEF event
  <1>2. CASE event.type = "AsciiLine" /\ HandleAsciiLine(event.text)
    BY <1>1, <1>2, HandleAsciiLineKeeps
  <1>3. CASE event.type = "Ack" /\ HandleAck
    BY <1>3, HandleAckKeeps
  <1>4. CASE /\ event.type \in DOMAIN Fatal
             /\ Fail(Fatal[event.type])
             /\ UNCHANGED <<requested, negotiated, pending_ascii, advertised>>
    BY <1>4, FailKeeps DEF Fatal, FileError
  <1>5. CASE UNCHANGED transferVars
    BY <1>5, SessionStepKeepsFile DEF FileInv, FileTypeOK
  <1> QED
    BY <1>2, <1>3, <1>4, <1>5 DEF HandleSessionEvent, event

-----------------------------------------------------------------------------
LEMMA FileInvInit == FileInit => FileInv
  <1> SUFFICES ASSUME FileInit
               PROVE  FileInv
    OBVIOUS
  <1>1. out_events \in Seq(FileEvent)
    BY EmptyQueue DEF FileInit
  <1> QED
    BY <1>1
       DEF FileInit, FileInv, FileTypeOK, PendingMatchesState, OfferAgreed,
           CompressionAgreed, State, Compression, DeviceCompression

LEMMA FileInvStep ==
    ASSUME TypeOK, FileInv, [FileNext]_fileVars
    PROVE  FileInv'
  <1>1. ASSUME NEW comp \in Compression, Query(comp)
        PROVE  FileInv'
    BY <1>1, QueryKeepsFile
  <1>2. CASE Open
    BY <1>2, RequestKeepsFile DEF Open, Request, Awaiting
  <1>3. ASSUME NEW chunk \in Chunk, Write(chunk)
        PROVE  FileInv'
    BY <1>3, RequestKeepsFile DEF Write, Request, Awaiting
  <1>4. CASE Close \/ Abort
    BY <1>4, RequestKeepsFile DEF Close, Abort, Request, Awaiting
  <1>5. CASE PollStart
    BY <1>5, SessionStepKeepsFile DEF PollStart
  <1>6. CASE PollHandle
    BY <1>6, HandleSessionEventKeeps DEF PollHandle
  <1>7. CASE PollReturn
    BY <1>7, PollReturnKeepsFile
  <1>8. CASE NewTransfer
    <2>1. out_events' \in Seq(FileEvent)
      BY <1>8, EmptyQueue DEF NewTransfer
    <2> QED
      BY <1>8, <2>1
         DEF NewTransfer, FileInv, FileTypeOK, PendingMatchesState, OfferAgreed,
             CompressionAgreed, State, Compression, DeviceCompression
  <1>9. CASE UNCHANGED ftVars
    BY <1>9, SessionStepKeepsFile DEF ftVars, FileInv, FileTypeOK
  <1> QED
    BY <1>1, <1>2, <1>3, <1>4, <1>5, <1>6, <1>7, <1>8, <1>9
       DEF FileNext, fileVars, Setup, FileFeed, FileTick, FilePollOutbound, FileElapse

LEMMA FileInvariant == FileSpec => [](SessionInv /\ FileInv)
  <1>1. FileInit => SessionInv /\ FileInv
    BY SessionInvInit, FileInvInit DEF FileInit
  <1>2. SessionInv /\ FileInv /\ [FileNext]_fileVars => (SessionInv /\ FileInv)'
    BY FileStepIsSessionStep, SessionInvStep, FileInvStep DEF SessionInv
  <1> QED
    BY <1>1, <1>2, PTL DEF FileSpec

(* Every value the transfer holds is of its type.                          *)
THEOREM FileTypeCorrect == FileSpec => []FileTypeOK
  BY FileInvariant, PTL DEF FileInv

(* handle_ack never meets the half of a reply that was for another request.*)
THEOREM RepliesMeetTheirState == FileSpec => []PendingMatchesState
  BY FileInvariant, PTL DEF FileInv

(* The caller allowed the compression in use, and the device offered       *)
(* compression in the last version line read for QUERY.                    *)
THEOREM CompressionIsAgreed == FileSpec => []CompressionAgreed
  BY FileInvariant, PTL DEF FileInv

-----------------------------------------------------------------------------
(* Outside Failed a pending reply is for the state the transfer is in, so  *)
(* the arm of handle_ack that drops an ack is not for a waiting transfer.  *)
LEMMA AckEndsWait ==
    ASSUME TypeOK, FileInv, PollHandle, events # <<>>,
           Head(events).type = "Ack", state \in Awaiting
    PROVE  state' # state
  <1>1. HandleAck
    BY DEF PollHandle, HandleSessionEvent, Fatal
  <1>2. CASE AckWithReply
    <2>1. /\ ReplyTo[pending_ascii.reply] = state
          /\ pending_ascii.reply \in DOMAIN ReplyTo
      BY <1>2 DEF AckWithReply, ReplyComplete, FileInv, FileTypeOK, PendingAscii, Reply,
                  QueryVersion, ReplyTo
    <2>2. state' \in {"Negotiated", "Opened", "Closed", "Aborted", "Failed"}
      BY <1>2 DEF AckWithReply, Conclude, Move, Fail
    <2> QED
      BY <2>2 DEF Awaiting
  <1>3. CASE AckOfWrite \/ BareAck
    BY <1>3 DEF AckOfWrite, BareAck, Move, Fail, Awaiting
  <1>4. CASE AckIgnored
    BY <1>4
       DEF AckIgnored, ReplyComplete, PreambleMissing, FileInv, PendingMatchesState, Awaiting
  <1> QED
    BY <1>1, <1>2, <1>3, <1>4 DEF HandleAck

(* A waiting transfer drops no ack.                                        *)
THEOREM NoAckIsSwallowed == FileSpec => NothingSwallowed
  <1>1. ASSUME SessionInv, FileInv, [FileNext]_fileVars
        PROVE  [PollHandle /\ Head(events).type = "Ack" /\ state \in Awaiting
                    => state' # state]_fileVars
    BY <1>1, AckEndsWait DEF SessionInv, PollHandle
  <1> QED
    BY <1>1, FileInvariant, PTL DEF FileSpec, NothingSwallowed

(* What a failed transfer makes of a session event is another failure, or  *)
(* nothing.                                                                *)
LEMMA FailedStays ==
    ASSUME FileInv, state = "Failed", [FileNext]_fileVars
    PROVE  /\ state' \in {"Failed", "Idle"}
           /\ Len(out_events') > Len(out_events)
                  => out_events'[Len(out_events')].type = "Failed"
  <1>1. ASSUME NEW error, Fail(error)
        PROVE  state' = "Failed" /\ out_events'[Len(out_events')].type = "Failed"
    BY <1>1 DEF Fail, Move, Failed, FileInv, FileTypeOK
  <1>2. CASE UNCHANGED <<state, out_events>>
    BY <1>2 DEF FileInv, FileTypeOK
  <1>3. ASSUME HandleAck
        PROVE  UNCHANGED <<state, out_events>>
    <2>1. ~ReplyComplete /\ ~AckOfWrite /\ ~BareAck
      BY DEF ReplyComplete, AckOfWrite, BareAck, PreambleMissing, Awaiting,
             FileInv, FileTypeOK, PendingAscii, Reply, QueryVersion, ReplyTo
    <2> QED
      BY <1>3, <2>1 DEF HandleAck, AckWithReply, AckIgnored
  <1>4. CASE PollHandle
    BY <1>1, <1>2, <1>3, <1>4
       DEF PollHandle, HandleSessionEvent, HandleAsciiLine, HandleVersion, HandleStatus,
           transferVars
  <1>5. CASE PollReturn
    BY <1>5 DEF PollReturn, FileInv, FileTypeOK
  <1>6. CASE NewTransfer
    BY <1>6 DEF NewTransfer, FileInv, FileTypeOK
  <1> QED
    BY <1>2, <1>4, <1>5, <1>6
       DEF FileNext, fileVars, ftVars, transferVars, Query, Open, Write, Close, Abort,
           Request, PollStart, Setup, FileFeed, FileTick, FilePollOutbound, FileElapse

(* A failed transfer makes no progress and reports none.                   *)
THEOREM FailureStands == FileSpec => FailureIsFinal
  <1>1. ASSUME SessionInv, FileInv, [FileNext]_fileVars
        PROVE  [state = "Failed" =>
                    /\ state' \in {"Failed", "Idle"}
                    /\ Len(out_events') > Len(out_events)
                           => out_events'[Len(out_events')].type = "Failed"]_fileVars
    BY <1>1, FailedStays
  <1> QED
    BY <1>1, FileInvariant, PTL DEF FileSpec, FailureIsFinal

-----------------------------------------------------------------------------
(* OneAnswerOwed, if failed sessions are reset.  Before its query a        *)
(* transfer may have answers of failed handshakes ahead of it, but then a  *)
(* Synced follows them, or has yet to come, and the caller polls for it.   *)
AnswerTypes == {"Ack", "Timeout"}

BeforeQuery ==
    state = "Idle" =>
        /\ queued = <<>>
        /\ is_synced => in_flight = None
        /\ is_synced => \A i \in 1 .. Len(events) :
              events[i].type \in AnswerTypes
                  => \E j \in 1 .. Len(events) : j > i /\ events[j].type = "Synced"

OwnPacket == state \in Awaiting /\ in_flight # None => in_flight.body \in Body

OwedInv == OneAnswerOwed /\ BeforeQuery /\ OwnPacket

LEMMA AppendedEvent ==
    ASSUME TypeOK, NEW e, events' = Append(events, e)
    PROVE  /\ e.type \notin AnswerTypes /\ NoAnswer => NoAnswer'
           /\ e.type \notin AnswerTypes /\ SingleAnswer => SingleAnswer'
           /\ e.type \in AnswerTypes /\ NoAnswer => SingleAnswer'
  <1>1. /\ Len(events') = Len(events) + 1 /\ Len(events) \in Nat
        /\ events'[Len(events) + 1] = e
        /\ \A i \in 1 .. Len(events) : events'[i] = events[i]
    BY DEF TypeOK
  <1>2. ASSUME e.type \notin AnswerTypes, NoAnswer
        PROVE  NoAnswer'
    BY <1>1, <1>2 DEF NoAnswer, Answer, AnswerTypes
  <1>3. ASSUME e.type \notin AnswerTypes, SingleAnswer
        PROVE  SingleAnswer'
    <2>1. PICK i \in 1 .. Len(events) :
              Answer(i) /\ \A j \in 1 .. Len(events) : Answer(j) => j = i
      BY <1>3 DEF SingleAnswer
    <2>2. i \in 1 .. Len(events') /\ Answer(i)'
      BY <1>1, <2>1 DEF Answer
    <2>3. \A j \in 1 .. Len(events') : Answer(j)' => j = i
      BY <1>1, <1>3, <2>1 DEF Answer, AnswerTypes
    <2> QED
      BY <2>2, <2>3 DEF SingleAnswer
  <1>4. ASSUME e.type \in AnswerTypes, NoAnswer
        PROVE  SingleAnswer'
    <2>1. PICK n \in Nat : n = Len(events) + 1
      BY <1>1
    <2>2. n \in 1 .. Len(events') /\ Answer(n)'
      BY <1>1, <1>4, <2>1 DEF Answer, AnswerTypes
    <2>3. \A j \in 1 .. Len(events') : Answer(j)' => j = n
      BY <1>1, <1>4, <2>1 DEF Answer, NoAnswer
    <2> QED
      BY <2>2, <2>3 DEF SingleAnswer
  <1> QED
    BY <1>2, <1>3, <1>4

LEMMA PolledAnswer ==
    ASSUME TypeOK, PollEvent
    PROVE  /\ NoAnswer => NoAnswer' /\ Head(events).type \notin AnswerTypes
           /\ Head(events).type \notin AnswerTypes /\ SingleAnswer => SingleAnswer'
           /\ Head(events).type \in AnswerTypes /\ SingleAnswer => NoAnswer'
  <1>1. /\ Len(events) \in Nat /\ Len(events) > 0 /\ Len(events') = Len(events) - 1
        /\ Head(events) = events[1]
        /\ \A i \in 1 .. Len(events') : i + 1 \in 1 .. Len(events) /\ events'[i] = events[i + 1]
    BY DEF TypeOK, PollEvent
  <1>2. ASSUME NoAnswer
        PROVE  NoAnswer' /\ Head(events).type \notin AnswerTypes
    BY <1>1, <1>2 DEF NoAnswer, Answer, AnswerTypes
  <1>3. ASSUME Head(events).type \notin AnswerTypes, SingleAnswer
        PROVE  SingleAnswer'
    <2>1. PICK i \in 1 .. Len(events) :
              Answer(i) /\ \A j \in 1 .. Len(events) : Answer(j) => j = i
      BY <1>3 DEF SingleAnswer
    <2>2. i # 1
      BY <1>1, <1>3, <2>1 DEF Answer, AnswerTypes
    <2>3. i - 1 \in 1 .. Len(events') /\ Answer(i - 1)'
      BY <1>1, <2>1, <2>2 DEF Answer
    <2>4. \A j \in 1 .. Len(events') : Answer(j)' => j = i - 1
      BY <1>1, <2>1 DEF Answer
    <2> QED
      BY <2>3, <2>4 DEF SingleAnswer
  <1>4. ASSUME Head(events).type \in AnswerTypes, SingleAnswer
        PROVE  NoAnswer'
    <2>1. \A j \in 1 .. Len(events) : Answer(j) => j = 1
      BY <1>1, <1>4 DEF SingleAnswer, Answer, AnswerTypes
    <2> QED
      BY <1>1, <2>1 DEF NoAnswer, Answer
  <1> QED
    BY <1>2, <1>3, <1>4

(* What the session does on its own to what OwedInv speaks of, when its    *)
(* queue is empty: nothing, an event that is no answer, the ack or the     *)
(* timeout of the packet in flight, or the handshake's end.                *)
Held == in_flight' # None /\ in_flight # None /\ in_flight'.body = in_flight.body

LEMMA SessionEffect ==
    ASSUME SessionInv, queued = <<>>, Feed \/ Tick \/ Elapse \/ PollOutbound
    PROVE  /\ queued' = <<>>
           /\ \/ /\ Held \/ in_flight' = in_flight
                 /\ UNCHANGED <<is_synced, events>>
              \/ /\ UNCHANGED <<in_flight, is_synced>>
                 /\ \E e : e.type \notin AnswerTypes /\ events' = Append(events, e)
              \/ /\ in_flight # None /\ in_flight' = None /\ UNCHANGED is_synced
                 /\ \E e : /\ e.type \in AnswerTypes /\ events' = Append(events, e)
                           /\ e.type = "Ack" => is_synced
              \/ /\ is_synced' = TRUE
                 /\ in_flight' = IF in_flight # None /\ IsHandshake(in_flight) THEN None
                                 ELSE in_flight
                 /\ \E e : e.type = "Synced" /\ events' = Append(events, e)
  <1>1. CASE PollOutbound
    BY <1>1 DEF PollOutbound
  <1>2. CASE Elapse
    <2>1. in_flight \in InFlight
      BY <1>2 DEF Elapse, SessionInv, TypeOK
    <2>2. in_flight' \in InFlight /\ in_flight'.body = in_flight.body
      <3>1. in_flight' = [in_flight EXCEPT !.age = Later(@, TotalTimeout),
                                           !.idle = Later(@, ResponseTimeout)]
        BY <1>2 DEF Elapse
      <3>2. /\ \A t \in 0 .. TotalTimeout : Later(t, TotalTimeout) \in 0 .. TotalTimeout
            /\ \A t \in 0 .. ResponseTimeout : Later(t, ResponseTimeout) \in 0 .. ResponseTimeout
        BY NumbersAssumption DEF Later
      <3> QED
        BY <2>1, <3>1, <3>2 DEF InFlight
    <2> QED
      BY <1>2, <2>1, <2>2, NoneAssumption DEF Elapse, Held
  <1>3. CASE TickRetransmit
    <2>1. in_flight \in InFlight
      BY <1>3 DEF TickRetransmit, SessionInv, TypeOK
    <2>2. in_flight' \in InFlight /\ in_flight'.body = in_flight.body
      BY <1>3, <2>1, NumbersAssumption DEF TickRetransmit, SentNow, InFlight
    <2> QED
      BY <1>3, <2>1, <2>2, NoneAssumption DEF TickRetransmit, Held
  <1>4. CASE TickTimeout
    BY <1>4 DEF TickTimeout, AfterTimeout, DispatchIfIdle, Emit, Timeout, AnswerTypes
  <1>5. ASSUME NEW e, e.type \notin AnswerTypes, Surface(e)
        PROVE  /\ UNCHANGED <<in_flight, is_synced, queued>>
               /\ e.type \notin AnswerTypes /\ events' = Append(events, e)
    BY <1>5 DEF Surface, Emit
  <1>6. CASE Feed
    <2>1. PICK line \in Line : ProcessLine(line)
      BY <1>6 DEF Feed
    <2>2. CASE line.token = "ok" /\ HandleOk(line.sync)
      <3>1. CASE in_flight = None \/ ~Retires(line.sync)
        BY <2>2, <3>1 DEF HandleOk, Emit, AsciiLine, OutOfSync, AnswerTypes
      <3>2. CASE in_flight # None /\ Retires(line.sync)
        <4>1. is_synced
          BY <3>2 DEF Retires, IsHandshake, SessionInv, NoDataBeforeHandshake
        <4>2. /\ in_flight' = None /\ queued' = <<>> /\ UNCHANGED is_synced
              /\ events' = Append(events, Ack(line.sync)) /\ Ack(line.sync).type = "Ack"
          BY <2>2, <3>2 DEF HandleOk, DispatchIfIdle, Emit, Ack
        <4> QED
          BY <3>2, <4>1, <4>2 DEF AnswerTypes
      <3> QED
        BY <3>1, <3>2
    <2>3. CASE line.token = "ss" /\ HandleSs(line.sync, line.max_block_size)
      BY <2>3 DEF HandleSs, DispatchIfIdle, Emit, Synced
    <2>4. CASE \/ line.token = "rs" /\ Surface(ResendRequested(line.sync))
               \/ line.token = "fe" /\ Surface(FatalError)
               \/ line.token = "text" /\ Surface(AsciiLine(line.text))
      BY <1>5, <2>4 DEF ResendRequested, FatalError, AsciiLine, AnswerTypes
    <2>5. CASE line.token = "noise" /\ UNCHANGED vars
      BY <2>5 DEF vars
    <2> QED
      BY <2>1, <2>2, <2>3, <2>4, <2>5 DEF ProcessLine
  <1> QED
    BY <1>1, <1>2, <1>3, <1>4, <1>6 DEF Tick

(* The session's own steps, and the caller's polls of the session.         *)
LEMMA SessionEffectKeepsOwed ==
    ASSUME SessionInv, FileTypeOK, OwedInv, UNCHANGED state,
           Feed \/ Tick \/ Elapse \/ PollOutbound
    PROVE  OwedInv'
  <1>1. CASE state = "Failed"
    BY <1>1 DEF OwedInv, OneAnswerOwed, BeforeQuery, OwnPacket, Awaiting
  <1>2. CASE state # "Failed"
    <2> USE DEF OwedInv, OneAnswerOwed, BeforeQuery, OwnPacket
    <2>1. queued = <<>>
      BY <1>2 DEF FileTypeOK, State, Awaiting, Final
    <2>2. TypeOK /\ Len(events) \in Nat /\ queued' = <<>>
      <3>1. TypeOK /\ Len(events) \in Nat
        BY DEF SessionInv, TypeOK
      <3>2. queued' = <<>>
        BY ONLY SessionInv, <2>1, Feed \/ Tick \/ Elapse \/ PollOutbound, SessionEffect
      <3> QED
        BY <3>1, <3>2
    <2>3. CASE (Held \/ in_flight' = in_flight) /\ UNCHANGED <<is_synced, events>>
      BY <2>2, <2>3 DEF Held, NoAnswer, SingleAnswer, Answer
    <2>4. CASE /\ UNCHANGED <<in_flight, is_synced>>
               /\ \E e : e.type \notin AnswerTypes /\ events' = Append(events, e)
      <3>1. PICK e : e.type \notin AnswerTypes /\ events' = Append(events, e)
        BY <2>4
      <3>2. (NoAnswer => NoAnswer') /\ (SingleAnswer => SingleAnswer')
        BY <2>2, <3>1, AppendedEvent
      <3>3. BeforeQuery'
        BY <2>2, <2>4, <3>1 DEF TypeOK
      <3> QED
        BY <2>2, <2>4, <3>2, <3>3
    <2>5. CASE /\ in_flight # None /\ in_flight' = None /\ UNCHANGED is_synced
               /\ \E e : /\ e.type \in AnswerTypes /\ events' = Append(events, e)
                         /\ e.type = "Ack" => is_synced
      <3>1. PICK e : e.type \in AnswerTypes /\ events' = Append(events, e)
        BY <2>5
      <3>2. NoAnswer => SingleAnswer'
        BY <2>2, <3>1, AppendedEvent
      <3> QED
        BY <2>2, <2>5, <3>2
    <2>6. CASE /\ is_synced' = TRUE
               /\ in_flight' = IF in_flight # None /\ IsHandshake(in_flight) THEN None
                               ELSE in_flight
               /\ \E e : e.type = "Synced" /\ events' = Append(events, e)
      <3>1. PICK e : e.type = "Synced" /\ events' = Append(events, e)
        BY <2>6
      <3>2. (NoAnswer => NoAnswer') /\ (SingleAnswer => SingleAnswer')
        BY <2>2, <3>1, AppendedEvent DEF AnswerTypes
      <3>3. state = "Idle" => in_flight' = None
        BY <2>6 DEF SessionInv, NoDataBeforeHandshake, IsHandshake
      <3>4. state \in Awaiting => in_flight' = in_flight
        BY <2>6, InputsAssumption DEF IsHandshake
      <3>5. BeforeQuery'
        <4>1. /\ Len(events') = Len(events) + 1 /\ events'[Len(events) + 1] = e
              /\ \A i \in 1 .. Len(events) : events'[i] = events[i]
          BY <2>2, <3>1 DEF TypeOK
        <4>2. \A i \in 1 .. Len(events') : events'[i].type \in AnswerTypes => i < Len(events')
          BY <2>2, <3>1, <4>1 DEF AnswerTypes
        <4>3. Len(events') \in 1 .. Len(events') /\ events'[Len(events')].type = "Synced"
          BY <2>2, <3>1, <4>1
        <4> QED
          BY <2>2, <3>3, <4>2, <4>3
      <3> QED
        BY <2>2, <2>6, <3>2, <3>4, <3>5
    <2> QED
      BY <2>1, <2>3, <2>4, <2>5, <2>6, SessionEffect
  <1> QED
    BY <1>1, <1>2

(* A request of a resting transfer: its packet is in flight at once.       *)
LEMMA RequestKeepsOwed ==
    ASSUME SessionInv, OwedInv, NEW to \in Awaiting, NEW packet \in Body,
           packet.kind \in PacketOf[to], state' = to, Send(packet),
           \/ state \in {"Negotiated", "Opened"}
           \/ state = "Idle" /\ PolledToSynced
    PROVE  OwedInv'
  <1>1. queued = <<>> /\ in_flight = None /\ NoAnswer
    <2>1. CASE state \in {"Negotiated", "Opened"}
      BY <2>1 DEF OwedInv, OneAnswerOwed
    <2>2. CASE state = "Idle" /\ PolledToSynced
      BY <2>2 DEF OwedInv, BeforeQuery, Send, NoAnswer, Answer, AnswerTypes, PolledToSynced
    <2> QED
      BY <2>1, <2>2
  <1>2. /\ in_flight' = [sync |-> sync, body |-> packet, age |-> 0, idle |-> 0]
        /\ queued' = <<>>
        /\ UNCHANGED events
    BY <1>1 DEF Send, Enqueue, DispatchIfIdle, Launched
  <1>3. in_flight' # None
    <2>1. in_flight' \in InFlight
      BY <1>2, NumbersAssumption DEF InFlight, Packet, SessionInv, TypeOK
    <2> QED
      BY <2>1, NoneAssumption
  <1>4. NoAnswer'
    BY <1>1, <1>2 DEF NoAnswer, Answer
  <1>5. in_flight'.body = packet
    BY <1>2
  <1> QED
    BY <1>2, <1>3, <1>4, <1>5
       DEF OwedInv, OneAnswerOwed, BeforeQuery, OwnPacket, Awaiting

(* The Synced that follows an answer is polled after it. *)
LEMMA PollKeepsBeforeQuery ==
    ASSUME TypeOK, BeforeQuery, PollEvent, UNCHANGED state
    PROVE  BeforeQuery'
  <1>1. /\ Len(events) \in Nat /\ Len(events) > 0 /\ Len(events') = Len(events) - 1
        /\ \A i \in 1 .. Len(events') :
              i + 1 \in 1 .. Len(events) /\ events'[i] = events[i + 1]
        /\ UNCHANGED <<queued, in_flight, is_synced>>
    BY DEF TypeOK, PollEvent
  <1> SUFFICES ASSUME state = "Idle", is_synced, NEW i \in 1 .. Len(events'),
                      events'[i].type \in AnswerTypes
               PROVE  \E j \in 1 .. Len(events') : j > i /\ events'[j].type = "Synced"
    BY <1>1 DEF BeforeQuery
  <1>2. PICK k \in 1 .. Len(events) : k > i + 1 /\ events[k].type = "Synced"
    BY <1>1 DEF BeforeQuery
  <1>3. k - 1 \in 1 .. Len(events') /\ k - 1 > i /\ events'[k - 1].type = "Synced"
    BY <1>1, <1>2
  <1> QED
    BY <1>3

(* poll handles an event: the one answer owed ends the wait, and no other  *)
(* event does anything but fail the transfer.                              *)
LEMMA PollHandleKeepsOwed ==
    ASSUME SessionInv, FileInv, OwedInv, PollHandle
    PROVE  OwedInv'
  <1> DEFINE event == Head(events)
  <1>1. /\ TypeOK /\ events # <<>> /\ PollEvent
        /\ HandleSessionEvent(event)
        /\ UNCHANGED <<in_flight, queued, is_synced>>
    BY DEF PollHandle, PollEvent, SessionInv
  <1>2. CASE state' = "Failed"
    BY <1>2 DEF OwedInv, OneAnswerOwed, BeforeQuery, OwnPacket, Awaiting
  <1>3. CASE event.type = "Ack" /\ state \in Awaiting /\ state' # "Failed"
    <2>1. state' \in {"Negotiated", "Opened", "Closed", "Aborted"}
      <3>1. HandleAck /\ state' # state
        BY <1>1, <1>3, AckEndsWait DEF HandleSessionEvent, Fatal
      <3> QED
        BY <1>3, <3>1 DEF HandleAck, AckWithReply, AckOfWrite, BareAck, AckIgnored, Conclude,
                          Move, Fail
    <2>2. queued = <<>> /\ in_flight = None /\ NoAnswer'
      BY <1>1, <1>3, PolledAnswer DEF OwedInv, OneAnswerOwed, AnswerTypes
    <2> QED
      BY <1>1, <2>1, <2>2 DEF OwedInv, OneAnswerOwed, BeforeQuery, OwnPacket, Awaiting
  <1>4. CASE ~(event.type = "Ack" /\ state \in Awaiting) /\ state' # "Failed"
    <2>1. state' = state /\ event.type # "Timeout"
      <3>1. CASE event.type = "Ack" /\ HandleAck
        <4>1. state \notin Awaiting
          BY <1>4, <3>1
        <4>2. ~AckOfWrite /\ ~BareAck /\ ~ReplyComplete
          BY <4>1 DEF AckOfWrite, BareAck, PreambleMissing, ReplyComplete, Awaiting,
                      FileInv, FileTypeOK, PendingAscii, Reply, QueryVersion, ReplyTo
        <4> QED
          BY <3>1, <4>2 DEF HandleAck, AckWithReply, AckIgnored
      <3>2. CASE event.type = "AsciiLine" /\ HandleAsciiLine(event.text)
        BY <3>2 DEF HandleAsciiLine, HandleVersion, HandleStatus
      <3>3. CASE event.type \in DOMAIN Fatal /\ Fail(Fatal[event.type])
        BY <1>4, <3>3 DEF Fail, Move
      <3>4. CASE event.type \notin {"AsciiLine", "Ack"} \cup DOMAIN Fatal /\ UNCHANGED transferVars
        BY <3>4 DEF transferVars, Fatal
      <3> QED
        BY <1>1, <3>1, <3>2, <3>3, <3>4 DEF HandleSessionEvent
    <2>2. NoAnswer => NoAnswer'
      BY <1>1, PolledAnswer
    <2>3. state \in Awaiting /\ SingleAnswer => SingleAnswer'
      BY <1>1, <1>4, <2>1, PolledAnswer DEF AnswerTypes
    <2>4. BeforeQuery'
      BY <1>1, <2>1, PollKeepsBeforeQuery DEF OwedInv
    <2> QED
      BY <1>1, <2>1, <2>2, <2>3, <2>4 DEF OwedInv, OneAnswerOwed, OwnPacket
  <1> QED
    BY <1>2, <1>3, <1>4

(* The caller's handshake, and its polls of the session before its query.  *)
LEMMA SetupKeepsOwed ==
    ASSUME SessionInv, OwedInv, Setup
    PROVE  OwedInv'
  <1>1. state = "Idle" /\ state' = "Idle" /\ BeforeQuery
    BY DEF Setup, ftVars, transferVars, OwedInv
  <1>2. BeforeQuery'
    <2>1. CASE Handshake
      BY <1>1, <2>1 DEF Handshake, Connect, Enqueue, DispatchIfIdle, BeforeQuery
    <2>2. CASE PollEvent
      BY <1>1, <2>2, PollKeepsBeforeQuery DEF SessionInv
    <2> QED
      BY <2>1, <2>2 DEF Setup
  <1> QED
    BY <1>1, <1>2 DEF OwedInv, OneAnswerOwed, OwnPacket, Awaiting

(* After a failure the session is as new; otherwise nothing is owed.       *)
LEMMA NewTransferKeepsOwed ==
    ASSUME ResetAfterFailure, OwedInv, NewTransfer
    PROVE  OwedInv'
  <1>1. state' = "Idle"
    BY DEF NewTransfer
  <1>2. BeforeQuery'
    <2>1. CASE state = "Failed"
      BY <2>1 DEF NewTransfer, Reset, ClearQueues, BeforeQuery
    <2>2. CASE state \in {"Closed", "Aborted"}
      BY <2>2 DEF NewTransfer, OwedInv, OneAnswerOwed, BeforeQuery, NoAnswer, Answer,
                  AnswerTypes, vars
    <2> QED
      BY <2>1, <2>2 DEF NewTransfer, Final
  <1> QED
    BY <1>1, <1>2 DEF OwedInv, OneAnswerOwed, OwnPacket, Awaiting

LEMMA OwedStep ==
    ASSUME ResetAfterFailure, SessionInv, FileInv, OwedInv, [FileNext]_fileVars
    PROVE  OwedInv'
  <1> USE RequestsAreBodies
  <1>1. ASSUME NEW comp \in Compression, PolledToSynced, Query(comp)
        PROVE  OwedInv'
    BY <1>1, RequestKeepsOwed DEF Query, Request, Awaiting, PacketOf, Plain
  <1>2. CASE Open
    BY <1>2, RequestKeepsOwed DEF Open, Request, Awaiting, PacketOf, Plain, OpenPacket
  <1>3. ASSUME NEW chunk \in Chunk, Write(chunk)
        PROVE  OwedInv'
    BY <1>3, RequestKeepsOwed DEF Write, Request, Awaiting, PacketOf, WritePacket
  <1>4. CASE Close
    BY <1>4, RequestKeepsOwed DEF Close, Request, Awaiting, PacketOf, Plain
  <1>5. CASE Abort
    BY <1>5, RequestKeepsOwed DEF Abort, Request, Awaiting, PacketOf, Plain
  <1>6. CASE UNCHANGED <<vars, state>>
    BY <1>6 DEF vars, OwedInv, OneAnswerOwed, BeforeQuery, OwnPacket, NoAnswer, SingleAnswer,
                Answer
  <1>7. CASE PollHandle
    BY <1>7, PollHandleKeepsOwed
  <1>8. CASE NewTransfer
    BY <1>8, NewTransferKeepsOwed
  <1>9. CASE Setup
    BY <1>9, SetupKeepsOwed
  <1>10. CASE FileFeed \/ FileTick \/ FilePollOutbound \/ FileElapse
    BY <1>10, SessionEffectKeepsOwed
       DEF FileFeed, FileTick, FilePollOutbound, FileElapse, ftVars, transferVars, FileInv
  <1> QED
    BY <1>1, <1>2, <1>3, <1>4, <1>5, <1>6, <1>7, <1>8, <1>9, <1>10
       DEF FileNext, fileVars, ftVars, transferVars, PollStart, PollReturn

(* If a failed session is reset before it is used again, every request is  *)
(* owed exactly one answer, its own packet's, and nothing else ever is.    *)
THEOREM OneAnswerIsOwed ==
    ASSUME ResetAfterFailure
    PROVE  FileSpec => []OneAnswerOwed
  <1>1. FileInit => SessionInv /\ FileInv /\ OwedInv
    BY SessionInvInit, FileInvInit
       DEF FileInit, Init, OwedInv, OneAnswerOwed, BeforeQuery, OwnPacket, Awaiting
  <1>2. SessionInv /\ FileInv /\ OwedInv /\ [FileNext]_fileVars
            => (SessionInv /\ FileInv /\ OwedInv)'
    BY FileStepIsSessionStep, SessionInvStep, FileInvStep, OwedStep DEF SessionInv
  <1>3. OwedInv => OneAnswerOwed
    BY DEF OwedInv
  <1> QED
    BY <1>1, <1>2, <1>3, PTL DEF FileSpec
=============================================================================
