------------------------------- MODULE CallAudio -------------------------------
(***************************************************************************)
(* The audio of one answered call (calls.go, voicemail.go): who reads the  *)
(* caller's stream, and when they stop.                                    *)
(*                                                                         *)
(* While something is played to the caller a goroutine drains the caller's *)
(* audio.  The handler tells it to stop and waits 100 ms at most; then the *)
(* copy goroutines of the bridge, or the recording of a message, read the  *)
(* same stream.  Reading and writing go through the recorder, which is     *)
(* closed when the bridge returns, whoever still uses it.                  *)
(*                                                                         *)
(* Packets are not told apart before they are decoded.  diago is modelled  *)
(* by how the code uses it: Read waits for a packet and fails once the     *)
(* dialog has ended, a write to a dialog that has ended may fail.          *)
(***************************************************************************)
EXTENDS Naturals, Sequences

CONSTANTS
    MaxDuration,    \* cfg.Voicemail.MaxDuration, in units of time
    SilenceTimeout, \* cfg.Voicemail.SilenceTimeout
    Backlog         \* bound on the packets that wait to be read

ASSUME LimitsAssumption == MaxDuration \in Nat /\ SilenceTimeout \in Nat
ASSUME BacklogAssumption == Backlog \in Nat

VARIABLES
    route,      \* which function handles the call
    pc,         \* where the handler stands
    current,    \* the drain it started last
    stop,       \* the drains whose drainStop is set
    at,         \* at[g]: where goroutine g stands; message is the handler's loop
    done,       \* the channel of the bridge
    hangupBy,   \* what came out of it
    dialog,     \* the two dialogs
    queue,      \* packets of the caller that nobody has read
    recorder,   \* the stereo recording
    elapsed,    \* time since startTime, up to MaxDuration
    quiet,      \* time since lastSoundTime, up to SilenceTimeout
    stolen,     \* history: packets a drain took after its hand-over
    late,       \* history: samples that came to the recorder after its close
    overdue     \* history: packets added to a message over a limit

handler == <<route, pc, current>>
bridge == <<done, hangupBy>>
clock == <<elapsed, quiet>>
vars == <<handler, stop, at, bridge, dialog, queue, recorder, clock, stolen, late, overdue>>

\* drain: of answer-first mode or voicemail; announcement: of playAnnouncement.
Drains == {"drain", "announcement"}
Copies == {"caller", "callee"}
Goroutines == Drains \cup Copies \cup {"message"}

Routes == {"ring", "answerFirst", "voicemail"}

Places == {"ready", "play", "wait", "bridge", "record", "hangup", "hangupCaller",
    "close", "over"}

TypeOK ==
    /\ route \in Routes
    /\ pc \in Places
    /\ current \in Drains
    /\ stop \subseteq Drains
    /\ at \in [Goroutines -> {"none", "check", "read", "got", "write", "send", "ended"}]
    /\ done \in Seq(Copies) /\ Len(done) <= 2
    /\ hangupBy \in Copies \cup {""}
    /\ dialog \in [Copies -> {"none", "up", "left", "bye"}]
    /\ queue \in 0..Backlog
    /\ recorder \in {"none", "open", "closed"}
    /\ elapsed \in 0..MaxDuration
    /\ quiet \in 0..SilenceTimeout
    /\ stolen \in [Drains -> Nat]
    /\ late \in [Goroutines -> Nat]
    /\ overdue \in Nat

Init ==
    /\ route \in Routes
    /\ pc = "ready"
    /\ current = IF route = "ring" THEN "announcement" ELSE "drain"
    /\ stop = {}
    /\ at = [g \in Goroutines |-> "none"]
    /\ done = <<>>
    /\ hangupBy = ""
    /\ dialog = [p \in Copies |->
                    IF p = "callee" /\ route = "voicemail" THEN "none" ELSE "up"]
    /\ queue = 0
    /\ recorder \in IF route = "voicemail" THEN {"none"} ELSE {"none", "open"}
    /\ elapsed = 0
    /\ quiet = 0
    /\ stolen = [d \in Drains |-> 0]
    /\ late = [g \in Goroutines |-> 0]
    /\ overdue = 0

Up(p) == dialog[p] = "up"

-----------------------------------------------------------------------------
(***************************************************************************)
(* The parties and the clock.                                              *)
(***************************************************************************)
PacketArrives ==
    /\ Up("caller")
    /\ queue < Backlog
    /\ queue' = queue + 1
    /\ UNCHANGED <<handler, stop, at, bridge, dialog, recorder, clock, stolen, late, overdue>>

Leaves(p) ==
    /\ Up(p)
    /\ dialog' = [dialog EXCEPT ![p] = "left"]
    /\ UNCHANGED <<handler, stop, at, bridge, queue, recorder, clock, stolen, late, overdue>>

Advance(n, limit) == IF n < limit THEN n + 1 ELSE n

\* Time counts while the loop of a message waits for a packet.
Tick ==
    /\ at["message"] = "read"
    /\ queue = 0
    /\ elapsed' = Advance(elapsed, MaxDuration)
    /\ quiet' = Advance(quiet, SilenceTimeout)
    /\ UNCHANGED <<handler, stop, at, bridge, dialog, queue, recorder, stolen, late, overdue>>

-----------------------------------------------------------------------------
(***************************************************************************)
(* What the goroutines are made of.                                        *)
(***************************************************************************)
Goto(g, place) == at' = [at EXCEPT ![g] = place]

\* The handler no longer waits for drain d.
HandedOver(d) == d \in stop /\ ~(pc = "wait" /\ current = d)

\* Goroutine g reads the caller's stream.
TakePacket(g) ==
    /\ at[g] = "read"
    /\ Up("caller")
    /\ queue > 0
    /\ queue' = queue - 1
    /\ Goto(g, "got")
    /\ stolen' = IF g \in Drains /\ HandedOver(g)
                 THEN [stolen EXCEPT ![g] = @ + 1] ELSE stolen
    /\ UNCHANGED <<handler, stop, bridge, dialog, recorder, clock, late, overdue>>

\* A sample of g passes the recorder.
Record(g) ==
    late' = IF recorder = "closed" THEN [late EXCEPT ![g] = @ + 1] ELSE late

-----------------------------------------------------------------------------
(***************************************************************************)
(* The drain goroutines.                                                   *)
(***************************************************************************)
\* Mutant: the flag is tested before the first read only.
DrainTestsOnce(d) ==
    /\ at[d] = "check"
    /\ Goto(d, "read")
    /\ UNCHANGED <<handler, stop, bridge, dialog, queue, recorder, clock, stolen, late, overdue>>

DrainTests(d) ==
    /\ at[d] = "check"
    /\ Goto(d, IF d \in stop THEN "ended" ELSE "read")
    /\ UNCHANGED <<handler, stop, bridge, dialog, queue, recorder, clock, stolen, late, overdue>>

DrainRecords(d) ==
    /\ at[d] = "got"
    /\ Record(d)
    /\ Goto(d, "check")
    /\ UNCHANGED <<handler, stop, bridge, dialog, queue, recorder, clock, stolen, overdue>>

DrainFails(d) ==
    /\ at[d] = "read"
    /\ ~Up("caller")
    /\ Goto(d, "ended")
    /\ UNCHANGED <<handler, stop, bridge, dialog, queue, recorder, clock, stolen, late, overdue>>

-----------------------------------------------------------------------------
(***************************************************************************)
(* The copy goroutines: caller reads from the caller and writes to the     *)
(* callee, callee the other way.  The recorder wraps the caller's side: it *)
(* hears the one after its read, the other as it writes.                   *)
(***************************************************************************)
CalleeSpeaks ==
    /\ at["callee"] = "read"
    /\ Up("callee")
    /\ Goto("callee", "write")
    /\ UNCHANGED <<handler, stop, bridge, dialog, queue, recorder, clock, stolen, late, overdue>>

CopyRecords ==
    /\ at["caller"] = "got"
    /\ Record("caller")
    /\ Goto("caller", "write")
    /\ UNCHANGED <<handler, stop, bridge, dialog, queue, recorder, clock, stolen, overdue>>

Other(p) == IF p = "caller" THEN "callee" ELSE "caller"

CopyWrites(c) ==
    /\ at[c] = "write"
    /\ \/ Goto(c, "read")
       \/ ~Up(Other(c)) /\ Goto(c, "send")
    /\ IF c = "callee" THEN Record(c) ELSE UNCHANGED late
    /\ UNCHANGED <<handler, stop, bridge, dialog, queue, recorder, clock, stolen, overdue>>

\* Mutant: a read that finds no packet ends the copy.
CopyFindsNothing(c) ==
    /\ at[c] = "read"
    /\ ~Up(c) \/ queue = 0
    /\ Goto(c, "send")
    /\ UNCHANGED <<handler, stop, bridge, dialog, queue, recorder, clock, stolen, late, overdue>>

CopyFails(c) ==
    /\ at[c] = "read"
    /\ ~Up(c)
    /\ Goto(c, "send")
    /\ UNCHANGED <<handler, stop, bridge, dialog, queue, recorder, clock, stolen, late, overdue>>

\* Mutant: the channel has no buffer, only the receiver that waits.
HasReceiver == done = <<>> /\ pc = "bridge"

HasRoom == Len(done) < 2

\* Mutant: the error of the copy is sent, not the name of the party.
CopySendsError(c) ==
    /\ at[c] = "send"
    /\ HasRoom
    /\ done' = Append(done, "error")
    /\ Goto(c, "ended")
    /\ UNCHANGED <<handler, stop, hangupBy, dialog, queue, recorder, clock, stolen, late, overdue>>

CopySends(c) ==
    /\ at[c] = "send"
    /\ HasRoom
    /\ done' = Append(done, c)
    /\ Goto(c, "ended")
    /\ UNCHANGED <<handler, stop, hangupBy, dialog, queue, recorder, clock, stolen, late, overdue>>

-----------------------------------------------------------------------------
(***************************************************************************)
(* recordVoicemail, a loop of the handler.                                 *)
(***************************************************************************)
LimitReached == elapsed >= MaxDuration \/ quiet >= SilenceTimeout

\* Mutant: only silence ends a message.
TestSilence ==
    /\ at["message"] = "check"
    /\ IF ~Up("caller") \/ quiet >= SilenceTimeout
       THEN Goto("message", "ended") /\ pc' = "hangupCaller"
       ELSE Goto("message", "read") /\ UNCHANGED pc
    /\ UNCHANGED <<route, current, stop, bridge, dialog, queue, recorder, clock, stolen, late, overdue>>

TestLimits ==
    /\ at["message"] = "check"
    /\ IF ~Up("caller") \/ LimitReached
       THEN Goto("message", "ended") /\ pc' = "hangupCaller"
       ELSE Goto("message", "read") /\ UNCHANGED pc
    /\ UNCHANGED <<route, current, stop, bridge, dialog, queue, recorder, clock, stolen, late, overdue>>

\* The packet is sound, or silence, or nothing that can be decoded.  Sound makes
\* good a silence that was too long, if no Read returned before to notice it.
AddToMessage(packet) ==
    /\ at["message"] = "got"
    /\ Goto("message", "check")
    /\ quiet' = IF packet = "sound" THEN 0 ELSE quiet
    /\ overdue' = IF packet = "junk" \/ ~LimitReached THEN overdue
                  ELSE IF packet = "sound" /\ elapsed < MaxDuration THEN 0
                  ELSE overdue + 1
    /\ UNCHANGED <<handler, stop, bridge, dialog, queue, recorder, elapsed, stolen, late>>

MessageReadFails ==
    /\ at["message"] = "read"
    /\ ~Up("caller")
    /\ Goto("message", "ended")
    /\ pc' = "hangupCaller"
    /\ UNCHANGED <<route, current, stop, bridge, dialog, queue, recorder, clock, stolen, late, overdue>>

-----------------------------------------------------------------------------
(***************************************************************************)
(* The handler.                                                            *)
(***************************************************************************)
\* The drains a call may start: a bridge announces in normal mode only, but the
\* mode may change while an answer-first call rings.
DrainsOf ==
    CASE route = "ring" -> {"announcement"}
      [] route = "voicemail" -> {"drain"}
      [] route = "answerFirst" -> Drains

\* What the mode itself plays is over.
OwnDrainStopped == route = "ring" \/ at["drain"] # "none"

\* go func() of the drain, or close(drainDone) when there is no reader.
StartDrain(d) ==
    /\ pc = "ready"
    /\ at[d] = "none"
    /\ d \in DrainsOf /\ (d = "drain" \/ OwnDrainStopped)
    /\ Goto(d, "check") \/ Goto(d, "ended")
    /\ current' = d
    /\ pc' = "play"
    /\ UNCHANGED <<route, stop, bridge, dialog, queue, recorder, clock, stolen, late, overdue>>

\* What was played is over, for answer-first mode also the fork.
StopDrain ==
    /\ pc = "play"
    /\ stop' = stop \cup {current}
    /\ pc' = "wait"
    /\ UNCHANGED <<route, current, at, bridge, dialog, queue, recorder, clock, stolen, late, overdue>>

\* drainDone is closed or 100 ms have passed.
DrainAwaited ==
    /\ pc = "wait"
    /\ pc' = "ready"
    /\ UNCHANGED <<route, current, stop, at, bridge, dialog, queue, recorder, clock, stolen, late, overdue>>

HandOver == pc = "ready" /\ OwnDrainStopped

StartBridge ==
    /\ HandOver
    /\ route # "voicemail"
    /\ at' = [g \in Goroutines |-> IF g \in Copies THEN "read" ELSE at[g]]
    /\ pc' = "bridge"
    /\ UNCHANGED <<route, current, stop, bridge, dialog, queue, recorder, clock, stolen, late, overdue>>

\* The error returns of bridgeWithRecordingState hang up neither side.
MediaFails ==
    /\ HandOver
    /\ route # "voicemail"
    /\ pc' = "close"
    /\ UNCHANGED <<route, current, stop, at, bridge, dialog, queue, recorder, clock, stolen, late, overdue>>

\* No phone answered a caller who was answered first.
NobodyAnswers ==
    /\ HandOver
    /\ route = "answerFirst" /\ current = "drain"
    /\ recorder' = IF recorder = "open" THEN "closed" ELSE recorder
    /\ dialog' = [dialog EXCEPT !["callee"] = "none"]
    /\ pc' = "hangupCaller"
    /\ UNCHANGED <<route, current, stop, at, bridge, queue, clock, stolen, late, overdue>>

StartMessage ==
    /\ HandOver
    /\ route = "voicemail"
    /\ Goto("message", "check")
    /\ pc' = "record"
    /\ UNCHANGED <<route, current, stop, bridge, dialog, queue, recorder, clock, stolen, late, overdue>>

\* Voicemail is off, the caller has left, or reader, codec or file fail.
NoMessage ==
    /\ HandOver
    /\ route = "voicemail"
    /\ pc' = "hangupCaller"
    /\ UNCHANGED <<route, current, stop, at, bridge, dialog, queue, recorder, clock, stolen, late, overdue>>

\* Mutant: the bridge goes on until both copies have ended.
AwaitBoth ==
    /\ pc = "bridge"
    /\ Len(done) = 2
    /\ hangupBy' = Head(done)
    /\ done' = Tail(done)
    /\ pc' = "hangup"
    /\ UNCHANGED <<route, current, stop, at, dialog, queue, recorder, clock, stolen, late, overdue>>

AwaitFirst ==
    /\ pc = "bridge"
    /\ done # <<>>
    /\ hangupBy' = Head(done)
    /\ done' = Tail(done)
    /\ pc' = "hangup"
    /\ UNCHANGED <<route, current, stop, at, dialog, queue, recorder, clock, stolen, late, overdue>>

\* Hangup of a dialog that has ended changes nothing.
Hangup(p) == dialog' = [dialog EXCEPT ![p] = IF @ = "up" THEN "bye" ELSE @]

\* Mutant: the callee is left to notice by itself.
HangupCalleeLater ==
    /\ pc = "hangup"
    /\ pc' = "hangupCaller"
    /\ UNCHANGED <<route, current, stop, at, bridge, dialog, queue, recorder, clock, stolen, late, overdue>>

HangupCallee ==
    /\ pc = "hangup"
    /\ Hangup("callee")
    /\ pc' = "hangupCaller"
    /\ UNCHANGED <<route, current, stop, at, bridge, queue, recorder, clock, stolen, late, overdue>>

HangupCaller ==
    /\ pc = "hangupCaller"
    /\ Hangup("caller")
    /\ pc' = "close"
    /\ UNCHANGED <<route, current, stop, at, bridge, queue, recorder, clock, stolen, late, overdue>>

\* The deferred close of the recording, if there is one that is still open.
CloseRecorder ==
    /\ pc = "close"
    /\ recorder' = IF recorder = "open" THEN "closed" ELSE recorder
    /\ pc' = "over"
    /\ UNCHANGED <<route, current, stop, at, bridge, dialog, queue, clock, stolen, late, overdue>>

-----------------------------------------------------------------------------
Environment == PacketArrives \/ Tick \/ \E p \in Copies : Leaves(p)

Drain(d) == TakePacket(d) \/ DrainTests(d) \/ DrainRecords(d) \/ DrainFails(d)

Copy(c) ==
    \/ c = "caller" /\ (TakePacket(c) \/ CopyRecords)
    \/ c = "callee" /\ CalleeSpeaks
    \/ CopyWrites(c) \/ CopyFails(c) \/ CopySends(c)

Message ==
    \/ TakePacket("message") \/ TestLimits \/ MessageReadFails
    \/ \E packet \in {"sound", "silence", "junk"} : AddToMessage(packet)

Handler ==
    \/ \E d \in Drains : StartDrain(d)
    \/ StopDrain \/ DrainAwaited
    \/ StartBridge \/ MediaFails \/ NobodyAnswers \/ StartMessage \/ NoMessage
    \/ AwaitFirst \/ HangupCallee \/ HangupCaller \/ CloseRecorder

Next ==
    \/ Environment \/ Handler \/ Message
    \/ \E d \in Drains : Drain(d)
    \/ \E c \in Copies : Copy(c)

Spec == Init /\ [][Next]_vars

\* The goroutines are scheduled and what is played comes to its end.  Nobody
\* has to speak or to leave.
FairSpec ==
    /\ Spec
    /\ WF_vars(Handler) /\ WF_vars(Message)
    /\ \A d \in Drains : WF_vars(Drain(d))
    /\ \A c \in Copies : WF_vars(Copy(c))

-----------------------------------------------------------------------------
(***************************************************************************)
(* Properties.                                                             *)
(***************************************************************************)
\* A drain that outlives its 100 ms takes one packet from the bridge or from
\* the message, never a second (calls.go:213, 263-267, 573, 601-605;
\* voicemail.go:45, 97-101).
DrainTakesOneAtMost == \A d \in Drains : stolen[d] <= 1

\* The recording is closed under goroutines that still use it: each of them
\* brings it at most one sample more (calls.go:213-217, 270-275, 488-495,
\* 537-552).
OneLateSampleEach == \A g \in Goroutines : late[g] <= 1

\* A bridge ends only because a party left, whatever drains do to its stream
\* (calls.go:534-549); a part of KeepsConversation.
BridgeEndsByDeparture == hangupBy # "" => \E p \in Copies : dialog[p] = "left"

\* The copies have been started.
Bridged == \E c \in Copies : at[c] # "none"

\* The call as a conversation: whatever is played or recorded before, the parties
\* are in it from the start of the copies to the end of the handler.
PartyOf(p) == IF pc = "over" THEN "parted" ELSE IF Bridged THEN dialog[p] ELSE "apart"

Talk == INSTANCE Conversation
    WITH party <- [p \in Copies |-> PartyOf(p)],
         endedBy <- IF pc = "over" THEN "" ELSE hangupBy,
         taped <- pc # "over" /\ Bridged /\ recorder = "open"

\* Drains, copies, channel and hang-ups together do what Conversation promises of
\* a bridge, which is what CallHandler takes them to do (calls.go:470-552).
KeepsConversation == Talk!Spec

\* max_duration and silence_timeout are tested between reads: a message that is
\* over a limit gets one packet more at most, unless the silence ends with it
\* (voicemail.go:196-235).
OnePacketOverLimit == overdue <= 1

\* A departure ends the bridge although the other copy may go on reading and
\* writing (calls.go:537-552).
DepartureEndsBridge ==
    (pc = "bridge" /\ \E p \in Copies : dialog[p] = "left") ~> (pc = "over")

\* The channel serves both sides: the second copy, to which nobody listens any more,
\* does not wait to be received, and a bridge that waits is told of a copy that
\* has ended (calls.go:534-548).
ChannelServes ==
    /\ \A c \in Copies : at[c] = "send" => HasRoom
    /\ pc = "bridge" /\ (\E c \in Copies : at[c] = "ended") => done # <<>>

\* No goroutine of a call is left behind when its dialogs have ended: not in
\* Read, and not in a send nobody receives (calls.go:210-218, 535-544, 572-580;
\* voicemail.go:43-51).
GoroutinesEnd ==
    (pc = "over" /\ \A p \in Copies : ~Up(p))
        ~> \A g \in Goroutines : at[g] \in {"none", "ended"}

\* A message over its maximum duration ends if the caller goes on sending
\* (voicemail.go:201-204); nothing ends the wait for a caller who does not.
MessageEnds ==
    []<><<PacketArrives>>_vars =>
        ((pc = "record" /\ elapsed = MaxDuration) ~> (pc # "record"))

-----------------------------------------------------------------------------
(***************************************************************************)
(* The inductive invariant of the safety properties.                       *)
(***************************************************************************)
Departed == \E p \in Copies : dialog[p] = "left"

\* A drain that runs is the one in play, or was told to stop; one that has been
\* handed over has at most the test of its flag before it.
DrainsInOrder ==
    /\ \A d \in Drains : at[d] # "none" => d \in stop \/ (pc = "play" /\ d = current)
    /\ \A d \in stop : at[d] # "none"
    /\ pc = "play" => current \notin stop /\ at[current] # "none"
    /\ \A d \in Drains :
          \/ stolen[d] = 0
          \/ stolen[d] = 1 /\ HandedOver(d) /\ at[d] \in {"got", "check", "ended"}

\* Whatever may end the bridge goes back to a departure.
EndsInOrder ==
    /\ pc \in {"ready", "play", "wait", "record"} => done = <<>> /\ hangupBy = "" /\ ~Bridged
    /\ pc \in {"ready", "play", "wait"} /\ route # "voicemail"
          => \A p \in Copies : dialog[p] \in {"up", "left"}
    /\ Bridged /\ (\E p \in Copies : ~Up(p)) => Departed
    /\ (\E c \in Copies : at[c] \in {"send", "ended"}) => Departed
    /\ done # <<>> \/ hangupBy # "" \/ pc = "hangup" => Departed
    /\ pc \in {"hangupCaller", "close", "over"} /\ Bridged => Departed

\* The recording is closed when both dialogs have ended, or nobody copies.
ClosedInOrder ==
    /\ recorder = "closed" => pc \in {"hangupCaller", "close", "over"}
    /\ recorder = "closed" => \A c \in Copies : at[c] = "none" \/ ~Up(c)
    /\ pc \in {"hangupCaller", "close", "over"} => at["callee"] = "none" \/ ~Up("callee")
    /\ pc \in {"close", "over"} => at["caller"] = "none" \/ ~Up("caller")

\* Who has brought a sample since is on its way out.
SamplesInOrder ==
    /\ \A d \in Drains :
          \/ late[d] = 0
          \/ late[d] = 1 /\ recorder = "closed" /\ at[d] \in {"check", "ended"}
    /\ \/ late["caller"] = 0
       \/ /\ late["caller"] = 1 /\ ~Up("caller")
          /\ at["caller"] \in {"write", "read", "send", "ended"}
    /\ \/ late["callee"] = 0
       \/ late["callee"] = 1 /\ ~Up("callee") /\ at["callee"] \in {"read", "send", "ended"}
    /\ late["message"] = 0

\* A message that got a packet over a limit comes to the test of the limits next.
MessageInOrder ==
    /\ at["message"] \notin {"none", "ended"} => pc = "record"
    /\ \/ overdue = 0
       \/ overdue = 1 /\ LimitReached /\ at["message"] \in {"check", "ended"}

IInv ==
    /\ TypeOK
    /\ DrainsInOrder
    /\ EndsInOrder
    /\ ClosedInOrder
    /\ SamplesInOrder
    /\ MessageInOrder

\* The channel holds no more than the copies that have ended have sent.
RoomInOrder ==
    /\ (\A c \in Copies : at[c] # "ended") => done = <<>>
    /\ (\E c \in Copies : at[c] # "ended") => Len(done) <= 1
    /\ pc = "bridge" /\ (\E c \in Copies : at[c] = "ended") => done # <<>>

\* What the refinement needs besides: both copies start at once, between two
\* dialogs, and who ended the bridge is known from the first hang-up on.
BridgeInOrder ==
    /\ at["caller"] = "none" <=> at["callee"] = "none"
    /\ Bridged => \A p \in Copies : dialog[p] # "none"
    /\ pc \in {"bridge", "hangup"} => Bridged
    /\ hangupBy # "" <=> Bridged /\ pc # "bridge"

=============================================================================
