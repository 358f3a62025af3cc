----------------------------- MODULE CallHandler -----------------------------
(***************************************************************************)
(* One call through CallHandler (calls.go, voicemail.go, cdr.go), from the *)
(* INVITE to the post-call script: routing, voicemail, answer-first mode,  *)
(* forking, bridging, recording and the call detail record.                *)
(*                                                                         *)
(* The handler is one goroutine; meanwhile the caller and the callees act, *)
(* and SIGHUP swaps the configuration, which every function of the handler *)
(* reads anew.  The time in forkCall is described by FirstAnswer, which    *)
(* ForkCall implements.  Calls share nothing but the registrar and the     *)
(* configuration, so one call and what these may be stand for all of them. *)
(* The answers of the registrar are arbitrary: Registrar models it.        *)
(*                                                                         *)
(* diago is modelled by how the handler uses it: Answer, the media setup   *)
(* and playing a file may fail, Read fails once the other side has left.   *)
(***************************************************************************)
EXTENDS Naturals

CONSTANTS
    Phones,         \* the local phones
    Trunk,          \* the callee of a call through the uplink
    NoPhone,        \* nobody: a nil session
    Configs,        \* the configurations that may be loaded
    MaxReloads      \* bound on the number of SIGHUPs during the call

\* What is relevant of Config: whether a switch is on, a path is set, a filter is
\* on (filter), hours are kept (hours).
ConfigFields == {"filter", "hours", "unavailAnn", "vm",
    "recording", "ann", "answerFirst", "script"}

ASSUME PeersAssumption == Trunk \notin Phones /\ NoPhone \notin Phones \cup {Trunk}
ASSUME ConfigsAssumption == Configs \subseteq [ConfigFields -> BOOLEAN]
ASSUME MaxReloadsAssumption == MaxReloads \in Nat

Peers == Phones \cup {Trunk}

VARIABLES
    pc,         \* where the handler stands
    route,      \* which of the handler's functions took the call
    cfg,        \* the configuration in h.cfg
    held,       \* the configuration the running function read on entry
    reloads,    \* how often it was reloaded
    in,         \* the caller's dialog
    leg,        \* leg[p]: the session with callee p
    chosen,     \* the callee of the call: winner, or outDialog
    returned,   \* forkCall has returned
    called,     \* the callees the handler rings
    rec,        \* the WAV file of the call
    heard,      \* the parties to whom the recording announcement was played
    cdr,        \* the call detail record
    saved,      \* the record is on disk
    script,     \* what the post-call script got for a WAV path
    faults      \* history: what failed though everybody was there

peers == <<leg, chosen, returned>>
config == <<cfg, held, reloads>>
routing == <<route, called>>
files == <<rec, saved, script>>
vars == <<pc, routing, config, in, peers, files, heard, cdr, faults>>

Places == {"invite", "incoming", "outgoing", "fork", "forked", "inviting",
    "connect", "answerFirst", "announceCaller", "vmAnswer", "vmPlay", "vmSetup",
    "vmRecord", "bridge", "announce", "media", "copy", "hangup", "close",
    "finish", "done"}

Routes == {"none", "ring", "answerFirst", "voicemail", "internal", "uplink"}

\* gone: the caller cancelled or hung up; bye: the server hung up.
CallerStates == {"pending", "answered", "rejected", "gone", "bye"}

HangupBy == {"", "caller", "callee", "timeout", "voicemail", "system"}

Fork == INSTANCE FirstAnswer WITH Phones <- Peers

TypeOK ==
    /\ pc \in Places
    /\ route \in Routes
    /\ cfg \in Configs /\ held \in Configs
    /\ reloads \in 0..MaxReloads
    /\ in \in CallerStates
    /\ Fork!TypeOK
    /\ called \subseteq Peers
    /\ rec \in {"none", "open", "closed", "removed"}
    /\ heard \subseteq {"caller", "callee"}
    /\ cdr \in [answered : BOOLEAN, voicemail : BOOLEAN, file : BOOLEAN,
                hangupBy : HangupBy]
    /\ saved \in BOOLEAN
    /\ script \in {"not run", "none", "file"}
    /\ faults \subseteq {"answer", "play", "media"}

Init ==
    /\ pc = "invite"
    /\ route = "none"
    /\ cfg \in Configs
    /\ held = cfg
    /\ reloads = 0
    /\ in = "pending"
    /\ Fork!Init
    /\ called = {}
    /\ rec = "none"
    /\ heard = {}
    /\ cdr = [answered |-> FALSE, voicemail |-> FALSE, hangupBy |-> "", file |-> FALSE]
    /\ saved = FALSE
    /\ script = "not run"
    /\ faults = {}

-----------------------------------------------------------------------------
(***************************************************************************)
(* The caller, the callees and the operator.                               *)
(***************************************************************************)
CallerLeaves ==
    /\ in \in {"pending", "answered"}
    /\ in' = "gone"
    /\ UNCHANGED <<pc, routing, config, peers, files, heard, cdr, faults>>

CalleeLeaves(p) ==
    /\ Fork!Leave(p)
    /\ UNCHANGED <<pc, routing, config, in, files, heard, cdr, faults>>

UpdateConfig(c) ==
    /\ reloads < MaxReloads
    /\ c # cfg
    /\ cfg' = c
    /\ reloads' = reloads + 1
    /\ UNCHANGED <<pc, routing, held, in, peers, files, heard, cdr, faults>>

-----------------------------------------------------------------------------
(***************************************************************************)
(* What the steps of the handler are made of.                              *)
(***************************************************************************)
At(place) == pc = place

Goto(place) == pc' = place

\* h.getConfig at the head of a function.
GetConfig == held' = cfg /\ UNCHANGED <<cfg, reloads>>

EndedBy(who) == cdr' = [cdr EXCEPT !.hangupBy = who]

\* Respond with a final status; nothing is sent to a caller who cancelled.
RejectCaller == in' = IF in = "gone" THEN "gone" ELSE "rejected"

HangupCaller == in' = IF in = "gone" THEN "gone" ELSE "bye"

AnswerOK ==
    /\ in = "pending"
    /\ in' = "answered"
    /\ UNCHANGED faults

\* Answer reports an error: the caller is gone, or something failed.
AnswerFails ==
    /\ faults' = IF in = "gone" THEN faults ELSE faults \cup {"answer"}
    /\ UNCHANGED in

HangupCallee ==
    /\ leg' = [leg EXCEPT ![chosen] = IF @ = "up" THEN "released" ELSE @]
    /\ UNCHANGED <<chosen, returned>>

CalleeGone == chosen # NoPhone /\ leg[chosen] = "gone"

\* The parties of the call that have not left.
Present ==
    (IF in = "gone" THEN {} ELSE {"caller"}) \cup (IF CalleeGone THEN {} ELSE {"callee"})

\* The file is played to each of parties, which have left or not, with some
\* failing: all of them if there is no file, or if playAnnouncement cannot create
\* both playbacks.
PlayTo(parties, file) ==
    \E failing \in SUBSET (parties \cap Present) :
        /\ file \/ failing = parties \cap Present
        /\ heard' = heard \cup ((parties \cap Present) \ failing)
        /\ faults' = faults \cup (IF failing = {} THEN {} ELSE {"play"})

\* setupRecording with c.Recording.Enabled; it cleans up after itself when it
\* fails, and the call goes on without.
SetUpRecording(c) ==
    \/ rec = "none" /\ c.recording /\ rec' = "open" /\ UNCHANGED <<saved, script>>
    \/ UNCHANGED files

-----------------------------------------------------------------------------
(***************************************************************************)
(* HandleInvite, handleIncoming and handleOutgoing.                        *)
(***************************************************************************)
\* The call comes from elsewhere and a filter is on that it does not pass.
RejectFiltered ==
    /\ At("invite")
    /\ cfg.filter
    /\ RejectCaller
    /\ Goto("done")
    /\ UNCHANGED <<routing, config, peers, files, heard, cdr, faults>>

AcceptInvite ==
    /\ At("invite")
    /\ pc' \in {"incoming", "outgoing"}
    /\ UNCHANGED <<routing, config, in, peers, files, heard, cdr, faults>>

\* Which announcement it plays, if any, makes no difference to the call.
ToVoicemail ==
    /\ Goto("vmAnswer")
    /\ route' = "voicemail"
    /\ UNCHANGED <<in, called, cdr>>

OutsideHours ==
    /\ At("incoming")
    /\ cfg.hours
    /\ GetConfig
    /\ ToVoicemail
    /\ UNCHANGED <<peers, files, heard, faults>>

NoRegisteredPhones ==
    /\ At("incoming")
    /\ GetConfig
    /\ \/ (cfg.unavailAnn \/ cfg.vm) /\ ToVoicemail
       \/ /\ ~cfg.unavailAnn /\ ~cfg.vm
          /\ RejectCaller
          /\ EndedBy("timeout")
          /\ Goto("finish")
          /\ UNCHANGED <<routing>>
    /\ UNCHANGED <<peers, files, heard, faults>>

AnswersFirst(c) == c.answerFirst /\ c.ann

\* regs holds the phones registered now; they are rung later.
RouteIncoming(regs) ==
    /\ At("incoming")
    /\ regs # {}
    /\ GetConfig
    /\ called' = regs
    /\ IF AnswersFirst(cfg)
       THEN route' = "answerFirst" /\ Goto("answerFirst")
       ELSE route' = "ring" /\ Goto("fork")
    /\ UNCHANGED <<in, peers, files, heard, cdr, faults>>

\* The number dialled is short, and nobody is registered under it.
InternalNotRegistered ==
    /\ At("outgoing")
    /\ GetConfig
    /\ route' = "internal"
    /\ RejectCaller
    /\ EndedBy("timeout")
    /\ Goto("finish")
    /\ UNCHANGED <<peers, called, files, heard, faults>>

\* What handleUplinkCall reads of the configuration, the host and the account, is
\* data of the INVITE.
RouteOutgoing(p) ==
    /\ At("outgoing")
    /\ GetConfig
    /\ route' = IF p = Trunk THEN "uplink" ELSE "internal"
    /\ called' = {p}
    /\ Goto("inviting")
    /\ UNCHANGED <<in, peers, files, heard, cdr, faults>>

-----------------------------------------------------------------------------
(***************************************************************************)
(* Reaching a callee: forkCall, and dg.Invite of the outgoing calls.       *)
(***************************************************************************)
PhoneAnswers(p) ==
    /\ At("fork")
    /\ p \in called
    /\ Fork!Establish(p)
    /\ UNCHANGED <<pc, routing, config, in, files, heard, cdr, faults>>

ForkSettles(p) ==
    /\ At("fork")
    /\ Fork!Choose(p) \/ Fork!Release(p)
    /\ UNCHANGED <<pc, routing, config, in, files, heard, cdr, faults>>

ForkReturns ==
    /\ At("fork")
    /\ Fork!Return
    /\ Goto("forked")
    /\ UNCHANGED <<routing, config, in, files, heard, cdr, faults>>

\* Mutant: the error of forkCall is not looked at.
ForkErrorIgnored ==
    /\ At("forked")
    /\ route = "ring"
    /\ chosen = NoPhone
    /\ Goto("connect")
    /\ UNCHANGED <<routing, config, in, peers, files, heard, cdr, faults>>

\* Nobody answered a call in normal mode.
NobodyAnswers ==
    /\ At("forked")
    /\ route = "ring"
    /\ chosen = NoPhone
    /\ RejectCaller
    /\ EndedBy("timeout")
    /\ Goto("finish")
    /\ UNCHANGED <<routing, config, peers, files, heard, faults>>

InviteAnswered(p) ==
    /\ At("inviting")
    /\ p \in called
    /\ leg' = [leg EXCEPT ![p] = "up"]
    /\ chosen' = p
    /\ Goto("connect")
    /\ UNCHANGED <<routing, config, in, returned, files, heard, cdr, faults>>

\* The callee refuses, the caller cancels or 60 seconds pass.
InviteFails ==
    /\ At("inviting")
    /\ RejectCaller
    /\ EndedBy("timeout")
    /\ Goto("finish")
    /\ UNCHANGED <<routing, config, peers, files, heard, faults>>

-----------------------------------------------------------------------------
(***************************************************************************)
(* A callee was reached: the caller is answered, unless it was at first.   *)
(***************************************************************************)
WinnerToConnect ==
    /\ At("forked")
    /\ chosen # NoPhone
    /\ Goto(IF route = "answerFirst" THEN "bridge" ELSE "connect")
    /\ cdr' = [cdr EXCEPT !.answered = (route = "answerFirst")]
    /\ UNCHANGED <<routing, config, in, peers, files, heard, faults>>

AnswerCaller ==
    /\ At("connect")
    /\ AnswerOK
    /\ cdr' = [cdr EXCEPT !.answered = TRUE]
    /\ Goto("bridge")
    /\ UNCHANGED <<routing, config, peers, files, heard>>

AnswerFailsRecord ==
    cdr' = [cdr EXCEPT !.answered = TRUE,
                       !.hangupBy = IF route = "ring" THEN "caller" ELSE ""]

\* Mutant: the callee is left in its session.
AnswerCallerFailsOnly ==
    /\ At("connect")
    /\ AnswerFails
    /\ AnswerFailsRecord
    /\ Goto("finish")
    /\ UNCHANGED <<routing, config, peers, files, heard>>

\* The record was marked answered before, and says who ended the call only for
\* an incoming one.
AnswerCallerFails ==
    /\ At("connect")
    /\ AnswerFails
    /\ HangupCallee
    /\ AnswerFailsRecord
    /\ Goto("finish")
    /\ UNCHANGED <<routing, config, files, heard>>

-----------------------------------------------------------------------------
(***************************************************************************)
(* handleIncomingAnswerFirst, around its forkCall.                         *)
(***************************************************************************)
AnswerFirst ==
    /\ At("answerFirst")
    /\ GetConfig
    /\ AnswerOK
    /\ SetUpRecording(cfg)
    /\ Goto("announceCaller")
    /\ UNCHANGED <<routing, peers, heard, cdr>>

AnswerFirstFails ==
    /\ At("answerFirst")
    /\ GetConfig
    /\ AnswerFails
    /\ EndedBy("caller")
    /\ Goto("finish")
    /\ UNCHANGED <<routing, peers, files, heard>>

AnnounceToCaller ==
    /\ At("announceCaller")
    /\ PlayTo({"caller"}, held.ann)
    /\ Goto("fork")
    /\ UNCHANGED <<routing, config, in, peers, files, cdr>>

\* Mutant: the caller gets the 480 of normal mode.
NobodyAnswersSecondReply ==
    /\ At("forked")
    /\ route = "answerFirst"
    /\ chosen = NoPhone
    /\ rec' = IF rec = "open" THEN "closed" ELSE rec
    /\ cdr' = [cdr EXCEPT !.file = (rec = "open"), !.hangupBy = "timeout"]
    /\ RejectCaller
    /\ Goto("finish")
    /\ UNCHANGED <<routing, config, peers, saved, script, heard, faults>>

\* Nobody answered: what was recorded of the caller is kept.
NobodyAnswersSecond ==
    /\ At("forked")
    /\ route = "answerFirst"
    /\ chosen = NoPhone
    /\ rec' = IF rec = "open" THEN "closed" ELSE rec
    /\ cdr' = [cdr EXCEPT !.file = (rec = "open"), !.hangupBy = "timeout"]
    /\ HangupCaller
    /\ Goto("finish")
    /\ UNCHANGED <<routing, config, peers, saved, script, heard, faults>>

-----------------------------------------------------------------------------
(***************************************************************************)
(* handleVoicemail.                                                        *)
(***************************************************************************)
\* Mutant: the record is not marked answered.
AnswerVoicemailUnmarked ==
    /\ At("vmAnswer")
    /\ GetConfig
    /\ AnswerOK
    /\ cdr' = [cdr EXCEPT !.voicemail = TRUE]
    /\ Goto("vmPlay")
    /\ UNCHANGED <<routing, peers, files, heard>>

AnswerVoicemail ==
    /\ At("vmAnswer")
    /\ GetConfig
    /\ AnswerOK
    /\ cdr' = [cdr EXCEPT !.answered = TRUE, !.voicemail = TRUE]
    /\ Goto("vmPlay")
    /\ UNCHANGED <<routing, peers, files, heard>>

AnswerVoicemailFails ==
    /\ At("vmAnswer")
    /\ GetConfig
    /\ AnswerFails
    /\ EndedBy("system")
    /\ Goto("finish")
    /\ UNCHANGED <<routing, peers, files, heard>>

\* The announcement, or its failure, then the test whether the caller left.
PlayVoicemailAnnouncement ==
    /\ At("vmPlay")
    /\ IF in = "gone" THEN EndedBy("caller") /\ Goto("finish")
                      ELSE UNCHANGED cdr /\ Goto("vmSetup")
    /\ UNCHANGED <<routing, config, in, peers, files, heard, faults>>

\* No message is recorded: voicemail is off, or reader, codec or file fail.
NoMessage ==
    /\ At("vmSetup")
    /\ HangupCaller
    /\ EndedBy("system")
    /\ Goto("finish")
    /\ UNCHANGED <<routing, config, peers, files, heard, faults>>

StartMessage ==
    /\ At("vmSetup")
    /\ held.vm
    /\ rec' = "open"
    /\ Goto("vmRecord")
    /\ UNCHANGED <<routing, config, in, peers, saved, script, heard, cdr, faults>>

\* recordVoicemail returns with or without a byte written.
EndMessage ==
    /\ At("vmRecord")
    /\ \E empty \in BOOLEAN :
          /\ rec' = IF empty THEN "removed" ELSE "closed"
          /\ cdr' = [cdr EXCEPT !.file = ~empty, !.hangupBy = "voicemail"]
    /\ HangupCaller
    /\ Goto("finish")
    /\ UNCHANGED <<routing, config, peers, saved, script, heard, faults>>

-----------------------------------------------------------------------------
(***************************************************************************)
(* bridgeWithRecordingState.                                               *)
(***************************************************************************)
\* Mutant: the answer-first switch is not looked at.
AnnouncesIfFirst(c) == c.ann /\ c.recording /\ c.answerFirst

\* Announce to both parties, unless the caller heard it before the callee rang.
Announces(c) == c.ann /\ c.recording /\ ~c.answerFirst

StartBridge ==
    /\ At("bridge")
    /\ GetConfig
    /\ SetUpRecording(cfg)
    /\ Goto(IF Announces(cfg) THEN "announce" ELSE "media")
    /\ UNCHANGED <<routing, in, peers, heard, cdr, faults>>

\* playAnnouncement reads the configuration once more.
PlayAnnouncement ==
    /\ At("announce")
    /\ PlayTo({"caller", "callee"}, cfg.ann)
    /\ Goto("media")
    /\ UNCHANGED <<routing, config, in, peers, files, cdr>>

MediaFails ==
    /\ At("media")
    /\ faults' = faults \cup {"media"}
    /\ Goto("close")
    /\ UNCHANGED <<routing, config, in, peers, files, heard, cdr>>

StartCopy ==
    /\ At("media")
    /\ Goto("copy")
    /\ UNCHANGED <<routing, config, in, peers, files, heard, cdr, faults>>

\* Mutant: both copies must have ended.
CopyEndsTwice(by) ==
    /\ At("copy")
    /\ in = "gone" /\ CalleeGone
    /\ EndedBy(by)
    /\ Goto("hangup")
    /\ UNCHANGED <<routing, config, in, peers, files, heard, faults>>

\* Mutant: a copy that hears nothing for a while ends.
CopyEndsUnasked(by) ==
    /\ At("copy")
    /\ EndedBy(by)
    /\ Goto("hangup")
    /\ UNCHANGED <<routing, config, in, peers, files, heard, faults>>

\* The first of the two copies ends: each reads from one party and writes to
\* the other, so the departure of either party may end either.
CopyEnds(by) ==
    /\ At("copy")
    /\ in = "gone" \/ CalleeGone
    /\ EndedBy(by)
    /\ Goto("hangup")
    /\ UNCHANGED <<routing, config, in, peers, files, heard, faults>>

HangupBoth ==
    /\ At("hangup")
    /\ HangupCallee
    /\ HangupCaller
    /\ Goto("close")
    /\ UNCHANGED <<routing, config, files, heard, cdr, faults>>

\* Mutant: the file is left open.
NameRecording ==
    /\ At("close")
    /\ cdr' = [cdr EXCEPT !.file = (rec = "open")]
    /\ Goto("finish")
    /\ UNCHANGED <<routing, config, in, peers, files, heard, faults>>

\* The deferred close, which runs however the bridge ended.
CloseRecording ==
    /\ At("close")
    /\ rec' = IF rec = "open" THEN "closed" ELSE rec
    /\ cdr' = [cdr EXCEPT !.file = (rec = "open")]
    /\ Goto("finish")
    /\ UNCHANGED <<routing, config, in, peers, saved, script, heard, faults>>

-----------------------------------------------------------------------------
(***************************************************************************)
(* finishCall, deferred by handleIncoming and handleOutgoing.              *)
(***************************************************************************)
\* Mutant: the path of no recording is passed as it is, empty.
WavPathOrEmpty == IF cdr.file THEN "file" ELSE ""

WavPath == IF cdr.file THEN "file" ELSE "none"

FinishCall ==
    /\ At("finish")
    /\ GetConfig
    /\ saved' = TRUE
    /\ script' = IF cfg.script THEN WavPath ELSE script
    /\ Goto("done")
    /\ UNCHANGED <<routing, in, peers, rec, heard, cdr, faults>>

SaveFails ==
    /\ At("finish")
    /\ GetConfig
    /\ Goto("done")
    /\ UNCHANGED <<routing, in, peers, files, heard, cdr, faults>>

-----------------------------------------------------------------------------
Environment ==
    \/ CallerLeaves
    \/ \E p \in Peers : CalleeLeaves(p) \/ PhoneAnswers(p) \/ InviteAnswered(p)
    \/ \E c \in Configs : UpdateConfig(c)
    \/ EndMessage

\* The steps the handler takes without anybody's help.
Handler ==
    \/ RejectFiltered \/ AcceptInvite
    \/ OutsideHours \/ NoRegisteredPhones
    \/ \E regs \in SUBSET Phones : RouteIncoming(regs)
    \/ InternalNotRegistered \/ \E p \in Peers : RouteOutgoing(p)
    \/ \E p \in Peers : ForkSettles(p)
    \/ ForkReturns \/ NobodyAnswers \/ InviteFails
    \/ WinnerToConnect \/ AnswerCaller \/ AnswerCallerFails
    \/ AnswerFirst \/ AnswerFirstFails \/ AnnounceToCaller \/ NobodyAnswersSecond
    \/ AnswerVoicemail \/ AnswerVoicemailFails \/ PlayVoicemailAnnouncement
    \/ NoMessage \/ StartMessage
    \/ StartBridge \/ PlayAnnouncement \/ MediaFails \/ StartCopy
    \/ \E by \in {"caller", "callee"} : CopyEnds(by)
    \/ HangupBoth \/ CloseRecording
    \/ FinishCall \/ SaveFails

Next == Environment \/ Handler

Spec == Init /\ [][Next]_vars

\* The goroutine of the handler is scheduled, timeouts of 30 and 60 seconds and
\* the end of a file included.  Parties promise nothing; recordVoicemail is left
\* in the end only because its Read fails once the caller is gone.
FairSpec ==
    /\ Spec
    /\ WF_vars(Handler)
    /\ WF_vars(in = "gone" /\ EndMessage)

-----------------------------------------------------------------------------
(***************************************************************************)
(* Properties.                                                             *)
(***************************************************************************)
\* The post-call script is started when the record is on disk and the WAV file
\* it is given is closed and kept: the order of the deferred calls of four
\* functions (calls.go:115-119, 271-274, 488-495, 651-675; voicemail.go:154-165).
ScriptSeesFinishedFiles ==
    script # "not run" =>
        saved /\ rec # "open" /\ (script = "file" <=> rec = "closed")

\* When the handler is done nobody is left in a session or ringing, whoever
\* left when and whatever failed, but for two cases: an error of diago's media
\* setup, and an Answer that failed under a caller who is still there
\* (calls.go:154-176, 269-288, 341-358, 385-399, 507-523, 546-552).
NobodyLeftTalking ==
    pc = "done" =>
        /\ "media" \notin faults => in # "answered" /\ \A p \in Peers : leg[p] # "up"
        /\ "answer" \notin faults => in # "pending"

\* Outside voicemail and answer-first mode a caller is answered only after a
\* callee was, so nobody pays for ringing (calls.go:153-176, 338-361, 378-402).
AnsweredAfterCallee ==
    in = "answered" /\ route \in {"ring", "internal", "uplink"} =>
        /\ cdr.answered
        /\ chosen \in called
        /\ leg[chosen] # "none"

\* README.md:236 says "If recording is disabled or the call was not answered,
\* none is passed instead of the WAV path".  Only answer-first mode does
\* otherwise, when nobody answers: every other path that leaves a file, the
\* voicemail's included, has marked the record answered, whatever came in between
\* (calls.go:154, 174-176, 269-278, 338-361, 378-402; voicemail.go:32-35).
UnansweredFileIsAnswerFirst ==
    script = "file" /\ ~cdr.answered => route = "answerFirst"

\* One final answer per INVITE: no caller is refused after the answer, or hung
\* up before it, in any mode (calls.go:69-75, 136, 156, 275, 324, 342, 386, 552).
OneFinalAnswer ==
    [][/\ in = "pending" => in' # "bye"
       /\ in = "answered" => in' # "rejected"
       /\ in \in {"rejected", "gone", "bye"} => in' = in]_in

\* Unless a file failed, whatever was reloaded and when: a call bridged under the
\* settings of normal mode is recorded only after both parties have heard the
\* announcement, also if its phones were rung under others; and the caller of a
\* call in answer-first mode, who was recorded before, has heard it whatever the
\* bridge finds (calls.go:192-243, 497-501, 556-608).
RecordedAreAnnounced ==
    pc = "copy" /\ rec = "open" /\ "play" \notin faults =>
        /\ held.ann /\ held.recording /\ ~held.answerFirst => Present \subseteq heard
        /\ route = "answerFirst" => Present \cap {"caller"} \subseteq heard

\* The copies have been started, and the call is not yet to be filed.
InConversation == pc \in {"copy", "hangup"} \/ (pc = "close" /\ "media" \notin faults)

\* The call is left to finishCall.
Filed == pc \in {"finish", "done"}

CallerSide ==
    CASE in = "answered" -> "up" [] in = "gone" -> "left" [] OTHER -> "bye"

CalleeSide ==
    CASE leg[chosen] = "up" -> "up" [] leg[chosen] = "gone" -> "left" [] OTHER -> "bye"

\* Where the parties are, in the words of Conversation.
PartyOf(p) ==
    IF Filed THEN "parted"
    ELSE IF ~InConversation THEN "apart"
    ELSE IF p = "caller" THEN CallerSide ELSE CalleeSide

Talk == INSTANCE Conversation
    WITH party <- [p \in {"caller", "callee"} |-> PartyOf(p)],
         endedBy <- IF InConversation /\ pc # "copy" THEN cdr.hangupBy ELSE "",
         taped <- InConversation /\ rec = "open"

\* The parties of a call are in one conversation at most: joined when both have
\* answered, ended by a departure only; when the call is filed nobody is left in
\* it, and no recording is open (calls.go:487-553, 648-675).
KeepsConversation == Talk!Spec

\* A caller who leaves, at whatever moment, ends the call: the handler hangs up
\* what is left, files the record and returns.
CallerGoneEndsCall == (in = "gone") ~> (pc = "done")

-----------------------------------------------------------------------------
(***************************************************************************)
(* The inductive invariant: what each place of the handler has settled.    *)
(***************************************************************************)
Unanswered ==
    \/ pc \in {"invite", "incoming", "outgoing", "inviting", "connect", "answerFirst", "vmAnswer"}
    \/ pc \in {"fork", "forked"} /\ route = "ring"

Answered ==
    \/ pc \in {"announceCaller", "vmPlay", "vmSetup", "vmRecord",
              "bridge", "announce", "media", "copy", "hangup"}
    \/ pc \in {"fork", "forked"} /\ route = "answerFirst"

CallerSettled ==
    /\ Unanswered => in \in {"pending", "gone"}
    /\ Answered => in \in {"answered", "gone"}
    /\ pc \in {"close", "finish", "done"} =>
          /\ in = "answered" => "media" \in faults
          /\ in = "pending" => "answer" \in faults

RouteSettled ==
    /\ pc \in {"fork", "forked"} => route \in {"ring", "answerFirst"}
    /\ pc \in {"answerFirst", "announceCaller"} => route = "answerFirst"
    /\ pc \in {"inviting", "connect"} => route # "answerFirst"
    /\ pc \in {"vmAnswer", "vmPlay", "vmSetup", "vmRecord"} => route = "voicemail"

NoCallee == chosen = NoPhone /\ \A p \in Peers : leg[p] = "none"

OneCallee ==
    /\ chosen \in called
    /\ leg[chosen] \in {"up", "gone"}
    /\ \A p \in Peers \ {chosen} : leg[p] # "up"

CalleeSettled ==
    /\ pc \in {"invite", "incoming", "outgoing", "inviting", "answerFirst", "announceCaller",
              "vmAnswer", "vmPlay", "vmSetup", "vmRecord"} => NoCallee
    /\ pc = "fork" =>
          /\ \A p \in Peers : leg[p] # "none" => p \in called
          /\ chosen # NoPhone => leg[chosen] \in {"up", "gone"}
    /\ pc = "forked" => NoCallee \/ OneCallee
    /\ pc \in {"connect", "bridge", "announce", "media", "copy", "hangup"} => OneCallee
    /\ pc \in {"close", "finish", "done"} =>
          \A p \in Peers : leg[p] = "up" => "media" \in faults

NotRecordedYet ==
    \/ pc \in {"invite", "incoming", "outgoing", "inviting", "connect", "answerFirst",
              "vmAnswer", "vmPlay", "vmSetup"}
    \/ pc \in {"fork", "forked", "bridge"} /\ route # "answerFirst"

FilesSettled ==
    /\ NotRecordedYet => rec = "none"
    /\ pc \notin {"finish", "done"} => rec \in {"none", "open"} /\ ~cdr.file
    /\ pc \in {"finish", "done"} => rec # "open" /\ (cdr.file <=> rec = "closed")
    /\ pc # "done" => script = "not run"

AnnouncementSettled ==
    /\ pc \in {"media", "copy"} /\ "play" \notin faults
    /\ held.ann /\ held.recording /\ ~held.answerFirst
    => Present \subseteq heard

IInv ==
    /\ TypeOK
    /\ CallerSettled
    /\ RouteSettled
    /\ CalleeSettled
    /\ AnsweredAfterCallee
    /\ FilesSettled
    /\ ScriptSeesFinishedFiles
    /\ AnnouncementSettled

\* Who was answered first hears the announcement before the phones ring.
CallerHeard ==
    /\ route = "answerFirst" /\ "play" \notin faults
    /\ in = "answered" /\ pc # "announceCaller"
    => "caller" \in heard

\* Where somebody talks, to a phone or to the voicemail.
TalkPlaces == {"vmPlay", "vmSetup", "vmRecord", "bridge", "announce", "media", "copy",
    "hangup", "close"}

\* A file exists of answered calls, and of those that were answered first.
FileOfAnswered ==
    /\ pc \in TalkPlaces => cdr.answered
    /\ rec # "none" => cdr.answered \/ route = "answerFirst"

\* What the refinement of Conversation needs besides.
TalkSettled ==
    /\ "media" \in faults => pc = "close" \/ Filed
    /\ InConversation => chosen \in Peers
    /\ InConversation /\ pc = "close" => in \in {"gone", "bye"}
    /\ InConversation /\ pc # "copy" => cdr.hangupBy \in {"caller", "callee"}

-----------------------------------------------------------------------------
(***************************************************************************)
(* What the documentation says and the code does not do.                   *)
(***************************************************************************)
\* README.md:14: the announcement is "played to both parties before recording";
\* README.md:216, of answer-first mode: "announcement plays to the answering
\* phone".
BothPartiesHearAnnouncement ==
    pc = "copy" /\ rec = "open" /\ held.ann /\ reloads = 0 /\ "play" \notin faults
    => Present \subseteq heard

=============================================================================
