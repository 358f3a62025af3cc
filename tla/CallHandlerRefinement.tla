------------------------- MODULE CallHandlerRefinement -------------------------
(***************************************************************************)
(* Proof that one call through CallHandler implements Conversation, for    *)
(* any phones, any set of configurations and any number of reloads.        *)
(*                                                                         *)
(* Until the copies start the parties are apart, and what happens is not   *)
(* seen: a step either stays before the conversation or files the call     *)
(* without one.  From then on there are a departure, the end of a copy,    *)
(* the hang-ups and the close of the recording.                            *)
(***************************************************************************)
EXTENDS CallHandlerProofs

\* Nobody has been joined.
Before == ~InConversation /\ ~Filed /\ pc # "close"

LEMMA SidesSeen ==
  /\ Talk!Parties = {"caller", "callee"}
  /\ ~InConversation /\ ~Filed => Talk!AllAre("apart")
  /\ Filed => ~InConversation
  /\ InConversation => PartyOf("caller") = CallerSide /\ PartyOf("callee") = CalleeSide
<1>1. Talk!Parties = {"caller", "callee"}
  BY DEF Talk!Parties
<1>2. ~InConversation /\ ~Filed => Talk!AllAre("apart")
  BY <1>1 DEF Talk!AllAre, PartyOf
<1>3. Filed => ~InConversation
  BY DEF Filed, InConversation
<1>4. QED
  BY <1>1, <1>2, <1>3 DEF PartyOf

\* A step before the conversation is not seen.
LEMMA StaysApart ==
  ASSUME ~InConversation, ~Filed, ~InConversation', ~Filed'
  PROVE  UNCHANGED Talk!conversationVars
BY DEF Talk!conversationVars, PartyOf

\* A call that is filed without a conversation is a missed one.
LEMMA FiledApart ==
  ASSUME ~InConversation, ~Filed, Filed'
  PROVE  Talk!Miss
<1>1. ~InConversation'
  BY DEF Filed, InConversation
<1>2. Talk!AllAre("apart")
  BY SidesSeen
<1>3. QED
  BY <1>1, <1>2, SidesSeen DEF Talk!Miss, PartyOf

\* What comes of a step before the conversation that does not start it.
LEMMA BeforeSeen ==
  ASSUME TalkSettled, Before, Before' \/ Filed',
         "media" \in faults' => "media" \in faults
  PROVE  [Talk!Next]_(Talk!conversationVars) /\ TalkSettled'
<1>1. "media" \notin faults'
  BY DEF TalkSettled, Before
<1>2. TalkSettled'
  BY <1>1, SidesSeen DEF TalkSettled, Before, InConversation, Filed
<1>3. QED
  BY <1>2, StaysApart, FiledApart DEF Before, Talk!Next

\* The actions that are over before the conversation starts.
LEMMA BeforeSteps ==
  ASSUME TalkSettled,
         \/ RejectFiltered \/ AcceptInvite \/ OutsideHours \/ NoRegisteredPhones
         \/ \E regs \in SUBSET Phones : RouteIncoming(regs)
         \/ InternalNotRegistered
         \/ \E p \in Peers : RouteOutgoing(p) \/ ForkSettles(p) \/ PhoneAnswers(p) \/ InviteAnswered(p)
         \/ ForkReturns \/ NobodyAnswers \/ InviteFails
         \/ WinnerToConnect \/ AnswerCaller \/ AnswerCallerFails
         \/ AnswerFirst \/ AnswerFirstFails \/ AnnounceToCaller \/ NobodyAnswersSecond
         \/ AnswerVoicemail \/ AnswerVoicemailFails \/ PlayVoicemailAnnouncement
         \/ NoMessage \/ StartMessage \/ EndMessage
         \/ StartBridge \/ PlayAnnouncement
  PROVE  [Talk!Next]_(Talk!conversationVars) /\ TalkSettled'
<1> USE DEF At, Goto
<1>1. CASE \/ RejectFiltered \/ AcceptInvite \/ OutsideHours \/ NoRegisteredPhones
           \/ InternalNotRegistered \/ \E regs \in SUBSET Phones : RouteIncoming(regs)
           \/ \E p \in Peers : RouteOutgoing(p)
  <2>1. /\ pc \in {"invite", "incoming", "outgoing"}
        /\ pc' \in {"incoming", "outgoing", "vmAnswer", "answerFirst", "fork", "inviting",
                    "finish", "done"}
        /\ faults' = faults
    BY <1>1
    DEF RejectFiltered, AcceptInvite, OutsideHours, NoRegisteredPhones, InternalNotRegistered,
        RouteIncoming, RouteOutgoing, ToVoicemail
  <2>2. QED
    BY <2>1, BeforeSeen DEF Before, InConversation, Filed
<1>2. CASE \/ \E p \in Peers : ForkSettles(p) \/ PhoneAnswers(p) \/ InviteAnswered(p)
           \/ ForkReturns \/ NobodyAnswers \/ InviteFails \/ WinnerToConnect
           \/ NobodyAnswersSecond
  <2>1. /\ pc \in {"fork", "forked", "inviting"}
        /\ pc' \in {"fork", "forked", "connect", "bridge", "finish"}
        /\ faults' = faults
    BY <1>2
    DEF ForkSettles, PhoneAnswers, InviteAnswered, ForkReturns, NobodyAnswers, InviteFails,
        WinnerToConnect, NobodyAnswersSecond
  <2>2. QED
    BY <2>1, BeforeSeen DEF Before, InConversation, Filed
<1>3. CASE \/ AnswerCaller \/ AnswerFirst \/ AnswerVoicemail
           \/ AnswerCallerFails \/ AnswerFirstFails \/ AnswerVoicemailFails
  <2>1. /\ pc \in {"connect", "answerFirst", "vmAnswer"}
        /\ pc' \in {"bridge", "announceCaller", "vmPlay", "finish"}
        /\ faults' \in {faults, faults \cup {"answer"}}
    BY <1>3
    DEF AnswerCaller, AnswerFirst, AnswerVoicemail, AnswerCallerFails, AnswerFirstFails,
        AnswerVoicemailFails, AnswerOK, AnswerFails
  <2>2. QED
    BY <2>1, BeforeSeen DEF Before, InConversation, Filed
<1>4. CASE PlayVoicemailAnnouncement \/ NoMessage \/ StartMessage \/ EndMessage \/ StartBridge
  <2>1. /\ pc \in {"vmPlay", "vmSetup", "vmRecord", "bridge"}
        /\ pc' \in {"vmSetup", "vmRecord", "announce", "media", "finish"}
        /\ faults' = faults
    BY <1>4
    DEF PlayVoicemailAnnouncement, NoMessage, StartMessage, EndMessage, StartBridge
  <2>2. QED
    BY <2>1, BeforeSeen DEF Before, InConversation, Filed
<1>5. CASE AnnounceToCaller \/ PlayAnnouncement
  <2>1. \E file, parties : PlayTo(parties, file)
    BY <1>5 DEF AnnounceToCaller, PlayAnnouncement
  <2>2. "media" \in faults' => "media" \in faults
    BY <2>1 DEF PlayTo
  <2>3. pc \in {"announceCaller", "announce"} /\ pc' \in {"fork", "media"}
    BY <1>5 DEF AnnounceToCaller, PlayAnnouncement
  <2>4. QED
    BY <2>2, <2>3, BeforeSeen DEF Before, InConversation, Filed
<1>6. QED
  BY <1>1, <1>2, <1>3, <1>4, <1>5

\* An error of the media setup goes past the conversation.
LEMMA MediaFailsSeen ==
  ASSUME TalkSettled, MediaFails
  PROVE  [Talk!Next]_(Talk!conversationVars) /\ TalkSettled'
<1>1. pc = "media" /\ pc' = "close" /\ "media" \in faults'
  BY DEF MediaFails, At, Goto
<1>2. ~InConversation /\ ~Filed /\ ~InConversation' /\ ~Filed'
  BY <1>1 DEF InConversation, Filed
<1>3. TalkSettled'
  BY <1>1, <1>2 DEF TalkSettled
<1>4. QED
  BY <1>2, <1>3, StaysApart

-----------------------------------------------------------------------------
(***************************************************************************)
(* The conversation.                                                       *)
(***************************************************************************)
\* The copies start between two parties that have answered.
LEMMA StartSeen ==
  ASSUME IInv, TalkSettled, StartCopy
  PROVE  [Talk!Next]_(Talk!conversationVars) /\ TalkSettled'
<1>1. /\ pc = "media" /\ pc' = "copy"
      /\ UNCHANGED <<in, leg, chosen, rec, faults>>
  BY DEF StartCopy, At, Goto, peers, files
<1>2. in \in {"answered", "gone"} /\ leg[chosen] \in {"up", "gone"} /\ chosen \in called
  BY <1>1 DEF IInv, CallerSettled, Answered, CalleeSettled, OneCallee
<1>3. chosen \in Peers
  BY <1>2 DEF IInv, TypeOK
<1>4. "media" \notin faults
  BY <1>1 DEF TalkSettled, Filed
<1>5. ~InConversation /\ ~Filed /\ InConversation' /\ ~Filed'
  BY <1>1 DEF InConversation, Filed
<1>6. TalkSettled'
  BY <1>1, <1>3, <1>4 DEF TalkSettled
<1>7. PartyOf("caller")' \in {"up", "left"} /\ PartyOf("callee")' \in {"up", "left"}
  BY <1>1, <1>2, <1>5 DEF PartyOf, CallerSide, CalleeSide
<1>8. Talk!Join
  BY <1>1, <1>5, <1>7, SidesSeen DEF Talk!Join
<1>9. QED
  BY <1>6, <1>8 DEF Talk!Next

\* A departure is seen in the conversation only.
LEMMA CallerLeavesSeen ==
  ASSUME IInv, TalkSettled, CallerLeaves
  PROVE  [Talk!Next]_(Talk!conversationVars) /\ TalkSettled'
<1>1. /\ in \in {"pending", "answered"} /\ in' = "gone"
      /\ UNCHANGED <<pc, leg, chosen, rec, cdr, faults>>
  BY DEF CallerLeaves, peers, files
<1>2. (InConversation' <=> InConversation) /\ (Filed' <=> Filed)
  BY <1>1 DEF InConversation, Filed
<1>3. TalkSettled'
  BY <1>1, <1>2 DEF TalkSettled
<1>4. CASE ~InConversation
  BY <1>1, <1>2, <1>3, <1>4 DEF Talk!conversationVars, PartyOf
<1>5. CASE InConversation
  <2>1. in = "answered"
    BY <1>1, <1>5 DEF IInv, CallerSettled, Answered, InConversation, TalkSettled
  <2>2. /\ PartyOf("caller") = "up" /\ PartyOf("caller")' = "left"
        /\ PartyOf("callee")' = PartyOf("callee")
    BY <1>1, <1>2, <1>5, <2>1, SidesSeen DEF PartyOf, CallerSide, CalleeSide
  <2>3. Talk!Leave("caller")
    BY <1>1, <1>2, <2>2 DEF Talk!Leave
  <2>4. QED
    BY <1>3, <2>3, SidesSeen DEF Talk!Next
<1>6. QED
  BY <1>4, <1>5

\* The callee of a conversation is the only one still in a session.
LEMMA CalleeLeavesSeen ==
  ASSUME IInv, TalkSettled, NEW p \in Peers, CalleeLeaves(p)
  PROVE  [Talk!Next]_(Talk!conversationVars) /\ TalkSettled'
<1>1. /\ leg[p] = "up" /\ leg' = [leg EXCEPT ![p] = "gone"]
      /\ UNCHANGED <<pc, in, chosen, rec, cdr, faults>>
  BY DEF CalleeLeaves, Fork!Leave, files
<1>2. (InConversation' <=> InConversation) /\ (Filed' <=> Filed)
  BY <1>1 DEF InConversation, Filed
<1>3. TalkSettled'
  BY <1>1, <1>2 DEF TalkSettled
<1>4. CASE ~InConversation
  BY <1>1, <1>2, <1>3, <1>4 DEF Talk!conversationVars, PartyOf
<1>5. CASE InConversation
  <2>1. p = chosen
    BY <1>1, <1>5 DEF InConversation, IInv, CalleeSettled, OneCallee
  <2>2. leg'[chosen] = "gone"
    BY <1>1, <2>1 DEF IInv, TypeOK, Fork!TypeOK
  <2>3. /\ PartyOf("callee") = "up" /\ PartyOf("callee")' = "left"
        /\ PartyOf("caller")' = PartyOf("caller")
    BY <1>1, <1>2, <1>5, <2>1, <2>2, SidesSeen DEF PartyOf, CallerSide, CalleeSide
  <2>4. Talk!Leave("callee")
    BY <1>1, <1>2, <2>3 DEF Talk!Leave
  <2>5. QED
    BY <1>3, <2>4, SidesSeen DEF Talk!Next
<1>6. QED
  BY <1>4, <1>5

\* A copy ends: somebody has left.
LEMMA CopyEndsSeen ==
  ASSUME IInv, TalkSettled, NEW by \in {"caller", "callee"}, CopyEnds(by)
  PROVE  [Talk!Next]_(Talk!conversationVars) /\ TalkSettled'
<1>1. /\ pc = "copy" /\ pc' = "hangup" /\ (in = "gone" \/ CalleeGone)
      /\ cdr' = [cdr EXCEPT !.hangupBy = by]
      /\ UNCHANGED <<in, leg, chosen, rec, faults>>
  BY DEF CopyEnds, At, Goto, EndedBy, peers, files
<1>2. cdr'.hangupBy = by
  BY <1>1 DEF IInv, TypeOK
<1>3. InConversation /\ InConversation' /\ ~Filed /\ ~Filed'
  BY <1>1 DEF InConversation, Filed
<1>4. TalkSettled'
  BY <1>1, <1>2, <1>3 DEF TalkSettled, Filed
<1>5. \E p \in {"caller", "callee"} : PartyOf(p) = "left"
  <2>1. CASE in = "gone"
    BY <1>3, <2>1, SidesSeen DEF CallerSide
  <2>2. CASE CalleeGone
    BY <1>3, <2>2, SidesSeen DEF CalleeSide, CalleeGone
  <2>3. QED
    BY <1>1, <2>1, <2>2
<1>6. PartyOf("caller")' = PartyOf("caller") /\ PartyOf("callee")' = PartyOf("callee")
  BY <1>1, <1>3 DEF PartyOf, CallerSide, CalleeSide
<1>7. Talk!End(by)
  BY <1>1, <1>2, <1>3, <1>5, <1>6, SidesSeen DEF Talk!End
<1>8. QED
  BY <1>4, <1>7, SidesSeen DEF Talk!Next

\* Whoever is still there is hung up.
LEMMA HangupSeen ==
  ASSUME IInv, TalkSettled, HangupBoth
  PROVE  [Talk!Next]_(Talk!conversationVars) /\ TalkSettled'
<1> DEFINE staying == {p \in Talk!Parties : PartyOf(p) = "up"}
<1>1. /\ pc = "hangup" /\ pc' = "close"
      /\ leg' = [leg EXCEPT ![chosen] = IF leg[chosen] = "up" THEN "released" ELSE leg[chosen]]
      /\ in' = IF in = "gone" THEN "gone" ELSE "bye"
      /\ UNCHANGED <<chosen, rec, cdr, faults>>
  BY DEF HangupBoth, At, Goto, HangupCallee, HangupCaller, files
<1>2. "media" \notin faults
  BY <1>1 DEF TalkSettled, Filed
<1>3. InConversation /\ InConversation' /\ ~Filed /\ ~Filed'
  BY <1>1, <1>2 DEF InConversation, Filed
<1>4. chosen \in Peers /\ cdr.hangupBy \in {"caller", "callee"}
  BY <1>1, <1>3 DEF TalkSettled
<1>5. TalkSettled'
  BY <1>1, <1>2, <1>4 DEF TalkSettled
<1>6. leg'[chosen] = IF leg[chosen] = "up" THEN "released" ELSE leg[chosen]
  BY <1>1, <1>4 DEF IInv, TypeOK, Fork!TypeOK
<1>7. in \in {"answered", "gone"} /\ leg[chosen] \in {"up", "gone"}
  BY <1>1 DEF IInv, CallerSettled, Answered, CalleeSettled, OneCallee
<1>8. /\ PartyOf("caller")' = IF PartyOf("caller") = "up" THEN "bye" ELSE PartyOf("caller")
      /\ PartyOf("callee")' = IF PartyOf("callee") = "up" THEN "bye" ELSE PartyOf("callee")
  BY <1>1, <1>3, <1>6, <1>7 DEF PartyOf, CallerSide, CalleeSide
<1>9. Talk!HangUp(staying)
  <2>1. cdr.hangupBy # ""
    BY <1>4
  <2>2. QED
    BY <1>1, <1>3, <1>8, <2>1, SidesSeen DEF Talk!HangUp
<1>10. staying \in SUBSET Talk!Parties
  OBVIOUS
<1>11. QED
  BY <1>5, <1>9, <1>10 DEF Talk!Next

\* The recording is closed, with nobody in a session; after an error of the media
\* setup there was no conversation.
LEMMA CloseSeen ==
  ASSUME IInv, TalkSettled, CloseRecording
  PROVE  [Talk!Next]_(Talk!conversationVars) /\ TalkSettled'
<1>1. pc = "close" /\ pc' = "finish"
  BY DEF CloseRecording, At, Goto
<1>2. ~Filed /\ Filed' /\ ~InConversation'
  BY <1>1 DEF Filed, InConversation
<1>3. TalkSettled'
  BY <1>1, <1>2 DEF TalkSettled
<1>4. CASE ~InConversation
  BY <1>2, <1>3, <1>4, FiledApart DEF Talk!Next
<1>5. CASE InConversation
  <2>1. "media" \notin faults
    BY <1>1, <1>5 DEF InConversation
  <2>2. /\ in \in {"gone", "bye"} /\ chosen \in Peers
        /\ cdr.hangupBy \in {"caller", "callee"}
    BY <1>1, <1>5 DEF TalkSettled
  <2>3. leg[chosen] # "up"
    BY <1>1, <2>1, <2>2 DEF IInv, CalleeSettled
  <2>4. PartyOf("caller") \in {"left", "bye"} /\ PartyOf("callee") \in {"left", "bye"}
    BY <1>5, <2>2, <2>3, SidesSeen DEF CallerSide, CalleeSide
  <2>5. \A p \in {"caller", "callee"} : PartyOf(p)' = "parted"
    BY <1>2 DEF PartyOf
  <2>6. cdr.hangupBy # ""
    BY <2>2
  <2>7. Talk!Part
    BY <1>1, <1>2, <1>5, <2>4, <2>5, <2>6, SidesSeen DEF Talk!Part
  <2>8. QED
    BY <1>3, <2>7 DEF Talk!Next
<1>6. QED
  BY <1>4, <1>5

\* Filing a call, and a reload, are not seen.
LEMMA FiledSeen ==
  ASSUME TalkSettled, FinishCall \/ SaveFails
  PROVE  UNCHANGED Talk!conversationVars /\ TalkSettled'
<1>1. pc = "finish" /\ pc' = "done"
  BY DEF FinishCall, SaveFails, At, Goto
<1>2. Filed /\ Filed' /\ ~InConversation /\ ~InConversation'
  BY <1>1 DEF Filed, InConversation
<1>3. QED
  BY <1>1, <1>2 DEF Talk!conversationVars, PartyOf, TalkSettled

LEMMA UnchangedSeen ==
  ASSUME TalkSettled, UNCHANGED <<pc, in, leg, chosen, rec, cdr, faults>>
  PROVE  UNCHANGED Talk!conversationVars /\ TalkSettled'
<1>1. (InConversation' <=> InConversation) /\ (Filed' <=> Filed)
  BY DEF InConversation, Filed
<1>2. TalkSettled'
  BY <1>1 DEF TalkSettled
<1>3. CallerSide' = CallerSide /\ CalleeSide' = CalleeSide
  BY DEF CallerSide, CalleeSide
<1>4. QED
  BY <1>1, <1>2, <1>3 DEF Talk!conversationVars, PartyOf

-----------------------------------------------------------------------------
LEMMA InitSeen ==
  ASSUME Init
  PROVE  Talk!Init /\ TalkSettled
<1>1. pc = "invite" /\ faults = {}
  BY DEF Init
<1>2. ~InConversation /\ ~Filed
  BY <1>1 DEF InConversation, Filed
<1>3. TalkSettled
  BY <1>1, <1>2 DEF TalkSettled
<1>4. QED
  BY <1>1, <1>2, <1>3, SidesSeen DEF Talk!Init

\* Every step of a call is a step of the conversation, or none of it.
LEMMA CallSteps ==
  ASSUME IInv, TalkSettled, Next
  PROVE  [Talk!Next]_(Talk!conversationVars) /\ TalkSettled'
<1>1. CASE StartCopy
  BY <1>1, StartSeen
<1>2. CASE CallerLeaves \/ \E p \in Peers : CalleeLeaves(p)
  BY <1>2, CallerLeavesSeen, CalleeLeavesSeen
<1>3. CASE \E by \in {"caller", "callee"} : CopyEnds(by)
  BY <1>3, CopyEndsSeen
<1>4. CASE HangupBoth
  BY <1>4, HangupSeen
<1>5. CASE CloseRecording
  BY <1>5, CloseSeen
<1>6. CASE MediaFails
  BY <1>6, MediaFailsSeen
<1>7. CASE FinishCall \/ SaveFails
  BY <1>7, FiledSeen
<1>8. ASSUME NEW c \in Configs, UpdateConfig(c)
      PROVE  [Talk!Next]_(Talk!conversationVars) /\ TalkSettled'
  BY <1>8, UnchangedSeen DEF UpdateConfig, peers, files
<1>9. QED
  BY <1>1, <1>2, <1>3, <1>4, <1>5, <1>6, <1>7, <1>8, BeforeSteps
  DEF Next, Environment, Handler

LEMMA StutterSeen ==
  ASSUME TalkSettled, UNCHANGED vars
  PROVE  UNCHANGED Talk!conversationVars /\ TalkSettled'
<1>1. UNCHANGED <<pc, in, leg, chosen, rec, cdr, faults>>
  BY DEF vars, peers, files
<1>2. QED
  BY <1>1, UnchangedSeen

\* From the start of the copies to the close of the recording the handler knows
\* its callee, and who ended the bridge from the first hang-up on (calls.go:534-552).
THEOREM CallTalkSettled == Spec => []TalkSettled
<1>1. IInv /\ TalkSettled /\ [Next]_vars => TalkSettled'
  BY CallSteps, StutterSeen
<1>2. QED
  BY InitSeen, <1>1, CallInvariant, PTL DEF Spec

\* A call in any mode, whatever fails and whatever is reloaded, implements
\* Conversation (calls.go:115-119, 470-553, 648-675): the parties are in one
\* conversation at most, joined when both have answered, ended by a departure only,
\* and filed when nobody is left in it and the recording is closed.
THEOREM CallKeepsConversation == Spec => KeepsConversation
<1>1. IInv /\ TalkSettled /\ [Next]_vars => [Talk!Next]_(Talk!conversationVars)
  BY CallSteps, StutterSeen
<1>2. Init => Talk!Init
  BY InitSeen
<1>3. QED
  BY <1>1, <1>2, CallInvariant, CallTalkSettled, PTL
  DEF Spec, KeepsConversation, Talk!Spec

================================================================================
