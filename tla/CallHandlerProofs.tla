--------------------------- MODULE CallHandlerProofs ---------------------------
(***************************************************************************)
(* The safety properties of CallHandler hold for any phones, any set of    *)
(* configurations and any number of reloads.  IInv says what each place of *)
(* the handler has settled: whether the caller has had a final answer, who *)
(* the callee is, in which state recording and record are.                 *)
(*                                                                         *)
(* The proof that a step preserves IInv has one lemma per group of actions *)
(* and in it one case per action; each case shows the types of the         *)
(* handler's variables, the types of the call's, and what is settled.      *)
(***************************************************************************)
EXTENDS CallHandler, TLAPS

\* The types of what the handler itself keeps.
HandlerTyped ==
    /\ pc \in Places
    /\ route \in Routes
    /\ cfg \in Configs /\ held \in Configs
    /\ reloads \in 0..MaxReloads
    /\ in \in CallerStates
    /\ called \subseteq Peers
    /\ rec \in {"none", "open", "closed", "removed"}
    /\ saved \in BOOLEAN
    /\ script \in {"not run", "none", "file"}

\* The types of what it keeps of the call: sessions, faults, record.
CallTyped ==
    /\ Fork!TypeOK
    /\ heard \subseteq {"caller", "callee"}
    /\ faults \subseteq {"answer", "play", "media"}
    /\ cdr \in [answered : BOOLEAN, voicemail : BOOLEAN, file : BOOLEAN,
                hangupBy : HangupBy]

\* The rest of IInv.
Settled ==
    /\ CallerSettled
    /\ RouteSettled
    /\ CalleeSettled
    /\ AnsweredAfterCallee
    /\ FilesSettled
    /\ ScriptSeesFinishedFiles
    /\ AnnouncementSettled

\* The invariant in three parts, which the cases below prove one by one.
LEMMA Parts == IInv <=> HandlerTyped /\ CallTyped /\ Settled
  BY DEF IInv, TypeOK, HandlerTyped, CallTyped, Settled

\* A counted reload stays within the bound, and is a reload.
LEMMA ReloadCounted ==
  ASSUME reloads \in 0..MaxReloads, reloads < MaxReloads
  PROVE  reloads + 1 \in 0..MaxReloads /\ reloads + 1 # 0
  BY MaxReloadsAssumption

\* PlayTo keeps the types; if no file ever failed, whoever of the parties is
\* present has heard it.
LEMMA Played ==
  ASSUME NEW parties \in SUBSET {"caller", "callee"}, NEW file,
         PlayTo(parties, file),
         heard \subseteq {"caller", "callee"}, faults \subseteq {"answer", "play", "media"}
  PROVE  /\ heard' \subseteq {"caller", "callee"}
         /\ faults' \subseteq {"answer", "play", "media"}
         /\ faults' \in {faults, faults \cup {"play"}}
         /\ "play" \notin faults' => parties \cap Present \subseteq heard'
<1>1. PICK failing \in SUBSET (parties \cap Present) :
         /\ heard' = heard \cup ((parties \cap Present) \ failing)
         /\ faults' = faults \cup (IF failing = {} THEN {} ELSE {"play"})
  BY DEF PlayTo
<1>2. "play" \notin faults' => failing = {}
  BY <1>1
<1>3. QED
  BY <1>1, <1>2

\* The two outcomes of PlayVoicemailAnnouncement.
LEMMA VoicemailPlayed ==
  ASSUME PlayVoicemailAnnouncement
  PROVE  /\ pc = "vmPlay"
         /\ \/ /\ in = "gone" /\ pc' = "finish"
               /\ cdr' = [cdr EXCEPT !.hangupBy = "caller"]
            \/ pc' = "vmSetup" /\ cdr' = cdr
         /\ UNCHANGED <<route, called, cfg, held, reloads, in, leg, chosen, returned, rec,
                        saved, script, heard, faults>>
  BY DEF PlayVoicemailAnnouncement, At, Goto, EndedBy, routing, config, peers, files

\* The two outcomes of NoRegisteredPhones.
LEMMA NobodyRegistered ==
  ASSUME NoRegisteredPhones
  PROVE  /\ pc = "incoming" /\ held' = cfg
         /\ \/ /\ pc' = "vmAnswer" /\ route' = "voicemail" /\ UNCHANGED <<in, cdr>>
            \/ /\ pc' = "finish" /\ route' = route /\ in' \in {"gone", "rejected"}
               /\ cdr' = [cdr EXCEPT !.hangupBy = "timeout"]
         /\ UNCHANGED <<called, cfg, reloads, leg, chosen, returned, rec, saved, script,
                        heard, faults>>
  BY DEF NoRegisteredPhones, At, Goto, GetConfig, ToVoicemail, RejectCaller, EndedBy,
         routing, peers, files

\* A reload changes the configuration and the count.
LEMMA UpdateConfigTyped ==
  ASSUME HandlerTyped, NEW c \in Configs, UpdateConfig(c)
  PROVE  HandlerTyped'
<1>1. reloads \in 0..MaxReloads /\ reloads < MaxReloads /\ reloads' = reloads + 1
  BY DEF UpdateConfig, HandlerTyped
<1>2. reloads' \in 0..MaxReloads
  BY <1>1, ReloadCounted
<1>3. cfg' = c /\ UNCHANGED <<pc, route, held, in, called, rec, saved, script>>
  BY DEF UpdateConfig, routing, files
<1>4. QED
  BY <1>2, <1>3 DEF HandlerTyped

\* A step of a callee changes nothing of the handler's.
LEMMA HandlerKept ==
  ASSUME HandlerTyped, NEW p \in Peers, CalleeLeaves(p)
  PROVE  HandlerTyped'
<1>1. UNCHANGED <<pc, route, cfg, held, reloads, in, called, rec, saved, script>>
  BY DEF CalleeLeaves, routing, config, files
<1>2. QED
  BY <1>1 DEF HandlerTyped

\* Nothing about the callee changes.
LEMMA CalleeKept ==
  ASSUME CalleeSettled, UNCHANGED <<pc, leg, chosen, called, faults>>
  PROVE  CalleeSettled'
  BY DEF CalleeSettled, NoCallee, OneCallee

\* A phone answers in the fork: it is one that was called, and not the chosen one.
LEMMA PhoneAnswersCallee ==
  ASSUME IInv, NEW p \in Peers, PhoneAnswers(p)
  PROVE  CalleeSettled'
<1>1. /\ pc = "fork" /\ pc' = "fork" /\ p \in called /\ leg[p] = "none"
      /\ leg' = [leg EXCEPT ![p] = "up"] /\ UNCHANGED <<chosen, called>>
  BY DEF PhoneAnswers, At, Fork!Establish, routing
<1>2. leg \in [Peers -> Fork!LegStates] /\ chosen \in Peers \cup {NoPhone}
  BY DEF IInv, TypeOK, Fork!TypeOK
<1>3. \A q \in Peers : leg'[q] # "none" => q \in called'
  BY <1>1, <1>2 DEF IInv, CalleeSettled
<1>4. chosen # NoPhone => leg'[chosen] \in {"up", "gone"}
  BY <1>1, <1>2 DEF IInv, CalleeSettled
<1>5. QED
  BY <1>1, <1>3, <1>4 DEF CalleeSettled

\* RouteOutgoing rings one peer.
LEMMA RouteOutgoingTyped ==
  ASSUME IInv, NEW p \in Peers, RouteOutgoing(p)
  PROVE  HandlerTyped'
<1>1. called' \subseteq Peers /\ route' \in {"uplink", "internal"} /\ pc' = "inviting" /\ held' = cfg
  BY DEF RouteOutgoing, Goto, GetConfig
<1>2. UNCHANGED <<cfg, reloads, in, rec, saved, script>>
  BY DEF RouteOutgoing, GetConfig, files
<1>3. QED
  BY <1>1, <1>2 DEF IInv, TypeOK, HandlerTyped, Places, Routes

\* The two announcements before a recorded conversation keep the types.
LEMMA AnnouncementsTyped ==
  ASSUME IInv, AnnounceToCaller \/ PlayAnnouncement
  PROVE  heard' \subseteq {"caller", "callee"} /\ faults' \subseteq {"answer", "play", "media"}
<1>1. heard \subseteq {"caller", "callee"} /\ faults \subseteq {"answer", "play", "media"}
  BY DEF IInv, TypeOK
<1>2. CASE AnnounceToCaller
  <2>1. PlayTo({"caller"}, held.ann)
    BY <1>2 DEF AnnounceToCaller
  <2>2. QED
    BY <1>1, <2>1, Played
<1>3. CASE PlayAnnouncement
  <2>1. PlayTo({"caller", "callee"}, cfg.ann)
    BY <1>3 DEF PlayAnnouncement
  <2>2. QED
    BY <1>1, <2>1, Played
<1>4. QED
  BY <1>2, <1>3

\* playAnnouncement plays to whoever is present, or a fault is on record.
LEMMA PlayAnnouncementHeard ==
  ASSUME IInv, PlayAnnouncement
  PROVE  AnnouncementSettled'
<1>1. /\ PlayTo({"caller", "callee"}, cfg.ann)
      /\ UNCHANGED <<in, leg, chosen>>
  BY DEF PlayAnnouncement, peers
<1>2. /\ heard \subseteq {"caller", "callee"}
      /\ faults \subseteq {"answer", "play", "media"}
  BY DEF IInv, TypeOK
<1>3. "play" \notin faults' => {"caller", "callee"} \cap Present \subseteq heard'
  BY <1>1, <1>2, Played
<1>4. Present' = Present /\ Present \subseteq {"caller", "callee"}
  BY <1>1 DEF Present, CalleeGone
<1>5. QED
  BY <1>3, <1>4 DEF AnnouncementSettled

\* No phone is registered: to voicemail, or refused without a file or a callee.
LEMMA NoRegisteredPhonesSettled ==
  ASSUME IInv, NoRegisteredPhones
  PROVE  CallTyped' /\ Settled'
<1> USE DEF Settled, IInv, CallerSettled, Unanswered, Answered, RouteSettled, NoCallee,
        OneCallee, CalleeSettled, AnsweredAfterCallee, FilesSettled, NotRecordedYet,
        ScriptSeesFinishedFiles, AnnouncementSettled, Present, CalleeGone
<1>1. cdr'.file = cdr.file /\ cdr'.answered = cdr.answered
  BY NobodyRegistered DEF TypeOK
<1>2. ASSUME pc' = "vmAnswer" PROVE Settled'
  BY <1>1, <1>2, NobodyRegistered
<1>3. ASSUME pc' = "finish" PROVE Settled'
  BY <1>1, <1>3, NobodyRegistered
<1>4. CallTyped'
  <2>1. /\ cdr' \in {cdr, [cdr EXCEPT !.hangupBy = "timeout"]}
        /\ UNCHANGED <<leg, chosen, returned, heard, faults>>
    BY NobodyRegistered
  <2>2. CallTyped
    BY DEF TypeOK, CallTyped
  <2>3. QED
    BY <2>1, <2>2 DEF CallTyped, Fork!TypeOK, HangupBy
<1>5. QED
  BY <1>2, <1>3, <1>4, NobodyRegistered

\* The voicemail announcement is over: the caller has left, or a message follows.
LEMMA VoicemailPlayedSettled ==
  ASSUME IInv, PlayVoicemailAnnouncement
  PROVE  CallTyped' /\ Settled'
<1> USE DEF Settled, IInv, CallerSettled, Unanswered, Answered, RouteSettled, NoCallee,
        OneCallee, CalleeSettled, AnsweredAfterCallee, FilesSettled, NotRecordedYet,
        ScriptSeesFinishedFiles, AnnouncementSettled, Present, CalleeGone
<1>1. cdr'.file = cdr.file /\ cdr'.answered = cdr.answered
  BY VoicemailPlayed DEF TypeOK
<1>2. ASSUME pc' = "vmSetup" PROVE Settled'
  BY <1>1, <1>2, VoicemailPlayed
<1>3. ASSUME pc' = "finish" PROVE Settled'
  BY <1>1, <1>3, VoicemailPlayed
<1>4. CallTyped'
  <2>1. /\ cdr' \in {cdr, [cdr EXCEPT !.hangupBy = "caller"]}
        /\ UNCHANGED <<leg, chosen, returned, heard, faults>>
    BY VoicemailPlayed
  <2>2. CallTyped
    BY DEF TypeOK, CallTyped
  <2>3. QED
    BY <2>1, <2>2 DEF CallTyped, Fork!TypeOK, HangupBy
<1>5. QED
  BY <1>2, <1>3, <1>4, VoicemailPlayed

\* The parties and the operator leave what is settled as it is.
LEMMA PartiesIInv ==
  ASSUME IInv, Environment
  PROVE  IInv'
<1> USE PeersAssumption, Parts
    DEF HandlerTyped, CallTyped, Settled, routing, config, peers, files, At,
        HangupCaller, Goto, Fork!Leave, Fork!Establish, TypeOK, Fork!TypeOK,
        Fork!LegStates, Places, Routes, CallerStates, HangupBy, Peers, IInv,
        CallerSettled, Unanswered, Answered, RouteSettled, NoCallee, OneCallee,
        CalleeSettled, AnsweredAfterCallee, FilesSettled, NotRecordedYet,
        ScriptSeesFinishedFiles, AnnouncementSettled, CalleeGone, Present
<1>1. CASE CallerLeaves
  <2>1. HandlerTyped'
    BY <1>1 DEF CallerLeaves
  <2>2. CallTyped'
    BY <1>1 DEF CallerLeaves
  <2>3. Settled'
    <3>1. (CallerSettled /\ RouteSettled)'
      BY <1>1 DEF CallerLeaves
    <3>2. (CalleeSettled /\ AnsweredAfterCallee)'
      BY <1>1 DEF CallerLeaves
    <3>3. (FilesSettled /\ ScriptSeesFinishedFiles)'
      BY <1>1 DEF CallerLeaves
    <3>4. AnnouncementSettled'
      BY <1>1 DEF CallerLeaves
    <3>5. QED
      BY <3>1, <3>2, <3>3, <3>4
  <2>4. QED
    BY <2>1, <2>2, <2>3
<1>2. CASE EndMessage
  <2>1. HandlerTyped'
    BY <1>2 DEF EndMessage
  <2>2. CallTyped'
    <3>1. PICK empty \in BOOLEAN : cdr' = [cdr EXCEPT !.file = ~empty, !.hangupBy = "voicemail"]
      BY <1>2 DEF EndMessage
    <3>2. QED
      BY <1>2, <3>1 DEF EndMessage
  <2>3. Settled'
    <3>1. PICK empty \in BOOLEAN :
             /\ rec' = IF empty THEN "removed" ELSE "closed"
             /\ cdr' = [cdr EXCEPT !.file = ~empty, !.hangupBy = "voicemail"]
      BY <1>2 DEF EndMessage
    <3>2. pc = "vmRecord" /\ pc' = "finish" /\ UNCHANGED <<route, script, saved, faults, leg>>
      BY <1>2 DEF EndMessage
    <3>3. cdr'.file = ~empty
      BY <3>1
    <3>4. (FilesSettled /\ ScriptSeesFinishedFiles)'
      BY <3>1, <3>2, <3>3
    <3>5. (CallerSettled /\ RouteSettled /\ CalleeSettled /\ AnsweredAfterCallee)'
      BY <1>2, <3>2 DEF EndMessage
    <3>6. AnnouncementSettled'
      BY <1>2, <3>2 DEF EndMessage
    <3>7. QED
      BY <3>4, <3>5, <3>6
  <2>4. QED
    BY <2>1, <2>2, <2>3
<1>3. ASSUME NEW p \in Peers, CalleeLeaves(p) PROVE IInv'
  <2>1. HandlerTyped'
    BY <1>3, HandlerKept
  <2>2. CallTyped'
    BY <1>3 DEF CalleeLeaves
  <2>3. Settled'
    <3>1. (CallerSettled /\ RouteSettled)'
      BY <1>3 DEF CalleeLeaves
    <3>2. (CalleeSettled /\ AnsweredAfterCallee)'
      <4>1. CalleeSettled'
        BY <1>3 DEF CalleeLeaves
      <4>2. AnsweredAfterCallee'
        BY <1>3 DEF CalleeLeaves
      <4>3. QED
        BY <4>1, <4>2
    <3>3. (FilesSettled /\ ScriptSeesFinishedFiles)'
      BY <1>3 DEF CalleeLeaves
    <3>4. AnnouncementSettled'
      BY <1>3 DEF CalleeLeaves
    <3>5. QED
      BY <3>1, <3>2, <3>3, <3>4
  <2>4. QED
    BY <2>1, <2>2, <2>3
<1>4. ASSUME NEW p \in Peers, PhoneAnswers(p) PROVE IInv'
  <2>1. HandlerTyped'
    BY <1>4 DEF PhoneAnswers
  <2>2. CallTyped'
    BY <1>4 DEF PhoneAnswers
  <2>3. Settled'
    <3>1. (CallerSettled /\ RouteSettled)'
      BY <1>4 DEF PhoneAnswers
    <3>2. (CalleeSettled /\ AnsweredAfterCallee)'
      <4>1. CalleeSettled'
        BY <1>4, PhoneAnswersCallee
      <4>2. AnsweredAfterCallee'
        BY <1>4 DEF PhoneAnswers
      <4>3. QED
        BY <4>1, <4>2
    <3>3. (FilesSettled /\ ScriptSeesFinishedFiles)'
      BY <1>4 DEF PhoneAnswers
    <3>4. AnnouncementSettled'
      BY <1>4 DEF PhoneAnswers
    <3>5. QED
      BY <3>1, <3>2, <3>3, <3>4
  <2>4. QED
    BY <2>1, <2>2, <2>3
<1>5. ASSUME NEW p \in Peers, InviteAnswered(p) PROVE IInv'
  <2>1. HandlerTyped'
    BY <1>5 DEF InviteAnswered
  <2>2. CallTyped'
    BY <1>5 DEF InviteAnswered
  <2>3. Settled'
    <3>1. (CallerSettled /\ RouteSettled)'
      BY <1>5 DEF InviteAnswered
    <3>2. (CalleeSettled /\ AnsweredAfterCallee)'
      BY <1>5 DEF InviteAnswered
    <3>3. (FilesSettled /\ ScriptSeesFinishedFiles)'
      BY <1>5 DEF InviteAnswered
    <3>4. AnnouncementSettled'
      BY <1>5 DEF InviteAnswered
    <3>5. QED
      BY <3>1, <3>2, <3>3, <3>4
  <2>4. QED
    BY <2>1, <2>2, <2>3
<1>6. ASSUME NEW c \in Configs, UpdateConfig(c) PROVE IInv'
  <2>1. HandlerTyped'
    BY <1>6, UpdateConfigTyped
  <2>2. CallTyped'
    BY <1>6 DEF UpdateConfig
  <2>3. Settled'
    <3>1. (CallerSettled /\ RouteSettled /\ CalleeSettled /\ AnsweredAfterCallee)'
      <4>1. (CallerSettled /\ RouteSettled)'
        BY <1>6 DEF UpdateConfig
      <4>2. CalleeSettled'
        BY <1>6, CalleeKept DEF UpdateConfig
      <4>3. AnsweredAfterCallee'
        BY <1>6 DEF UpdateConfig
      <4>4. QED
        BY <4>1, <4>2, <4>3
    <3>2. (FilesSettled /\ ScriptSeesFinishedFiles)'
      BY <1>6 DEF UpdateConfig
    <3>3. AnnouncementSettled'
      BY <1>6 DEF UpdateConfig
    <3>4. QED
      BY <3>1, <3>2, <3>3
  <2>4. QED
    BY <2>1, <2>2, <2>3
<1>7. QED
  BY <1>1, <1>2, <1>3, <1>4, <1>5, <1>6 DEF Environment

\* HandleInvite, handleIncoming and handleOutgoing settle the route.
LEMMA RoutingIInv ==
  ASSUME IInv,
         \/ RejectFiltered \/ AcceptInvite
         \/ OutsideHours \/ NoRegisteredPhones
         \/ \E regs \in SUBSET Phones : RouteIncoming(regs)
         \/ InternalNotRegistered \/ \E p \in Peers : RouteOutgoing(p)
  PROVE  IInv'
<1> USE PeersAssumption, Parts
    DEF HandlerTyped, CallTyped, Settled, At, RejectCaller, Goto, routing,
        config, peers, files, GetConfig, ToVoicemail, EndedBy, AnswersFirst,
        TypeOK, Fork!TypeOK, Fork!LegStates, Places, Routes, CallerStates,
        HangupBy, Peers, IInv, CallerSettled, Unanswered, Answered,
        RouteSettled, NoCallee, OneCallee, CalleeSettled, AnsweredAfterCallee,
        FilesSettled, NotRecordedYet, ScriptSeesFinishedFiles,
        AnnouncementSettled, CalleeGone, Present
<1>1. CASE RejectFiltered
  <2>1. HandlerTyped'
    BY <1>1 DEF RejectFiltered
  <2>2. CallTyped'
    BY <1>1 DEF RejectFiltered
  <2>3. Settled'
    BY <1>1 DEF RejectFiltered
  <2>4. QED
    BY <2>1, <2>2, <2>3
<1>2. CASE AcceptInvite
  <2>1. HandlerTyped'
    BY <1>2 DEF AcceptInvite
  <2>2. CallTyped'
    BY <1>2 DEF AcceptInvite
  <2>3. Settled'
    BY <1>2 DEF AcceptInvite
  <2>4. QED
    BY <2>1, <2>2, <2>3
<1>3. CASE OutsideHours
  <2>1. HandlerTyped'
    BY <1>3 DEF OutsideHours
  <2>2. CallTyped'
    BY <1>3 DEF OutsideHours
  <2>3. Settled'
    BY <1>3 DEF OutsideHours
  <2>4. QED
    BY <2>1, <2>2, <2>3
<1>4. CASE NoRegisteredPhones
  <2>1. HandlerTyped'
    <3>1. /\ pc = "incoming" /\ held' = cfg
          /\ \/ /\ pc' = "vmAnswer" /\ route' = "voicemail" /\ UNCHANGED <<in, cdr>>
             \/ /\ pc' = "finish" /\ route' = route /\ in' \in {"gone", "rejected"}
                /\ cdr' = [cdr EXCEPT !.hangupBy = "timeout"]
          /\ UNCHANGED <<called, cfg, reloads, leg, chosen, returned, rec, saved, script,
                         heard, faults>>
      BY <1>4, NobodyRegistered
    <3>2. QED
      BY <3>1
  <2>2. CallTyped' /\ Settled'
    BY <1>4, NoRegisteredPhonesSettled
  <2>3. QED
    BY <2>1, <2>2
<1>5. ASSUME NEW regs \in SUBSET Phones, RouteIncoming(regs) PROVE IInv'
  <2>1. HandlerTyped'
    BY <1>5 DEF RouteIncoming
  <2>2. CallTyped'
    BY <1>5 DEF RouteIncoming
  <2>3. Settled'
    BY <1>5 DEF RouteIncoming
  <2>4. QED
    BY <2>1, <2>2, <2>3
<1>6. CASE InternalNotRegistered
  <2>1. HandlerTyped'
    BY <1>6 DEF InternalNotRegistered
  <2>2. CallTyped'
    BY <1>6 DEF InternalNotRegistered
  <2>3. Settled'
    BY <1>6 DEF InternalNotRegistered
  <2>4. QED
    BY <2>1, <2>2, <2>3
<1>7. ASSUME NEW p \in Peers, RouteOutgoing(p) PROVE IInv'
  <2>1. HandlerTyped'
    BY <1>7, RouteOutgoingTyped
  <2>2. CallTyped'
    BY <1>7 DEF RouteOutgoing
  <2>3. Settled'
    BY <1>7 DEF RouteOutgoing
  <2>4. QED
    BY <2>1, <2>2, <2>3
<1>8. QED
  BY <1>1, <1>2, <1>3, <1>4, <1>5, <1>6, <1>7

\* Reaching a callee settles who it is, and then the caller's answer.
LEMMA CalleeIInv ==
  ASSUME IInv,
         \/ \E p \in Peers : ForkSettles(p)
         \/ ForkReturns \/ NobodyAnswers \/ InviteFails
         \/ WinnerToConnect \/ AnswerCaller \/ AnswerCallerFails
  PROVE  IInv'
<1> USE PeersAssumption, Parts
    DEF HandlerTyped, CallTyped, Settled, At, Fork!Choose, Fork!Release,
        routing, config, files, Fork!Return, Goto, RejectCaller, EndedBy,
        peers, AnswerOK, AnswerFails, HangupCallee, AnswerFailsRecord, TypeOK,
        Fork!TypeOK, Fork!LegStates, Places, Routes, CallerStates, HangupBy,
        Peers, IInv, CallerSettled, Unanswered, Answered, RouteSettled,
        NoCallee, OneCallee, CalleeSettled, AnsweredAfterCallee, FilesSettled,
        NotRecordedYet, ScriptSeesFinishedFiles, AnnouncementSettled,
        CalleeGone, Present
<1>1. ASSUME NEW p \in Peers, ForkSettles(p) PROVE IInv'
  <2>1. HandlerTyped'
    BY <1>1 DEF ForkSettles
  <2>2. CallTyped'
    <3>1. CASE Fork!Choose(p)
      BY <1>1, <3>1 DEF ForkSettles
    <3>2. CASE Fork!Release(p)
      BY <1>1, <3>2 DEF ForkSettles
    <3>3. QED
      BY <1>1, <3>1, <3>2 DEF ForkSettles
  <2>3. Settled'
    <3>1. CASE Fork!Choose(p)
      BY <1>1, <3>1 DEF ForkSettles
    <3>2. CASE Fork!Release(p)
      BY <1>1, <3>2 DEF ForkSettles
    <3>3. QED
      BY <1>1, <3>1, <3>2 DEF ForkSettles
  <2>4. QED
    BY <2>1, <2>2, <2>3
<1>2. CASE ForkReturns
  <2>1. HandlerTyped'
    BY <1>2 DEF ForkReturns
  <2>2. CallTyped'
    BY <1>2 DEF ForkReturns
  <2>3. Settled'
    BY <1>2 DEF ForkReturns
  <2>4. QED
    BY <2>1, <2>2, <2>3
<1>3. CASE NobodyAnswers
  <2>1. HandlerTyped'
    BY <1>3 DEF NobodyAnswers
  <2>2. CallTyped'
    BY <1>3 DEF NobodyAnswers
  <2>3. Settled'
    BY <1>3 DEF NobodyAnswers
  <2>4. QED
    BY <2>1, <2>2, <2>3
<1>4. CASE InviteFails
  <2>1. HandlerTyped'
    BY <1>4 DEF InviteFails
  <2>2. CallTyped'
    BY <1>4 DEF InviteFails
  <2>3. Settled'
    BY <1>4 DEF InviteFails
  <2>4. QED
    BY <2>1, <2>2, <2>3
<1>5. CASE WinnerToConnect
  <2>1. HandlerTyped'
    BY <1>5 DEF WinnerToConnect
  <2>2. CallTyped'
    BY <1>5 DEF WinnerToConnect
  <2>3. Settled'
    BY <1>5 DEF WinnerToConnect
  <2>4. QED
    BY <2>1, <2>2, <2>3
<1>6. CASE AnswerCaller
  <2>1. HandlerTyped'
    BY <1>6 DEF AnswerCaller
  <2>2. CallTyped'
    BY <1>6 DEF AnswerCaller
  <2>3. Settled'
    BY <1>6 DEF AnswerCaller
  <2>4. QED
    BY <2>1, <2>2, <2>3
<1>7. CASE AnswerCallerFails
  <2>1. HandlerTyped'
    BY <1>7 DEF AnswerCallerFails
  <2>2. CallTyped'
    BY <1>7 DEF AnswerCallerFails
  <2>3. Settled'
    BY <1>7 DEF AnswerCallerFails
  <2>4. QED
    BY <2>1, <2>2, <2>3
<1>8. QED
  BY <1>1, <1>2, <1>3, <1>4, <1>5, <1>6, <1>7

\* Answer-first mode.
LEMMA AnswerFirstIInv ==
  ASSUME IInv,
         AnswerFirst \/ AnswerFirstFails \/ AnnounceToCaller
         \/ NobodyAnswersSecond
  PROVE  IInv'
<1> USE PeersAssumption, Parts
    DEF HandlerTyped, CallTyped, Settled, At, GetConfig, AnswerOK,
        SetUpRecording, files, Goto, routing, peers, AnswerFails, EndedBy,
        PlayTo, config, HangupCaller, TypeOK, Fork!TypeOK, Fork!LegStates,
        Places, Routes, CallerStates, HangupBy, Peers, IInv, CallerSettled,
        Unanswered, Answered, RouteSettled, NoCallee, OneCallee, CalleeSettled,
        AnsweredAfterCallee, FilesSettled, NotRecordedYet,
        ScriptSeesFinishedFiles, AnnouncementSettled, CalleeGone, Present
<1>1. CASE AnswerFirst
  <2>1. HandlerTyped'
    BY <1>1 DEF AnswerFirst
  <2>2. CallTyped'
    BY <1>1 DEF AnswerFirst
  <2>3. Settled'
    BY <1>1 DEF AnswerFirst
  <2>4. QED
    BY <2>1, <2>2, <2>3
<1>2. CASE AnswerFirstFails
  <2>1. HandlerTyped'
    BY <1>2 DEF AnswerFirstFails
  <2>2. CallTyped'
    BY <1>2 DEF AnswerFirstFails
  <2>3. Settled'
    BY <1>2 DEF AnswerFirstFails
  <2>4. QED
    BY <2>1, <2>2, <2>3
<1>3. CASE AnnounceToCaller
  <2>1. HandlerTyped'
    BY <1>3 DEF AnnounceToCaller
  <2>2. CallTyped'
    <3>1. (heard \subseteq {"caller", "callee"} /\ faults \subseteq {"answer", "play", "media"})'
      BY <1>3, AnnouncementsTyped
    <3>2. QED
      BY <1>3, <3>1 DEF AnnounceToCaller
  <2>3. Settled'
    BY <1>3 DEF AnnounceToCaller
  <2>4. QED
    BY <2>1, <2>2, <2>3
<1>4. CASE NobodyAnswersSecond
  <2>1. HandlerTyped'
    BY <1>4 DEF NobodyAnswersSecond
  <2>2. CallTyped'
    BY <1>4 DEF NobodyAnswersSecond
  <2>3. Settled'
    BY <1>4 DEF NobodyAnswersSecond
  <2>4. QED
    BY <2>1, <2>2, <2>3
<1>5. QED
  BY <1>1, <1>2, <1>3, <1>4

\* handleVoicemail.
LEMMA VoicemailIInv ==
  ASSUME IInv,
         AnswerVoicemail \/ AnswerVoicemailFails \/ PlayVoicemailAnnouncement
         \/ NoMessage \/ StartMessage
  PROVE  IInv'
<1> USE PeersAssumption, Parts
    DEF HandlerTyped, CallTyped, Settled, At, GetConfig, AnswerOK, Goto,
        routing, peers, files, AnswerFails, EndedBy, config, HangupCaller,
        TypeOK, Fork!TypeOK, Fork!LegStates, Places, Routes, CallerStates,
        HangupBy, Peers, IInv, CallerSettled, Unanswered, Answered,
        RouteSettled, NoCallee, OneCallee, CalleeSettled, AnsweredAfterCallee,
        FilesSettled, NotRecordedYet, ScriptSeesFinishedFiles,
        AnnouncementSettled, CalleeGone, Present
<1>1. CASE AnswerVoicemail
  <2>1. HandlerTyped'
    BY <1>1 DEF AnswerVoicemail
  <2>2. CallTyped'
    BY <1>1 DEF AnswerVoicemail
  <2>3. Settled'
    BY <1>1 DEF AnswerVoicemail
  <2>4. QED
    BY <2>1, <2>2, <2>3
<1>2. CASE AnswerVoicemailFails
  <2>1. HandlerTyped'
    BY <1>2 DEF AnswerVoicemailFails
  <2>2. CallTyped'
    BY <1>2 DEF AnswerVoicemailFails
  <2>3. Settled'
    BY <1>2 DEF AnswerVoicemailFails
  <2>4. QED
    BY <2>1, <2>2, <2>3
<1>3. CASE PlayVoicemailAnnouncement
  <2>1. HandlerTyped'
    <3>1. /\ pc = "vmPlay"
          /\ \/ /\ in = "gone" /\ pc' = "finish"
                /\ cdr' = [cdr EXCEPT !.hangupBy = "caller"]
             \/ pc' = "vmSetup" /\ cdr' = cdr
          /\ UNCHANGED <<route, called, cfg, held, reloads, in, leg, chosen, returned, rec,
                         saved, script, heard, faults>>
      BY <1>3, VoicemailPlayed
    <3>2. QED
      BY <3>1
  <2>2. CallTyped' /\ Settled'
    BY <1>3, VoicemailPlayedSettled
  <2>3. QED
    BY <2>1, <2>2
<1>4. CASE NoMessage
  <2>1. HandlerTyped'
    BY <1>4 DEF NoMessage
  <2>2. CallTyped'
    BY <1>4 DEF NoMessage
  <2>3. Settled'
    BY <1>4 DEF NoMessage
  <2>4. QED
    BY <2>1, <2>2, <2>3
<1>5. CASE StartMessage
  <2>1. HandlerTyped'
    BY <1>5 DEF StartMessage
  <2>2. CallTyped'
    BY <1>5 DEF StartMessage
  <2>3. Settled'
    BY <1>5 DEF StartMessage
  <2>4. QED
    BY <2>1, <2>2, <2>3
<1>6. QED
  BY <1>1, <1>2, <1>3, <1>4, <1>5

\* The bridge.
LEMMA BridgeIInv ==
  ASSUME IInv,
         \/ StartBridge \/ PlayAnnouncement \/ MediaFails \/ StartCopy
         \/ \E by \in {"caller", "callee"} : CopyEnds(by)
         \/ HangupBoth \/ CloseRecording
  PROVE  IInv'
<1> USE PeersAssumption, Parts
    DEF HandlerTyped, CallTyped, Settled, At, GetConfig, SetUpRecording, files,
        Goto, Announces, routing, peers, PlayTo, config, EndedBy, HangupCallee,
        HangupCaller, TypeOK, Fork!TypeOK, Fork!LegStates, Places, Routes,
        CallerStates, HangupBy, Peers, IInv, CallerSettled, Unanswered,
        Answered, RouteSettled, NoCallee, OneCallee, CalleeSettled,
        AnsweredAfterCallee, FilesSettled, NotRecordedYet,
        ScriptSeesFinishedFiles, AnnouncementSettled, CalleeGone, Present
<1>1. CASE StartBridge
  <2>1. HandlerTyped'
    BY <1>1 DEF StartBridge
  <2>2. CallTyped'
    BY <1>1 DEF StartBridge
  <2>3. Settled'
    BY <1>1 DEF StartBridge
  <2>4. QED
    BY <2>1, <2>2, <2>3
<1>2. CASE PlayAnnouncement
  <2>1. HandlerTyped'
    BY <1>2 DEF PlayAnnouncement
  <2>2. CallTyped'
    <3>1. (heard \subseteq {"caller", "callee"} /\ faults \subseteq {"answer", "play", "media"})'
      BY <1>2, AnnouncementsTyped
    <3>2. QED
      BY <1>2, <3>1 DEF PlayAnnouncement
  <2>3. Settled'
    <3>1. (CallerSettled /\ RouteSettled)'
      BY <1>2 DEF PlayAnnouncement
    <3>2. (CalleeSettled /\ AnsweredAfterCallee)'
      BY <1>2 DEF PlayAnnouncement
    <3>3. (FilesSettled /\ ScriptSeesFinishedFiles)'
      BY <1>2 DEF PlayAnnouncement
    <3>4. AnnouncementSettled'
      BY <1>2, PlayAnnouncementHeard
    <3>5. QED
      BY <3>1, <3>2, <3>3, <3>4
  <2>4. QED
    BY <2>1, <2>2, <2>3
<1>3. CASE MediaFails
  <2>1. HandlerTyped'
    BY <1>3 DEF MediaFails
  <2>2. CallTyped'
    BY <1>3 DEF MediaFails
  <2>3. Settled'
    BY <1>3 DEF MediaFails
  <2>4. QED
    BY <2>1, <2>2, <2>3
<1>4. CASE StartCopy
  <2>1. HandlerTyped'
    BY <1>4 DEF StartCopy
  <2>2. CallTyped'
    BY <1>4 DEF StartCopy
  <2>3. Settled'
    BY <1>4 DEF StartCopy
  <2>4. QED
    BY <2>1, <2>2, <2>3
<1>5. CASE \E by \in {"caller", "callee"} : CopyEnds(by)
  <2>1. PICK by \in {"caller", "callee"} : CopyEnds(by)
    BY <1>5
  <2>2. HandlerTyped'
    BY <2>1 DEF CopyEnds
  <2>3. CallTyped'
    BY <2>1 DEF CopyEnds
  <2>4. Settled'
    BY <2>1 DEF CopyEnds
  <2>5. QED
    BY <2>2, <2>3, <2>4
<1>6. CASE HangupBoth
  <2>1. HandlerTyped'
    BY <1>6 DEF HangupBoth
  <2>2. CallTyped'
    BY <1>6 DEF HangupBoth
  <2>3. Settled'
    BY <1>6 DEF HangupBoth
  <2>4. QED
    BY <2>1, <2>2, <2>3
<1>7. CASE CloseRecording
  <2>1. HandlerTyped'
    BY <1>7 DEF CloseRecording
  <2>2. CallTyped'
    BY <1>7 DEF CloseRecording
  <2>3. Settled'
    <3>1. (CallerSettled /\ RouteSettled)'
      BY <1>7 DEF CloseRecording
    <3>2. (CalleeSettled /\ AnsweredAfterCallee)'
      <4>1. CalleeSettled'
        BY <1>7 DEF CloseRecording
      <4>2. AnsweredAfterCallee'
        BY <1>7 DEF CloseRecording
      <4>3. QED
        BY <4>1, <4>2
    <3>3. (FilesSettled /\ ScriptSeesFinishedFiles)'
      BY <1>7 DEF CloseRecording
    <3>4. AnnouncementSettled'
      BY <1>7 DEF CloseRecording
    <3>5. QED
      BY <3>1, <3>2, <3>3, <3>4
  <2>4. QED
    BY <2>1, <2>2, <2>3
<1>8. QED
  BY <1>1, <1>2, <1>3, <1>4, <1>5, <1>6, <1>7

\* finishCall.
LEMMA FinishIInv ==
  ASSUME IInv,
         FinishCall \/ SaveFails
  PROVE  IInv'
<1> USE PeersAssumption, Parts
    DEF HandlerTyped, CallTyped, Settled, At, GetConfig, WavPath, Goto,
        routing, peers, files, TypeOK, Fork!TypeOK, Fork!LegStates, Places,
        Routes, CallerStates, HangupBy, Peers, IInv, CallerSettled, Unanswered,
        Answered, RouteSettled, NoCallee, OneCallee, CalleeSettled,
        AnsweredAfterCallee, FilesSettled, NotRecordedYet,
        ScriptSeesFinishedFiles, AnnouncementSettled, CalleeGone, Present
<1>1. CASE FinishCall
  <2>1. HandlerTyped'
    BY <1>1 DEF FinishCall
  <2>2. CallTyped'
    BY <1>1 DEF FinishCall
  <2>3. Settled'
    <3>1. (CallerSettled /\ RouteSettled)'
      BY <1>1 DEF FinishCall
    <3>2. (CalleeSettled /\ AnsweredAfterCallee)'
      <4>1. CalleeSettled'
        BY <1>1 DEF FinishCall
      <4>2. AnsweredAfterCallee'
        BY <1>1 DEF FinishCall
      <4>3. QED
        BY <4>1, <4>2
    <3>3. (FilesSettled /\ ScriptSeesFinishedFiles)'
      BY <1>1 DEF FinishCall
    <3>4. AnnouncementSettled'
      BY <1>1 DEF FinishCall
    <3>5. QED
      BY <3>1, <3>2, <3>3, <3>4
  <2>4. QED
    BY <2>1, <2>2, <2>3
<1>2. CASE SaveFails
  <2>1. HandlerTyped'
    BY <1>2 DEF SaveFails
  <2>2. CallTyped'
    BY <1>2 DEF SaveFails
  <2>3. Settled'
    <3>1. (CallerSettled /\ RouteSettled)'
      BY <1>2 DEF SaveFails
    <3>2. (CalleeSettled /\ AnsweredAfterCallee)'
      <4>1. CalleeSettled'
        BY <1>2 DEF SaveFails
      <4>2. AnsweredAfterCallee'
        BY <1>2 DEF SaveFails
      <4>3. QED
        BY <4>1, <4>2
    <3>3. (FilesSettled /\ ScriptSeesFinishedFiles)'
      BY <1>2 DEF SaveFails
    <3>4. AnnouncementSettled'
      BY <1>2 DEF SaveFails
    <3>5. QED
      BY <3>1, <3>2, <3>3, <3>4
  <2>4. QED
    BY <2>1, <2>2, <2>3
<1>3. QED
  BY <1>1, <1>2

-----------------------------------------------------------------------------
(***************************************************************************)
(* Who has heard the announcement, and which files are of answered calls.  *)
(***************************************************************************)
\* The steps that neither answer a caller, nor choose answer-first mode, nor play
\* to the caller: what was heard stays heard, and what failed stays failed.
LEMMA ListenersKept ==
  ASSUME \/ CallerLeaves \/ EndMessage
         \/ \E p \in Peers : CalleeLeaves(p) \/ PhoneAnswers(p) \/ InviteAnswered(p)
                             \/ RouteOutgoing(p) \/ ForkSettles(p)
         \/ RejectFiltered \/ AcceptInvite \/ OutsideHours \/ NoRegisteredPhones
         \/ InternalNotRegistered \/ ForkReturns \/ NobodyAnswers \/ InviteFails
         \/ WinnerToConnect \/ AnswerCallerFails \/ AnswerFirstFails \/ NobodyAnswersSecond
         \/ AnswerVoicemailFails \/ PlayVoicemailAnnouncement \/ NoMessage \/ StartMessage
         \/ StartBridge \/ PlayAnnouncement \/ MediaFails \/ StartCopy
         \/ \E by \in {"caller", "callee"} : CopyEnds(by)
         \/ HangupBoth \/ CloseRecording \/ FinishCall \/ SaveFails
         \/ \E c \in Configs : UpdateConfig(c)
  PROVE  /\ heard \subseteq heard' /\ faults \subseteq faults'
         /\ in' = "answered" => in = "answered"
         /\ route' = "answerFirst" => route = "answerFirst"
         /\ pc # "announceCaller" \/ pc' = "announceCaller"
<1> USE DEF At, Goto, routing
<1>1. CASE \/ CallerLeaves \/ EndMessage \/ \E c \in Configs : UpdateConfig(c)
           \/ \E p \in Peers : CalleeLeaves(p) \/ PhoneAnswers(p) \/ InviteAnswered(p)
                               \/ RouteOutgoing(p) \/ ForkSettles(p)
  BY <1>1
  DEF CallerLeaves, EndMessage, UpdateConfig, CalleeLeaves, PhoneAnswers, InviteAnswered,
      RouteOutgoing, ForkSettles, HangupCaller
<1>2. CASE RejectFiltered \/ AcceptInvite \/ OutsideHours \/ NoRegisteredPhones
  BY <1>2 DEF RejectFiltered, AcceptInvite, OutsideHours, NoRegisteredPhones, ToVoicemail,
              RejectCaller
<1>3. CASE \/ InternalNotRegistered \/ ForkReturns \/ NobodyAnswers \/ InviteFails
           \/ WinnerToConnect \/ NobodyAnswersSecond
  BY <1>3 DEF InternalNotRegistered, ForkReturns, NobodyAnswers, InviteFails,
              WinnerToConnect, NobodyAnswersSecond, RejectCaller, HangupCaller
<1>4. CASE AnswerCallerFails \/ AnswerFirstFails \/ AnswerVoicemailFails
  BY <1>4 DEF AnswerCallerFails, AnswerFirstFails, AnswerVoicemailFails, AnswerFails
<1>5. CASE PlayVoicemailAnnouncement \/ NoMessage \/ StartMessage
  BY <1>5 DEF PlayVoicemailAnnouncement, NoMessage, StartMessage, HangupCaller
<1>6. CASE StartBridge \/ PlayAnnouncement
  BY <1>6 DEF StartBridge, PlayAnnouncement, PlayTo
<1>7. CASE \/ MediaFails \/ StartCopy \/ \E by \in {"caller", "callee"} : CopyEnds(by)
           \/ HangupBoth \/ CloseRecording \/ FinishCall \/ SaveFails
  BY <1>7 DEF MediaFails, StartCopy, CopyEnds, HangupBoth, CloseRecording, FinishCall,
              SaveFails, HangupCaller
<1>8. QED
  BY <1>1, <1>2, <1>3, <1>4, <1>5, <1>6, <1>7

LEMMA InListeners ==
  ASSUME IInv, CallerHeard, Next
  PROVE  CallerHeard'
<1>1. ASSUME NEW regs \in SUBSET Phones, RouteIncoming(regs) PROVE CallerHeard'
  <2>1. pc = "incoming" /\ in' = in
    BY <1>1 DEF RouteIncoming, At
  <2>2. in # "answered"
    BY <2>1 DEF IInv, CallerSettled, Unanswered
  <2>3. QED
    BY <2>1, <2>2 DEF CallerHeard
<1>2. CASE AnswerFirst
  <2>1. pc' = "announceCaller"
    BY <1>2 DEF AnswerFirst, Goto
  <2>2. QED
    BY <2>1 DEF CallerHeard
<1>3. CASE AnnounceToCaller
  <2>1. PlayTo({"caller"}, held.ann) /\ in' = in
    BY <1>3 DEF AnnounceToCaller
  <2>2. ASSUME "play" \notin faults', in = "answered" PROVE "caller" \in heard'
    <3>1. {"caller"} \cap Present \subseteq heard'
      BY <2>1, <2>2, Played DEF IInv, TypeOK
    <3>2. "caller" \in Present
      BY <2>2 DEF Present
    <3>3. QED
      BY <3>1, <3>2
  <2>3. QED
    BY <2>1, <2>2 DEF CallerHeard
<1>4. CASE AnswerCaller \/ AnswerVoicemail
  <2>1. pc \in {"connect", "vmAnswer"} /\ route' = route
    BY <1>4 DEF AnswerCaller, AnswerVoicemail, At, routing
  <2>2. route # "answerFirst"
    BY <2>1 DEF IInv, RouteSettled
  <2>3. QED
    BY <2>1, <2>2 DEF CallerHeard
<1>5. ASSUME /\ heard \subseteq heard' /\ faults \subseteq faults'
             /\ in' = "answered" => in = "answered"
             /\ route' = "answerFirst" => route = "answerFirst"
             /\ pc # "announceCaller" \/ pc' = "announceCaller"
      PROVE  CallerHeard'
  BY <1>5 DEF CallerHeard
<1>6. QED
  BY <1>1, <1>2, <1>3, <1>4, <1>5, ListenersKept DEF Next, Environment, Handler

\* A record that is marked answered stays so, but for WinnerToConnect.
LEMMA AnsweredKept ==
  ASSUME IInv, Next, ~WinnerToConnect
  PROVE  cdr.answered => cdr'.answered
<1> USE DEF EndedBy, IInv, TypeOK
<1>1. CASE CallerLeaves \/ EndMessage
  BY <1>1 DEF CallerLeaves, EndMessage
<1>2. ASSUME NEW p \in Peers,
             \/ CalleeLeaves(p) \/ PhoneAnswers(p) \/ InviteAnswered(p)
             \/ RouteOutgoing(p) \/ ForkSettles(p)
      PROVE  cdr' = cdr
  BY <1>2 DEF CalleeLeaves, PhoneAnswers, InviteAnswered, RouteOutgoing, ForkSettles
<1>3. ASSUME NEW c \in Configs, UpdateConfig(c) PROVE cdr' = cdr
  BY <1>3 DEF UpdateConfig
<1>4. ASSUME NEW regs \in SUBSET Phones, RouteIncoming(regs) PROVE cdr' = cdr
  BY <1>4 DEF RouteIncoming
<1>5. CASE \/ RejectFiltered \/ AcceptInvite \/ OutsideHours \/ NoRegisteredPhones
           \/ InternalNotRegistered
  BY <1>5 DEF RejectFiltered, AcceptInvite, OutsideHours, NoRegisteredPhones, ToVoicemail,
              InternalNotRegistered
<1>6. CASE ForkReturns \/ NobodyAnswers \/ InviteFails \/ NobodyAnswersSecond
  BY <1>6 DEF ForkReturns, NobodyAnswers, InviteFails, NobodyAnswersSecond
<1>7. CASE \/ AnswerCaller \/ AnswerFirst \/ AnswerVoicemail
           \/ AnswerCallerFails \/ AnswerFirstFails \/ AnswerVoicemailFails
  BY <1>7 DEF AnswerCaller, AnswerFirst, AnswerVoicemail, AnswerCallerFails,
              AnswerFirstFails, AnswerVoicemailFails, AnswerFailsRecord
<1>8. CASE AnnounceToCaller \/ PlayVoicemailAnnouncement \/ NoMessage \/ StartMessage
  BY <1>8 DEF AnnounceToCaller, PlayVoicemailAnnouncement, NoMessage, StartMessage
<1>9. CASE \/ StartBridge \/ PlayAnnouncement \/ MediaFails \/ StartCopy
           \/ \E by \in {"caller", "callee"} : CopyEnds(by)
           \/ HangupBoth \/ CloseRecording \/ FinishCall \/ SaveFails
  BY <1>9 DEF StartBridge, PlayAnnouncement, MediaFails, StartCopy, CopyEnds, HangupBoth,
              CloseRecording, FinishCall, SaveFails
<1>10. QED
  BY <1>1, <1>2, <1>3, <1>4, <1>5, <1>6, <1>7, <1>8, <1>9 DEF Next, Environment, Handler

\* Before the answer no step starts a file, but in answer-first mode.
LEMMA UnansweredFiles ==
  ASSUME IInv, Next, ~WinnerToConnect, pc \notin TalkPlaces, ~cdr'.answered
  PROVE  /\ pc' \notin TalkPlaces
         /\ \/ rec' = rec /\ (rec = "none" \/ route' = route)
            \/ route' = "answerFirst"
<1> USE DEF At, Goto, TalkPlaces
<1>1. CASE CallerLeaves \/ \E c \in Configs : UpdateConfig(c)
  BY <1>1 DEF CallerLeaves, UpdateConfig, routing, files
<1>2. ASSUME NEW p \in Peers,
             CalleeLeaves(p) \/ PhoneAnswers(p) \/ InviteAnswered(p) \/ ForkSettles(p)
      PROVE  pc' \notin TalkPlaces /\ UNCHANGED <<rec, route>>
  BY <1>2 DEF CalleeLeaves, PhoneAnswers, InviteAnswered, ForkSettles, routing, files
<1>3. CASE \/ OutsideHours \/ NoRegisteredPhones \/ InternalNotRegistered
           \/ \E regs \in SUBSET Phones : RouteIncoming(regs)
           \/ \E p \in Peers : RouteOutgoing(p)
  <2>1. /\ pc \in {"incoming", "outgoing"} /\ rec' = rec
        /\ pc' \in {"vmAnswer", "finish", "answerFirst", "fork", "inviting"}
    BY <1>3
    DEF OutsideHours, NoRegisteredPhones, InternalNotRegistered, RouteIncoming,
        RouteOutgoing, ToVoicemail, files
  <2>2. rec = "none"
    BY <2>1 DEF IInv, FilesSettled, NotRecordedYet
  <2>3. QED
    BY <2>1, <2>2
<1>4. CASE \/ RejectFiltered \/ AcceptInvite \/ ForkReturns \/ NobodyAnswers \/ InviteFails
           \/ AnswerFirstFails \/ AnswerVoicemailFails \/ AnnounceToCaller
           \/ FinishCall \/ SaveFails
  BY <1>4
  DEF RejectFiltered, AcceptInvite, ForkReturns, NobodyAnswers, InviteFails,
      AnswerFirstFails, AnswerVoicemailFails, AnnounceToCaller, FinishCall, SaveFails,
      routing, files
<1>5. CASE AnswerFirst \/ NobodyAnswersSecond
  <2>1. /\ pc \in {"answerFirst", "forked"} /\ pc' \in {"announceCaller", "finish"}
        /\ route' = route /\ (pc = "forked" => route = "answerFirst")
    BY <1>5 DEF AnswerFirst, NobodyAnswersSecond, routing
  <2>2. QED
    BY <2>1 DEF IInv, RouteSettled
<1>6. ASSUME AnswerCaller \/ AnswerVoicemail \/ AnswerCallerFails PROVE cdr'.answered
  BY <1>6 DEF AnswerCaller, AnswerVoicemail, AnswerCallerFails, AnswerFailsRecord, IInv, TypeOK
<1>7. ASSUME \/ EndMessage \/ PlayVoicemailAnnouncement \/ NoMessage \/ StartMessage
             \/ StartBridge \/ PlayAnnouncement \/ MediaFails \/ StartCopy
             \/ \E by \in {"caller", "callee"} : CopyEnds(by)
             \/ HangupBoth \/ CloseRecording
      PROVE  pc \in TalkPlaces
  BY <1>7
  DEF EndMessage, PlayVoicemailAnnouncement, NoMessage, StartMessage, StartBridge,
      PlayAnnouncement, MediaFails, StartCopy, CopyEnds, HangupBoth, CloseRecording
<1>8. QED
  BY <1>1, <1>2, <1>3, <1>4, <1>5, <1>6, <1>7 DEF Next, Environment, Handler

LEMMA FilesAnswered ==
  ASSUME IInv, FileOfAnswered, Next
  PROVE  FileOfAnswered'
<1>1. CASE WinnerToConnect
  <2>1. /\ pc = "forked" /\ pc' \in {"bridge", "connect"}
        /\ route # "answerFirst" => pc' = "connect"
        /\ cdr'.answered = (route = "answerFirst")
        /\ UNCHANGED <<rec, route>>
    BY <1>1 DEF WinnerToConnect, At, Goto, routing, files, IInv, TypeOK
  <2>2. route # "answerFirst" => rec = "none"
    BY <2>1 DEF IInv, FilesSettled, NotRecordedYet
  <2>3. QED
    BY <2>1, <2>2 DEF FileOfAnswered, TalkPlaces
<1>2. CASE cdr'.answered
  BY <1>2 DEF FileOfAnswered
<1>3. CASE ~WinnerToConnect /\ ~cdr'.answered
  <2>1. ~cdr.answered
    BY <1>3, AnsweredKept
  <2>2. pc \notin TalkPlaces /\ (rec = "none" \/ route = "answerFirst")
    BY <2>1 DEF FileOfAnswered
  <2>3. /\ pc' \notin TalkPlaces
        /\ \/ rec' = rec /\ (rec = "none" \/ route' = route)
           \/ route' = "answerFirst"
    BY <1>3, <2>2, UnansweredFiles
  <2>4. QED
    BY <2>2, <2>3 DEF FileOfAnswered, TalkPlaces
<1>4. QED
  BY <1>1, <1>2, <1>3

-----------------------------------------------------------------------------
(***************************************************************************)
(* The theorems.                                                           *)
(***************************************************************************)
\* No SIGHUP has been counted yet.
LEMMA NotReloaded == 0 \in 0..MaxReloads
  BY MaxReloadsAssumption

\* The invariant holds when the INVITE comes in.
LEMMA InitIInv == Init => IInv
<1> SUFFICES ASSUME Init PROVE IInv
  OBVIOUS
<1>1. HandlerTyped
  <2>1. reloads \in 0..MaxReloads
    BY NotReloaded DEF Init
  <2>2. pc \in Places /\ route \in Routes /\ in \in CallerStates
    BY DEF Init, Places, Routes, CallerStates
  <2>3. QED
    BY <2>1, <2>2 DEF Init, HandlerTyped
<1>2. CallTyped
  BY DEF Init, Fork!Init, CallTyped, Fork!TypeOK, Fork!LegStates, HangupBy
<1>3. Settled
  BY DEF Init, Fork!Init, Settled, CallerSettled, Unanswered, Answered, RouteSettled,
         NoCallee, OneCallee, CalleeSettled, AnsweredAfterCallee, FilesSettled, NotRecordedYet,
         ScriptSeesFinishedFiles, AnnouncementSettled
<1>4. QED
  BY <1>1, <1>2, <1>3, Parts

\* A step that changes nothing leaves everything settled.
LEMMA StutterIInv ==
  ASSUME IInv, UNCHANGED vars
  PROVE  IInv'
<1>1. UNCHANGED <<pc, route, called, cfg, held, reloads, in, leg, chosen, returned, rec, saved,
                  script, heard, cdr, faults>>
  BY DEF vars, peers, config, routing, files
<1>2. TypeOK'
  BY <1>1 DEF IInv, TypeOK, Fork!TypeOK
<1>3. (CallerSettled /\ RouteSettled)'
  BY <1>1 DEF IInv, CallerSettled, RouteSettled, Unanswered, Answered
<1>4. CalleeSettled'
  BY <1>1, CalleeKept DEF IInv
<1>5. AnsweredAfterCallee'
  BY <1>1 DEF IInv, AnsweredAfterCallee
<1>6. (FilesSettled /\ ScriptSeesFinishedFiles)'
  BY <1>1 DEF IInv, FilesSettled, NotRecordedYet, ScriptSeesFinishedFiles
<1>7. AnnouncementSettled'
  BY <1>1 DEF IInv, AnnouncementSettled, Present, CalleeGone
<1>8. QED
  BY <1>2, <1>3, <1>4, <1>5, <1>6, <1>7 DEF IInv

\* The inductive invariant holds in every reachable state.
THEOREM CallInvariant == Spec => []IInv
<1>1. ASSUME IInv, Next PROVE IInv'
  <2>1. CASE Environment
    BY <1>1, <2>1, PartiesIInv DEF Environment
  <2>2. CASE Handler
    BY <1>1, <2>2, RoutingIInv, CalleeIInv, AnswerFirstIInv, VoicemailIInv, BridgeIInv, FinishIInv
    DEF Handler
  <2>3. QED
    BY <1>1, <2>1, <2>2 DEF Next
<1>2. IInv /\ [Next]_vars => IInv'
  BY <1>1, StutterIInv
<1>3. QED
  BY InitIInv, <1>2, PTL DEF Spec

\* Type correctness of a call, for any phones and any configurations.
THEOREM CallTypeOK == Spec => []TypeOK
<1>1. IInv => TypeOK
  BY DEF IInv
<1>2. QED
  BY <1>1, CallInvariant, PTL

\* The script starts when record and recording are finished, whatever failed and
\* whatever was reloaded (calls.go:488-495, 651-675).
THEOREM CallScriptSeesFinishedFiles == Spec => []ScriptSeesFinishedFiles
<1>1. IInv => ScriptSeesFinishedFiles
  BY DEF IInv
<1>2. QED
  BY <1>1, CallInvariant, PTL

\* A handler that is done leaves nobody in a session, but for the two errors that
\* NobodyLeftTalking names (calls.go:164-176, 505-523, 551-552).
THEOREM CallLeavesNobody == Spec => []NobodyLeftTalking
<1>1. IInv => NobodyLeftTalking
  BY DEF IInv, CallerSettled, CalleeSettled, NobodyLeftTalking
<1>2. QED
  BY <1>1, CallInvariant, PTL

\* Outside voicemail and answer-first mode the caller is answered after a callee
\* (calls.go:153-176, 338-361, 378-402).
THEOREM CallAnsweredAfterCallee == Spec => []AnsweredAfterCallee
<1>1. IInv => AnsweredAfterCallee
  BY DEF IInv
<1>2. QED
  BY <1>1, CallInvariant, PTL

\* If no file failed, and whatever was reloaded when, whoever is recorded under the
\* settings of normal mode has heard the announcement, and so has the caller who
\* was answered first (calls.go:192-243, 497-501).
THEOREM CallAnnounced == Spec => []RecordedAreAnnounced
<1>1. IInv /\ CallerHeard /\ [Next]_vars => CallerHeard'
  <2>1. CallerHeard /\ UNCHANGED vars => CallerHeard'
    BY DEF CallerHeard, vars, config, routing
  <2>2. QED
    BY <2>1, InListeners
<1>2. Init => CallerHeard
  BY DEF Init, CallerHeard
<1>3. IInv /\ CallerHeard => RecordedAreAnnounced
  <2>1. ASSUME IInv, CallerHeard, pc = "copy", "play" \notin faults,
               route = "answerFirst"
        PROVE  Present \cap {"caller"} \subseteq heard
    <3>1. in \in {"answered", "gone"}
      BY <2>1 DEF IInv, CallerSettled, Answered
    <3>2. CASE in = "gone"
      BY <3>2 DEF Present
    <3>3. CASE in = "answered"
      BY <2>1, <3>3 DEF CallerHeard
    <3>4. QED
      BY <3>1, <3>2, <3>3
  <2>2. QED
    BY <2>1 DEF IInv, AnnouncementSettled, RecordedAreAnnounced
<1>4. QED
  BY <1>1, <1>2, <1>3, CallInvariant, PTL DEF Spec

\* What the script gets for a call that was not answered is none, but for a call in
\* answer-first mode (calls.go:269-278, 668-672; README.md:236).
THEOREM CallUnansweredFile == Spec => []UnansweredFileIsAnswerFirst
<1>1. IInv /\ FileOfAnswered /\ [Next]_vars => FileOfAnswered'
  <2>1. FileOfAnswered /\ UNCHANGED vars => FileOfAnswered'
    BY DEF FileOfAnswered, vars, files, routing
  <2>2. QED
    BY <2>1, FilesAnswered
<1>2. Init => FileOfAnswered
  BY DEF Init, FileOfAnswered, TalkPlaces
<1>3. IInv /\ FileOfAnswered => UnansweredFileIsAnswerFirst
  BY DEF IInv, ScriptSeesFinishedFiles, FileOfAnswered, UnansweredFileIsAnswerFirst
<1>4. QED
  BY <1>1, <1>2, <1>3, CallInvariant, PTL DEF Spec

\* One final answer per INVITE (calls.go:69-75, 136, 156, 275, 324, 342, 386, 552).
THEOREM CallAnsweredOnce == Spec => OneFinalAnswer
<1> DEFINE Once == /\ in = "pending" => in' # "bye"
                   /\ in = "answered" => in' # "rejected"
                   /\ in \in {"rejected", "gone", "bye"} => in' = in
<1>1. ASSUME IInv, Next PROVE in' = in \/ Once
  <2> USE DEF At
  <2>1. CASE Environment
    <3>1. CASE CallerLeaves
      BY <3>1 DEF CallerLeaves
    <3>2. CASE EndMessage
      BY <1>1, <3>2 DEF EndMessage, HangupCaller, IInv, CallerSettled, Answered
    <3>3. ASSUME NEW p \in Peers, CalleeLeaves(p) \/ PhoneAnswers(p) \/ InviteAnswered(p)
          PROVE  in' = in
      BY <3>3 DEF CalleeLeaves, PhoneAnswers, InviteAnswered
    <3>4. ASSUME NEW c \in Configs, UpdateConfig(c) PROVE in' = in
      BY <3>4 DEF UpdateConfig
    <3>5. QED
      BY <2>1, <3>1, <3>2, <3>3, <3>4 DEF Environment
  <2>2. CASE Handler
    <3> USE <1>1 DEF IInv, CallerSettled, RouteSettled, Unanswered, Answered
    <3>1. CASE RejectFiltered
      BY <3>1 DEF RejectFiltered, RejectCaller, HangupCaller, AnswerOK
    <3>2. CASE NoRegisteredPhones
      BY <3>2 DEF NoRegisteredPhones, ToVoicemail, RejectCaller, HangupCaller, AnswerOK
    <3>3. CASE InternalNotRegistered
      BY <3>3 DEF InternalNotRegistered, RejectCaller, HangupCaller, AnswerOK
    <3>4. CASE NobodyAnswers
      BY <3>4 DEF NobodyAnswers, RejectCaller, HangupCaller, AnswerOK
    <3>5. CASE InviteFails
      BY <3>5 DEF InviteFails, RejectCaller, HangupCaller, AnswerOK
    <3>6. CASE AnswerCaller
      BY <3>6 DEF AnswerCaller, RejectCaller, HangupCaller, AnswerOK
    <3>7. CASE AnswerFirst
      BY <3>7 DEF AnswerFirst, RejectCaller, HangupCaller, AnswerOK
    <3>8. CASE NobodyAnswersSecond
      BY <3>8 DEF NobodyAnswersSecond, RejectCaller, HangupCaller, AnswerOK
    <3>9. CASE AnswerVoicemail
      BY <3>9 DEF AnswerVoicemail, RejectCaller, HangupCaller, AnswerOK
    <3>10. CASE NoMessage
      BY <3>10 DEF NoMessage, RejectCaller, HangupCaller, AnswerOK
    <3>11. CASE HangupBoth
      BY <3>11 DEF HangupBoth, RejectCaller, HangupCaller, AnswerOK
    <3>12. CASE \/ AnswerCallerFails \/ AnswerFirstFails \/ AnswerVoicemailFails
      BY <3>12 DEF AnswerCallerFails, AnswerFirstFails, AnswerVoicemailFails, AnswerFails
    <3>13. CASE AcceptInvite \/ OutsideHours \/ ForkReturns \/ WinnerToConnect
      BY <3>13 DEF AcceptInvite, OutsideHours, ToVoicemail, ForkReturns, WinnerToConnect
    <3>14. CASE AnnounceToCaller \/ PlayVoicemailAnnouncement \/ StartMessage
      BY <3>14 DEF AnnounceToCaller, PlayVoicemailAnnouncement, StartMessage
    <3>15. CASE StartBridge \/ PlayAnnouncement \/ MediaFails \/ StartCopy \/ CloseRecording
      BY <3>15 DEF StartBridge, PlayAnnouncement, MediaFails, StartCopy, CloseRecording
    <3>16. CASE FinishCall \/ SaveFails
      BY <3>16 DEF FinishCall, SaveFails
    <3>17. ASSUME NEW regs \in SUBSET Phones, RouteIncoming(regs) PROVE in' = in
      BY <3>17 DEF RouteIncoming
    <3>18. ASSUME NEW p \in Peers, RouteOutgoing(p) \/ ForkSettles(p) PROVE in' = in
      BY <3>18 DEF RouteOutgoing, ForkSettles
    <3>19. ASSUME NEW by \in {"caller", "callee"}, CopyEnds(by) PROVE in' = in
      BY <3>19 DEF CopyEnds
    <3>20. QED
      BY <2>2, <3>1, <3>2, <3>3, <3>4, <3>5, <3>6, <3>7, <3>8, <3>9, <3>10, <3>11, <3>12, <3>13,
         <3>14, <3>15, <3>16, <3>17, <3>18, <3>19
         DEF Handler
  <2>3. QED
    BY <1>1, <2>1, <2>2 DEF Next
<1>2. IInv /\ [Next]_vars => [Once]_in
  BY <1>1 DEF vars
<1>3. QED
  BY <1>2, CallInvariant, PTL DEF Spec, OneFinalAnswer

=============================================================================
