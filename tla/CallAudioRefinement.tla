------------------------- MODULE CallAudioRefinement -------------------------
(***************************************************************************)
(* Proof that the goroutines of CallAudio implement Conversation, for any  *)
(* limits of a message and any number of packets that wait.  Only six      *)
(* steps are seen there: a departure, the start of the copies, the end     *)
(* that the handler takes from the channel, the two hang-ups and the close *)
(* of the recording.                                                       *)
(***************************************************************************)
EXTENDS CallAudioProofs

\* What the conversation is seen by is left alone.
Unseen ==
    /\ UNCHANGED <<dialog, hangupBy, recorder>>
    /\ \A c \in Copies : at'[c] = "none" <=> at[c] = "none"
    /\ \/ pc' = pc
       \/ ~Bridged /\ pc \notin {"over", "bridge", "hangup"}
                   /\ pc' \notin {"over", "bridge", "hangup"}

LEMMA UnseenKeeps ==
  ASSUME Unseen
  PROVE  UNCHANGED Talk!conversationVars /\ (BridgeInOrder => BridgeInOrder')
<1>1. Bridged' <=> Bridged
  BY DEF Unseen, Bridged
<1>2. (pc' = "over") <=> (pc = "over")
  BY DEF Unseen
<1>3. \A p \in Copies : PartyOf(p)' = PartyOf(p)
  BY <1>1, <1>2 DEF PartyOf, Unseen
<1>4. UNCHANGED Talk!conversationVars
  BY <1>1, <1>2, <1>3 DEF Talk!conversationVars, Unseen
<1>5. BridgeInOrder => BridgeInOrder'
  BY <1>1, Kinds DEF BridgeInOrder, Unseen
<1>6. QED
  BY <1>4, <1>5

\* The steps nobody in the conversation notices.
LEMMA UnseenSteps ==
  ASSUME IInv,
         \/ PacketArrives \/ Tick \/ StopDrain \/ DrainAwaited \/ MediaFails
         \/ StartMessage \/ NoMessage \/ CalleeSpeaks \/ CopyRecords
         \/ TestLimits \/ MessageReadFails
         \/ \E c \in Copies : CopyWrites(c) \/ CopyFails(c) \/ CopySends(c)
         \/ \E d \in Drains : DrainTests(d) \/ DrainRecords(d) \/ DrainFails(d) \/ StartDrain(d)
         \/ \E g \in Goroutines \ {"callee"} : TakePacket(g)
         \/ \E packet \in {"sound", "silence", "junk"} : AddToMessage(packet)
  PROVE  Unseen
<1>0. TypeOK /\ EndsInOrder /\ MessageInOrder
  BY DEF IInv
<1>1. CASE PacketArrives \/ Tick \/ StopDrain \/ DrainAwaited \/ MediaFails \/ NoMessage
  <2>1. UNCHANGED <<dialog, hangupBy, recorder, at>>
    BY <1>1 DEF PacketArrives, Tick, StopDrain, DrainAwaited, MediaFails, NoMessage, bridge
  <2>2. \/ pc' = pc
        \/ pc \in {"ready", "play", "wait"} /\ pc' \in {"wait", "ready", "close", "hangupCaller"}
    BY <1>1
    DEF PacketArrives, Tick, StopDrain, DrainAwaited, MediaFails, NoMessage, HandOver, handler
  <2>3. QED
    BY <1>0, <2>1, <2>2 DEF Unseen, EndsInOrder
<1>2. CASE StartMessage
  <2>1. /\ pc = "ready" /\ pc' = "record" /\ Goto("message", "check")
        /\ UNCHANGED <<dialog, hangupBy, recorder>>
    BY <1>2 DEF StartMessage, HandOver, bridge
  <2>2. \A c \in Copies : at'[c] = at[c]
    BY <1>0, <2>1, OneMoves, Kinds
  <2>3. QED
    BY <1>0, <2>1, <2>2 DEF Unseen, EndsInOrder
<1>3. CASE \/ TestLimits \/ MessageReadFails
           \/ \E packet \in {"sound", "silence", "junk"} : AddToMessage(packet)
  <2>1. /\ pc = "record" /\ pc' \in {"record", "hangupCaller"}
        /\ \A c \in Copies : at'[c] = at[c]
        /\ UNCHANGED <<hangupBy, dialog, recorder>>
    BY <1>0, <1>3, MessageSteps, Kinds
  <2>2. QED
    BY <1>0, <2>1 DEF Unseen, EndsInOrder
<1>4. ASSUME NEW d \in Drains, DrainTests(d) \/ DrainRecords(d) \/ DrainFails(d)
      PROVE  Unseen
  BY <1>0, <1>4, DrainSteps, Kinds DEF DrainKeeps, Unseen
<1>5. ASSUME NEW d \in Drains, StartDrain(d) PROVE Unseen
  <2>1. /\ pc = "ready" /\ pc' = "play" /\ (Goto(d, "check") \/ Goto(d, "ended"))
        /\ UNCHANGED <<dialog, hangupBy, recorder>>
    BY <1>5 DEF StartDrain, bridge
  <2>2. \A c \in Copies : at'[c] = at[c]
    BY <1>0, <2>1, OneMoves, Kinds
  <2>3. QED
    BY <1>0, <2>1, <2>2 DEF Unseen, EndsInOrder
<1>6. ASSUME NEW g \in Goroutines \ {"callee"}, TakePacket(g) PROVE Unseen
  <2>1. /\ at[g] = "read" /\ Goto(g, "got")
        /\ UNCHANGED <<pc, dialog, hangupBy, recorder>>
    BY <1>6 DEF TakePacket, handler, bridge
  <2>2. at'[g] = "got" /\ \A h \in Goroutines : h # g => at'[h] = at[h]
    BY <1>0, <2>1, OneMoves
  <2>3. QED
    BY <2>1, <2>2, Kinds DEF Unseen
<1>7. ASSUME \/ CalleeSpeaks \/ CopyRecords
             \/ \E c \in Copies : CopyWrites(c) \/ CopyFails(c) \/ CopySends(c)
      PROVE  Unseen
  <2>1. /\ UNCHANGED <<pc, dialog, hangupBy, recorder>>
        /\ \E c \in Copies, place \in {"write", "read", "send", "ended"} :
              at[c] # "none" /\ Goto(c, place)
    BY <1>7, Kinds
    DEF CalleeSpeaks, CopyRecords, CopyWrites, CopyFails, CopySends, handler, bridge
  <2>2. PICK c \in Copies, place \in {"write", "read", "send", "ended"} :
           at[c] # "none" /\ Goto(c, place)
    BY <2>1
  <2>3. at'[c] = place /\ \A h \in Goroutines : h # c => at'[h] = at[h]
    BY <1>0, <2>2, OneMoves, Kinds
  <2>4. QED
    BY <2>1, <2>2, <2>3, Kinds DEF Unseen
<1>8. QED
  BY <1>1, <1>2, <1>3, <1>4, <1>5, <1>6, <1>7

-----------------------------------------------------------------------------
(***************************************************************************)
(* The steps that are seen.                                                *)
(***************************************************************************)
\* Where the parties of a bridged call are.
LEMMA PartiesSeen ==
  ASSUME IInv
  PROVE  /\ DOMAIN [p \in Copies |-> PartyOf(p)] = Talk!Parties
         /\ Talk!Parties = Copies
         /\ ~Bridged /\ pc # "over" => Talk!AllAre("apart")
         /\ pc = "over" => Talk!AllAre("parted")
         /\ Bridged /\ pc # "over" => [p \in Copies |-> PartyOf(p)] = dialog
<1>1. dialog \in [Copies -> {"none", "up", "left", "bye"}]
  BY DEF IInv, TypeOK
<1>2. Talk!Parties = Copies
  BY DEF Talk!Parties, Copies
<1>3. QED
  BY <1>1, <1>2 DEF Talk!AllAre, PartyOf

\* A departure is noticed in the bridge only.
LEMMA LeavesSeen ==
  ASSUME IInv, BridgeInOrder, NEW p \in Copies, Leaves(p)
  PROVE  [Talk!Next]_(Talk!conversationVars) /\ BridgeInOrder'
<1>1. dialog[p] = "up" /\ dialog' = [dialog EXCEPT ![p] = "left"]
  BY DEF Leaves, Up
<1>2. UNCHANGED <<pc, at, hangupBy, recorder>>
  BY DEF Leaves, handler, bridge
<1>3. Bridged' <=> Bridged
  BY <1>2 DEF Bridged
<1>4. dialog \in [Copies -> {"none", "up", "left", "bye"}]
  BY DEF IInv, TypeOK
<1>5. BridgeInOrder'
  BY <1>1, <1>2, <1>3, <1>4 DEF BridgeInOrder
<1>6. CASE Bridged /\ pc # "over"
  <2>1. [q \in Copies |-> PartyOf(q)] = dialog /\ [q \in Copies |-> PartyOf(q)'] = dialog'
    BY <1>1, <1>2, <1>3, <1>4, <1>6 DEF PartyOf
  <2>2. Talk!Leave(p)
    BY <1>1, <1>2, <1>3, <1>4, <1>6, <2>1 DEF Talk!Leave
  <2>3. QED
    BY <1>5, <2>2, PartiesSeen DEF Talk!Next
<1>7. CASE ~(Bridged /\ pc # "over")
  BY <1>2, <1>3, <1>5, <1>7 DEF Talk!conversationVars, PartyOf
<1>8. QED
  BY <1>6, <1>7

\* The copies start between two dialogs that have been answered.
LEMMA StartSeen ==
  ASSUME IInv, BridgeInOrder, StartBridge
  PROVE  [Talk!Next]_(Talk!conversationVars) /\ BridgeInOrder'
<1>1. /\ pc = "ready" /\ pc' = "bridge" /\ route # "voicemail"
      /\ at' = [g \in Goroutines |-> IF g \in Copies THEN "read" ELSE at[g]]
      /\ UNCHANGED <<hangupBy, dialog, recorder>>
  BY DEF StartBridge, HandOver, bridge
<1>2. /\ ~Bridged /\ hangupBy = "" /\ \A p \in Copies : dialog[p] \in {"up", "left"}
      /\ dialog \in [Copies -> {"none", "up", "left", "bye"}]
  BY <1>1 DEF IInv, TypeOK, EndsInOrder
<1>3. \A c \in Copies : at'[c] = "read"
  BY <1>1, Kinds
<1>4. Bridged'
  BY <1>3, Kinds DEF Bridged
<1>5. BridgeInOrder'
  BY <1>1, <1>2, <1>3, <1>4, Kinds DEF BridgeInOrder
<1>6. Talk!AllAre("apart")
  BY <1>1, <1>2, PartiesSeen
<1>7. [q \in Copies |-> PartyOf(q)'] = dialog
  BY <1>1, <1>2, <1>4 DEF PartyOf
<1>8. dialog \in [Talk!Parties -> {"up", "left"}]
  BY <1>2, PartiesSeen
<1>9. Talk!Join
  BY <1>1, <1>2, <1>6, <1>7, <1>8 DEF Talk!Join
<1>10. QED
  BY <1>5, <1>9 DEF Talk!Next

\* No phone answered: nobody has been in the conversation.
LEMMA NobodySeen ==
  ASSUME IInv, BridgeInOrder, NobodyAnswers
  PROVE  [Talk!Next]_(Talk!conversationVars) /\ BridgeInOrder'
<1>1. /\ pc = "ready" /\ pc' = "hangupCaller"
      /\ UNCHANGED <<at, hangupBy>>
  BY DEF NobodyAnswers, HandOver, bridge
<1>2. ~Bridged /\ ~Bridged'
  BY <1>1 DEF IInv, EndsInOrder, Bridged
<1>3. BridgeInOrder'
  BY <1>1, <1>2 DEF BridgeInOrder
<1>4. UNCHANGED Talk!conversationVars
  BY <1>1, <1>2 DEF Talk!conversationVars, PartyOf
<1>5. QED
  BY <1>3, <1>4

\* What comes out of the channel names a party, after a departure.
LEMMA EndSeen ==
  ASSUME IInv, BridgeInOrder, AwaitFirst
  PROVE  [Talk!Next]_(Talk!conversationVars) /\ BridgeInOrder'
<1>1. /\ pc = "bridge" /\ pc' = "hangup" /\ done # <<>> /\ hangupBy' = Head(done)
      /\ UNCHANGED <<at, dialog, recorder>>
  BY DEF AwaitFirst
<1>2. hangupBy' \in Copies
  <2>1. done \in Seq(Copies)
    BY DEF IInv, TypeOK
  <2>2. QED
    BY <1>1, <2>1
<1>3. hangupBy' # ""
  BY <1>2 DEF Copies
<1>4. Departed
  BY <1>1 DEF IInv, EndsInOrder
<1>5. Bridged /\ Bridged' /\ hangupBy = ""
  BY <1>1 DEF BridgeInOrder, Bridged
<1>6. BridgeInOrder'
  BY <1>1, <1>3, <1>5 DEF BridgeInOrder
<1>7. \A q \in Copies : PartyOf(q) = dialog[q] /\ PartyOf(q)' = dialog[q]
  BY <1>1, <1>5 DEF PartyOf
<1>8. \E p \in Talk!Parties : PartyOf(p) = "left" /\ p \in Copies
  BY <1>4, <1>7, PartiesSeen DEF Departed
<1>9. Talk!End(hangupBy')
  BY <1>1, <1>5, <1>7, <1>8 DEF Talk!End
<1>10. QED
  BY <1>2, <1>6, <1>9, PartiesSeen DEF Talk!Next

\* A hang-up reaches who is still there, and nobody who has left.
LEMMA HangupSeen ==
  ASSUME IInv, BridgeInOrder, NEW p \in Copies, Hangup(p),
         \/ pc = "hangup" /\ pc' = "hangupCaller"
         \/ pc = "hangupCaller" /\ pc' = "close",
         UNCHANGED <<at, hangupBy, recorder>>
  PROVE  [Talk!Next]_(Talk!conversationVars) /\ BridgeInOrder'
<1>1. dialog \in [Copies -> {"none", "up", "left", "bye"}]
  BY DEF IInv, TypeOK
<1>2. dialog' = [dialog EXCEPT ![p] = IF dialog[p] = "up" THEN "bye" ELSE dialog[p]]
  BY DEF Hangup
<1>3. Bridged' <=> Bridged
  BY DEF Bridged
<1>4. \A q \in Copies : dialog[q] # "none" => dialog'[q] # "none"
  BY <1>1, <1>2
<1>5. BridgeInOrder'
  BY <1>3, <1>4 DEF BridgeInOrder
<1>6. CASE ~Bridged
  BY <1>3, <1>5, <1>6 DEF Talk!conversationVars, PartyOf
<1>7. CASE Bridged /\ dialog[p] # "up"
  <2>1. dialog' = dialog
    BY <1>1, <1>2, <1>7
  <2>2. QED
    BY <1>3, <1>5, <2>1 DEF Talk!conversationVars, PartyOf
<1>8. CASE Bridged /\ dialog[p] = "up"
  <2>1. hangupBy # ""
    BY <1>8 DEF BridgeInOrder
  <2>2. \A q \in Copies : PartyOf(q) = dialog[q] /\ PartyOf(q)' = dialog'[q]
    BY <1>3, <1>8 DEF PartyOf
  <2>3. \A q \in Copies : dialog'[q] = IF q \in {p} THEN "bye" ELSE dialog[q]
    BY <1>1, <1>2, <1>8
  <2>4. [q \in Copies |-> PartyOf(q)'] =
           [q \in Talk!Parties |-> IF q \in {p} THEN "bye" ELSE [r \in Copies |-> PartyOf(r)][q]]
    BY <2>2, <2>3, PartiesSeen
  <2>5. Talk!HangUp({p})
    BY <1>3, <1>8, <2>1, <2>2, <2>4 DEF Talk!HangUp
  <2>6. {p} \in SUBSET Talk!Parties
    BY PartiesSeen
  <2>7. QED
    BY <1>5, <2>5, <2>6 DEF Talk!Next
<1>9. QED
  BY <1>6, <1>7, <1>8

\* The last step of the handler: nobody is in a session any more.
LEMMA CloseSeen ==
  ASSUME IInv, BridgeInOrder, CloseRecorder
  PROVE  [Talk!Next]_(Talk!conversationVars) /\ BridgeInOrder'
<1>1. pc = "close" /\ pc' = "over" /\ UNCHANGED <<at, dialog, hangupBy>>
  BY DEF CloseRecorder, bridge
<1>2. Bridged' <=> Bridged
  BY <1>1 DEF Bridged
<1>3. BridgeInOrder'
  BY <1>1, <1>2 DEF BridgeInOrder
<1>4. [q \in Copies |-> PartyOf(q)'] = [q \in Talk!Parties |-> "parted"]
  BY <1>1, PartiesSeen DEF PartyOf
<1>5. CASE Bridged
  <2>1. \A q \in Copies : PartyOf(q) = dialog[q]
    BY <1>1, <1>5 DEF PartyOf
  <2>2. \A q \in Copies : at[q] # "none"
    BY <1>5, Kinds DEF BridgeInOrder, Bridged
  <2>3. \A q \in Copies : ~Up(q)
    BY <1>1, <2>2, Kinds DEF IInv, ClosedInOrder
  <2>4. \A q \in Copies : dialog[q] \in {"left", "bye"}
    BY <1>5, <2>3 DEF IInv, TypeOK, BridgeInOrder, Up
  <2>5. hangupBy # ""
    BY <1>1, <1>5 DEF BridgeInOrder
  <2>6. Talk!Part
    BY <1>1, <1>4, <2>1, <2>4, <2>5, PartiesSeen DEF Talk!Part
  <2>7. QED
    BY <1>3, <2>6 DEF Talk!Next
<1>6. CASE ~Bridged
  <2>1. Talk!AllAre("apart")
    BY <1>1, <1>6, PartiesSeen
  <2>2. hangupBy = ""
    BY <1>6 DEF BridgeInOrder
  <2>3. QED
    BY <1>1, <1>2, <1>3, <1>4, <1>6, <2>1, <2>2 DEF Talk!Miss, Talk!Next
<1>7. QED
  BY <1>5, <1>6

-----------------------------------------------------------------------------
LEMMA InitSeen ==
  ASSUME Init
  PROVE  Talk!Init /\ BridgeInOrder
<1>1. /\ at = [g \in Goroutines |-> "none"] /\ pc = "ready" /\ hangupBy = ""
  BY DEF Init
<1>2. \A c \in Copies : at[c] = "none"
  BY <1>1, Kinds
<1>3. ~Bridged
  BY <1>2 DEF Bridged
<1>4. BridgeInOrder
  BY <1>1, <1>2, <1>3, Kinds DEF BridgeInOrder
<1>5. [q \in Copies |-> PartyOf(q)] = [q \in Talk!Parties |-> "apart"]
  BY <1>1, <1>3 DEF PartyOf, Talk!Parties, Copies
<1>6. QED
  BY <1>1, <1>3, <1>4, <1>5 DEF Talk!Init, Talk!AllAre

\* Every step of every goroutine is a step of the conversation, or none of it.
LEMMA AudioSteps ==
  ASSUME IInv, BridgeInOrder, Next
  PROVE  [Talk!Next]_(Talk!conversationVars) /\ BridgeInOrder'
<1>1. CASE StartBridge
  BY <1>1, StartSeen
<1>2. CASE NobodyAnswers
  BY <1>2, NobodySeen
<1>3. CASE AwaitFirst
  BY <1>3, EndSeen
<1>4. CASE HangupCallee
  <2>1. /\ pc = "hangup" /\ pc' = "hangupCaller" /\ Hangup("callee")
        /\ UNCHANGED <<at, hangupBy, recorder>>
    BY <1>4 DEF HangupCallee, bridge
  <2>2. QED
    BY <2>1, HangupSeen, Kinds
<1>5. CASE HangupCaller
  <2>1. /\ pc = "hangupCaller" /\ pc' = "close" /\ Hangup("caller")
        /\ UNCHANGED <<at, hangupBy, recorder>>
    BY <1>5 DEF HangupCaller, bridge
  <2>2. QED
    BY <2>1, HangupSeen, Kinds
<1>6. CASE CloseRecorder
  BY <1>6, CloseSeen
<1>7. CASE \E p \in Copies : Leaves(p)
  BY <1>7, LeavesSeen
<1>8. CASE Unseen
  BY <1>8, UnseenKeeps
<1>9. QED
  BY <1>1, <1>2, <1>3, <1>4, <1>5, <1>6, <1>7, <1>8, UnseenSteps, Steps

LEMMA StutterSeen ==
  ASSUME BridgeInOrder, UNCHANGED vars
  PROVE  UNCHANGED Talk!conversationVars /\ BridgeInOrder'
<1>1. UNCHANGED <<pc, at, hangupBy, dialog, recorder>>
  BY DEF vars, handler, bridge
<1>2. BridgeInOrder'
  BY <1>1 DEF BridgeInOrder, Bridged
<1>3. QED
  BY <1>1, <1>2 DEF Talk!conversationVars, PartyOf, Bridged

\* The copies start together between two answered dialogs, and who ended the
\* bridge is known from its end to the close of the recording (calls.go:534-552).
THEOREM AudioBridgeInOrder == Spec => []BridgeInOrder
<1>1. IInv /\ BridgeInOrder /\ [Next]_vars => BridgeInOrder'
  BY AudioSteps, StutterSeen
<1>2. QED
  BY InitSeen, <1>1, AudioInvariant, PTL DEF Spec

\* The bridge of calls.go:470-553, with its two copies, its channel and whatever
\* drains run beside it, implements Conversation: the parties are joined once, only
\* a departure ends the bridge, whoever is left is hung up, and the recording is
\* closed when nobody is in a session.
THEOREM AudioKeepsConversation == Spec => KeepsConversation
<1>1. IInv /\ BridgeInOrder /\ [Next]_vars => [Talk!Next]_(Talk!conversationVars)
  BY AudioSteps, StutterSeen
<1>2. Init => Talk!Init
  BY InitSeen
<1>3. QED
  BY <1>1, <1>2, AudioInvariant, AudioBridgeInOrder, PTL
  DEF Spec, KeepsConversation, Talk!Spec

-----------------------------------------------------------------------------
(***************************************************************************)
(* The channel of the bridge.                                              *)
(***************************************************************************)
\* No copy ends, and nothing goes through the channel.
Quiet ==
    /\ done' = done
    /\ \A c \in Copies : at'[c] = "ended" <=> at[c] = "ended"
    /\ pc' = "bridge" => pc = "bridge"

LEMMA QuietKeeps == RoomInOrder /\ Quiet => RoomInOrder'
  BY DEF RoomInOrder, Quiet

\* All steps but the start of the copies, what they send and what is received.
LEMMA QuietSteps ==
  ASSUME IInv, Next,
         ~StartBridge, ~AwaitFirst, \A c \in Copies : ~CopySends(c)
  PROVE  Quiet
<1>0. TypeOK /\ MessageInOrder
  BY DEF IInv
<1>1. CASE \/ PacketArrives \/ Tick \/ StopDrain \/ DrainAwaited \/ MediaFails \/ NoMessage
           \/ NobodyAnswers \/ HangupCallee \/ HangupCaller \/ CloseRecorder
           \/ \E p \in Copies : Leaves(p)
  BY <1>1
  DEF Quiet, PacketArrives, Tick, StopDrain, DrainAwaited, MediaFails, NoMessage,
      NobodyAnswers, HangupCallee, HangupCaller, CloseRecorder, Leaves, bridge, handler
<1>2. CASE StartMessage \/ \E d \in Drains : StartDrain(d)
  <2>1. /\ pc' \in {"record", "play"} /\ done' = done
        /\ \E g \in Drains \cup {"message"}, place \in {"check", "ended"} : Goto(g, place)
    BY <1>2 DEF StartMessage, StartDrain, bridge
  <2>2. \A c \in Copies : at'[c] = at[c]
    BY <1>0, <2>1, OneMoves, Kinds
  <2>3. QED
    BY <2>1, <2>2 DEF Quiet
<1>3. CASE \/ TestLimits \/ MessageReadFails
           \/ \E packet \in {"sound", "silence", "junk"} : AddToMessage(packet)
  BY <1>0, <1>3, MessageSteps, Kinds DEF Quiet
<1>4. ASSUME NEW d \in Drains, DrainTests(d) \/ DrainRecords(d) \/ DrainFails(d)
      PROVE  Quiet
  BY <1>0, <1>4, DrainSteps, Kinds DEF DrainKeeps, Quiet
<1>5. ASSUME NEW g \in Goroutines \ {"callee"}, TakePacket(g) PROVE Quiet
  <2>1. at[g] = "read" /\ Goto(g, "got") /\ UNCHANGED <<pc, done>>
    BY <1>5 DEF TakePacket, handler, bridge
  <2>2. at'[g] = "got" /\ \A h \in Goroutines : h # g => at'[h] = at[h]
    BY <1>0, <2>1, OneMoves
  <2>3. QED
    BY <2>1, <2>2, Kinds DEF Quiet
<1>6. ASSUME \/ CalleeSpeaks \/ CopyRecords
             \/ \E c \in Copies : CopyWrites(c) \/ CopyFails(c)
      PROVE  Quiet
  <2>1. /\ UNCHANGED <<pc, done>>
        /\ \E c \in Copies, place \in {"write", "read", "send"} :
              at[c] # "ended" /\ Goto(c, place)
    BY <1>6, Kinds DEF CalleeSpeaks, CopyRecords, CopyWrites, CopyFails, handler, bridge
  <2>2. PICK c \in Copies, place \in {"write", "read", "send"} :
           at[c] # "ended" /\ Goto(c, place)
    BY <2>1
  <2>3. at'[c] = place /\ \A h \in Goroutines : h # c => at'[h] = at[h]
    BY <1>0, <2>2, OneMoves, Kinds
  <2>4. QED
    BY <2>1, <2>2, <2>3, Kinds DEF Quiet
<1>7. QED
  BY <1>1, <1>2, <1>3, <1>4, <1>5, <1>6, Steps

LEMMA RoomKept ==
  ASSUME IInv, RoomInOrder, Next
  PROVE  RoomInOrder'
<1>0. TypeOK /\ done \in Seq(Copies)
  BY DEF IInv, TypeOK
<1>1. CASE StartBridge
  <2>1. /\ pc = "ready" /\ done' = done
        /\ at' = [g \in Goroutines |-> IF g \in Copies THEN "read" ELSE at[g]]
    BY <1>1 DEF StartBridge, HandOver, bridge
  <2>2. done = <<>>
    BY <2>1 DEF IInv, EndsInOrder
  <2>3. \A c \in Copies : at'[c] = "read"
    BY <2>1, Kinds
  <2>4. QED
    BY <2>1, <2>2, <2>3 DEF RoomInOrder
<1>2. CASE AwaitFirst
  <2>1. pc' = "hangup" /\ at' = at /\ done # <<>> /\ done' = Tail(done)
    BY <1>2 DEF AwaitFirst
  <2>2. Len(done') = Len(done) - 1 /\ Len(done) \in Nat
    BY <1>0, <2>1
  <2>3. QED
    BY <2>1, <2>2 DEF RoomInOrder
<1>3. ASSUME NEW c \in Copies, CopySends(c) PROVE RoomInOrder'
  <2>1. at[c] = "send" /\ Goto(c, "ended") /\ done' = Append(done, c)
    BY <1>3 DEF CopySends
  <2>2. at'[c] = "ended" /\ \A h \in Goroutines : h # c => at'[h] = at[h]
    BY <1>0, <2>1, OneMoves, Kinds
  <2>3. Len(done') = Len(done) + 1 /\ done' # <<>>
    BY <1>0, <2>1
  <2>4. ASSUME NEW d \in Copies, at'[d] # "ended" PROVE Len(done') <= 1
    <3>1. d # c /\ at[d] # "ended" /\ at[c] # "ended"
      BY <2>1, <2>2, <2>4, Kinds
    <3>2. \A e \in Copies : e = c \/ e = d
      BY <3>1, Kinds
    <3>3. done = <<>>
      BY <3>1, <3>2 DEF RoomInOrder
    <3>4. Len(done) = 0
      BY <3>3
    <3>5. QED
      BY <2>3, <3>4
  <2>5. QED
    BY <2>2, <2>3, <2>4 DEF RoomInOrder
<1>4. QED
  BY <1>1, <1>2, <1>3, QuietSteps, QuietKeeps

\* A copy is never held up by the channel, and a bridge is told of every copy that
\* has ended (calls.go:534-548): the safe half of GoroutinesEnd and of
\* DepartureEndsBridge.
THEOREM AudioChannelServes == Spec => []ChannelServes
<1>1. Init => RoomInOrder
  <2>1. ASSUME Init PROVE \A c \in Copies : at[c] = "none"
    BY <2>1, Kinds DEF Init
  <2>2. QED
    <3>1. ASSUME Init PROVE done = <<>> /\ pc = "ready" /\ Len(done) = 0
      BY <3>1 DEF Init
    <3>2. QED
      BY <2>1, <3>1, Kinds DEF RoomInOrder
<1>2. IInv /\ RoomInOrder /\ [Next]_vars => RoomInOrder'
  <2>1. RoomInOrder /\ UNCHANGED vars => RoomInOrder'
    BY DEF RoomInOrder, vars, handler, bridge
  <2>2. QED
    BY <2>1, RoomKept
<1>3. IInv /\ RoomInOrder => ChannelServes
  <2>1. ASSUME IInv, RoomInOrder, NEW c \in Copies, at[c] = "send" PROVE HasRoom
    <3>1. at[c] # "ended"
      BY <2>1
    <3>2. Len(done) <= 1
      BY <2>1, <3>1 DEF RoomInOrder
    <3>3. Len(done) \in Nat
      <4>1. done \in Seq(Copies)
        BY <2>1 DEF IInv, TypeOK
      <4>2. QED
        BY <4>1
    <3>4. QED
      BY <3>2, <3>3 DEF HasRoom
  <2>2. QED
    BY <2>1 DEF RoomInOrder, ChannelServes
<1>4. QED
  BY <1>1, <1>2, <1>3, AudioInvariant, PTL DEF Spec

=============================================================================
