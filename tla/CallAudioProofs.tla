---------------------------- MODULE CallAudioProofs ----------------------------
(***************************************************************************)
(* Proofs about CallAudio, for every limit of a message and any number of  *)
(* waiting packets.  IInv is preserved part by part; each part has a lemma *)
(* with one case per action, and the loops that disturb little (the copies,*)
(* the drains, the loop of a message) are one case through what their      *)
(* steps leave alone.                                                      *)
(***************************************************************************)
EXTENDS CallAudio, TLAPS

\* The actions of Next, one by one.
LEMMA Steps ==
  ASSUME Next
  PROVE  \/ PacketArrives \/ Tick \/ CalleeSpeaks \/ CopyRecords \/ TestLimits
         \/ MessageReadFails \/ StopDrain \/ DrainAwaited \/ StartBridge \/ MediaFails
         \/ NobodyAnswers \/ StartMessage \/ NoMessage \/ AwaitFirst \/ HangupCallee
         \/ HangupCaller \/ CloseRecorder
         \/ \E p \in Copies : Leaves(p) \/ CopyWrites(p) \/ CopyFails(p) \/ CopySends(p)
         \/ \E d \in Drains : DrainTests(d) \/ DrainRecords(d) \/ DrainFails(d) \/ StartDrain(d)
         \/ \E g \in Goroutines \ {"callee"} : TakePacket(g)
         \/ \E packet \in {"sound", "silence", "junk"} : AddToMessage(packet)
<1>1. CASE Environment
  BY <1>1 DEF Environment
<1>2. CASE Handler
  BY <1>2 DEF Handler
<1>3. CASE Message
  BY <1>3 DEF Message, Goroutines, Copies, Drains
<1>4. ASSUME NEW d \in Drains, Drain(d)
      PROVE  TakePacket(d) \/ DrainTests(d) \/ DrainRecords(d) \/ DrainFails(d)
  BY <1>4 DEF Drain
<1>5. ASSUME NEW c \in Copies, Copy(c)
      PROVE  \/ (c = "caller" /\ TakePacket(c)) \/ CopyRecords \/ CalleeSpeaks
             \/ CopyWrites(c) \/ CopyFails(c) \/ CopySends(c)
  BY <1>5 DEF Copy
<1>6. Drains \subseteq Goroutines \ {"callee"} /\ "caller" \in Goroutines \ {"callee"}
  BY DEF Goroutines, Drains, Copies
<1>7. QED
  BY <1>1, <1>2, <1>3, <1>4, <1>5, <1>6 DEF Next


\* The kinds of goroutines are not mixed up.
LEMMA Kinds ==
  /\ Drains \subseteq Goroutines /\ Copies \subseteq Goroutines
  /\ "message" \in Goroutines
  /\ "message" \notin Drains /\ "message" \notin Copies
  /\ \A d \in Drains : d \notin Copies
  /\ "caller" \in Copies /\ "callee" \in Copies
  /\ \A c \in Copies : c = "caller" \/ c = "callee"
  BY DEF Drains, Copies, Goroutines

\* Goto moves one goroutine and leaves the others where they are.
LEMMA OneMoves ==
  ASSUME TypeOK, NEW g \in Goroutines, NEW place, Goto(g, place)
  PROVE  at'[g] = place /\ \A h \in Goroutines : h # g => at'[h] = at[h]
  BY DEF TypeOK, Goto

\* The loop of a message moves nobody else, and the handler only from "record".
LEMMA MessageSteps ==
  ASSUME TypeOK, MessageInOrder,
         \/ TestLimits \/ MessageReadFails
         \/ \E packet \in {"sound", "silence", "junk"} : AddToMessage(packet)
  PROVE  /\ pc = "record" /\ pc' \in {"record", "hangupCaller"}
         /\ \A g \in Goroutines : g # "message" => at'[g] = at[g]
         /\ UNCHANGED <<route, current, stop, done, hangupBy, dialog, recorder, stolen, late>>
<1> USE DEF handler, bridge, clock
<1>1. CASE TestLimits
  <2>1. /\ at["message"] = "check"
        /\ Goto("message", "ended") \/ Goto("message", "read")
        /\ pc' \in {pc, "hangupCaller"}
        /\ UNCHANGED <<route, current, stop, done, hangupBy, dialog, recorder, stolen, late>>
    BY <1>1 DEF TestLimits
  <2>2. \A g \in Goroutines : g # "message" => at'[g] = at[g]
    BY <2>1, OneMoves, Kinds
  <2>3. QED
    BY <2>1, <2>2 DEF MessageInOrder
<1>2. CASE MessageReadFails
  <2>1. /\ at["message"] = "read" /\ Goto("message", "ended") /\ pc' = "hangupCaller"
        /\ UNCHANGED <<route, current, stop, done, hangupBy, dialog, recorder, stolen, late>>
    BY <1>2 DEF MessageReadFails
  <2>2. \A g \in Goroutines : g # "message" => at'[g] = at[g]
    BY <2>1, OneMoves, Kinds
  <2>3. QED
    BY <2>1, <2>2 DEF MessageInOrder
<1>3. CASE \E packet \in {"sound", "silence", "junk"} : AddToMessage(packet)
  <2>1. /\ at["message"] = "got" /\ Goto("message", "check") /\ pc' = pc
        /\ UNCHANGED <<route, current, stop, done, hangupBy, dialog, recorder, stolen, late>>
    BY <1>3 DEF AddToMessage
  <2>2. \A g \in Goroutines : g # "message" => at'[g] = at[g]
    BY <2>1, OneMoves, Kinds
  <2>3. QED
    BY <2>1, <2>2 DEF MessageInOrder
<1>4. QED
  BY <1>1, <1>2, <1>3

\* What a step of a copy leaves alone.
CopyKeeps == UNCHANGED <<route, pc, current, stop, hangupBy, dialog, recorder,
                         elapsed, quiet, stolen, overdue>>

\* The copies move only themselves.
LEMMA CopySteps ==
  ASSUME TypeOK,
         \/ CalleeSpeaks \/ CopyRecords
         \/ \E c \in Copies : CopyWrites(c) \/ CopyFails(c) \/ CopySends(c)
  PROVE  CopyKeeps /\ \A g \in Goroutines : g \notin Copies => at'[g] = at[g]
<1>1. PICK c \in Copies : CopyKeeps /\ \E place : Goto(c, place)
  <2> USE DEF CopyKeeps, handler, bridge, clock
  <2>1. CASE CalleeSpeaks
    BY <2>1, Kinds DEF CalleeSpeaks
  <2>2. CASE CopyRecords
    BY <2>2, Kinds DEF CopyRecords
  <2>3. ASSUME NEW c \in Copies, CopyWrites(c)
        PROVE  CopyKeeps /\ \E place : Goto(c, place)
    BY <2>3 DEF CopyWrites
  <2>4. ASSUME NEW c \in Copies, CopyFails(c) PROVE CopyKeeps /\ \E place : Goto(c, place)
    BY <2>4 DEF CopyFails
  <2>5. ASSUME NEW c \in Copies, CopySends(c) PROVE CopyKeeps /\ \E place : Goto(c, place)
    BY <2>5 DEF CopySends
  <2> HIDE DEF CopyKeeps
  <2>6. QED
    BY <2>1, <2>2, <2>3, <2>4, <2>5
<1>2. \A g \in Goroutines : g # c => at'[g] = at[g]
  BY <1>1, OneMoves, Kinds
<1>3. QED
  BY <1>1, <1>2

\* What a step of a drain leaves alone.
DrainKeeps == UNCHANGED <<route, pc, current, stop, done, hangupBy, dialog, queue, recorder,
                          elapsed, quiet, stolen, overdue>>

\* A drain moves only itself, and has been started.
LEMMA DrainSteps ==
  ASSUME TypeOK, NEW d \in Drains, DrainTests(d) \/ DrainRecords(d) \/ DrainFails(d)
  PROVE  DrainKeeps /\ \A g \in Goroutines : g # d => at'[g] = at[g]
<1>1. DrainKeeps /\ \E place : Goto(d, place)
  <2> USE DEF DrainKeeps, handler, bridge, clock
  <2>1. CASE DrainTests(d)
    BY <2>1 DEF DrainTests
  <2>2. CASE DrainRecords(d)
    BY <2>2 DEF DrainRecords
  <2>3. CASE DrainFails(d)
    BY <2>3 DEF DrainFails
  <2>4. QED
    BY <2>1, <2>2, <2>3
<1>2. QED
  BY <1>1, OneMoves, Kinds

\* A sample is counted.
LEMMA Recorded ==
  ASSUME late \in [Goroutines -> Nat], NEW g \in Goroutines, Record(g)
  PROVE  late' \in [Goroutines -> Nat]
  BY DEF Record

\* A sample that comes to an open recording is not late.
LEMMA Recording ==
  ASSUME late \in [Goroutines -> Nat], NEW g \in Goroutines, Record(g)
  PROVE  /\ \A h \in Goroutines : h # g => late'[h] = late[h]
         /\ \/ late'[g] = late[g]
            \/ recorder = "closed" /\ late'[g] = late[g] + 1
<1>1. CASE recorder = "closed"
  BY <1>1 DEF Record
<1>2. CASE recorder # "closed"
  BY <1>2 DEF Record
<1>3. QED
  BY <1>1, <1>2

\* The clock stops at the limit.
LEMMA Advanced ==
  ASSUME NEW limit \in Nat, NEW n \in 0..limit
  PROVE  Advance(n, limit) \in 0..limit
  BY DEF Advance

\* A packet is taken from those that wait.
LEMMA Taken ==
  ASSUME NEW n \in 0..Backlog, n > 0
  PROVE  n - 1 \in 0..Backlog
  BY BacklogAssumption

\* A packet taken after the hand-over is counted.
LEMMA Stolen ==
  ASSUME stolen \in [Drains -> Nat], NEW g \in Goroutines, TakePacket(g)
  PROVE  stolen' \in [Drains -> Nat]
<1>1. \/ stolen' = stolen
      \/ g \in Drains /\ stolen' = [stolen EXCEPT ![g] = @ + 1]
  BY DEF TakePacket
<1>2. QED
  BY <1>1

-----------------------------------------------------------------------------
(***************************************************************************)
(* Every step keeps the parts of IInv.                                     *)
(***************************************************************************)
\* The types.
LEMMA TypeKept ==
  ASSUME TypeOK, Next
  PROVE  TypeOK'
<1> USE DEF TypeOK, handler, bridge, clock, Places, Up
<1>1. CASE PacketArrives
  <2>1. queue \in 0..Backlog /\ queue < Backlog /\ queue' = queue + 1
    BY <1>1 DEF PacketArrives
  <2>2. queue' \in 0..Backlog
    BY ONLY <2>1, BacklogAssumption
  <2>3. QED
    BY <1>1, <2>2 DEF PacketArrives
<1>2. ASSUME NEW p \in Copies, Leaves(p) PROVE TypeOK'
  BY <1>2 DEF Leaves, Up
<1>3. CASE Tick
  <2>1. elapsed' \in 0..MaxDuration /\ quiet' \in 0..SilenceTimeout
    BY <1>3, Advanced, LimitsAssumption DEF Tick
  <2>2. QED
    BY <1>3, <2>1 DEF Tick
<1>4. ASSUME NEW g \in Goroutines \ {"callee"}, TakePacket(g) PROVE TypeOK'
  <2>1. at' = [at EXCEPT ![g] = "got"] /\ queue > 0 /\ queue' = queue - 1
    BY <1>4 DEF TakePacket, Goto
  <2>2. queue' \in 0..Backlog
    BY <2>1, Taken
  <2>3. stolen' \in [Drains -> Nat]
    BY <1>4, Stolen
  <2>4. at' \in [Goroutines -> {"none", "check", "read", "got", "write", "send", "ended"}]
    BY <2>1
  <2>5. UNCHANGED <<route, pc, current, stop, done, hangupBy, dialog, recorder, elapsed, quiet,
                    late, overdue>>
    BY <1>4 DEF TakePacket
  <2> HIDE DEF handler, bridge, clock
  <2>6. QED
    BY <2>2, <2>3, <2>4, <2>5
<1>5. ASSUME NEW d \in Drains, DrainTests(d) PROVE TypeOK'
  BY <1>5 DEF DrainTests, Goto
<1>6. ASSUME NEW d \in Drains, DrainRecords(d) PROVE TypeOK'
  <2>1. late' \in [Goroutines -> Nat]
    BY <1>6, Recorded, Kinds DEF DrainRecords
  <2>2. at' \in [Goroutines -> {"none", "check", "read", "got", "write", "send", "ended"}]
    BY <1>6 DEF DrainRecords, Goto
  <2>3. UNCHANGED <<route, pc, current, stop, done, hangupBy, dialog, queue, recorder,
                    elapsed, quiet, stolen, overdue>>
    BY <1>6 DEF DrainRecords
  <2>4. QED
    BY <2>1, <2>2, <2>3
<1>7. ASSUME NEW d \in Drains, DrainFails(d) PROVE TypeOK'
  BY <1>7 DEF DrainFails, Goto
<1>8. CASE CalleeSpeaks
  BY <1>8 DEF CalleeSpeaks, Goto
<1>9. CASE CopyRecords
  <2>1. late' \in [Goroutines -> Nat]
    BY <1>9, Recorded, Kinds DEF CopyRecords
  <2>2. at' \in [Goroutines -> {"none", "check", "read", "got", "write", "send", "ended"}]
    BY <1>9 DEF CopyRecords, Goto
  <2>3. UNCHANGED <<route, pc, current, stop, done, hangupBy, dialog, queue, recorder,
                    elapsed, quiet, stolen, overdue>>
    BY <1>9 DEF CopyRecords
  <2>4. QED
    BY <2>1, <2>2, <2>3
<1>10. ASSUME NEW c \in Copies, CopyWrites(c) PROVE TypeOK'
  <2>1. late' \in [Goroutines -> Nat]
    BY <1>10, Recorded, Kinds DEF CopyWrites
  <2>2. at' \in [Goroutines -> {"none", "check", "read", "got", "write", "send", "ended"}]
    BY <1>10 DEF CopyWrites, Goto
  <2>3. UNCHANGED <<route, pc, current, stop, done, hangupBy, dialog, queue, recorder,
                    elapsed, quiet, stolen, overdue>>
    BY <1>10 DEF CopyWrites
  <2>4. QED
    BY <2>1, <2>2, <2>3
<1>11. ASSUME NEW c \in Copies, CopyFails(c) PROVE TypeOK'
  BY <1>11 DEF CopyFails, Goto
<1>12. ASSUME NEW c \in Copies, CopySends(c) PROVE TypeOK'
  <2>1. done' \in Seq(Copies) /\ Len(done') <= 2
    <3>1. Len(done) < 2 /\ done \in Seq(Copies) /\ done' = Append(done, c)
      BY <1>12 DEF CopySends, HasRoom
    <3>2. QED
      BY ONLY <3>1, c \in Copies
  <2>2. at' \in [Goroutines -> {"none", "check", "read", "got", "write", "send", "ended"}]
    BY <1>12 DEF CopySends, Goto
  <2>3. UNCHANGED <<route, pc, current, stop, hangupBy, dialog, queue, recorder, elapsed,
                    quiet, stolen, late, overdue>>
    BY <1>12 DEF CopySends
  <2>4. QED
    BY <2>1, <2>2, <2>3
<1>13. CASE TestLimits
  BY <1>13 DEF TestLimits, Goto
<1>14. CASE \E packet \in {"sound", "silence", "junk"} : AddToMessage(packet)
  <2>1. PICK packet \in {"sound", "silence", "junk"} : AddToMessage(packet)
    BY <1>14
  <2>2. quiet' \in 0..SilenceTimeout /\ overdue' \in Nat
    <3>1. quiet' \in {0, quiet} /\ overdue' \in {0, overdue, overdue + 1}
      BY <2>1 DEF AddToMessage
    <3>2. quiet \in 0..SilenceTimeout /\ overdue \in Nat
      OBVIOUS
    <3>3. QED
      BY ONLY <3>1, <3>2, LimitsAssumption
  <2>3. at' \in [Goroutines -> {"none", "check", "read", "got", "write", "send", "ended"}]
    BY <2>1 DEF AddToMessage, Goto
  <2>4. UNCHANGED <<route, pc, current, stop, done, hangupBy, dialog, queue, recorder, elapsed,
                    stolen, late>>
    BY <2>1 DEF AddToMessage
  <2>5. QED
    BY <2>2, <2>3, <2>4
<1>15. CASE MessageReadFails
  BY <1>15 DEF MessageReadFails, Goto
<1>16. ASSUME NEW d \in Drains, StartDrain(d) PROVE TypeOK'
  BY <1>16 DEF StartDrain, Goto
<1>17. CASE StopDrain
  BY <1>17 DEF StopDrain
<1>18. CASE DrainAwaited
  BY <1>18 DEF DrainAwaited
<1>19. CASE StartBridge
  BY <1>19 DEF StartBridge, HandOver
<1>20. CASE MediaFails
  BY <1>20 DEF MediaFails, HandOver
<1>21. CASE NobodyAnswers
  BY <1>21 DEF NobodyAnswers, HandOver
<1>22. CASE StartMessage
  BY <1>22 DEF StartMessage, HandOver, Goto
<1>23. CASE NoMessage
  BY <1>23 DEF NoMessage, HandOver
<1>24. CASE AwaitFirst
  <2>1. hangupBy' \in Copies /\ done' \in Seq(Copies) /\ Len(done') <= 2
    <3>1. done # <<>> /\ hangupBy' = Head(done) /\ done' = Tail(done)
      BY <1>24 DEF AwaitFirst
    <3>2. done \in Seq(Copies) /\ Len(done) <= 2
      OBVIOUS
    <3>3. QED
      BY ONLY <3>1, <3>2
  <2>2. pc' = "hangup"
        /\ UNCHANGED <<route, current, stop, at, dialog, queue, recorder, elapsed, quiet, stolen,
                       late, overdue>>
    BY <1>24 DEF AwaitFirst
  <2>3. QED
    BY <2>1, <2>2
<1>25. CASE HangupCallee
  BY <1>25 DEF HangupCallee, Hangup
<1>26. CASE HangupCaller
  BY <1>26 DEF HangupCaller, Hangup
<1>27. CASE CloseRecorder
  BY <1>27 DEF CloseRecorder
<1>28. QED
  BY Steps, <1>1, <1>2, <1>3, <1>4, <1>5, <1>6, <1>7, <1>8, <1>9, <1>10, <1>11, <1>12, <1>13,
     <1>14, <1>15, <1>16, <1>17, <1>18, <1>19, <1>20, <1>21, <1>22, <1>23, <1>24, <1>25, <1>26,
     <1>27

\* A drain that is handed over never gets to a second packet.
LEMMA DrainsKept ==
  ASSUME TypeOK, DrainsInOrder, MessageInOrder, Next
  PROVE  DrainsInOrder'
<1> USE Kinds DEF TypeOK, DrainsInOrder, HandedOver, handler
<1>1. CASE PacketArrives
  BY <1>1 DEF PacketArrives
<1>2. ASSUME NEW p \in Copies, Leaves(p) PROVE DrainsInOrder'
  BY <1>2 DEF Leaves, Up
<1>3. CASE Tick
  BY <1>3 DEF Tick, Advance
<1>4. ASSUME NEW g \in Goroutines \ {"callee"}, TakePacket(g) PROVE DrainsInOrder'
  <2>1. /\ at[g] = "read" /\ Goto(g, "got") /\ UNCHANGED <<pc, current, stop>>
        /\ stolen' = IF g \in Drains /\ HandedOver(g)
                     THEN [stolen EXCEPT ![g] = stolen[g] + 1] ELSE stolen
    BY <1>4 DEF TakePacket, handler
  <2>2. at'[g] = "got" /\ \A h \in Goroutines : h # g => at'[h] = at[h]
    BY <2>1, OneMoves
  <2>3. DrainsInOrder /\ stop \subseteq Drains /\ stolen \in [Drains -> Nat] /\ current \in Drains
    OBVIOUS
  <2>4. Drains \subseteq Goroutines
    BY Kinds
  <2>5. CASE g \notin Drains
    BY ONLY <2>1, <2>2, <2>3, <2>4, <2>5 DEF DrainsInOrder, HandedOver
  <2>6. CASE g \in Drains
    <3>1. stolen[g] = 0
      BY ONLY <2>1, <2>3, <2>6 DEF DrainsInOrder
    <3>2. /\ \A d \in Drains : d # g => stolen'[d] = stolen[d]
          /\ stolen'[g] = 0 \/ (stolen'[g] = 1 /\ HandedOver(g))
      BY ONLY <2>1, <2>3, <2>6, <3>1
    <3>3. HandedOver(g)' = HandedOver(g)
      BY ONLY <2>1 DEF HandedOver
    <3>4. QED
      BY ONLY <2>1, <2>2, <2>3, <2>4, <2>6, <3>2 DEF DrainsInOrder, HandedOver
  <2>7. QED
    BY <2>5, <2>6
<1>5. ASSUME NEW d \in Drains, DrainTests(d) PROVE DrainsInOrder'
  BY <1>5 DEF DrainTests, Goto
<1>6. ASSUME NEW d \in Drains, DrainRecords(d) PROVE DrainsInOrder'
  BY <1>6 DEF DrainRecords, Goto, Record
<1>7. ASSUME NEW d \in Drains, DrainFails(d) PROVE DrainsInOrder'
  BY <1>7 DEF DrainFails, Goto
<1>8. CASE \/ CalleeSpeaks \/ CopyRecords
          \/ \E c \in Copies : CopyWrites(c) \/ CopyFails(c) \/ CopySends(c)
  <2>1. UNCHANGED <<pc, current, stop, stolen>> /\ \A g \in Drains : at'[g] = at[g]
    BY <1>8, CopySteps DEF CopyKeeps
  <2>2. DrainsInOrder /\ stop \subseteq Drains /\ current \in Drains
    OBVIOUS
  <2>3. QED
    BY ONLY <2>1, <2>2 DEF DrainsInOrder, HandedOver
<1>9. CASE \/ TestLimits \/ MessageReadFails
          \/ \E packet \in {"sound", "silence", "junk"} : AddToMessage(packet)
  <2>1. /\ pc = "record" /\ pc' \in {"record", "hangupCaller"}
        /\ \A g \in Drains : at'[g] = at[g]
        /\ UNCHANGED <<current, stop, stolen>>
    BY <1>9, MessageSteps
  <2>2. DrainsInOrder /\ stop \subseteq Drains
    OBVIOUS
  <2>3. QED
    BY ONLY <2>1, <2>2 DEF DrainsInOrder, HandedOver
<1>10. ASSUME NEW d \in Drains, StartDrain(d) PROVE DrainsInOrder'
  <2>1. /\ pc = "ready" /\ pc' = "play" /\ current' = d /\ at[d] = "none"
        /\ UNCHANGED <<stop, stolen>> /\ (Goto(d, "check") \/ Goto(d, "ended"))
    BY <1>10 DEF StartDrain
  <2>2. at'[d] \in {"check", "ended"} /\ \A e \in Drains : e # d => at'[e] = at[e]
    <3>1. d \in Goroutines /\ TypeOK
      BY Kinds
    <3>2. at'[d] \in {"check", "ended"} /\ \A h \in Goroutines : h # d => at'[h] = at[h]
      <4>1. CASE Goto(d, "check")
        BY ONLY <3>1, <4>1, OneMoves
      <4>2. CASE Goto(d, "ended")
        BY ONLY <3>1, <4>2, OneMoves
      <4>3. QED
        BY <2>1, <4>1, <4>2
    <3>3. QED
      BY ONLY <3>2, Kinds, d \in Drains
  <2>3. DrainsInOrder /\ stop \subseteq Drains
    OBVIOUS
  <2>4. QED
    BY ONLY <2>1, <2>2, <2>3, d \in Drains DEF DrainsInOrder, HandedOver
<1>11. CASE StopDrain
  BY <1>11 DEF StopDrain
<1>12. CASE DrainAwaited
  BY <1>12 DEF DrainAwaited
<1>13. CASE StartBridge
  BY <1>13 DEF StartBridge, HandOver
<1>14. CASE MediaFails
  BY <1>14 DEF MediaFails, HandOver
<1>15. CASE NobodyAnswers
  BY <1>15 DEF NobodyAnswers, HandOver
<1>16. CASE StartMessage
  BY <1>16 DEF StartMessage, HandOver, Goto
<1>17. CASE NoMessage
  BY <1>17 DEF NoMessage, HandOver
<1>18. CASE AwaitFirst
  BY <1>18 DEF AwaitFirst
<1>19. CASE HangupCallee
  BY <1>19 DEF HangupCallee, Hangup
<1>20. CASE HangupCaller
  BY <1>20 DEF HangupCaller, Hangup
<1>21. CASE CloseRecorder
  BY <1>21 DEF CloseRecorder
<1>22. QED
  BY Steps, <1>1, <1>2, <1>3, <1>4, <1>5, <1>6, <1>7, <1>8, <1>9, <1>10, <1>11, <1>12, <1>13,
     <1>14, <1>15, <1>16, <1>17, <1>18, <1>19, <1>20, <1>21

\* Nothing but a departure ends the bridge.
LEMMA EndsKept ==
  ASSUME TypeOK, EndsInOrder, MessageInOrder, Next
  PROVE  EndsInOrder'
<1> USE Kinds DEF TypeOK, EndsInOrder, Departed, Bridged, Up, handler, bridge, Drains, Copies
<1>1. CASE PacketArrives
  BY <1>1 DEF PacketArrives
<1>2. ASSUME NEW p \in Copies, Leaves(p) PROVE EndsInOrder'
  BY <1>2 DEF Leaves, Up
<1>3. CASE Tick
  BY <1>3 DEF Tick, Advance
<1>4. ASSUME NEW g \in Goroutines \ {"callee"}, TakePacket(g) PROVE EndsInOrder'
  BY <1>4 DEF TakePacket, Goto
<1>5. ASSUME NEW d \in Drains, DrainTests(d) \/ DrainRecords(d) \/ DrainFails(d)
      PROVE  EndsInOrder'
  BY <1>5, DrainSteps DEF DrainKeeps
<1>6. CASE CalleeSpeaks
  BY <1>6 DEF CalleeSpeaks, Goto
<1>7. CASE CopyRecords
  BY <1>7 DEF CopyRecords, Goto, Record
<1>8. ASSUME NEW c \in Copies, CopyWrites(c) PROVE EndsInOrder'
  BY <1>8 DEF CopyWrites, Goto, Record, Other
<1>9. ASSUME NEW c \in Copies, CopyFails(c) PROVE EndsInOrder'
  BY <1>9 DEF CopyFails, Goto
<1>10. ASSUME NEW c \in Copies, CopySends(c) PROVE EndsInOrder'
  BY <1>10 DEF CopySends, Goto, HasRoom
<1>11. CASE \/ TestLimits \/ MessageReadFails
          \/ \E packet \in {"sound", "silence", "junk"} : AddToMessage(packet)
  <2>1. /\ pc = "record" /\ pc' \in {"record", "hangupCaller"}
        /\ \A c \in Copies : at'[c] = at[c]
        /\ UNCHANGED <<route, done, hangupBy, dialog>>
    BY <1>11, MessageSteps
  <2>2. EndsInOrder
    OBVIOUS
  <2>3. QED
    BY ONLY <2>1, <2>2 DEF EndsInOrder, Departed, Bridged, Up
<1>12. ASSUME NEW d \in Drains, StartDrain(d) PROVE EndsInOrder'
  <2>1. /\ pc = "ready" /\ pc' = "play" /\ (Goto(d, "check") \/ Goto(d, "ended"))
        /\ UNCHANGED <<route, done, hangupBy, dialog>>
    BY <1>12 DEF StartDrain, bridge
  <2>2. \A c \in Copies : at'[c] = at[c]
    <3>1. d \in Goroutines /\ TypeOK
      BY Kinds
    <3>2. at'[d] \in {"check", "ended"} /\ \A h \in Goroutines : h # d => at'[h] = at[h]
      <4>1. CASE Goto(d, "check")
        BY ONLY <3>1, <4>1, OneMoves
      <4>2. CASE Goto(d, "ended")
        BY ONLY <3>1, <4>2, OneMoves
      <4>3. QED
        BY <2>1, <4>1, <4>2
    <3>3. QED
      BY ONLY <3>2, Kinds, d \in Drains
  <2>3. EndsInOrder
    OBVIOUS
  <2>4. QED
    BY ONLY <2>1, <2>2, <2>3 DEF EndsInOrder, Departed, Bridged, Up
<1>13. CASE StopDrain
  BY <1>13 DEF StopDrain
<1>14. CASE DrainAwaited
  BY <1>14 DEF DrainAwaited
<1>15. CASE StartBridge
  BY <1>15 DEF StartBridge, HandOver
<1>16. CASE MediaFails
  BY <1>16 DEF MediaFails, HandOver
<1>17. CASE NobodyAnswers
  BY <1>17 DEF NobodyAnswers, HandOver
<1>18. CASE StartMessage
  BY <1>18 DEF StartMessage, HandOver, Goto
<1>19. CASE NoMessage
  BY <1>19 DEF NoMessage, HandOver
<1>20. CASE AwaitFirst
  BY <1>20 DEF AwaitFirst
<1>21. CASE HangupCallee
  BY <1>21 DEF HangupCallee, Hangup
<1>22. CASE HangupCaller
  BY <1>22 DEF HangupCaller, Hangup
<1>23. CASE CloseRecorder
  BY <1>23 DEF CloseRecorder
<1>24. QED
  BY Steps, <1>1, <1>2, <1>3, <1>4, <1>5, <1>6, <1>7, <1>8, <1>9, <1>10, <1>11, <1>12, <1>13,
     <1>14, <1>15, <1>16, <1>17, <1>18, <1>19, <1>20, <1>21, <1>22, <1>23

\* The recording is closed at the end.
LEMMA ClosedKept ==
  ASSUME TypeOK, EndsInOrder, ClosedInOrder, MessageInOrder, Next
  PROVE  ClosedInOrder'
<1> USE Kinds DEF TypeOK, ClosedInOrder, Up, handler
<1>1. CASE PacketArrives
  BY <1>1 DEF PacketArrives
<1>2. ASSUME NEW p \in Copies, Leaves(p) PROVE ClosedInOrder'
  BY <1>2 DEF Leaves, Up
<1>3. CASE Tick
  BY <1>3 DEF Tick, Advance
<1>4. ASSUME NEW g \in Goroutines \ {"callee"}, TakePacket(g) PROVE ClosedInOrder'
  BY <1>4 DEF TakePacket, Goto
<1>5. ASSUME NEW d \in Drains, DrainTests(d) \/ DrainRecords(d) \/ DrainFails(d)
      PROVE  ClosedInOrder'
  <2>1. UNCHANGED <<pc, recorder, dialog>> /\ \A c \in Copies : at'[c] = at[c]
    BY <1>5, DrainSteps DEF DrainKeeps
  <2>2. ClosedInOrder /\ "caller" \in Copies /\ "callee" \in Copies
    OBVIOUS
  <2>3. QED
    BY ONLY <2>1, <2>2 DEF ClosedInOrder, Up
<1>6. CASE CalleeSpeaks
  BY <1>6 DEF CalleeSpeaks, Goto
<1>7. CASE CopyRecords
  BY <1>7 DEF CopyRecords, Goto, Record
<1>8. ASSUME NEW c \in Copies, CopyWrites(c) PROVE ClosedInOrder'
  BY <1>8 DEF CopyWrites, Goto, Record, Other
<1>9. ASSUME NEW c \in Copies, CopyFails(c) PROVE ClosedInOrder'
  BY <1>9 DEF CopyFails, Goto
<1>10. ASSUME NEW c \in Copies, CopySends(c) PROVE ClosedInOrder'
  BY <1>10 DEF CopySends, Goto, HasRoom
<1>11. CASE \/ TestLimits \/ MessageReadFails
          \/ \E packet \in {"sound", "silence", "junk"} : AddToMessage(packet)
  <2>1. /\ pc = "record" /\ pc' \in {"record", "hangupCaller"} /\ UNCHANGED recorder
        /\ \A c \in Copies : at'[c] = at[c]
    BY <1>11, MessageSteps
  <2>2. \A c \in Copies : at'[c] = "none"
    BY <2>1 DEF EndsInOrder, Bridged
  <2>3. recorder # "closed" /\ "callee" \in Copies
    BY <2>1 DEF ClosedInOrder
  <2>4. QED
    BY ONLY <2>1, <2>2, <2>3 DEF ClosedInOrder, Up
<1>12. ASSUME NEW d \in Drains, StartDrain(d) PROVE ClosedInOrder'
  BY <1>12 DEF StartDrain, Goto
<1>13. CASE StopDrain
  BY <1>13 DEF StopDrain
<1>14. CASE DrainAwaited
  BY <1>14 DEF DrainAwaited
<1>15. CASE StartBridge
  BY <1>15 DEF StartBridge, HandOver
<1>16. CASE MediaFails
  <2>1. pc = "ready" /\ UNCHANGED at
    BY <1>16 DEF MediaFails, HandOver
  <2>2. at'["caller"] = "none" /\ at'["callee"] = "none"
    BY <2>1, Kinds DEF EndsInOrder, Bridged
  <2>3. pc' \in {"hangupCaller", "close"} /\ \A c \in Copies : c \in {"caller", "callee"}
    BY <1>16, Kinds DEF MediaFails
  <2>4. QED
    BY ONLY <2>2, <2>3 DEF ClosedInOrder, Up
<1>17. CASE NobodyAnswers
  <2>1. pc = "ready" /\ UNCHANGED at
    BY <1>17 DEF NobodyAnswers, HandOver
  <2>2. at'["caller"] = "none" /\ at'["callee"] = "none"
    BY <2>1, Kinds DEF EndsInOrder, Bridged
  <2>3. pc' \in {"hangupCaller", "close"} /\ \A c \in Copies : c \in {"caller", "callee"}
    BY <1>17, Kinds DEF NobodyAnswers
  <2>4. QED
    BY ONLY <2>2, <2>3 DEF ClosedInOrder, Up
<1>18. CASE StartMessage
  BY <1>18 DEF StartMessage, HandOver, Goto
<1>19. CASE NoMessage
  <2>1. pc = "ready" /\ UNCHANGED at
    BY <1>19 DEF NoMessage, HandOver
  <2>2. at'["caller"] = "none" /\ at'["callee"] = "none"
    BY <2>1, Kinds DEF EndsInOrder, Bridged
  <2>3. pc' \in {"hangupCaller", "close"} /\ \A c \in Copies : c \in {"caller", "callee"}
    BY <1>19, Kinds DEF NoMessage
  <2>4. QED
    BY ONLY <2>2, <2>3 DEF ClosedInOrder, Up
<1>20. CASE AwaitFirst
  BY <1>20 DEF AwaitFirst
<1>21. CASE HangupCallee
  <2>1. pc = "hangup" /\ pc' = "hangupCaller" /\ UNCHANGED <<at, recorder>>
    BY <1>21 DEF HangupCallee
  <2>2. dialog'["callee"] # "up"
    <3>1. dialog' = [dialog EXCEPT !["callee"] = IF dialog["callee"] = "up" THEN "bye"
                                                 ELSE dialog["callee"]]
      BY <1>21 DEF HangupCallee, Hangup
    <3>2. dialog \in [Copies -> {"none", "up", "left", "bye"}] /\ "callee" \in Copies
      OBVIOUS
    <3>3. QED
      BY ONLY <3>1, <3>2
  <2>3. recorder # "closed"
    BY <2>1 DEF ClosedInOrder
  <2>4. QED
    BY ONLY <2>1, <2>2, <2>3 DEF ClosedInOrder, Up
<1>22. CASE HangupCaller
  BY <1>22 DEF HangupCaller, Hangup
<1>23. CASE CloseRecorder
  BY <1>23 DEF CloseRecorder
<1>24. QED
  BY Steps, <1>1, <1>2, <1>3, <1>4, <1>5, <1>6, <1>7, <1>8, <1>9, <1>10, <1>11, <1>12, <1>13,
     <1>14, <1>15, <1>16, <1>17, <1>18, <1>19, <1>20, <1>21, <1>22, <1>23

\* Nobody brings a second sample after the close.
LEMMA SamplesKept ==
  ASSUME TypeOK, DrainsInOrder, EndsInOrder, ClosedInOrder, SamplesInOrder, MessageInOrder, Next
  PROVE  SamplesInOrder'
<1> USE Kinds DEF TypeOK, SamplesInOrder, Up, handler
<1>1. CASE PacketArrives
  BY <1>1 DEF PacketArrives
<1>2. ASSUME NEW p \in Copies, Leaves(p) PROVE SamplesInOrder'
  <2>1. UNCHANGED <<at, late, recorder>>
    BY <1>2 DEF Leaves
  <2>2. \A q \in Copies : dialog[q] # "up" => dialog'[q] # "up"
    BY <1>2 DEF Leaves
  <2>3. SamplesInOrder
    OBVIOUS
  <2>4. QED
    BY ONLY <2>1, <2>2, <2>3, Kinds DEF SamplesInOrder, Up
<1>3. CASE Tick
  BY <1>3 DEF Tick, Advance
<1>4. ASSUME NEW g \in Goroutines \ {"callee"}, TakePacket(g) PROVE SamplesInOrder'
  <2>1. at[g] = "read" /\ Goto(g, "got") /\ Up("caller") /\ UNCHANGED <<dialog, recorder, late>>
    BY <1>4 DEF TakePacket, handler
  <2>2. \A h \in Goroutines : h # g => at'[h] = at[h]
    BY <1>4, OneMoves DEF TakePacket
  <2>3. SamplesInOrder /\ ClosedInOrder /\ late \in [Goroutines -> Nat]
    OBVIOUS
  <2>4. late[g] = 0
    BY ONLY <2>1, <2>3, g \in Goroutines \ {"callee"} DEF SamplesInOrder, Goroutines, Copies, Up
  <2>5. QED
    BY ONLY <2>1, <2>2, <2>3, <2>4, Kinds DEF SamplesInOrder, Up
<1>5. ASSUME NEW d \in Drains, DrainTests(d) PROVE SamplesInOrder'
  <2>1. Goto(d, IF d \in stop THEN "ended" ELSE "read") /\ at[d] = "check"
        /\ UNCHANGED <<dialog, recorder, late>>
    BY <1>5 DEF DrainTests
  <2>2. at'[d] = (IF d \in stop THEN "ended" ELSE "read")
        /\ \A h \in Goroutines : h # d => at'[h] = at[h]
    <3>1. d \in Goroutines /\ TypeOK
      BY Kinds
    <3>2. QED
      BY ONLY <2>1, <3>1, OneMoves
  <2>3. recorder = "closed" => d \in stop
    BY <2>1 DEF DrainsInOrder, ClosedInOrder
  <2>4. SamplesInOrder
    OBVIOUS
  <2>5. QED
    BY ONLY <2>1, <2>2, <2>3, <2>4, Kinds DEF SamplesInOrder, Up
<1>6. ASSUME NEW d \in Drains, DrainRecords(d) PROVE SamplesInOrder'
  <2>1. at[d] = "got" /\ Goto(d, "check") /\ Record(d) /\ UNCHANGED <<dialog, recorder>>
    BY <1>6 DEF DrainRecords
  <2>2. at'[d] = "check" /\ \A h \in Goroutines : h # d => at'[h] = at[h]
    BY <2>1, OneMoves
  <2>3. /\ \A h \in Goroutines : h # d => late'[h] = late[h]
        /\ \/ late'[d] = late[d]
           \/ recorder = "closed" /\ late'[d] = late[d] + 1
    BY <2>1, Recording
  <2>4. late[d] = 0
    BY <2>1 DEF SamplesInOrder
  <2>5. SamplesInOrder
    OBVIOUS
  <2>6. QED
    BY ONLY <2>1, <2>2, <2>3, <2>4, <2>5, Kinds DEF SamplesInOrder, Up
<1>7. ASSUME NEW d \in Drains, DrainFails(d) PROVE SamplesInOrder'
  BY <1>7 DEF DrainFails, Goto
<1>8. CASE CalleeSpeaks
  <2>1. Goto("callee", "write") /\ Up("callee") /\ UNCHANGED <<dialog, recorder, late>>
    BY <1>8 DEF CalleeSpeaks
  <2>2. \A h \in Goroutines : h # "callee" => at'[h] = at[h]
    BY <2>1, OneMoves
  <2>3. SamplesInOrder
    OBVIOUS
  <2>4. QED
    BY ONLY <2>1, <2>2, <2>3, Kinds DEF SamplesInOrder, Up
<1>9. CASE CopyRecords
  <2>1. at["caller"] = "got" /\ Goto("caller", "write") /\ Record("caller")
        /\ UNCHANGED <<dialog, recorder>>
    BY <1>9 DEF CopyRecords
  <2>2. at'["caller"] = "write" /\ \A h \in Goroutines : h # "caller" => at'[h] = at[h]
    BY <2>1, OneMoves
  <2>3. /\ \A h \in Goroutines : h # "caller" => late'[h] = late[h]
        /\ \/ late'["caller"] = late["caller"]
           \/ recorder = "closed" /\ late'["caller"] = late["caller"] + 1
    BY <2>1, Recording
  <2>4. late["caller"] = 0 /\ (recorder = "closed" => ~Up("caller"))
    BY <2>1 DEF SamplesInOrder, ClosedInOrder
  <2>5. SamplesInOrder
    OBVIOUS
  <2>6. QED
    BY ONLY <2>1, <2>2, <2>3, <2>4, <2>5, Kinds DEF SamplesInOrder, Up
<1>10. ASSUME NEW c \in Copies, CopyWrites(c) PROVE SamplesInOrder'
  <2>1. at[c] = "write" /\ (Goto(c, "read") \/ Goto(c, "send")) /\ UNCHANGED <<dialog, recorder>>
    BY <1>10 DEF CopyWrites
  <2>2. at'[c] \in {"read", "send"} /\ \A h \in Goroutines : h # c => at'[h] = at[h]
    <3>1. c \in Goroutines /\ TypeOK
      BY Kinds
    <3>2. CASE Goto(c, "read")
      BY ONLY <3>1, <3>2, OneMoves
    <3>3. CASE Goto(c, "send")
      BY ONLY <3>1, <3>3, OneMoves
    <3>4. QED
      BY <2>1, <3>2, <3>3
  <2>3. SamplesInOrder
    OBVIOUS
  <2>4. CASE c = "caller"
    <3>1. UNCHANGED late
      BY <1>10, <2>4 DEF CopyWrites
    <3>2. QED
      BY ONLY <2>1, <2>2, <2>3, <2>4, <3>1, Kinds DEF SamplesInOrder, Up
  <2>5. CASE c = "callee"
    <3>1. Record("callee")
      BY <1>10, <2>5 DEF CopyWrites
    <3>2. /\ \A h \in Goroutines : h # "callee" => late'[h] = late[h]
          /\ \/ late'["callee"] = late["callee"]
             \/ recorder = "closed" /\ late'["callee"] = late["callee"] + 1
      BY <3>1, Recording
    <3>3. late["callee"] = 0 /\ (recorder = "closed" => ~Up("callee"))
      BY <2>1, <2>5 DEF SamplesInOrder, ClosedInOrder
    <3>4. QED
      BY ONLY <2>1, <2>2, <2>3, <2>5, <3>2, <3>3, Kinds DEF SamplesInOrder, Up
  <2>6. QED
    BY <2>4, <2>5
<1>11. ASSUME NEW c \in Copies, CopyFails(c) PROVE SamplesInOrder'
  <2>1. Goto(c, "send") /\ UNCHANGED <<dialog, recorder, late>>
    BY <1>11 DEF CopyFails
  <2>2. at'[c] = "send" /\ \A h \in Goroutines : h # c => at'[h] = at[h]
    <3>1. c \in Goroutines /\ TypeOK
      BY Kinds
    <3>2. QED
      BY ONLY <2>1, <3>1, OneMoves
  <2>3. SamplesInOrder
    OBVIOUS
  <2>4. QED
    BY ONLY <2>1, <2>2, <2>3, c \in Copies, Kinds DEF SamplesInOrder, Up
<1>12. ASSUME NEW c \in Copies, CopySends(c) PROVE SamplesInOrder'
  <2>1. Goto(c, "ended") /\ UNCHANGED <<dialog, recorder, late>>
    BY <1>12 DEF CopySends
  <2>2. at'[c] = "ended" /\ \A h \in Goroutines : h # c => at'[h] = at[h]
    <3>1. c \in Goroutines /\ TypeOK
      BY Kinds
    <3>2. QED
      BY ONLY <2>1, <3>1, OneMoves
  <2>3. SamplesInOrder
    OBVIOUS
  <2>4. QED
    BY ONLY <2>1, <2>2, <2>3, c \in Copies, Kinds DEF SamplesInOrder, Up
<1>13. CASE \/ TestLimits \/ MessageReadFails
          \/ \E packet \in {"sound", "silence", "junk"} : AddToMessage(packet)
  <2>1. /\ \A g \in Drains \cup Copies : at'[g] = at[g]
        /\ UNCHANGED <<dialog, recorder, late>>
    BY <1>13, MessageSteps
  <2>2. SamplesInOrder /\ "caller" \in Copies /\ "callee" \in Copies
    OBVIOUS
  <2>3. QED
    BY ONLY <2>1, <2>2 DEF SamplesInOrder, Up
<1>14. ASSUME NEW d \in Drains, StartDrain(d) PROVE SamplesInOrder'
  BY <1>14 DEF StartDrain, Goto
<1>15. CASE StopDrain
  BY <1>15 DEF StopDrain
<1>16. CASE DrainAwaited
  BY <1>16 DEF DrainAwaited
<1>17. CASE StartBridge
  BY <1>17 DEF StartBridge, HandOver
<1>18. CASE MediaFails
  BY <1>18 DEF MediaFails, HandOver
<1>19. CASE NobodyAnswers
  <2>1. pc = "ready" /\ UNCHANGED <<at, late>>
    BY <1>19 DEF NobodyAnswers, HandOver
  <2>2. recorder # "closed" /\ at["caller"] = "none" /\ at["callee"] = "none"
    BY <2>1 DEF ClosedInOrder, EndsInOrder, Bridged
  <2>3. SamplesInOrder
    OBVIOUS
  <2>4. QED
    BY ONLY <2>1, <2>2, <2>3 DEF SamplesInOrder
<1>20. CASE StartMessage
  BY <1>20 DEF StartMessage, HandOver, Goto
<1>21. CASE NoMessage
  BY <1>21 DEF NoMessage, HandOver
<1>22. CASE AwaitFirst
  BY <1>22 DEF AwaitFirst
<1>23. CASE HangupCallee
  <2>1. UNCHANGED <<at, late, recorder>>
    BY <1>23 DEF HangupCallee
  <2>2. \A p \in Copies : dialog[p] # "up" => dialog'[p] # "up"
    BY <1>23 DEF HangupCallee, Hangup
  <2>3. SamplesInOrder
    OBVIOUS
  <2>4. QED
    BY ONLY <2>1, <2>2, <2>3, Kinds DEF SamplesInOrder, Up
<1>24. CASE HangupCaller
  <2>1. UNCHANGED <<at, late, recorder>>
    BY <1>24 DEF HangupCaller
  <2>2. \A p \in Copies : dialog[p] # "up" => dialog'[p] # "up"
    BY <1>24 DEF HangupCaller, Hangup
  <2>3. SamplesInOrder
    OBVIOUS
  <2>4. QED
    BY ONLY <2>1, <2>2, <2>3, Kinds DEF SamplesInOrder, Up
<1>25. CASE CloseRecorder
  BY <1>25 DEF CloseRecorder
<1>26. QED
  BY Steps, <1>1, <1>2, <1>3, <1>4, <1>5, <1>6, <1>7, <1>8, <1>9, <1>10, <1>11, <1>12, <1>13,
     <1>14, <1>15, <1>16, <1>17, <1>18, <1>19, <1>20, <1>21, <1>22, <1>23, <1>24, <1>25

\* Nobody adds a second packet over a limit.
LEMMA MessageKept ==
  ASSUME TypeOK, MessageInOrder, Next
  PROVE  MessageInOrder'
<1> USE LimitsAssumption, Kinds DEF TypeOK, MessageInOrder, LimitReached, handler, clock
<1>1. CASE PacketArrives
  BY <1>1 DEF PacketArrives
<1>2. ASSUME NEW p \in Copies, Leaves(p) PROVE MessageInOrder'
  BY <1>2 DEF Leaves, Up
<1>3. CASE Tick
  BY <1>3 DEF Tick, Advance
<1>4. ASSUME NEW g \in Goroutines \ {"callee"}, TakePacket(g) PROVE MessageInOrder'
  BY <1>4 DEF TakePacket, Goto
<1>5. ASSUME NEW d \in Drains, DrainTests(d) \/ DrainRecords(d) \/ DrainFails(d)
      PROVE  MessageInOrder'
  <2>1. UNCHANGED <<pc, overdue, elapsed, quiet>> /\ at'["message"] = at["message"]
    <3>1. d # "message" /\ "message" \in Goroutines /\ TypeOK
      BY Kinds
    <3>2. QED
      BY ONLY <1>5, <3>1, DrainSteps DEF DrainKeeps
  <2>2. MessageInOrder
    OBVIOUS
  <2>3. QED
    BY ONLY <2>1, <2>2 DEF MessageInOrder, LimitReached
<1>6. CASE \/ CalleeSpeaks \/ CopyRecords
          \/ \E c \in Copies : CopyWrites(c) \/ CopyFails(c) \/ CopySends(c)
  BY <1>6, CopySteps DEF CopyKeeps
<1>7. CASE TestLimits
  BY <1>7 DEF TestLimits, Goto
<1>8. CASE \E packet \in {"sound", "silence", "junk"} : AddToMessage(packet)
  <2>1. PICK packet \in {"sound", "silence", "junk"} : AddToMessage(packet)
    BY <1>8
  <2>2. at["message"] = "got" /\ Goto("message", "check") /\ UNCHANGED <<pc, elapsed>>
    BY <2>1 DEF AddToMessage
  <2>3. at'["message"] = "check"
    BY <2>2, OneMoves
  <2>4. overdue = 0 /\ pc = "record"
    BY <2>2 DEF MessageInOrder
  <2>5. overdue' = 0 \/ (overdue' = 1 /\ LimitReached')
    <3>1. /\ quiet' = IF packet = "sound" THEN 0 ELSE quiet
          /\ overdue' = IF packet = "junk" \/ ~LimitReached THEN overdue
                        ELSE IF packet = "sound" /\ elapsed < MaxDuration THEN 0
                        ELSE overdue + 1
      BY <2>1 DEF AddToMessage
    <3>2. elapsed \in Nat
      <4>1. elapsed \in 0..MaxDuration
        OBVIOUS
      <4>2. QED
        BY ONLY <4>1, LimitsAssumption
    <3>3. QED
      BY ONLY <2>2, <2>4, <3>1, <3>2, LimitsAssumption DEF LimitReached
  <2>6. QED
    BY ONLY <2>2, <2>3, <2>4, <2>5 DEF MessageInOrder
<1>9. CASE MessageReadFails
  BY <1>9 DEF MessageReadFails, Goto
<1>10. ASSUME NEW d \in Drains, StartDrain(d) PROVE MessageInOrder'
  BY <1>10 DEF StartDrain, Goto
<1>11. CASE StopDrain
  BY <1>11 DEF StopDrain
<1>12. CASE DrainAwaited
  BY <1>12 DEF DrainAwaited
<1>13. CASE StartBridge
  BY <1>13 DEF StartBridge, HandOver
<1>14. CASE MediaFails
  BY <1>14 DEF MediaFails, HandOver
<1>15. CASE NobodyAnswers
  BY <1>15 DEF NobodyAnswers, HandOver
<1>16. CASE StartMessage
  BY <1>16 DEF StartMessage, HandOver, Goto
<1>17. CASE NoMessage
  BY <1>17 DEF NoMessage, HandOver
<1>18. CASE AwaitFirst
  BY <1>18 DEF AwaitFirst
<1>19. CASE HangupCallee
  BY <1>19 DEF HangupCallee, Hangup
<1>20. CASE HangupCaller
  BY <1>20 DEF HangupCaller, Hangup
<1>21. CASE CloseRecorder
  BY <1>21 DEF CloseRecorder
<1>22. QED
  BY Steps, <1>1, <1>2, <1>3, <1>4, <1>5, <1>6, <1>7, <1>8, <1>9, <1>10, <1>11, <1>12, <1>13,
     <1>14, <1>15, <1>16, <1>17, <1>18, <1>19, <1>20, <1>21

-----------------------------------------------------------------------------
LEMMA InitIInv ==
  ASSUME Init
  PROVE  IInv
<1>1. TypeOK
  <2>1. done \in Seq(Copies) /\ Len(done) <= 2
    <3>1. done = <<>>
      BY DEF Init
    <3>2. QED
      BY ONLY <3>1
  <2>2. queue \in 0..Backlog /\ elapsed \in 0..MaxDuration /\ quiet \in 0..SilenceTimeout
    <3>1. queue = 0 /\ elapsed = 0 /\ quiet = 0
      BY DEF Init
    <3>2. QED
      BY ONLY <3>1, BacklogAssumption, LimitsAssumption
  <2>3. /\ stop \subseteq Drains /\ hangupBy \in Copies \cup {""}
        /\ current \in Drains /\ route \in Routes /\ pc \in Places
    BY DEF Init, Drains, Routes, Places
  <2>4. /\ at \in [Goroutines -> {"none", "check", "read", "got", "write", "send", "ended"}]
        /\ dialog \in [Copies -> {"none", "up", "left", "bye"}]
        /\ recorder \in {"none", "open", "closed"}
    BY DEF Init
  <2>5. stolen \in [Drains -> Nat] /\ late \in [Goroutines -> Nat] /\ overdue \in Nat
    BY DEF Init
  <2>6. QED
    BY <2>1, <2>2, <2>3, <2>4, <2>5 DEF TypeOK
<1>2. DrainsInOrder
  BY Kinds DEF Init, DrainsInOrder
<1>3. EndsInOrder
  BY Kinds DEF Init, EndsInOrder, Bridged
<1>4. ClosedInOrder
  BY Kinds DEF Init, ClosedInOrder
<1>5. SamplesInOrder
  BY Kinds DEF Init, SamplesInOrder
<1>6. MessageInOrder
  BY Kinds DEF Init, MessageInOrder
<1>7. QED
  BY <1>1, <1>2, <1>3, <1>4, <1>5, <1>6 DEF IInv

LEMMA StutterIInv ==
  ASSUME IInv, UNCHANGED vars
  PROVE  IInv'
<1>1. UNCHANGED <<route, pc, current, stop, at, done, hangupBy, dialog, queue, recorder,
                  elapsed, quiet, stolen, late, overdue>>
  BY DEF vars, handler, bridge, clock
<1>2. TypeOK'
  BY <1>1 DEF IInv, TypeOK
<1>3. DrainsInOrder'
  BY <1>1 DEF IInv, DrainsInOrder, HandedOver
<1>4. EndsInOrder'
  BY <1>1 DEF IInv, EndsInOrder, Departed, Bridged, Up
<1>5. ClosedInOrder'
  BY <1>1 DEF IInv, ClosedInOrder, Up
<1>6. SamplesInOrder'
  BY <1>1 DEF IInv, SamplesInOrder, Up
<1>7. MessageInOrder'
  BY <1>1 DEF IInv, MessageInOrder, LimitReached
<1>8. QED
  BY <1>2, <1>3, <1>4, <1>5, <1>6, <1>7 DEF IInv

-----------------------------------------------------------------------------
\* The inductive invariant: who is told to stop has at most the test of its flag
\* before it, and the bridge and the recording end for no other reason than a
\* departure (calls.go:205-302, 525-620; voicemail.go:27-240).
THEOREM AudioInvariant == Spec => []IInv
<1>1. IInv /\ Next => IInv'
  BY TypeKept, DrainsKept, EndsKept, ClosedKept, SamplesKept, MessageKept DEF IInv
<1>2. QED
  BY InitIInv, StutterIInv, <1>1, PTL DEF Spec

\* Types of the goroutines' places, of the streams and of the histories, for
\* every limit of a message.
THEOREM AudioTypeOK == Spec => []TypeOK
<1>1. IInv => TypeOK
  BY DEF IInv
<1>2. QED
  BY AudioInvariant, <1>1, PTL

\* A drain that outlives its 100 ms takes one packet at most from who reads
\* after it (calls.go:213, 263-267, 573, 601-605; voicemail.go:45, 97-101).
THEOREM AudioDrainTakesOne == Spec => []DrainTakesOneAtMost
<1>1. IInv => DrainTakesOneAtMost
  BY DEF IInv, DrainsInOrder, DrainTakesOneAtMost
<1>2. QED
  BY AudioInvariant, <1>1, PTL

\* A goroutine that still uses the recording when it is closed brings one
\* sample at most (calls.go:213-217, 270-275, 488-495, 537-552).
THEOREM AudioOneLateSample == Spec => []OneLateSampleEach
<1>1. IInv => OneLateSampleEach
  BY DEF IInv, SamplesInOrder, OneLateSampleEach, Goroutines, Copies
<1>2. QED
  BY AudioInvariant, <1>1, PTL

\* Whatever the drains do to the caller's stream, a bridge ends only because a
\* party left (calls.go:534-549).
THEOREM AudioBridgeEnds == Spec => []BridgeEndsByDeparture
<1>1. IInv => BridgeEndsByDeparture
  BY DEF IInv, EndsInOrder, Departed, BridgeEndsByDeparture
<1>2. QED
  BY AudioInvariant, <1>1, PTL

\* A message over a limit gets one packet more at most before the limit is
\* tested (voicemail.go:196-235).
THEOREM AudioOnePacketOver == Spec => []OnePacketOverLimit
<1>1. IInv => OnePacketOverLimit
  BY DEF IInv, MessageInOrder, OnePacketOverLimit
<1>2. QED
  BY AudioInvariant, <1>1, PTL

=============================================================================
