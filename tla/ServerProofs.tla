------------------------------ MODULE ServerProofs ------------------------------
(***************************************************************************)
(* The safety properties of Server hold for any files, users, instants and *)
(* time zones, and any number of changes and signals.                      *)
(***************************************************************************)
EXTENDS Server, TLAPS

-----------------------------------------------------------------------------
(***************************************************************************)
(* Business hours.                                                         *)
(***************************************************************************)
LEMMA ModWeek ==
  ASSUME NEW m \in Int
  PROVE  m % 10080 \in 0..10079
  OBVIOUS

\* A week has seven days, which do not overlap.
LEMMA SevenDays ==
  ASSUME NEW d \in Int, NEW m \in Int, 0 <= m, m < 1440,
         0 <= d * 1440 + m, d * 1440 + m <= 10079
  PROVE  0 <= d /\ d <= 6
  OBVIOUS

LEMMA OneDay ==
  ASSUME NEW d \in Int, NEW e \in Int, NEW m \in Int, 0 <= m, m < 1440,
         0 <= e * 1440 + m - d * 1440, e * 1440 + m - d * 1440 < 1440
  PROVE  d = e
  OBVIOUS

\* For a window within a day, the test by day and minute of the day is the one
\* by minutes of the week (business_hours.go:21-44).
LEMMA OpenIsInOfficeHours ==
  ASSUME NEW hours, NEW now \in Int,
         Minutes(hours.start) \in Nat, Minutes(hours.end) \in Int,
         Minutes(hours.end) <= DayLength
  PROVE  OpenAt(hours, now) <=> InOfficeHours(hours, Local(hours.timezone, now))
<1> DEFINE local == Local(hours.timezone, now)
           day == local \div 1440
           minute == local % 1440
           from == Minutes(hours.start)
           to == Minutes(hours.end)
<1>1. DayLength = 1440
  BY DEF DayLength
<1>2. OpenAt(hours, now) <=> Weekdays[day] \in hours.days /\ minute >= from /\ minute < to
  BY DEF OpenAt, DayLength
<1>3. InOfficeHours(hours, local)
        <=> \E d \in 0..6 :
              Weekdays[d] \in hours.days /\ local - d * DayLength \in from..to - 1
  BY Zenon DEF InOfficeHours
<1>4. from \in Nat /\ to \in Int /\ to <= 1440
  BY <1>1
<1>5. local \in 0..10079
  <2>1. LocalOffset(hours.timezone) \in Int
    BY TimesAssumption DEF LocalOffset
  <2>2. PICK m \in Int : m = now + LocalOffset(hours.timezone)
    BY ONLY <2>1, now \in Int
  <2>3. WeekLength = 10080
    BY DEF WeekLength, DayLength
  <2>4. local = m % 10080
    BY <2>2, <2>3 DEF Local
  <2>5. m % 10080 \in 0..10079
    BY ModWeek
  <2> HIDE DEF local
  <2>6. QED
    BY ONLY <2>4, <2>5
<1> HIDE DEF local, from, to
<1>6. day \in 0..6 /\ minute \in 0..1439 /\ local = day * 1440 + minute
  <2>1. day \in Int /\ minute \in 0..1439
    BY ONLY <1>5 DEF day, minute
  <2>2. local = day * 1440 + minute
    BY ONLY <1>5 DEF day, minute
  <2> HIDE DEF day, minute
  <2>3. day \in 0..6
    <3>1. minute \in Int /\ 0 <= minute /\ minute < 1440
      BY ONLY <2>1
    <3>2. 0 <= day * 1440 + minute /\ day * 1440 + minute <= 10079
      BY ONLY <1>5, <2>1, <2>2
    <3>3. 0 <= day /\ day <= 6
      BY ONLY <2>1, <3>1, <3>2, SevenDays
    <3>4. QED
      BY ONLY <2>1, <3>3
  <2>4. QED
    BY <2>1, <2>2, <2>3
<1> HIDE DEF day, minute
<1>7. ASSUME Weekdays[day] \in hours.days, minute >= from, minute < to
      PROVE  \E d \in 0..6 : Weekdays[d] \in hours.days /\ local - d * 1440 \in from..to - 1
  <2>1. local - day * 1440 = minute
    BY ONLY <1>6
  <2>2. minute \in from..to - 1
    BY ONLY <1>4, <1>6, <1>7
  <2>3. QED
    BY ONLY <1>6, <1>7, <2>1, <2>2
<1>8. ASSUME NEW d \in 0..6, Weekdays[d] \in hours.days, local - d * 1440 \in from..to - 1
      PROVE  Weekdays[day] \in hours.days /\ minute >= from /\ minute < to
  <2>1. local \in Int /\ day \in Int /\ d \in Int
    BY ONLY <1>5, <1>6, d \in 0..6
  <2>2. local - d * 1440 = day * 1440 + minute - d * 1440
    BY ONLY <1>6
  <2>3. /\ local - d * 1440 \in Int /\ from <= local - d * 1440 /\ local - d * 1440 < to
        /\ 0 <= local - d * 1440 /\ local - d * 1440 < 1440
    BY ONLY <1>4, <1>8, <2>1
  <2>4. minute \in Int /\ 0 <= minute /\ minute < 1440
    BY ONLY <1>6
  <2>5. d = day
    BY ONLY <2>1, <2>2, <2>3, <2>4, OneDay
  <2>6. minute >= from /\ minute < to
    BY ONLY <1>4, <2>1, <2>2, <2>3, <2>4, <2>5
  <2>7. QED
    BY ONLY <1>8, <2>5, <2>6
<1>9. QED
  BY <1>1, <1>2, <1>3, <1>7, <1>8 DEF local

-----------------------------------------------------------------------------
(***************************************************************************)
(* The inductive invariant.                                                *)
(***************************************************************************)
LEMMA ConfigsLoad ==
  ASSUME NEW c, NEW f \in Contents, c \in LoadConfig(f)
  PROVE  c \in Configs
  BY DEF Configs

\* The alternatives of a call are told apart by their place.
LEMMA CallKinds ==
  ASSUME call \in Calls
  PROVE  /\ call.at = "invite" => call.held \in Configs
         /\ call.at \in Refusals =>
               call.held \in Configs /\ call.to \in Numbers /\ call.source \in Addresses
         /\ call.at \in Rings => call.held \in Configs /\ call.now \in Instants
  BY DEF Calls, Refusals, Rings

\* A call that has not got to a verdict knows nothing but its configuration.
LEMMA FreshCall ==
  ASSUME NEW place \in {"none", "incoming", "outgoing"}
  PROVE  [at |-> place] \in Calls /\ [at |-> place].at \notin Refusals \cup Rings
  BY DEF Calls, Refusals, Rings

\* The next turn of the loop takes the signal that waits, if there is one.
LEMMA Continued ==
  ASSUME sigCh \in Seq({"HUP", "TERM"}), Continue
  PROVE  /\ sigCh' = <<>>
         /\ loop' \in {"idle", "load", "stop"}
         /\ loop' = "stop" => sigCh # <<>> /\ Head(sigCh) = "TERM"
<1>1. CASE sigCh = <<>>
  BY <1>1 DEF Continue
<1>2. CASE sigCh # <<>>
  <2>1. Head(sigCh) \in {"HUP", "TERM"}
    BY <1>2
  <2>2. QED
    BY ONLY <1>2, <2>1, Continue DEF Continue, PlaceOf
<1>3. QED
  BY <1>1, <1>2

LEMMA InitIInv ==
  ASSUME Init
  PROVE  IInv
<1>1. TypeOK
  <2>1. NoCall \in Calls
    BY DEF NoCall, Calls
  <2>2. {asked, read} \subseteq 0..MaxEdits /\ edits \in 0..MaxEdits /\ signals \in 0..MaxSignals
    <3>1. asked = 0 /\ read = 0 /\ edits = 0 /\ signals = 0
      BY DEF Init
    <3>2. QED
      BY ONLY <3>1, BoundsAssumption
  <2>3. sigCh \in Seq({"HUP", "TERM"}) /\ Len(sigCh) <= 1
    <3>1. sigCh = <<>>
      BY DEF Init
    <3>2. QED
      BY ONLY <3>1
  <2>4. QED
    BY <2>1, <2>2, <2>3 DEF Init, TypeOK
<1>2. ReloadInOrder
  BY DEF Init, ReloadInOrder, UsersFollowConfig
<1>3. StopInOrder
  BY DEF Init, StopInOrder
<1>4. VerdictsInOrder
  BY DEF Init, VerdictsInOrder, RefusedOnlyByRename, NoCall, Refusals, Rings
<1>5. QED
  BY <1>1, <1>2, <1>3, <1>4 DEF IInv

LEMMA StutterIInv ==
  ASSUME IInv, UNCHANGED vars
  PROVE  IInv'
<1>1. UNCHANGED <<file, edits, process, boot, cfg, users, uplinkIPs, loop, loaded, sigCh,
                  signals, cancelled, uplink, call, asked, read, stopping>>
  BY DEF vars, disk, start, settings, channel
<1>2. TypeOK'
  BY <1>1 DEF IInv, TypeOK
<1>3. ReloadInOrder' /\ StopInOrder' /\ VerdictsInOrder'
  BY <1>1 DEF IInv, ReloadInOrder, UsersFollowConfig, StopInOrder, VerdictsInOrder,
              RefusedOnlyByRename
<1>4. QED
  BY <1>2, <1>3 DEF IInv
-----------------------------------------------------------------------------
(***************************************************************************)
(* Every step keeps the parts of IInv.                                     *)
(***************************************************************************)
\* The types of settings, channel and call.
LEMMA TypeKept ==
  ASSUME TypeOK, Next
  PROVE  TypeOK'
<1> USE DEF TypeOK, disk, start, settings, channel
<1>1. ASSUME NEW f \in Contents, Edit(f)
      PROVE  TypeOK'
  <2>1. edits < MaxEdits /\ edits' = edits + 1 /\ file' = f
    BY <1>1 DEF Edit
  <2>2. edits' \in 0..MaxEdits
    <3>1. edits \in 0..MaxEdits
      OBVIOUS
    <3>2. QED
      BY ONLY <2>1, <3>1, BoundsAssumption
  <2>3. UNCHANGED <<process, boot, cfg, users, uplinkIPs, loop, loaded, sigCh, signals,
                  cancelled, uplink, call, asked, read, stopping>>
    BY <1>1 DEF Edit
  <2>4. TypeOK /\ f \in Contents
    OBVIOUS
  <2>5. QED
    BY ONLY <2>1, <2>2, <2>3, <2>4 DEF TypeOK
<1>2. ASSUME NEW s \in {"HUP", "TERM"}, Signal(s)
      PROVE  TypeOK'
  <2>1. signals < MaxSignals /\ signals' = signals + 1 /\ asked' \in {edits, asked} /\ Deliver(s)
    BY <1>2 DEF Signal
  <2>2. signals' \in 0..MaxSignals
    <3>1. signals \in 0..MaxSignals
      OBVIOUS
    <3>2. QED
      BY ONLY <2>1, <3>1, BoundsAssumption
  <2>3. sigCh' \in {sigCh, <<s>>} /\ loop' \in {loop, "load", "stop"} /\ stopping' \in BOOLEAN
    BY <2>1, Zenon DEF Deliver, PlaceOf
  <2>4. <<s>> \in Seq({"HUP", "TERM"}) /\ Len(<<s>>) = 1
    OBVIOUS
  <2>5. UNCHANGED <<file, edits, process, boot, cfg, users, uplinkIPs, loaded, cancelled,
                  uplink, call, read>>
    BY <1>2 DEF Signal
  <2>6. TypeOK
    OBVIOUS
  <2>7. sigCh' \in Seq({"HUP", "TERM"}) /\ Len(sigCh') <= 1
    <3>1. sigCh \in Seq({"HUP", "TERM"}) /\ Len(sigCh) <= 1
      BY <2>6 DEF TypeOK
    <3>2. CASE sigCh' = sigCh
      BY ONLY <3>1, <3>2
    <3>3. CASE sigCh' = <<s>>
      <4>1. sigCh' \in Seq({"HUP", "TERM"})
        BY ONLY <2>4, <3>3
      <4>2. Len(sigCh') = 1
        BY ONLY <2>4, <3>3
      <4>3. QED
        BY <4>1, <4>2
    <3>4. QED
      BY <2>3, <3>2, <3>3
  <2>8. {asked', read} \subseteq 0..MaxEdits
    BY ONLY <2>1, <2>6 DEF TypeOK
  <2>9. loop' = "update" => loop = "update"
    BY ONLY <2>3
  <2>10. QED
    BY ONLY <2>2, <2>3, <2>5, <2>6, <2>7, <2>8, <2>9 DEF TypeOK
<1>3. CASE StartFails
  <2>1. process' = "exited" /\ call' = NoCall
    BY <1>3 DEF StartFails, Exit
  <2>2. UNCHANGED <<file, edits, boot, cfg, users, uplinkIPs, loop, loaded, sigCh, signals,
                  cancelled, uplink, asked, read, stopping>>
    BY <1>3 DEF StartFails
  <2>3. NoCall \in Calls
    BY FreshCall DEF NoCall
  <2>4. TypeOK
    OBVIOUS
  <2>5. QED
    BY ONLY <2>1, <2>2, <2>3, <2>4 DEF TypeOK
<1>4. ASSUME NEW c \in Configs, Start(c)
      PROVE  TypeOK'
  <2>1. /\ process' = "serving" /\ boot' = c /\ cfg' = c /\ users' = c.users
        /\ uplinkIPs' \in {{}, {c.host}} /\ read' = edits
    BY <1>4 DEF Start
  <2>2. users' \subseteq Users /\ uplinkIPs' \subseteq {d.host : d \in Configs}
    BY <2>1, UsersAssumption
  <2>3. UNCHANGED <<file, edits, loop, loaded, sigCh, signals, cancelled, uplink, call,
                  asked, stopping>>
    BY <1>4 DEF Start
  <2>4. TypeOK /\ c \in Configs
    OBVIOUS
  <2>5. QED
    BY ONLY <2>1, <2>2, <2>3, <2>4 DEF TypeOK
<1>5. CASE Registered
  BY <1>5 DEF Registered
<1>6. CASE RunReturns
  <2>1. process' = "exited" /\ call' = NoCall
    BY <1>6 DEF RunReturns, Exit
  <2>2. UNCHANGED <<file, edits, boot, cfg, users, uplinkIPs, loop, loaded, sigCh, signals,
                  cancelled, uplink, asked, read, stopping>>
    BY <1>6 DEF RunReturns
  <2>3. NoCall \in Calls
    BY FreshCall DEF NoCall
  <2>4. TypeOK
    OBVIOUS
  <2>5. QED
    BY ONLY <2>1, <2>2, <2>3, <2>4 DEF TypeOK
<1>7. CASE LoadFails
  <2>1. Continue /\ read' = edits
    BY <1>7 DEF LoadFails
  <2>2. sigCh' = <<>> /\ loop' \in {"idle", "load", "stop"}
    BY <2>1, Continued
  <2>3. UNCHANGED <<file, edits, process, boot, cfg, users, uplinkIPs, loaded, signals,
                  cancelled, uplink, call, asked, stopping>>
    BY <1>7 DEF LoadFails
  <2>4. TypeOK
    OBVIOUS
  <2>5. QED
    BY ONLY <2>1, <2>2, <2>3, <2>4 DEF TypeOK
<1>8. CASE Stop
  BY <1>8 DEF Stop
<1>9. ASSUME NEW c \in Configs, LoadNew(c)
      PROVE  TypeOK'
  BY <1>9 DEF LoadNew
<1>10. ASSUME NEW c \in Configs, UpdateConfig(c)
      PROVE  TypeOK'
  BY <1>10 DEF UpdateConfig
<1>11. ASSUME NEW c \in Configs, UpdateUsers(c)
      PROVE  TypeOK'
  <2>1. Continue /\ users' = c.users
    BY <1>11 DEF UpdateUsers
  <2>2. sigCh' = <<>> /\ loop' \in {"idle", "load", "stop"}
    BY <2>1, Continued
  <2>3. users' \subseteq Users
    BY <2>1, UsersAssumption
  <2>4. UNCHANGED <<file, edits, process, boot, cfg, uplinkIPs, loaded, signals, cancelled,
                  uplink, call, asked, read, stopping>>
    BY <1>11 DEF UpdateUsers
  <2>5. TypeOK
    OBVIOUS
  <2>6. QED
    BY ONLY <2>2, <2>3, <2>4, <2>5 DEF TypeOK
<1>12. CASE HandleInvite
  <2>1. UNCHANGED <<file, edits, process, boot, cfg, users, uplinkIPs, loop, loaded, sigCh,
                  signals, cancelled, uplink, asked, read, stopping>>
    BY <1>12 DEF HandleInvite, CallUnchanged
  <2>2. call' \in Calls
    BY <1>12 DEF HandleInvite, At, Calls
  <2>3. TypeOK
    OBVIOUS
  <2>4. QED
    BY ONLY <2>1, <2>2, <2>3 DEF TypeOK
<1>13. CASE CallEnds
  <2>1. UNCHANGED <<file, edits, process, boot, cfg, users, uplinkIPs, loop, loaded, sigCh,
                  signals, cancelled, uplink, asked, read, stopping>>
    BY <1>13 DEF CallEnds, CallUnchanged
  <2>2. call' \in Calls
    BY <1>13, FreshCall DEF CallEnds, NoCall
  <2>3. TypeOK
    OBVIOUS
  <2>4. QED
    BY ONLY <2>1, <2>2, <2>3 DEF TypeOK
<1>14. ASSUME NEW from, RouteOutgoing(from)
      PROVE  TypeOK'
  <2>1. UNCHANGED <<file, edits, process, boot, cfg, users, uplinkIPs, loop, loaded, sigCh,
                  signals, cancelled, uplink, asked, read, stopping>>
    BY <1>14 DEF RouteOutgoing, CallUnchanged
  <2>2. call' \in Calls
    BY <1>14, FreshCall DEF RouteOutgoing
  <2>3. TypeOK
    OBVIOUS
  <2>4. QED
    BY ONLY <2>1, <2>2, <2>3 DEF TypeOK
<1>15. ASSUME NEW from, NEW to \in Numbers, NEW source \in Addresses,
              RouteIncoming(from, to, source)
      PROVE  TypeOK'
  <2>1. UNCHANGED <<file, edits, process, boot, cfg, users, uplinkIPs, loop, loaded, sigCh,
                  signals, cancelled, uplink, asked, read, stopping>>
    BY <1>15 DEF RouteIncoming, CallUnchanged
  <2>2. call' \in Calls
    BY <1>15, FreshCall DEF RouteIncoming
  <2>3. TypeOK
    OBVIOUS
  <2>4. QED
    BY ONLY <2>1, <2>2, <2>3 DEF TypeOK
<1>16. ASSUME NEW from, NEW to \in Numbers, NEW source \in Addresses, Refuse(from, to, source)
      PROVE  TypeOK'
  <2>1. UNCHANGED <<file, edits, process, boot, cfg, users, uplinkIPs, loop, loaded, sigCh,
                  signals, cancelled, uplink, asked, read, stopping>>
    BY <1>16 DEF Refuse, CallUnchanged
  <2>2. call' \in Calls
    <3>1. call.held \in Configs
      BY <1>16, CallKinds DEF Refuse, At
    <3>2. PICK place \in Refusals :
            call' = [held |-> call.held, to |-> to, source |-> source, at |-> place]
      BY <1>16 DEF Refuse, Refusals
    <3>3. call' \in [at : Refusals, held : Configs, to : Numbers, source : Addresses]
      BY ONLY <3>1, <3>2, to \in Numbers, source \in Addresses
    <3>4. QED
      BY <3>3 DEF Calls
  <2>3. TypeOK
    OBVIOUS
  <2>4. QED
    BY ONLY <2>1, <2>2, <2>3 DEF TypeOK
<1>17. ASSUME NEW now \in Instants, HandleIncoming(now)
      PROVE  TypeOK'
  <2>1. UNCHANGED <<file, edits, process, boot, cfg, users, uplinkIPs, loop, loaded, sigCh,
                  signals, cancelled, uplink, asked, read, stopping>>
    BY <1>17 DEF HandleIncoming, CallUnchanged
  <2>2. call' \in Calls
    <3>1. cfg \in Configs
      BY <1>17 DEF HandleIncoming, At
    <3>2. PICK place \in Rings : call' = [at |-> place, held |-> cfg, now |-> now]
      BY <1>17 DEF HandleIncoming, Rings
    <3>3. call' \in [at : Rings, held : Configs, now : Instants]
      BY ONLY <3>1, <3>2, now \in Instants
    <3>4. QED
      BY <3>3 DEF Calls
  <2>3. TypeOK
    OBVIOUS
  <2>4. QED
    BY ONLY <2>1, <2>2, <2>3 DEF TypeOK
<1>18. QED
  BY <1>1, <1>2, <1>3, <1>4, <1>5, <1>6, <1>7, <1>8, <1>9, <1>10, <1>11, <1>12, <1>13,
     <1>14, <1>15, <1>16, <1>17 DEF Next, Loop

\* What a reload loads is what it puts in force.
LEMMA ReloadKept ==
  ASSUME TypeOK, ReloadInOrder, Next
  PROVE  ReloadInOrder'
<1> USE DEF ReloadInOrder, UsersFollowConfig, disk, start, settings, channel
<1>1. ASSUME NEW f \in Contents, Edit(f)
      PROVE  ReloadInOrder'
  BY <1>1 DEF Edit
<1>2. ASSUME NEW s \in {"HUP", "TERM"}, Signal(s)
      PROVE  ReloadInOrder'
  BY <1>2 DEF Signal, Deliver, PlaceOf
<1>3. CASE StartFails
  BY <1>3 DEF StartFails, Exit
<1>4. ASSUME NEW c \in Configs, Start(c)
      PROVE  ReloadInOrder'
  BY <1>4 DEF Start
<1>5. CASE Registered
  BY <1>5 DEF Registered
<1>6. CASE RunReturns
  BY <1>6 DEF RunReturns, Exit
<1>7. CASE LoadFails
  BY <1>7 DEF LoadFails, Continue, PlaceOf
<1>8. CASE Stop
  BY <1>8 DEF Stop
<1>9. ASSUME NEW c \in Configs, LoadNew(c)
      PROVE  ReloadInOrder'
  BY <1>9 DEF LoadNew
<1>10. ASSUME NEW c \in Configs, UpdateConfig(c)
      PROVE  ReloadInOrder'
  BY <1>10 DEF UpdateConfig
<1>11. ASSUME NEW c \in Configs, UpdateUsers(c)
      PROVE  ReloadInOrder'
  BY <1>11 DEF UpdateUsers, Continue, PlaceOf
<1>12. CASE HandleInvite
  BY <1>12 DEF HandleInvite, At, CallUnchanged
<1>13. CASE CallEnds
  BY <1>13 DEF CallEnds, At, CallUnchanged
<1>14. ASSUME NEW from, RouteOutgoing(from)
      PROVE  ReloadInOrder'
  BY <1>14 DEF RouteOutgoing, At, CallUnchanged
<1>15. ASSUME NEW from, NEW to \in Numbers, NEW source \in Addresses,
              RouteIncoming(from, to, source)
      PROVE  ReloadInOrder'
  BY <1>15 DEF RouteIncoming, At, CallUnchanged
<1>16. ASSUME NEW from, NEW to \in Numbers, NEW source \in Addresses, Refuse(from, to, source)
      PROVE  ReloadInOrder'
  BY <1>16 DEF Refuse, At, CallUnchanged
<1>17. ASSUME NEW now \in Instants, HandleIncoming(now)
      PROVE  ReloadInOrder'
  BY <1>17 DEF HandleIncoming, At, CallUnchanged
<1>18. QED
  BY <1>1, <1>2, <1>3, <1>4, <1>5, <1>6, <1>7, <1>8, <1>9, <1>10, <1>11, <1>12, <1>13,
     <1>14, <1>15, <1>16, <1>17 DEF Next, Loop

\* Only a SIGTERM leads to the stop.
LEMMA StopKept ==
  ASSUME TypeOK, StopInOrder, Next
  PROVE  StopInOrder'
<1> USE DEF StopInOrder, disk, start, settings, channel
<1>1. ASSUME NEW f \in Contents, Edit(f)
      PROVE  StopInOrder'
  BY <1>1 DEF Edit
<1>2. ASSUME NEW s \in {"HUP", "TERM"}, Signal(s)
      PROVE  StopInOrder'
  <2>1. Deliver(s) /\ UNCHANGED cancelled
    BY <1>2 DEF Signal
  <2>2. stopping \in BOOLEAN /\ Head(<<s>>) = s /\ StopInOrder /\ <<s>> # <<>>
    BY DEF TypeOK
  <2>3. CASE loop = "idle"
    BY ONLY <2>1, <2>2, <2>3, s \in {"HUP", "TERM"} DEF Deliver, PlaceOf, StopInOrder
  <2>4. CASE loop # "idle"
    BY ONLY <2>1, <2>2, <2>4, s \in {"HUP", "TERM"} DEF Deliver, PlaceOf, StopInOrder
  <2>5. QED
    BY <2>3, <2>4
<1>3. CASE StartFails
  BY <1>3 DEF StartFails, Exit
<1>4. ASSUME NEW c \in Configs, Start(c)
      PROVE  StopInOrder'
  BY <1>4 DEF Start
<1>5. CASE Registered
  BY <1>5 DEF Registered
<1>6. CASE RunReturns
  BY <1>6 DEF RunReturns, Exit
<1>7. CASE LoadFails
  <2>1. Continue /\ UNCHANGED <<cancelled, stopping>>
    BY <1>7 DEF LoadFails
  <2>2. /\ sigCh' = <<>>
        /\ loop' = "stop" => sigCh # <<>> /\ Head(sigCh) = "TERM"
    BY <2>1, Continued DEF TypeOK
  <2>3. StopInOrder
    OBVIOUS
  <2>4. QED
    BY ONLY <2>1, <2>2, <2>3 DEF StopInOrder
<1>8. CASE Stop
  BY <1>8 DEF Stop
<1>9. ASSUME NEW c \in Configs, LoadNew(c)
      PROVE  StopInOrder'
  BY <1>9 DEF LoadNew
<1>10. ASSUME NEW c \in Configs, UpdateConfig(c)
      PROVE  StopInOrder'
  BY <1>10 DEF UpdateConfig
<1>11. ASSUME NEW c \in Configs, UpdateUsers(c)
      PROVE  StopInOrder'
  <2>1. Continue /\ UNCHANGED <<cancelled, stopping>>
    BY <1>11 DEF UpdateUsers
  <2>2. /\ sigCh' = <<>>
        /\ loop' = "stop" => sigCh # <<>> /\ Head(sigCh) = "TERM"
    BY <2>1, Continued DEF TypeOK
  <2>3. StopInOrder
    OBVIOUS
  <2>4. QED
    BY ONLY <2>1, <2>2, <2>3 DEF StopInOrder
<1>12. CASE HandleInvite
  BY <1>12 DEF HandleInvite, At, CallUnchanged
<1>13. CASE CallEnds
  BY <1>13 DEF CallEnds, At, CallUnchanged
<1>14. ASSUME NEW from, RouteOutgoing(from)
      PROVE  StopInOrder'
  BY <1>14 DEF RouteOutgoing, At, CallUnchanged
<1>15. ASSUME NEW from, NEW to \in Numbers, NEW source \in Addresses,
              RouteIncoming(from, to, source)
      PROVE  StopInOrder'
  BY <1>15 DEF RouteIncoming, At, CallUnchanged
<1>16. ASSUME NEW from, NEW to \in Numbers, NEW source \in Addresses, Refuse(from, to, source)
      PROVE  StopInOrder'
  BY <1>16 DEF Refuse, At, CallUnchanged
<1>17. ASSUME NEW now \in Instants, HandleIncoming(now)
      PROVE  StopInOrder'
  BY <1>17 DEF HandleIncoming, At, CallUnchanged
<1>18. QED
  BY <1>1, <1>2, <1>3, <1>4, <1>5, <1>6, <1>7, <1>8, <1>9, <1>10, <1>11, <1>12, <1>13,
     <1>14, <1>15, <1>16, <1>17 DEF Next, Loop

\* A verdict follows what the call has read.
LEMMA VerdictsKept ==
  ASSUME TypeOK, ReloadInOrder, VerdictsInOrder, Next
  PROVE  VerdictsInOrder'
<1> USE DEF VerdictsInOrder, RefusedOnlyByRename, disk, start, settings, channel
<1>1. ASSUME NEW f \in Contents, Edit(f)
      PROVE  VerdictsInOrder'
  BY <1>1 DEF Edit
<1>2. ASSUME NEW s \in {"HUP", "TERM"}, Signal(s)
      PROVE  VerdictsInOrder'
  BY <1>2 DEF Signal, Deliver, PlaceOf
<1>3. CASE StartFails
  <2>1. process' = "exited" /\ call' = NoCall
    BY <1>3 DEF StartFails, Exit
  <2>2. NoCall.at \notin Refusals \cup Rings
    BY FreshCall DEF NoCall
  <2>3. QED
    BY ONLY <2>1, <2>2 DEF VerdictsInOrder, RefusedOnlyByRename
<1>4. ASSUME NEW c \in Configs, Start(c)
      PROVE  VerdictsInOrder'
  <2>1. process = "starting" /\ process' = "serving" /\ boot' = c
        /\ uplinkIPs' \in {{}, {c.host}} /\ UNCHANGED call
    BY <1>4 DEF Start
  <2>2. call = NoCall
    BY <2>1 DEF VerdictsInOrder
  <2>3. NoCall.at \notin Refusals \cup Rings
    BY FreshCall DEF NoCall
  <2>4. QED
    BY ONLY <2>1, <2>2, <2>3 DEF VerdictsInOrder, RefusedOnlyByRename
<1>5. CASE Registered
  BY <1>5 DEF Registered
<1>6. CASE RunReturns
  <2>1. process' = "exited" /\ call' = NoCall
    BY <1>6 DEF RunReturns, Exit
  <2>2. NoCall.at \notin Refusals \cup Rings
    BY FreshCall DEF NoCall
  <2>3. QED
    BY ONLY <2>1, <2>2 DEF VerdictsInOrder, RefusedOnlyByRename
<1>7. CASE LoadFails
  BY <1>7 DEF LoadFails, Continue, PlaceOf
<1>8. CASE Stop
  BY <1>8 DEF Stop
<1>9. ASSUME NEW c \in Configs, LoadNew(c)
      PROVE  VerdictsInOrder'
  BY <1>9 DEF LoadNew
<1>10. ASSUME NEW c \in Configs, UpdateConfig(c)
      PROVE  VerdictsInOrder'
  BY <1>10 DEF UpdateConfig
<1>11. ASSUME NEW c \in Configs, UpdateUsers(c)
      PROVE  VerdictsInOrder'
  BY <1>11 DEF UpdateUsers, Continue, PlaceOf
<1>12. CASE HandleInvite
  <2>1. /\ process = "serving" /\ UNCHANGED <<process, boot, uplinkIPs>>
        /\ call' = [at |-> "invite", held |-> cfg]
    BY <1>12 DEF HandleInvite, At, CallUnchanged
  <2>2. call'.at \notin Refusals \cup Rings
    BY <2>1 DEF Refusals, Rings
  <2>3. VerdictsInOrder
    OBVIOUS
  <2>4. QED
    BY ONLY <2>1, <2>2, <2>3 DEF VerdictsInOrder, RefusedOnlyByRename
<1>13. CASE CallEnds
  <2>1. /\ process = "serving" /\ UNCHANGED <<process, boot, uplinkIPs>>
        /\ call' = NoCall
    BY <1>13 DEF CallEnds, At, CallUnchanged
  <2>2. call'.at \notin Refusals \cup Rings
    BY <2>1, FreshCall DEF NoCall
  <2>3. VerdictsInOrder
    OBVIOUS
  <2>4. QED
    BY ONLY <2>1, <2>2, <2>3 DEF VerdictsInOrder, RefusedOnlyByRename
<1>14. ASSUME NEW from, RouteOutgoing(from)
      PROVE  VerdictsInOrder'
  <2>1. /\ process = "serving" /\ UNCHANGED <<process, boot, uplinkIPs>>
        /\ call' = [at |-> "outgoing"]
    BY <1>14 DEF RouteOutgoing, At, CallUnchanged
  <2>2. call'.at \notin Refusals \cup Rings
    BY <2>1, FreshCall DEF NoCall
  <2>3. VerdictsInOrder
    OBVIOUS
  <2>4. QED
    BY ONLY <2>1, <2>2, <2>3 DEF VerdictsInOrder, RefusedOnlyByRename
<1>15. ASSUME NEW from, NEW to \in Numbers, NEW source \in Addresses,
              RouteIncoming(from, to, source)
      PROVE  VerdictsInOrder'
  <2>1. /\ process = "serving" /\ UNCHANGED <<process, boot, uplinkIPs>>
        /\ call' = [at |-> "incoming"]
    BY <1>15 DEF RouteIncoming, At, CallUnchanged
  <2>2. call'.at \notin Refusals \cup Rings
    BY <2>1, FreshCall DEF NoCall
  <2>3. VerdictsInOrder
    OBVIOUS
  <2>4. QED
    BY ONLY <2>1, <2>2, <2>3 DEF VerdictsInOrder, RefusedOnlyByRename
<1>16. ASSUME NEW from, NEW to \in Numbers, NEW source \in Addresses, Refuse(from, to, source)
      PROVE  VerdictsInOrder'
  <2>1. /\ process = "serving" /\ UNCHANGED <<process, boot, uplinkIPs>>
        /\ ~Passes(to, source)
    BY <1>16 DEF Refuse, At, CallUnchanged
  <2>2. PICK place \in Refusals :
          call' = [held |-> call.held, to |-> to, source |-> source, at |-> place]
    BY <1>16 DEF Refuse, Refusals
  <2>3. /\ call'.at \notin Rings /\ call'.to = to /\ call'.source = source
        /\ call'.held = call.held
        /\ call.held.filterCalledNo /\ to # call.held.username => call'.at = "not found"
    <3>1. call'.at = IF call.held.filterCalledNo /\ to # call.held.username
                     THEN "not found" ELSE "forbidden"
      BY <1>16 DEF Refuse
    <3>2. QED
      BY ONLY <2>2, <3>1 DEF Refusals, Rings
  <2>4. uplinkIPs \subseteq {boot.host}
    BY <2>1 DEF VerdictsInOrder
  <2>5. source = boot.host /\ uplinkIPs # {}
          => call.held.filterCalledNo /\ to # call.held.username
    BY <2>1, <2>4 DEF Passes, IsFromUplink
  <2>6. QED
    BY ONLY <2>1, <2>3, <2>4, <2>5 DEF VerdictsInOrder, RefusedOnlyByRename
<1>17. ASSUME NEW now \in Instants, HandleIncoming(now)
      PROVE  VerdictsInOrder'
  <2>1. /\ process = "serving" /\ UNCHANGED <<process, boot, uplinkIPs>>
        /\ call' = [at |-> IF IsWithinBusinessHours(cfg.hours, now)
                          THEN "phones" ELSE "voicemail",
                    held |-> cfg, now |-> now]
    BY <1>17 DEF HandleIncoming, At, CallUnchanged
  <2>2. /\ call'.at \notin Refusals /\ call'.held = cfg /\ call'.now = now
        /\ call'.at = "phones" <=> IsWithinBusinessHours(cfg.hours, now)
    BY ONLY <2>1 DEF Refusals
  <2>3. uplinkIPs \subseteq {boot.host}
    BY <2>1 DEF VerdictsInOrder
  <2>4. QED
    BY ONLY <2>1, <2>2, <2>3 DEF VerdictsInOrder, RefusedOnlyByRename
<1>18. QED
  BY <1>1, <1>2, <1>3, <1>4, <1>5, <1>6, <1>7, <1>8, <1>9, <1>10, <1>11, <1>12, <1>13,
     <1>14, <1>15, <1>16, <1>17 DEF Next, Loop

-----------------------------------------------------------------------------
\* The inductive invariant: the loop puts in force what it has loaded, the
\* process is stopped by a SIGTERM only, and a verdict follows the settings its
\* call has read (main.go:128-184; calls.go:54-134).
THEOREM ServerInvariant == Spec => []IInv
<1>1. IInv /\ Next => IInv'
  BY TypeKept, ReloadKept, StopKept, VerdictsKept DEF IInv
<1>2. QED
  BY InitIInv, StutterIInv, <1>1, PTL DEF Spec

\* Types of settings, channel and calls, for any files and users.
THEOREM ServerTypeOK == Spec => []TypeOK
<1>1. IInv => TypeOK
  BY DEF IInv
<1>2. QED
  BY ServerInvariant, <1>1, PTL

\* Between reloads the registrar knows the users of the configuration in force,
\* whatever failed to load and whatever signals came in between (main.go:139-148).
THEOREM ServerUsersFollow == Spec => []UsersFollowConfig
<1>1. IInv => UsersFollowConfig
  BY DEF IInv, ReloadInOrder
<1>2. QED
  BY ServerInvariant, <1>1, PTL

\* The source filter never refuses the uplink of the start, and the called number
\* filter refuses its calls to the registered number only after a reload has
\* changed the username (calls.go:36-41, 67-77, 93-98).
THEOREM ServerRefusedOnlyByRename == Spec => []RefusedOnlyByRename
<1>1. IInv => RefusedOnlyByRename
  BY DEF IInv, VerdictsInOrder
<1>2. QED
  BY ServerInvariant, <1>1, PTL

\* Phones ring when the hours as written hold this minute of the local week, in
\* any zone and at any instant (business_hours.go:21-44; calls.go:123-134).
THEOREM ServerOpenAsWritten == Spec => []OpenAsWritten
<1>1. IInv => OpenAsWritten
  <2>1. SUFFICES ASSUME IInv, call.at \in Rings,
                        call.held.hours.enabled, Minutes(call.held.hours.end) <= DayLength
                 PROVE  call.at = "phones"
                          <=> InOfficeHours(call.held.hours,
                                            Local(call.held.hours.timezone, call.now))
    BY DEF OpenAsWritten
  <2>2. call.held \in Configs /\ call.now \in Instants
    BY <2>1, CallKinds DEF IInv, TypeOK
  <2>3. call.at = "phones" <=> OpenAt(call.held.hours, call.now)
    BY <2>1 DEF IInv, VerdictsInOrder, IsWithinBusinessHours
  <2>4. call.now \in Int /\ Minutes(call.held.hours.start) \in Nat
        /\ Minutes(call.held.hours.end) \in Int
    BY <2>1, <2>2, TimesAssumption
  <2>5. QED
    BY <2>1, <2>3, <2>4, OpenIsInOfficeHours
<1>2. QED
  BY ServerInvariant, <1>1, PTL

\* A running process ends only after a SIGTERM has reached it, or because the
\* first registration failed: a reload, of whatever file, cuts no call short
\* (main.go:139-152, 177-181).
THEOREM ServerReloadCutsNoCall == Spec => ReloadCutsNoCall
<1>1. IInv /\ Next => (process = "serving" /\ process' = "exited" => stopping \/ uplink = "first")
  <2> SUFFICES ASSUME IInv, Next, process = "serving", process' = "exited"
               PROVE  stopping \/ uplink = "first"
    OBVIOUS
  <2>1. RunReturns
    BY DEF Next, Loop, Edit, Signal, StartFails, Start, Registered, LoadFails, Stop, LoadNew,
           UpdateConfig, UpdateUsers, HandleInvite, CallEnds, RouteOutgoing, RouteIncoming,
           Refuse, HandleIncoming, CallUnchanged, start
  <2>2. QED
    BY <2>1 DEF RunReturns, IInv, StopInOrder
<1>2. QED
  BY ServerInvariant, <1>1, PTL DEF Spec, ReloadCutsNoCall

=============================================================================
