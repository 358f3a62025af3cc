------------------------- MODULE UplinkRegistrarProofs -------------------------
(***************************************************************************)
(* Proofs about UplinkRegistrar for any expiry, any grants and any limits: *)
(* type correctness, refreshes in time and a bounded shutdown, all from    *)
(* the inductive invariant IInv of UplinkRegistrar.                        *)
(***************************************************************************)
EXTENDS UplinkRegistrar, TLAPS

\* The interval is a number no smaller than the minimum, and 75% of an expiry
\* that is longer.
LEMMA WaitBounds ==
  ASSUME NEW e \in Nat
  PROVE  /\ Wait(e) \in Nat
         /\ Wait(e) >= MinInterval
         /\ Wait(e) = MinInterval \/ 4 * Wait(e) <= 3 * e
  BY IntervalAssumption DEF Wait

\* The limits one by one.
LEMMA LimitsAreNat ==
  RetryPause \in Nat /\ UnregisterLimit \in Nat /\ RequestLimit \in Nat
  BY LimitsAssumption

\* An expiry is a number.
LEMMA ExpiriesAreNat == Expiries \subseteq Nat
  BY ExpiriesAssumption DEF Expiries

\* What a typed state says of its numbers.
Numbers ==
    /\ timer \in Nat /\ bound \in Nat /\ waited \in Nat
    /\ expiry \in Nat
    /\ interval \in Nat /\ granted \in Nat /\ first \in Nat

LEMMA TypedNumbers == TypeOK => Numbers
  BY ExpiriesAreNat, ExpiriesAssumption, IntervalAssumption DEF TypeOK, Numbers

\* In the loop the interval is a positive number.
LEMMA IntervalPositive ==
  ASSUME TypeOK, IntervalKept, Looping
  PROVE  interval \in Nat /\ interval >= MinInterval /\ interval > 0
  BY TypedNumbers, WaitBounds, IntervalAssumption DEF IntervalKept, Numbers

\* A message has the kind and the expiry it was made with.
LEMMA MessageFields ==
  ASSUME NEW kind, NEW e
  PROVE  /\ Message(kind, e).kind = kind
         /\ Message(kind, e).expires = e
         /\ kind \in {"idle", "request", "200", "401", "other"} /\ e \in Expiries \cup {0}
            => Message(kind, e) \in Wires
  BY DEF Message, Wires

\* The invariant holds when the first request is sent.
LEMMA InitIInv == Init => IInv
<1> SUFFICES ASSUME Init PROVE IInv
  OBVIOUS
<1>1. TypeOK
  BY ExpiriesAreNat, ExpiriesAssumption, LimitsAssumption, MessageFields
  DEF Init, TypeOK, Places, Statuses, Expiries
<1>2. IntervalKept /\ AsksForExpiry /\ BindingAge /\ ShutdownBudget /\ ShutdownInTime
  BY MessageFields, ExpiriesAreNat, LimitsAssumption
  DEF Init, IntervalKept, Looping, AsksForExpiry, BindingAge, Registering, ShutdownBudget,
      ShutdownInTime, Expiries
<1>3. QED
  BY <1>1, <1>2 DEF IInv

\* The uplink and the operator keep the invariant: a reply is as old as the
\* binding it tells of.
LEMMA EnvironmentIInv ==
  ASSUME IInv, Environment
  PROVE  IInv'
<1> USE ExpiriesAreNat, ExpiriesAssumption, LimitsAssumption, MessageFields
    DEF IInv, TypeOK, IntervalKept, Looping, AsksForExpiry, BindingAge, Registering,
        ShutdownBudget, ShutdownInTime, run, request, uplink, Asked
<1>1. ASSUME NEW g \in Grants, UplinkAccepts(g) PROVE IInv'
  <2>1. bound' \in Nat /\ granted' \in Grants \cup {0} /\ bound' = granted'
    BY <1>1 DEF UplinkAccepts, Binds
  <2>2. PICK announced \in {bound', wire.expires} : wire' = Message("200", announced)
    BY <1>1 DEF UplinkAccepts
  <2>3. /\ wire.expires \in Expiries \cup {0} /\ bound' \in Expiries \cup {0}
        /\ wire.expires \in Expiries => bound' \in Expiries
    BY <1>1 DEF UplinkAccepts, Binds, Expiries, Wires
  <2>4. wire' \in Wires /\ wire'.kind = "200" /\ (wire.expires \in Expiries => wire'.expires \in Expiries)
    BY <2>2, <2>3
  <2>5. QED
    BY <1>1, <2>1, <2>4 DEF UplinkAccepts
<1>2. ASSUME NEW g \in Grants, UplinkAnswersOtherwise(g) PROVE IInv'
  <2>1. bound' \in Nat /\ granted' \in Grants \cup {0}
    BY <1>2 DEF UplinkAnswersOtherwise, Binds
  <2>2. QED
    BY <1>2, <2>1 DEF UplinkAnswersOtherwise
<1>3. CASE UplinkChallenges
  BY <1>3 DEF UplinkChallenges
<1>4. CASE UplinkRepeats
  BY <1>4 DEF UplinkRepeats
<1>5. CASE Cancel
  BY <1>5 DEF Cancel
<1>6. QED
  BY <1>1, <1>2, <1>3, <1>4, <1>5 DEF Environment

\* register keeps it: success starts the wait for a binding no older than the
\* reply could take, failure starts the pause.
LEMMA RegisterIInv ==
  ASSUME IInv, RegisterSucceeds \/ RegisterChallenged \/ RegisterFails
  PROVE  IInv'
<1> USE ExpiriesAreNat, ExpiriesAssumption, LimitsAssumption, IntervalAssumption,
        MessageFields
    DEF IInv, TypeOK, IntervalKept, Looping, AsksForExpiry, BindingAge, Registering,
        ShutdownBudget, ShutdownInTime, run, request, uplink, Replied
<1>1. CASE RegisterSucceeds
  <2>1. wire.kind = "200" /\ wire.expires \in Expiries
    BY <1>1 DEF RegisterSucceeds, Wires
  <2>2. wire' = Idle /\ wire' \in Wires /\ wire'.kind = "idle"
    BY <1>1 DEF RegisterSucceeds, ToLoop, Idle
  <2>3. /\ Wait(wire.expires) \in Nat
        /\ Wait(wire.expires) >= MinInterval
    BY <2>1, WaitBounds
  <2>4. /\ first' \in Expiries \cup {0} /\ interval' = Wait(first')
        /\ interval' \in Nat /\ interval' >= MinInterval
    <3>1. CASE pc = "first"
      BY <1>1, <2>1, <2>3, <3>1 DEF RegisterSucceeds
    <3>2. CASE pc = "refresh"
      <4>1. first' = first /\ interval' = interval
        BY <1>1, <3>2 DEF RegisterSucceeds
      <4>2. interval >= MinInterval /\ interval \in Nat
        BY <3>2, IntervalPositive
      <4>3. QED
        BY <3>2, <4>1, <4>2
    <3>3. QED
      BY <1>1, <3>1, <3>2 DEF RegisterSucceeds
  <2>5. TypeOK'
    BY <1>1, <2>1, <2>2, <2>4 DEF RegisterSucceeds, ToLoop, Places, Statuses
  <2>6. QED
    BY <1>1, <2>2, <2>4, <2>5 DEF RegisterSucceeds, ToLoop
<1>2. CASE RegisterChallenged
  <2>1. wire' = Message("request", expiry) /\ wire' \in Wires
    BY <1>2 DEF RegisterChallenged
  <2>2. TypeOK'
    BY <1>2, <2>1, LimitsAreNat DEF RegisterChallenged, Statuses
  <2>3. wire'.kind = "request" /\ wire'.expires \in Expiries
    BY <2>1
  <2>4. QED
    BY <1>2, <2>2, <2>3, LimitsAreNat DEF RegisterChallenged
<1>3. CASE RegisterFails
  <2>1. /\ status' \in {"401", "other", "error"}
        /\ UNCHANGED <<expiry, interval, first, wire, auth, replay, cancelled,
                       bound, granted, waited>>
    BY <1>3 DEF RegisterFails, RegisterGivesUp
  <2>2. \/ pc' = "failed" /\ timer' = 0
        \/ pc = "refresh" /\ pc' = "pause" /\ timer' = RetryPause
    BY <1>3 DEF RegisterFails
  <2>3. waited = 0
    BY <1>3 DEF RegisterFails
  <2>4. TypeOK'
    BY <2>1, <2>2, LimitsAreNat DEF Places, Statuses
  <2>5. (IntervalKept /\ AsksForExpiry /\ BindingAge /\ ShutdownBudget /\ ShutdownInTime)'
    BY <2>1, <2>2, <2>3, LimitsAreNat, TypedNumbers DEF Numbers
  <2>6. QED
    BY <2>4, <2>5
<1>4. QED
  BY <1>1, <1>2, <1>3

\* So do the other steps of Run.
LEMMA LoopIInv ==
  ASSUME IInv,
         Refresh \/ PauseEnds \/ Shutdown \/ UnregisterChallenged \/ UnregisterEnds
  PROVE  IInv'
<1> USE LimitsAreNat, MessageFields
    DEF IInv, IntervalKept, Looping, AsksForExpiry, BindingAge, Registering,
        ShutdownBudget, ShutdownInTime, run, request, uplink, Replied, Send, Numbers
<1>0. TypeOK /\ Numbers
  BY TypedNumbers
<1>1. CASE Refresh
  <2>1. wire' = Message("request", expiry) /\ wire' \in Wires /\ expiry \in Expiries
    BY <1>1 DEF Refresh, TypeOK
  <2>2. TypeOK'
    BY <1>1, <2>1 DEF Refresh, TypeOK, Places
  <2>3. QED
    BY <1>0, <1>1, <2>1, <2>2 DEF Refresh
<1>2. CASE PauseEnds
  <2>1. interval \in Nat /\ interval > 0
    BY <1>2, IntervalPositive DEF PauseEnds
  <2>2. TypeOK'
    BY <1>2, <2>1 DEF PauseEnds, TypeOK, Places
  <2>3. QED
    BY <1>0, <1>2, <2>1, <2>2 DEF PauseEnds
<1>3. CASE Shutdown
  <2>1. wire' \in Wires
    BY <1>3 DEF Shutdown
  <2>2. TypeOK'
    BY <1>3, <2>1 DEF Shutdown, TypeOK, Places
  <2>3. QED
    BY <1>0, <1>3, <2>2 DEF Shutdown
<1>4. CASE UnregisterChallenged
  BY <1>4 DEF UnregisterChallenged, TypeOK, Statuses
<1>5. CASE UnregisterEnds
  <2>1. TypeOK'
    BY <1>5 DEF UnregisterEnds, TypeOK, Places, Statuses
  <2>2. QED
    BY <1>0, <1>5, <2>1 DEF UnregisterEnds
<1>6. QED
  BY <1>1, <1>2, <1>3, <1>4, <1>5

\* Time wears down binding and timer alike.
LEMMA TickIInv ==
  ASSUME IInv, Tick
  PROVE  IInv'
<1> USE DEF run, request, Numbers
<1>1. TypeOK /\ Numbers
  BY TypedNumbers DEF IInv
<1>2. TypeOK'
  BY <1>1 DEF Tick, TypeOK
<1>3. timer' <= timer /\ bound' + 1 >= bound
  BY <1>1 DEF Tick
<1>4. CASE Waiting
  <2>1. timer' = timer - 1 /\ timer > 0 /\ bound' >= bound - 1
    BY <1>1, <1>4 DEF Tick, Waiting
  <2>2. IntervalKept' /\ AsksForExpiry'
    BY DEF IInv, IntervalKept, AsksForExpiry, Looping, Registering, Tick
  <2>3. BindingAge'
    BY <1>1, <1>2, <2>1, LimitsAreNat
    DEF IInv, BindingAge, Registering, Tick
  <2>4. ShutdownBudget' /\ ShutdownInTime'
    BY <1>1, <1>4, <2>1, LimitsAreNat
    DEF IInv, ShutdownBudget, ShutdownInTime, Registering, Tick, Waiting, Places, TypeOK
  <2>5. QED
    BY <1>2, <2>2, <2>3, <2>4 DEF IInv
<1>5. CASE ~Waiting
  BY <1>1, <1>2, <1>5
  DEF IInv, IntervalKept, Looping, AsksForExpiry, BindingAge, Registering,
      ShutdownBudget, ShutdownInTime, Tick
<1>6. QED
  BY <1>4, <1>5

\* Nothing changes in a stuttering step.
LEMMA StutterIInv == IInv /\ UNCHANGED vars => IInv'
  BY DEF IInv, TypeOK, IntervalKept, Looping, AsksForExpiry, BindingAge, Registering,
         ShutdownBudget, ShutdownInTime, vars, run, request, uplink

\* The inductive invariant holds in every reachable state.
THEOREM UplinkInvariant == Spec => []IInv
<1>1. IInv /\ [Next]_vars => IInv'
  BY EnvironmentIInv, RegisterIInv, LoopIInv, TickIInv, StutterIInv DEF Next, Run
<1>2. QED
  BY InitIInv, <1>1, PTL DEF Spec

\* Type correctness, for every expiry, grant and limit.
THEOREM UplinkTypeOK == Spec => []TypeOK
<1>1. IInv => TypeOK
  BY DEF IInv
<1>2. QED
  BY <1>1, UplinkInvariant, PTL

\* A refresh that follows a success starts before the binding lapses, for every
\* expiry that is long enough (register.go:42-46).
THEOREM UplinkRefreshInTime == Spec => []RefreshInTime
<1>1. IInv => RefreshInTime
  <2> SUFFICES ASSUME IInv, pc = "loop", status = "200", granted >= first,
                      first > 4 * RequestLimit, first > MinInterval + RequestLimit
               PROVE  bound > timer
    BY DEF RefreshInTime
  <2>1. /\ {first, timer, bound, granted, interval} \subseteq Nat
        /\ RequestLimit \in Nat
    BY ExpiriesAreNat, ExpiriesAssumption, LimitsAssumption, IntervalAssumption
    DEF IInv, TypeOK
  <2>2. interval = MinInterval \/ 4 * interval <= 3 * first
    BY <2>1, WaitBounds DEF IInv, IntervalKept, Looping
  <2>3. bound + RequestLimit + interval >= granted + timer
    BY DEF IInv, BindingAge
  <2>4. interval + RequestLimit < first
    BY <2>1, <2>2, IntervalAssumption
  <2>5. QED
    BY <2>1, <2>3, <2>4
<1>2. QED
  BY <1>1, UplinkInvariant, PTL

\* Run returns within the pause and the limit of the unregister
\* (register.go:49-60).
THEOREM UplinkShutdownInTime == Spec => []ShutdownInTime
<1>1. IInv => ShutdownInTime
  BY DEF IInv
<1>2. QED
  BY <1>1, UplinkInvariant, PTL

-----------------------------------------------------------------------------
\* The last request and the reply to it tell of the binding Run leaves behind.
LEMMA InitLastWord == Init => LastWord /\ BindingOutlivesFailureOnly
  BY DEF Init, LastWord, BindingOutlivesFailureOnly, Message

LEMMA EnvironmentLastWord ==
  ASSUME LeftInv, Environment
  PROVE  LastWord' /\ BindingOutlivesFailureOnly'
<1> USE MessageFields
    DEF LeftInv, LastWord, BindingOutlivesFailureOnly, run, request, uplink, Asked
<1>1. ASSUME NEW g \in Grants, UplinkAccepts(g)
      PROVE  LastWord' /\ BindingOutlivesFailureOnly'
  BY <1>1 DEF UplinkAccepts, Binds
<1>2. ASSUME NEW g \in Grants, UplinkAnswersOtherwise(g)
      PROVE  LastWord' /\ BindingOutlivesFailureOnly'
  BY <1>2 DEF UplinkAnswersOtherwise, Binds
<1>3. CASE UplinkChallenges
  BY <1>3 DEF UplinkChallenges
<1>4. CASE UplinkRepeats
  BY <1>4 DEF UplinkRepeats
<1>5. CASE Cancel
  BY <1>5 DEF Cancel
<1>6. QED
  BY <1>1, <1>2, <1>3, <1>4, <1>5 DEF Environment

\* A first register that is refused for good was not granted before; what an
\* unregister ends with is the reply to a request for no binding.
LEMMA RunLastWord ==
  ASSUME LeftInv, Run
  PROVE  LastWord' /\ BindingOutlivesFailureOnly'
<1> USE MessageFields
    DEF LeftInv, LastWord, BindingOutlivesFailureOnly, run, request, uplink, Replied,
        Registering, Send
<1>1. CASE RegisterSucceeds
  BY <1>1 DEF RegisterSucceeds, ToLoop
<1>2. CASE RegisterChallenged
  BY <1>2 DEF RegisterChallenged
<1>3. CASE RegisterFails
  BY <1>3, TypedNumbers DEF RegisterFails, RegisterGivesUp, Numbers
<1>4. CASE Refresh \/ PauseEnds
  BY <1>4 DEF Refresh, PauseEnds
<1>5. CASE Shutdown
  BY <1>5 DEF Shutdown
<1>6. CASE UnregisterChallenged
  BY <1>6 DEF UnregisterChallenged
<1>7. CASE UnregisterEnds
  BY <1>7, TypedNumbers DEF UnregisterEnds, Numbers
<1>8. QED
  BY <1>1, <1>2, <1>3, <1>4, <1>5, <1>6, <1>7 DEF Run

\* Time can only take the binding away.
LEMMA TickLastWord ==
  ASSUME LeftInv, Tick \/ UNCHANGED vars
  PROVE  LastWord' /\ BindingOutlivesFailureOnly'
<1>1. UNCHANGED <<pc, wire, auth, replay, status>>
  BY DEF Tick, vars, run, request
<1>2. bound \in Nat /\ bound' \in Nat /\ (bound = 0 => bound' = 0)
  BY TypedNumbers DEF LeftInv, Tick, vars, uplink, Numbers
<1>3. QED
  BY <1>1, <1>2 DEF LeftInv, LastWord, BindingOutlivesFailureOnly

\* What is left at the uplink when Run has returned (register.go:36-38, 49-55,
\* 208-255), for any expiries, grants and limits.
THEOREM UplinkOutlivesFailureOnly == Spec => []BindingOutlivesFailureOnly
<1>1. Init => LeftInv
  BY InitIInv, InitLastWord DEF LeftInv, IInv
<1>2. LeftInv /\ TypeOK' /\ [Next]_vars => LeftInv'
  BY EnvironmentLastWord, RunLastWord, TickLastWord DEF LeftInv, Next
<1>3. LeftInv => BindingOutlivesFailureOnly
  BY DEF LeftInv
<1>4. QED
  BY <1>1, <1>2, <1>3, UplinkTypeOK, PTL DEF Spec

=============================================================================
