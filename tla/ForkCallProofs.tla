---------------------------- MODULE ForkCallProofs ----------------------------
(***************************************************************************)
(* Proofs about ForkCall for any set of phones: type correctness, the two  *)
(* safety invariants, the action property and the refinement of            *)
(* FirstAnswer, all from the inductive invariant IInv of ForkCall.         *)
(***************************************************************************)
EXTENDS ForkCall, TLAPS

LEMMA InitIInv == Init => IInv
  BY NoPhoneAssumption
  DEF Init, IInv, TypeOK, GoStates, LineStates, CtxStates, WaitingLines,
      LoserLines, WinnerLine

\* The steps of the phones, the caller and the timer keep the invariant: they
\* change a line only where its goroutine still expects it.
LEMMA EnvironmentIInv ==
  ASSUME IInv, Environment \/ Timeout
  PROVE  IInv'
<1> USE NoPhoneAssumption
    DEF IInv, TypeOK, GoStates, LineStates, CtxStates, WaitingLines,
        LoserLines, WinnerLine, WaitOver
<1>1. ASSUME NEW p \in Phones, PhoneRings(p) PROVE IInv'
  BY <1>1 DEF PhoneRings
<1>2. ASSUME NEW p \in Phones, PhoneAnswers(p) PROVE IInv'
  BY <1>2 DEF PhoneAnswers
<1>3. ASSUME NEW p \in Phones, PhoneRefuses(p) PROVE IInv'
  BY <1>3 DEF PhoneRefuses
<1>4. ASSUME NEW p \in Phones, PhoneHangsUp(p) PROVE IInv'
  BY <1>4 DEF PhoneHangsUp
<1>5. ASSUME NEW why \in {"caller", "timeout"}, ContextEnds(why) PROVE IInv'
  BY <1>5 DEF ContextEnds
<1>6. QED
  BY <1>1, <1>2, <1>3, <1>4, <1>5 DEF Environment, Timeout

\* Every step of a goroutine keeps the invariant.
LEMMA GoroutineIInv ==
  ASSUME IInv, NEW p \in Phones, Goroutine(p)
  PROVE  IInv'
<1> USE NoPhoneAssumption
    DEF IInv, TypeOK, GoStates, LineStates, CtxStates, WaitingLines,
        LoserLines, WinnerLine, WaitOver, CancelRest
<1>1. CASE Spawn(p)
  BY <1>1 DEF Spawn
<1>2. CASE InviteOK(p)
  BY <1>2 DEF InviteOK
<1>3. CASE InviteFails(p)
  BY <1>3 DEF InviteFails
<1>4. CASE Win(p)
  BY <1>4 DEF Win
<1>5. CASE Lose(p)
  BY <1>5 DEF Lose
<1>6. CASE HangupLoser(p)
  BY <1>6 DEF HangupLoser
<1>7. CASE CloseLoser(p)
  BY <1>7 DEF CloseLoser
<1>8. QED
  BY <1>1, <1>2, <1>3, <1>4, <1>5, <1>6, <1>7 DEF Goroutine

LEMMA ReturnIInv ==
  ASSUME IInv, ReturnWinner
  PROVE  IInv'
  BY DEF IInv, TypeOK, GoStates, LineStates, CtxStates, WaitingLines,
         LoserLines, WinnerLine, WaitOver, ReturnWinner, CancelRest

LEMMA StutterIInv == IInv /\ UNCHANGED vars => IInv'
  BY DEF IInv, TypeOK, WaitingLines, LoserLines, WinnerLine, WaitOver, vars

\* The inductive invariant holds in every reachable state.
THEOREM ForkInvariant == Spec => []IInv
<1>1. IInv /\ [Next]_vars => IInv'
  BY EnvironmentIInv, GoroutineIInv, ReturnIInv, StutterIInv DEF Next
<1>2. QED
  BY InitIInv, <1>1, PTL DEF Spec

\* Type correctness, for every set of phones.
THEOREM ForkTypeOK == Spec => []TypeOK
<1>1. IInv => TypeOK
  BY DEF IInv
<1>2. QED
  BY <1>1, ForkInvariant, PTL

\* Whoever is not the winner is out of the call when forkCall returns
\* (calls.go:432-446), for any number of phones.
THEOREM ForkSettles == Spec => []ReturnSettlesEveryPhone
<1>1. IInv => ReturnSettlesEveryPhone
  BY DEF IInv, TypeOK, LoserLines, WaitOver, ReturnSettlesEveryPhone
<1>2. QED
  BY <1>1, ForkInvariant, PTL

\* An error from forkCall means that no phone had got through (calls.go:432-450).
THEOREM ForkDropsNoAnswer == Spec => []NoAnswerDropped
<1>1. IInv => NoAnswerDropped
  BY NoPhoneAssumption
  DEF IInv, TypeOK, LoserLines, WaitOver, NoAnswerDropped
<1>2. QED
  BY <1>1, ForkInvariant, PTL

\* The winner is never replaced and never hung up (calls.go:432-442).
THEOREM ForkKeepsWinner == Spec => WinnerKept
<1> DEFINE Kept == \A p \in Phones : winner = p => winner' = p /\ line'[p] # "released"
<1>1. ASSUME IInv, IInv', [Next]_vars PROVE Kept
  <2> SUFFICES ASSUME NEW p \in Phones, winner = p
               PROVE  winner' = p /\ line'[p] # "released"
    OBVIOUS
  <2>1. winner' = p
    BY <1>1, NoPhoneAssumption
    DEF Next, Environment, Timeout, ContextEnds, PhoneRings, PhoneAnswers,
        PhoneRefuses, PhoneHangsUp, Goroutine, Spawn, InviteOK, InviteFails,
        Win, Lose, HangupLoser, CloseLoser, ReturnWinner, vars
  <2>2. line'[p] \in {"up", "gone"}
    BY <1>1, <2>1, NoPhoneAssumption DEF IInv, WinnerLine
  <2>3. QED
    BY <2>1, <2>2
<1>2. IInv /\ IInv' /\ [Next]_vars => [Kept]_vars
  BY <1>1
<1>3. QED
  BY <1>2, ForkInvariant, PTL DEF Spec, WinnerKept

-----------------------------------------------------------------------------
(***************************************************************************)
(* The refinement of FirstAnswer: which promised step each step takes.     *)
(***************************************************************************)
LEMMA InitRefines == Init => Promise!Init
  BY DEF Init, Promise!Init, Session

\* Of the phones' steps the promise sees only a hang-up; ringing, answering and
\* refusing happen before Invite returns, the end of the context is invisible.
LEMMA EnvironmentRefines ==
  ASSUME IInv, Environment \/ Timeout
  PROVE  [Promise!Next]_(Promise!forkVars)
<1> USE DEF Promise!forkVars, Session
<1>1. ASSUME NEW p \in Phones,
             PhoneRings(p) \/ PhoneAnswers(p) \/ PhoneRefuses(p)
      PROVE  UNCHANGED Promise!forkVars
  <2>1. go[p] = "inviting"
    BY <1>1, NoPhoneAssumption
    DEF PhoneRings, PhoneAnswers, PhoneRefuses, IInv, TypeOK, GoStates,
        WaitingLines, LoserLines, WinnerLine
  <2>2. UNCHANGED <<go, winner, returned>> /\ \A q \in Phones \ {p} : line'[q] = line[q]
    BY <1>1 DEF PhoneRings, PhoneAnswers, PhoneRefuses, IInv, TypeOK
  <2>3. \A q \in Phones : Session(q)' = Session(q)
    BY <2>1, <2>2
  <2>4. QED
    BY <2>2, <2>3
<1>2. ASSUME NEW p \in Phones, PhoneHangsUp(p) PROVE Promise!Leave(p)
  BY <1>2 DEF PhoneHangsUp, Promise!Leave, IInv, TypeOK, WaitingLines
<1>3. ASSUME NEW why, ContextEnds(why) PROVE UNCHANGED Promise!forkVars
  BY <1>3 DEF ContextEnds
<1>4. QED
  BY <1>1, <1>2, <1>3 DEF Environment, Timeout, Promise!Next

\* InviteOK establishes a session, Win chooses it, HangupLoser releases it; the
\* other steps of a goroutine are its own business.
LEMMA GoroutineRefines ==
  ASSUME IInv, NEW p \in Phones, Goroutine(p)
  PROVE  [Promise!Next]_(Promise!forkVars)
<1> USE NoPhoneAssumption
    DEF Promise!forkVars, Session, IInv, TypeOK, WaitingLines, LoserLines,
        WinnerLine, WaitOver
<1>1. CASE Spawn(p)
  BY <1>1 DEF Spawn
<1>2. CASE InviteOK(p)
  <2>1. Promise!Establish(p)
    BY <1>2 DEF InviteOK, Promise!Establish
  <2>2. QED
    BY <2>1 DEF Promise!Next
<1>3. CASE InviteFails(p)
  BY <1>3 DEF InviteFails
<1>4. CASE Win(p)
  <2>1. Promise!Choose(p)
    BY <1>4 DEF Win, Promise!Choose
  <2>2. QED
    BY <2>1 DEF Promise!Next
<1>5. CASE Lose(p)
  BY <1>5 DEF Lose
<1>6. CASE HangupLoser(p)
  <2>1. CASE line[p] = "up"
    <3>1. Promise!Release(p)
      BY <1>6, <2>1 DEF HangupLoser, Promise!Release
    <3>2. QED
      BY <3>1 DEF Promise!Next
  <2>2. CASE line[p] # "up"
    BY <1>6, <2>2 DEF HangupLoser
  <2>3. QED
    BY <2>1, <2>2
<1>7. CASE CloseLoser(p)
  BY <1>7 DEF CloseLoser
<1>8. QED
  BY <1>1, <1>2, <1>3, <1>4, <1>5, <1>6, <1>7 DEF Goroutine

LEMMA ReturnRefines ==
  ASSUME IInv, ReturnWinner
  PROVE  Promise!Next
<1>1. Promise!Return
  BY NoPhoneAssumption
  DEF ReturnWinner, Promise!Return, Session, IInv, TypeOK, LoserLines, WaitOver
<1>2. QED
  BY <1>1 DEF Promise!Next

\* forkCall implements the promise of FirstAnswer (calls.go:405-451) for any set
\* of phones: first to answer wins, the others are hung up before the return.
THEOREM ForkKeepsPromise == Spec => KeepsPromise
<1>1. UNCHANGED vars => UNCHANGED Promise!forkVars
  BY DEF vars, Promise!forkVars, Session
<1>2. IInv /\ [Next]_vars => [Promise!Next]_(Promise!forkVars)
  BY <1>1, EnvironmentRefines, GoroutineRefines, ReturnRefines DEF Next
<1>3. QED
  BY InitRefines, <1>2, ForkInvariant, PTL DEF Spec, KeepsPromise, Promise!Spec

=============================================================================
