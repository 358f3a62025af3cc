------------------------------- MODULE ForkCall -------------------------------
(***************************************************************************)
(* forkCall of calls.go: one goroutine per registered phone runs           *)
(* dg.Invite, the first to get the mutex with a session wins and cancels   *)
(* the others, each later one hangs up its own session, and the caller's   *)
(* handler waits for all of them on a WaitGroup.                           *)
(*                                                                         *)
(* dg.Invite belongs to the diago library and is modelled by how forkCall  *)
(* relies on it: it returns a session once the phone has answered, or an   *)
(* error when the phone refuses, cannot be reached, or the context is done *)
(* first.  An Invite that returns an error leaves no session behind, also  *)
(* when the answer and the cancellation cross.                             *)
(*                                                                         *)
(* The section under the mutex is one action: winner is read and written   *)
(* only there until wg.Wait has returned.                                  *)
(***************************************************************************)
EXTENDS Naturals

CONSTANTS
    Phones,     \* the users whose registrations forkCall is given
    NoPhone     \* winner == nil

ASSUME NoPhoneAssumption == NoPhone \notin Phones

VARIABLES
    go,         \* go[p]: where the goroutine that invites phone p stands
    line,       \* line[p]: the call as phone p sees it
    winner,     \* the phone whose session is in winner
    ctx,        \* why the fork's context is done, or "live"
    returned    \* has forkCall returned to the handler

vars == <<go, line, winner, ctx, returned>>

\* unborn: not yet started by the loop; inviting: in dg.Invite; answered: it
\* holds a session and is about to lock mu; hangup, close: it lost and has
\* d.Hangup, then d.Close, ahead of it; done: after wg.Done.
GoStates == {"unborn", "inviting", "answered", "hangup", "close", "done"}

\* cancelled: the INVITE was withdrawn; gone, released: who hung up the call.
LineStates == {"idle", "ringing", "refused", "cancelled", "up", "gone", "released"}

CtxStates == {"live", "timeout", "caller", "cancel"}

TypeOK ==
    /\ go \in [Phones -> GoStates]
    /\ line \in [Phones -> LineStates]
    /\ winner \in Phones \cup {NoPhone}
    /\ ctx \in CtxStates
    /\ returned \in BOOLEAN

Init ==
    /\ go = [p \in Phones |-> "unborn"]
    /\ line = [p \in Phones |-> "idle"]
    /\ winner = NoPhone
    /\ ctx = "live"
    /\ returned = FALSE

-----------------------------------------------------------------------------
(***************************************************************************)
(* The phones, the caller and the clock.                                   *)
(***************************************************************************)
PhoneRings(p) ==
    /\ go[p] = "inviting"
    /\ line[p] = "idle"
    /\ line' = [line EXCEPT ![p] = "ringing"]
    /\ UNCHANGED <<go, winner, ctx, returned>>

PhoneAnswers(p) ==
    /\ line[p] = "ringing"
    /\ line' = [line EXCEPT ![p] = "up"]
    /\ UNCHANGED <<go, winner, ctx, returned>>

PhoneRefuses(p) ==
    /\ line[p] = "ringing"
    /\ line' = [line EXCEPT ![p] = "refused"]
    /\ UNCHANGED <<go, winner, ctx, returned>>

\* A callee may hang up only once its answer has been acknowledged, that is
\* when Invite has returned.
PhoneHangsUp(p) ==
    /\ line[p] = "up"
    /\ go[p] # "inviting"
    /\ line' = [line EXCEPT ![p] = "gone"]
    /\ UNCHANGED <<go, winner, ctx, returned>>

\* The context ends by its 30 second limit or with the caller's own dialog.
ContextEnds(why) ==
    /\ ctx = "live"
    /\ ctx' = why
    /\ UNCHANGED <<go, line, winner, returned>>

-----------------------------------------------------------------------------
(***************************************************************************)
(* The goroutines and the handler that waits for them.                     *)
(***************************************************************************)
\* One turn of the loop over regs: wg.Add(1) and the go statement.
Spawn(p) ==
    /\ go[p] = "unborn"
    /\ go' = [go EXCEPT ![p] = "inviting"]
    /\ UNCHANGED <<line, winner, ctx, returned>>

InviteOK(p) ==
    /\ go[p] = "inviting"
    /\ line[p] = "up"
    /\ go' = [go EXCEPT ![p] = "answered"]
    /\ UNCHANGED <<line, winner, ctx, returned>>

\* Mutant: the phone is invited with a context nothing ends.
InviteFailsWithoutContext(p) ==
    /\ go[p] = "inviting"
    /\ line[p] \in {"idle", "refused"}
    /\ go' = [go EXCEPT ![p] = "done"]
    /\ line' = [line EXCEPT ![p] = IF @ = "refused" THEN @ ELSE "cancelled"]
    /\ UNCHANGED <<winner, ctx, returned>>

InviteFails(p) ==
    /\ go[p] = "inviting"
    /\ ctx # "live" \/ line[p] \in {"idle", "refused"}
    /\ go' = [go EXCEPT ![p] = "done"]
    /\ line' = [line EXCEPT ![p] = IF @ = "refused" THEN @ ELSE "cancelled"]
    /\ UNCHANGED <<winner, ctx, returned>>

CancelRest == IF ctx = "live" THEN "cancel" ELSE ctx

\* Mutant: no test of winner == nil.
WinAnyway(p) ==
    /\ go[p] = "answered"
    /\ winner' = p
    /\ ctx' = CancelRest
    /\ go' = [go EXCEPT ![p] = "done"]
    /\ UNCHANGED <<line, returned>>

\* Under mu: the first session becomes the winner and cancels the others.
Win(p) ==
    /\ go[p] = "answered"
    /\ winner = NoPhone
    /\ winner' = p
    /\ ctx' = CancelRest
    /\ go' = [go EXCEPT ![p] = "done"]
    /\ UNCHANGED <<line, returned>>

\* Mutant: a session that arrives after the context ended is hung up too.
LoseWhenLate(p) ==
    /\ go[p] = "answered"
    /\ winner # NoPhone \/ ctx # "live"
    /\ go' = [go EXCEPT ![p] = "hangup"]
    /\ UNCHANGED <<line, winner, ctx, returned>>

\* Under mu: the session came second.
Lose(p) ==
    /\ go[p] = "answered"
    /\ winner # NoPhone
    /\ go' = [go EXCEPT ![p] = "hangup"]
    /\ UNCHANGED <<line, winner, ctx, returned>>

HangupLoser(p) ==
    /\ go[p] = "hangup"
    /\ go' = [go EXCEPT ![p] = "close"]
    /\ line' = [line EXCEPT ![p] = IF @ = "up" THEN "released" ELSE @]
    /\ UNCHANGED <<winner, ctx, returned>>

CloseLoser(p) ==
    /\ go[p] = "close"
    /\ go' = [go EXCEPT ![p] = "done"]
    /\ UNCHANGED <<line, winner, ctx, returned>>

\* Mutant: the handler goes on as soon as there is a winner.
WinnerIsEnough == winner # NoPhone \/ \A p \in Phones : go[p] = "done"

\* wg.Wait has nothing left to wait for.
WaitOver == \A p \in Phones : go[p] = "done"

\* forkCall returns winner, or the error when it is nil; cancel is deferred.
ReturnWinner ==
    /\ ~returned
    /\ WaitOver
    /\ returned' = TRUE
    /\ ctx' = CancelRest
    /\ UNCHANGED <<go, line, winner>>

-----------------------------------------------------------------------------
Environment ==
    \/ \E p \in Phones :
          PhoneRings(p) \/ PhoneAnswers(p) \/ PhoneRefuses(p) \/ PhoneHangsUp(p)
    \/ ContextEnds("caller")

Timeout == ContextEnds("timeout")

Goroutine(p) ==
    \/ Spawn(p)
    \/ InviteOK(p)
    \/ InviteFails(p)
    \/ Win(p)
    \/ Lose(p)
    \/ HangupLoser(p)
    \/ CloseLoser(p)

Next ==
    \/ Environment
    \/ Timeout
    \/ \E p \in Phones : Goroutine(p)
    \/ ReturnWinner

Spec == Init /\ [][Next]_vars

\* The Go scheduler runs every goroutine that can move, and the timer of
\* context.WithTimeout fires.  Phones and the caller promise nothing.
FairSpec ==
    /\ Spec
    /\ WF_vars(Timeout)
    /\ WF_vars(ReturnWinner)
    /\ \A p \in Phones : WF_vars(Goroutine(p))

-----------------------------------------------------------------------------
(***************************************************************************)
(* Properties.                                                             *)
(***************************************************************************)
\* When forkCall returns, every phone but the winner is out of the call: none
\* still rings and none has a session open.  calls.go:432-446: the losers hang
\* up after the unlock, and only the WaitGroup makes the handler wait for it.
ReturnSettlesEveryPhone ==
    returned => \A p \in Phones \ {winner} : line[p] \notin {"ringing", "up"}

\* forkCall reports "no phones answered" only when no Invite gave it a session,
\* whatever the limit of 30 seconds and the caller did meanwhile
\* (calls.go:432-450): a phone that got through is never turned away for nobody.
NoAnswerDropped ==
    returned /\ winner = NoPhone =>
        \A p \in Phones : line[p] \notin {"up", "gone", "released"}

\* Once chosen, the winner stays the winner and the fork never hangs up on it,
\* however many other phones answer at the same moment (calls.go:432-442).
WinnerKept ==
    [][\A p \in Phones : winner = p => winner' = p /\ line'[p] # "released"]_vars

\* forkCall returns, whether or not a phone reacts at all: the handler of a call
\* is never stuck in wg.Wait (calls.go:407, 446).
ForkReturns == <>returned

\* The session the server holds with phone p: none before Invite has returned
\* one and none if it returned an error.
Session(p) ==
    IF go[p] \in {"unborn", "inviting"} \/ line[p] \in {"refused", "cancelled"}
    THEN "none" ELSE line[p]

Promise == INSTANCE FirstAnswer
    WITH leg <- [p \in Phones |-> Session(p)], chosen <- winner

\* forkCall keeps the promise of FirstAnswer (calls.go:405-406): first to answer
\* wins, everyone else is hung up before the return.
KeepsPromise == Promise!Spec

(***************************************************************************)
(* The inductive invariant: what each place in a goroutine says about the  *)
(* phone's side of the call and about the winner.                          *)
(***************************************************************************)
WaitingLines ==
    \A p \in Phones :
        /\ go[p] = "unborn" => line[p] = "idle"
        /\ go[p] = "inviting" => line[p] \in {"idle", "ringing", "refused", "up"}
        /\ go[p] = "answered" => line[p] \in {"up", "gone"} /\ winner # p

LoserLines ==
    \A p \in Phones :
        /\ go[p] = "hangup" => line[p] \in {"up", "gone"} /\ winner \notin {p, NoPhone}
        /\ go[p] = "close" => line[p] \in {"gone", "released"} /\ winner \notin {p, NoPhone}
        /\ go[p] = "done" /\ winner # p =>
               \/ line[p] \in {"refused", "cancelled"}
               \/ line[p] \in {"gone", "released"} /\ winner # NoPhone

WinnerLine ==
    winner # NoPhone => go[winner] = "done" /\ line[winner] \in {"up", "gone"}

IInv ==
    /\ TypeOK
    /\ WaitingLines
    /\ LoserLines
    /\ WinnerLine
    /\ returned => WaitOver

=============================================================================
