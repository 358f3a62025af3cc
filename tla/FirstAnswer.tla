----------------------------- MODULE FirstAnswer -----------------------------
(***************************************************************************)
(* What forking a call promises, whoever runs the goroutines: of the       *)
(* phones that pick up, one at most is chosen, every other session is hung *)
(* up before the fork returns, and a phone that was not chosen is never    *)
(* left talking to nobody.  The promise is the comment above forkCall,     *)
(* "returns the first to answer", and the body that keeps it.              *)
(*                                                                         *)
(* ForkCall implements this specification; CallHandler uses its actions    *)
(* for the time a call spends in forkCall.                                 *)
(***************************************************************************)
CONSTANTS
    Phones,     \* the phones a call may be forked to
    NoPhone     \* no phone: the nil session

VARIABLES
    leg,        \* leg[p]: the session the server holds with phone p
    chosen,     \* the phone whose session the fork will return
    returned    \* has the fork returned

forkVars == <<leg, chosen, returned>>

\* none: no session, up: talking, gone: the phone hung up,
\* released: the server hung up.
LegStates == {"none", "up", "gone", "released"}

TypeOK ==
    /\ leg \in [Phones -> LegStates]
    /\ chosen \in Phones \cup {NoPhone}
    /\ returned \in BOOLEAN

Init ==
    /\ leg = [p \in Phones |-> "none"]
    /\ chosen = NoPhone
    /\ returned = FALSE

\* Phone p has picked up and the server holds a session with it.
Establish(p) ==
    /\ ~returned
    /\ leg[p] = "none"
    /\ leg' = [leg EXCEPT ![p] = "up"]
    /\ UNCHANGED <<chosen, returned>>

\* The session of phone p becomes the one the fork returns.
Choose(p) ==
    /\ ~returned
    /\ chosen = NoPhone
    /\ leg[p] \in {"up", "gone"}
    /\ chosen' = p
    /\ UNCHANGED <<leg, returned>>

\* The server hangs up on a phone that came second.
Release(p) ==
    /\ ~returned
    /\ leg[p] = "up"
    /\ chosen \notin {p, NoPhone}
    /\ leg' = [leg EXCEPT ![p] = "released"]
    /\ UNCHANGED <<chosen, returned>>

\* The phone itself hangs up, in the fork or after it.
Leave(p) ==
    /\ leg[p] = "up"
    /\ leg' = [leg EXCEPT ![p] = "gone"]
    /\ UNCHANGED <<chosen, returned>>

\* The fork returns the chosen session, or no session if nobody picked up.
Return ==
    /\ ~returned
    /\ \A p \in Phones \ {chosen} : leg[p] # "up"
    /\ chosen = NoPhone => \A p \in Phones : leg[p] = "none"
    /\ returned' = TRUE
    /\ UNCHANGED <<leg, chosen>>

Next ==
    \/ \E p \in Phones : Establish(p) \/ Choose(p) \/ Release(p) \/ Leave(p)
    \/ Return

Spec == Init /\ [][Next]_forkVars

=============================================================================
