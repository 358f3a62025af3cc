---------------------------- MODULE UplinkRegistrar ----------------------------
(***************************************************************************)
(* The registration on the uplink (register.go): Run registers, refreshes  *)
(* until its context is cancelled, and then unregisters.                   *)
(*                                                                         *)
(* Time passes in units, and only while Run waits: for a reply, for the    *)
(* next refresh, in the pause after a failure.  The uplink is outside of   *)
(* the repository: it challenges, grants any expiry, refuses or is silent; *)
(* requests reach it in order or not at all.  What an Authorization header *)
(* proves is left out: the uplink believes it or refuses.                  *)
(***************************************************************************)
EXTENDS Naturals

CONSTANTS
    Requested,          \* cfg.ExpiryDuration()
    Grants,             \* the expiries the uplink may grant, 0 for no binding
    MinInterval,        \* 30 s, the least time between refreshes
    RetryPause,         \* 5 s, the sleep after a failed refresh
    UnregisterLimit,    \* 5 s, the limit of the unregister
    RequestLimit        \* how long sipgo waits for the reply to a request

ASSUME ExpiriesAssumption == Requested \in Nat \ {0} /\ Grants \subseteq Nat
ASSUME IntervalAssumption == MinInterval \in Nat \ {0}
ASSUME LimitsAssumption == {RetryPause, UnregisterLimit, RequestLimit} \subseteq Nat

VARIABLES
    pc,         \* where Run stands
    expiry,     \* r.expiry
    interval,   \* reregInterval
    timer,      \* time left of what Run waits for
    cancelled,  \* the context is done
    wire,       \* the last request, until answered, or the reply to it
    auth,       \* that request carries credentials
    replay,     \* and the branch of a request that was answered before
    status,     \* what the last doRequest gave
    bound,      \* time until the binding at the uplink lapses, 0 if none
    granted,    \* history: the expiry of the last binding made
    first,      \* history: r.expiry when the loop was entered, 0 before
    waited      \* history: time since the cancellation

run == <<pc, expiry, interval, first>>
request == <<wire, auth, replay>>
uplink == <<bound, granted>>
vars == <<run, request, uplink, timer, cancelled, status, waited>>

\* first, refresh: in register; loop: in the select; failed: Run has returned
\* the error of its first register; stopped: it has returned after unregister.
Places == {"first", "loop", "refresh", "pause", "unregister", "stopped", "failed"}

Expiries == Grants \cup {Requested}

\* other: any other status, a provisional one included, or a challenge without
\* its header; error: no reply.
Statuses == {"none", "200", "401", "other", "error"}

Wires == [kind : {"idle", "request", "200", "401", "other"}, expires : Expiries \cup {0}]

TypeOK ==
    /\ pc \in Places
    /\ expiry \in Expiries
    /\ interval \in {0} \cup {n \in Nat : n >= MinInterval}
    /\ timer \in Nat
    /\ cancelled \in BOOLEAN
    /\ wire \in Wires
    /\ auth \in BOOLEAN
    /\ replay \in BOOLEAN
    /\ status \in Statuses
    /\ bound \in Nat
    /\ granted \in Grants \cup {0}
    /\ first \in Expiries \cup {0}
    /\ waited \in Nat

Message(kind, expires) == [kind |-> kind, expires |-> expires]

Idle == Message("idle", 0)

Init ==
    /\ pc = "first"
    /\ expiry = Requested
    /\ interval = 0
    /\ timer = RequestLimit
    /\ cancelled = FALSE
    /\ wire = Message("request", Requested)
    /\ auth = FALSE
    /\ replay = FALSE
    /\ status = "none"
    /\ bound = 0
    /\ granted = 0
    /\ first = 0
    /\ waited = 0

-----------------------------------------------------------------------------
(***************************************************************************)
(* The uplink and the operator.                                            *)
(***************************************************************************)
Asked == wire.kind = "request" /\ ~replay

\* A request for a binding gets one of g, a request for none removes it.
Binds(g) ==
    /\ bound' = IF wire.expires = 0 THEN 0 ELSE g
    /\ granted' = bound'

\* It says how long it binds or, without an Expires header, leaves what was asked
\* for standing.
UplinkAccepts(g) ==
    /\ Asked
    /\ Binds(g)
    /\ \E announced \in {bound', wire.expires} : wire' = Message("200", announced)
    /\ UNCHANGED <<run, auth, replay, timer, cancelled, status, waited>>

UplinkChallenges ==
    /\ Asked
    /\ wire' = Message("401", 0)
    /\ UNCHANGED <<run, auth, replay, uplink, timer, cancelled, status, waited>>

\* It refuses, or sends a provisional response first and binds all the same.
UplinkAnswersOtherwise(g) ==
    /\ Asked
    /\ wire' = Message("other", 0)
    /\ \/ UNCHANGED uplink
       \/ Binds(g)
    /\ UNCHANGED <<run, auth, replay, timer, cancelled, status, waited>>

\* A known branch is a retransmission: it gets the reply of the first one again.
UplinkRepeats ==
    /\ wire.kind = "request" /\ replay
    /\ wire' = Message("401", 0)
    /\ UNCHANGED <<run, auth, replay, uplink, timer, cancelled, status, waited>>

Cancel ==
    /\ ~cancelled
    /\ pc \notin {"stopped", "failed"}
    /\ cancelled' = TRUE
    /\ UNCHANGED <<run, request, uplink, timer, status, waited>>

-----------------------------------------------------------------------------
(***************************************************************************)
(* register.                                                               *)
(***************************************************************************)
Registering == pc \in {"first", "refresh"}

\* Mutant: the whole expiry is waited for.
WaitWhole(e) == IF e < MinInterval THEN MinInterval ELSE e

\* Mutant: there is no least interval.
WaitUnlimited(e) == (e * 3) \div 4

\* reregInterval: 75% of the expiry, and no less than the minimum.
Wait(e) ==
    LET share == (e * 3) \div 4
    IN  IF share < MinInterval THEN MinInterval ELSE share

\* doRequest gives the caller a reply.
Replied(kind) == wire.kind = kind /\ status' = kind

\* Back to the select, with a new timer.
ToLoop(wait) ==
    /\ pc' = "loop"
    /\ timer' = wait
    /\ wire' = Idle
    /\ UNCHANGED <<auth, replay>>

RegisterSucceeds ==
    /\ Registering
    /\ Replied("200")
    /\ expiry' = wire.expires
    /\ IF pc = "first"
       THEN first' = wire.expires /\ interval' = Wait(wire.expires)
       ELSE UNCHANGED <<first, interval>>
    /\ ToLoop(interval')
    /\ UNCHANGED <<cancelled, uplink, waited>>

\* The request goes out again with credentials and, the Via removed, a new branch.
RegisterChallenged ==
    /\ Registering
    /\ ~auth
    /\ Replied("401")
    /\ wire' = Message("request", expiry)
    /\ auth' = TRUE
    /\ replay' = FALSE
    /\ timer' = RequestLimit
    /\ UNCHANGED <<run, uplink, cancelled, waited>>

\* A refusal, no reply in time, or the end of the context.
RegisterGivesUp ==
    \/ auth /\ Replied("401")
    \/ Replied("other")
    \/ (timer = 0 \/ cancelled) /\ status' = "error"

\* Mutant: any failure ends Run.
RegisterFailsForGood ==
    /\ Registering
    /\ RegisterGivesUp
    /\ pc' = "failed" /\ timer' = 0
    /\ UNCHANGED <<expiry, interval, first, request, cancelled, uplink, waited>>

\* The first failure ends Run, a later one makes it pause.
RegisterFails ==
    /\ Registering
    /\ RegisterGivesUp
    /\ IF pc = "first" THEN pc' = "failed" /\ timer' = 0
                       ELSE pc' = "pause" /\ timer' = RetryPause
    /\ UNCHANGED <<expiry, interval, first, request, cancelled, uplink, waited>>

-----------------------------------------------------------------------------
(***************************************************************************)
(* The loop of Run, and unregister.                                        *)
(***************************************************************************)
\* A request without credentials, for a binding that lasts expires.
Send(expires) ==
    /\ wire' = Message("request", expires)
    /\ auth' = FALSE
    /\ replay' = FALSE

Refresh ==
    /\ pc = "loop"
    /\ timer = 0
    /\ pc' = "refresh"
    /\ Send(expiry)
    /\ timer' = RequestLimit
    /\ UNCHANGED <<expiry, interval, first, uplink, cancelled, status, waited>>

\* After the sleep the select starts the whole interval anew.
PauseEnds ==
    /\ pc = "pause"
    /\ timer = 0
    /\ pc' = "loop"
    /\ timer' = interval
    /\ UNCHANGED <<expiry, interval, first, request, uplink, cancelled, status, waited>>

\* Mutant: unregister has no limit of its own.
ShutdownUnlimited ==
    /\ pc = "loop"
    /\ cancelled
    /\ pc' = "unregister"
    /\ Send(0)
    /\ timer' = RequestLimit
    /\ UNCHANGED <<expiry, interval, first, uplink, cancelled, status, waited>>

\* Mutant: the unregister asks for the expiry of the register.
ShutdownReregisters ==
    /\ pc = "loop"
    /\ cancelled
    /\ pc' = "unregister"
    /\ Send(expiry)
    /\ timer' = UnregisterLimit
    /\ UNCHANGED <<expiry, interval, first, uplink, cancelled, status, waited>>

Shutdown ==
    /\ pc = "loop"
    /\ cancelled
    /\ pc' = "unregister"
    /\ Send(0)
    /\ timer' = UnregisterLimit
    /\ UNCHANGED <<expiry, interval, first, uplink, cancelled, status, waited>>

\* The Via stays, and with it the branch.
UnregisterChallenged ==
    /\ pc = "unregister"
    /\ ~auth
    /\ Replied("401")
    /\ wire' = Message("request", 0)
    /\ auth' = TRUE
    /\ replay' = TRUE
    /\ UNCHANGED <<run, timer, uplink, cancelled, waited>>

\* Any reply but a challenge, a second challenge, or no reply within the limit.
UnregisterEnds ==
    /\ pc = "unregister"
    /\ \/ \E kind \in {"200", "other"} : Replied(kind)
       \/ auth /\ Replied("401")
       \/ timer = 0 /\ status' = "error"
    /\ pc' = "stopped"
    /\ timer' = 0
    /\ UNCHANGED <<expiry, interval, first, request, uplink, cancelled, waited>>

-----------------------------------------------------------------------------
\* Run waits for its timer, and nothing else is due.
Waiting ==
    /\ timer > 0
    /\ pc \in {"first", "refresh", "loop"} => ~cancelled

\* A unit of time passes, after the end of Run only at the uplink.
Tick ==
    /\ Waiting \/ (pc \in {"stopped", "failed"} /\ bound > 0)
    /\ timer' = IF timer > 0 THEN timer - 1 ELSE 0
    /\ bound' = IF bound > 0 THEN bound - 1 ELSE 0
    /\ waited' = IF cancelled /\ Waiting THEN waited + 1 ELSE waited
    /\ UNCHANGED <<run, request, granted, cancelled, status>>

Environment ==
    \/ \E g \in Grants : UplinkAccepts(g) \/ UplinkAnswersOtherwise(g)
    \/ UplinkChallenges
    \/ UplinkRepeats
    \/ Cancel

Run ==
    \/ RegisterSucceeds
    \/ RegisterChallenged
    \/ RegisterFails
    \/ Refresh
    \/ PauseEnds
    \/ Shutdown
    \/ UnregisterChallenged
    \/ UnregisterEnds

Next == Environment \/ Run \/ Tick

Spec == Init /\ [][Next]_vars

\* Run is scheduled and time passes; the uplink promises nothing.
FairSpec == Spec /\ WF_vars(Run) /\ WF_vars(Tick)

-----------------------------------------------------------------------------
(***************************************************************************)
(* Properties.                                                             *)
(***************************************************************************)
\* While every refresh succeeds and none is granted less than the expiry the
\* loop was entered with, the next refresh starts before the binding lapses,
\* however late replies come (register.go:42-46, 272-278).  It takes an expiry
\* longer than the least interval, and four times longer than a reply may take.
RefreshInTime ==
    /\ pc = "loop" /\ status = "200"
    /\ granted >= first
    /\ first > 4 * RequestLimit /\ first > MinInterval + RequestLimit
    => bound > timer

\* From the cancellation to the return of Run at most the pause of a failed
\* refresh and the limit of the unregister go by, whatever Run was waiting for
\* and whether or not the uplink is still there (register.go:49-60, 236-251).
ShutdownInTime == waited <= RetryPause + UnregisterLimit

\* Once registered, Run tries to refresh the registration again and again until
\* it is cancelled, even if no refresh ever succeeds (register.go:34-36, 48-65).
KeepsTrying == [](interval # 0 => <>(pc = "refresh" \/ cancelled))

\* A binding outlives Run, but for the challenge that unregister does not answer
\* properly, only if the last request Run was waiting for failed: its reply was
\* lost, late, cut off by the cancellation or no success (register.go:36-38,
\* 49-55, 208-255).  An uplink that accepts the unregister has no binding left,
\* and one whose challenges end the first register never made one.
BindingOutlivesFailureOnly ==
    pc \in {"stopped", "failed"} /\ bound > 0 =>
        \/ status \in {"other", "error"}
        \/ pc = "stopped" /\ status = "401" /\ replay

(***************************************************************************)
(* What the comments say and the code does not do.                         *)
(***************************************************************************)
\* register.go:59, after a failed refresh: "Retry sooner".  The next refresh
\* comes sooner after a failed one than it would after a successful one.
RetrySooner ==
    [][pc = "pause" /\ pc' = "loop" /\ ~cancelled => RetryPause + timer' < interval]_vars

\* register.go:35, "On cancel, sends unregister (Expires: 0)", and :204, "Need
\* auth for unregister too": if the uplink answers, with nothing but challenges
\* and acceptance, the binding is gone when Run returns.
UnregisterTakesEffect == pc = "stopped" /\ status \in {"200", "401"} => bound = 0

(***************************************************************************)
(* The inductive invariant.                                                *)
(***************************************************************************)
Looping == pc \in {"loop", "refresh", "pause"}

\* The interval of the loop is that of the expiry it was entered with.
IntervalKept == Looping => interval = Wait(first)

\* register asks for an expiry that was requested or granted before, and gets one.
AsksForExpiry ==
    Registering /\ wire.kind \in {"request", "200"} => wire.expires \in Expiries

\* How old the binding can be that Run learns of or has learnt of.
BindingAge ==
    /\ Registering /\ wire.kind = "200" =>
           timer <= RequestLimit /\ bound + RequestLimit >= granted + timer
    /\ Registering /\ wire.kind # "200" => timer <= RequestLimit
    /\ pc = "loop" /\ status = "200" => bound + RequestLimit + interval >= granted + timer
    /\ pc = "loop" => wire.kind = "idle" \/ status # "200"
    /\ pc = "pause" => status # "200"

\* How much of the time for a shutdown is used up at each place.
ShutdownBudget ==
    /\ ~cancelled \/ Registering => waited = 0
    /\ pc = "loop" => waited <= RetryPause /\ (timer = 0 => waited = 0)
    /\ pc = "pause" => waited + timer <= RetryPause
    /\ pc = "unregister" => waited + timer <= RetryPause + UnregisterLimit
    /\ pc \in {"stopped", "failed"} => timer = 0

IInv ==
    /\ TypeOK
    /\ IntervalKept
    /\ AsksForExpiry
    /\ BindingAge
    /\ ShutdownBudget
    /\ ShutdownInTime

(***************************************************************************)
(* The inductive invariant of what is left at the uplink.                  *)
(***************************************************************************)
\* What Run and the uplink last told each other about the binding, at the places
\* where Run may leave it behind.
LastWord ==
    /\ pc \in {"unregister", "stopped"} =>
          /\ wire.kind \in {"request", "200"} => wire.expires = 0
          /\ wire.kind = "200" => bound = 0
          /\ auth => replay
    /\ pc = "stopped" /\ status = "200" => bound = 0
    /\ pc = "first" /\ bound > 0 => wire.kind \in {"200", "other"}
    /\ pc = "failed" /\ wire.kind = "request" => status = "error"

LeftInv == TypeOK /\ LastWord /\ BindingOutlivesFailureOnly

=============================================================================
