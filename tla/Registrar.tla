------------------------------ MODULE Registrar ------------------------------
(***************************************************************************)
(* The local registrar (registrar.go): the users of the configuration, the *)
(* phones they registered and the challenges not yet answered.  sipgo runs *)
(* every REGISTER in a goroutine of its own and SIGHUP replaces the users  *)
(* meanwhile, so a handler may finish under another list of users than the *)
(* one it looked its password up in.                                       *)
(*                                                                         *)
(* A step of a handler ends where another goroutine can come between:      *)
(* HandleRegister reads r.users without the mutex, verifyAuth and          *)
(* sendChallenge hold it for the nonces, the last section for the binding. *)
(* A challenge is named by the request it answers: 16 random bytes never   *)
(* repeat.  A digest response is right when it was computed from the right *)
(* password and nonce: MD5 is taken to be free of collisions.  The rest of *)
(* a binding, its contact and source, is what the request brought along.   *)
(*                                                                         *)
(* The unlocked read of r.users races with UpdateUsers.  The map it points *)
(* to is never written again, so a build reads either the old or the new   *)
(* one: the orders of LookUp and UpdateUsers.                              *)
(***************************************************************************)
EXTENDS Integers

CONSTANTS
    Users,          \* the names a phone may register
    NoUser,         \* no From header; no entry in nonces
    Passwords,
    NoPassword,     \* the user is not in the configuration
    Reqs,           \* the REGISTER requests, numbered as they arrive
    NoReq,          \* no entry in registrations
    Expiries,       \* what Sscanf reads of an Expires header; 3600 without one
    MaxReloads      \* bound on the number of SIGHUPs

ASSUME NoUserAssumption == NoUser \notin Users
ASSUME NoPasswordAssumption == NoPassword \notin Passwords
ASSUME ReqsAssumption == Reqs \subseteq Nat /\ NoReq \notin Reqs
ASSUME ExpiriesAssumption == Expiries \subseteq Int
ASSUME MaxReloadsAssumption == MaxReloads \in Nat

VARIABLES
    users,      \* users[u]: the password configured for u
    regs,       \* regs[u]: the request whose binding is in registrations
    left,       \* left[u]: time until that binding's Expires
    nonces,     \* nonces[r]: the user challenged in the reply to r, while pending
    msg,        \* msg[r]: what request r says
    pw,         \* pw[r]: the password its handler looked up
    pc,         \* pc[r]: where its handler stands, or the final reply
    gen,        \* history: the number of reloads so far
    seen,       \* history: gen when the handler of r looked the user up
    stored,     \* history: gen when it wrote the binding
    before      \* history: the requests answered before r arrived

config == <<users, gen>>
bindings == <<regs, left>>
arrival == <<msg, pw, seen, before>>
vars == <<config, bindings, nonces, arrival, pc, stored>>

Credentials == [user : Users, nonce : Reqs, pw : Passwords]

NoAuth == [user |-> NoUser]

Messages ==
    [from : Users, auth : Credentials, expires : Expiries, contact : BOOLEAN]

\* Without credentials a request gets no further than its challenge: what else
\* it says is never looked at.
Bare(from) == [from |-> from, auth |-> NoAuth]

Replies == {"400", "401", "403", "200"}

Places == {"new", "verify", "challenge", "store", "stored"} \cup Replies

TypeOK ==
    /\ users \in [Users -> Passwords \cup {NoPassword}]
    /\ regs \in [Users -> Reqs \cup {NoReq}]
    /\ left \in [Users -> Int]
    /\ nonces \in [Reqs -> Users \cup {NoUser}]
    /\ msg \in [Reqs -> Messages \cup {Bare(u) : u \in Users \cup {NoUser}}]
    /\ pw \in [Reqs -> Passwords \cup {NoPassword}]
    /\ pc \in [Reqs -> Places]
    /\ gen \in Nat
    /\ seen \in [Reqs -> Nat]
    /\ stored \in [Reqs -> Nat]
    /\ before \in [Reqs -> SUBSET Reqs]

Init ==
    /\ users \in [Users -> Passwords \cup {NoPassword}]
    /\ regs = [u \in Users |-> NoReq]
    /\ left = [u \in Users |-> -1]
    /\ nonces = [r \in Reqs |-> NoUser]
    /\ msg = [r \in Reqs |-> Bare(NoUser)]
    /\ pw = [r \in Reqs |-> NoPassword]
    /\ pc = [r \in Reqs |-> "new"]
    /\ gen = 0
    /\ seen = [r \in Reqs |-> 0]
    /\ stored = [r \in Reqs |-> 0]
    /\ before = [r \in Reqs |-> {}]

Goto(r, place) == pc' = [pc EXCEPT ![r] = place]

Answered == {r \in Reqs : pc[r] \in Replies}

-----------------------------------------------------------------------------
(***************************************************************************)
(* HandleRegister, up to the first lock.                                   *)
(***************************************************************************)
\* Request r arrives, says m, and r.users is read for its sender.
LookUp(r, m, password) ==
    /\ pc[r] = "new"
    /\ \A q \in Reqs : q < r => pc[q] # "new"
    /\ msg' = [msg EXCEPT ![r] = m]
    /\ pw' = [pw EXCEPT ![r] = password]
    /\ seen' = [seen EXCEPT ![r] = gen]
    /\ before' = [before EXCEPT ![r] = Answered]
    /\ UNCHANGED <<config, bindings, nonces, stored>>

ReceiveNoFrom(r) == LookUp(r, Bare(NoUser), NoPassword) /\ Goto(r, "400")

ReceiveUnknownUser(r, u) ==
    /\ users[u] = NoPassword
    /\ LookUp(r, Bare(u), NoPassword)
    /\ Goto(r, "403")

ReceiveUnauthorized(r, u) ==
    /\ users[u] # NoPassword
    /\ LookUp(r, Bare(u), users[u])
    /\ Goto(r, "challenge")

\* A phone answers a challenge that was sent.
ReceiveAuthorized(r, m) ==
    /\ users[m.from] # NoPassword
    /\ pc[m.auth.nonce] = "401"
    /\ LookUp(r, m, users[m.from])
    /\ Goto(r, "verify")

-----------------------------------------------------------------------------
(***************************************************************************)
(* verifyAuth and sendChallenge.                                           *)
(***************************************************************************)
\* Credentials of another user than the sender: the nonce is not looked at.
RejectName(r) ==
    /\ pc[r] = "verify"
    /\ msg[r].auth.user # msg[r].from
    /\ Goto(r, "challenge")
    /\ UNCHANGED <<config, bindings, nonces, arrival, stored>>

\* Mutant: the nonce is looked up under the mutex and deleted after a success.
CheckNonceOnly(r) ==
    LET auth == msg[r].auth
        good == nonces[auth.nonce] = msg[r].from /\ auth.pw = pw[r]
    IN  /\ pc[r] = "verify"
        /\ auth.user = msg[r].from
        /\ Goto(r, IF good THEN "store" ELSE "challenge")
        /\ UNCHANGED <<config, bindings, nonces, arrival, stored>>

\* Mutant: the nonce may have been issued to any user.
CheckAnyNonce(r) ==
    LET auth == msg[r].auth
        good == nonces[auth.nonce] # NoUser /\ auth.pw = pw[r]
    IN  /\ pc[r] = "verify"
        /\ auth.user = msg[r].from
        /\ nonces' = [nonces EXCEPT ![auth.nonce] = NoUser]
        /\ Goto(r, IF good THEN "store" ELSE "challenge")
        /\ UNCHANGED <<config, bindings, arrival, stored>>

\* The nonce is spent whether or not the rest of the credentials holds.
CheckNonce(r) ==
    LET auth == msg[r].auth
        good == nonces[auth.nonce] = msg[r].from /\ auth.pw = pw[r]
    IN  /\ pc[r] = "verify"
        /\ auth.user = msg[r].from
        /\ nonces' = [nonces EXCEPT ![auth.nonce] = NoUser]
        /\ Goto(r, IF good THEN "store" ELSE "challenge")
        /\ UNCHANGED <<config, bindings, arrival, stored>>

SendChallenge(r) ==
    /\ pc[r] = "challenge"
    /\ nonces' = [nonces EXCEPT ![r] = msg[r].from]
    /\ Goto(r, "401")
    /\ UNCHANGED <<config, bindings, arrival, stored>>

-----------------------------------------------------------------------------
(***************************************************************************)
(* The rest of HandleRegister: the binding and the reply.                  *)
(***************************************************************************)
RejectNoContact(r) ==
    /\ pc[r] = "store"
    /\ ~msg[r].contact
    /\ Goto(r, "400")
    /\ UNCHANGED <<config, bindings, nonces, arrival, stored>>

\* The locked section writes binding and time for the sender.
Write(r, binding, time) ==
    /\ pc[r] = "store"
    /\ msg[r].contact
    /\ regs' = [regs EXCEPT ![msg[r].from] = binding]
    /\ left' = [left EXCEPT ![msg[r].from] = time]
    /\ stored' = [stored EXCEPT ![r] = gen]
    /\ Goto(r, "stored")
    /\ UNCHANGED <<config, nonces, arrival>>

\* Mutant: the entry stays in the map and points to nothing.
UnregisterWithNil(r) == Write(r, NoUser, -1) /\ msg[r].expires = 0

Unregister(r) == Write(r, NoReq, -1) /\ msg[r].expires = 0

\* Mutant: a binding that has not expired is not replaced.
RegisterIfExpired(r) ==
    LET u == msg[r].from
    IN  /\ Write(r, IF left[u] > 0 THEN regs[u] ELSE r, msg[r].expires)
        /\ msg[r].expires # 0

Register(r) == Write(r, r, msg[r].expires) /\ msg[r].expires # 0

Respond200(r) ==
    /\ pc[r] = "stored"
    /\ Goto(r, "200")
    /\ UNCHANGED <<config, bindings, nonces, arrival, stored>>

-----------------------------------------------------------------------------
(***************************************************************************)
(* The reload and the clock.                                               *)
(***************************************************************************)
\* Mutant: registrations of deleted users stay.
ReplaceUsersOnly(new) ==
    /\ gen < MaxReloads
    /\ users' = new
    /\ gen' = gen + 1
    /\ UNCHANGED <<bindings, nonces, arrival, pc, stored>>

\* Mutant: the registrations start anew with the users.
ReplaceBindings(new) ==
    /\ gen < MaxReloads
    /\ users' = new
    /\ gen' = gen + 1
    /\ regs' = [u \in Users |-> NoReq]
    /\ left' = [u \in Users |-> -1]
    /\ UNCHANGED <<nonces, arrival, pc, stored>>

\* One step: swap and purge happen under the mutex every other access to the
\* registrations takes, and a lookup between the two sees the new users, as
\* one after both does.
UpdateUsers(new) ==
    /\ gen < MaxReloads
    /\ users' = new
    /\ gen' = gen + 1
    /\ regs' = [u \in Users |-> IF new[u] = NoPassword THEN NoReq ELSE regs[u]]
    /\ left' = [u \in Users |-> IF new[u] = NoPassword THEN -1 ELSE left[u]]
    /\ UNCHANGED <<nonces, arrival, pc, stored>>

\* A unit of time passes; how long ago a binding expired makes no difference.
Tick ==
    /\ \E u \in Users : left[u] >= 0
    /\ left' = [u \in Users |-> IF left[u] >= 0 THEN left[u] - 1 ELSE left[u]]
    /\ UNCHANGED <<config, regs, nonces, arrival, pc, stored>>

-----------------------------------------------------------------------------
Arrive(r) ==
    \/ ReceiveNoFrom(r)
    \/ \E u \in Users : ReceiveUnknownUser(r, u) \/ ReceiveUnauthorized(r, u)
    \/ \E m \in Messages : ReceiveAuthorized(r, m)

Handle(r) ==
    \/ RejectName(r)
    \/ CheckNonce(r)
    \/ SendChallenge(r)
    \/ RejectNoContact(r)
    \/ Unregister(r)
    \/ Register(r)
    \/ Respond200(r)

Next ==
    \/ \E r \in Reqs : Arrive(r) \/ Handle(r)
    \/ \E new \in [Users -> Passwords \cup {NoPassword}] : UpdateUsers(new)
    \/ Tick

Spec == Init /\ [][Next]_vars

\* Time passes; nothing else is promised, neither by phones nor by handlers.
FairSpec == Spec /\ WF_vars(Tick)

-----------------------------------------------------------------------------
(***************************************************************************)
(* What calls ask of the registrar.                                        *)
(***************************************************************************)
\* The phones an incoming call rings: Expires is after now.
GetAllRegistrations == {u \in Users : regs[u] # NoReq /\ left[u] > 0}

\* Mutant: the expiry is not looked at.
GetRegistrationAnyAge(u) == regs[u]

\* The phone an internal call rings: Expires is not before now.
GetRegistration(u) == IF left[u] < 0 THEN NoReq ELSE regs[u]

-----------------------------------------------------------------------------
(***************************************************************************)
(* Properties.                                                             *)
(***************************************************************************)
\* verifyAuth has said yes to request r.
Verified(r) ==
    \/ pc[r] \in {"store", "stored", "200"}
    \/ pc[r] = "400" /\ msg[r].auth # NoAuth

\* One challenge authenticates one request, however many handlers present it at
\* once: lookup and delete share a critical section (registrar.go:138-143).
NonceSingleUse ==
    \A r, q \in Reqs :
        r # q /\ Verified(r) /\ Verified(q) => msg[r].auth.nonce # msg[q].auth.nonce

\* Whoever is bound answered, with the password of the bound user, a challenge
\* sent to that user and spent since; unless a reload came after the lookup, it
\* is the password configured now (registrar.go:55, 70, 90-102, 138-168).
RegistrationAuthentic ==
    \A u \in Users : regs[u] # NoReq =>
        LET r == regs[u]
            n == msg[r].auth.nonce
        IN  /\ msg[r].from = u /\ msg[n].from = u
            /\ pc[n] = "401" /\ nonces[n] = NoUser
            /\ seen[r] = gen => users[u] = msg[r].auth.pw

\* A deleted user is bound only if its REGISTER was in progress during the last
\* reload: every reload purges all that was bound before (registrar.go:208-214).
DeletedUserOnlyByOverlap ==
    \A u \in Users : users[u] = NoPassword /\ regs[u] # NoReq =>
        seen[regs[u]] < gen /\ stored[regs[u]] = gen

\* A REGISTER that arrives after another of the same user was answered
\* supersedes it for good: whatever overlaps, the older binding never comes back
\* (registrar.go:89-109).
LatestRegisterWins ==
    \A u \in Users, q \in Reqs :
        /\ regs[u] # NoReq
        /\ pc[q] \in {"stored", "200"}
        /\ msg[q].from = u
        => regs[u] \notin before[q]

\* A request of u, which answered a challenge of u with the password of u, gets
\* to the registrations.
OwnerChanges(u, r) ==
    LET n == msg[r].auth.nonce
    IN  /\ pc[r] = "store" /\ pc'[r] = "stored" /\ regs'[u] \in {r, NoReq}
        /\ msg[r].from = u /\ msg[n].from = u
        /\ pc[n] = "401" /\ nonces[n] = NoUser
        /\ seen[r] = gen => users[u] = msg[r].auth.pw

ReloadDeletes(u) == regs'[u] = NoReq /\ users'[u] = NoPassword /\ gen' > gen

\* Nobody but its user changes a binding, and to remove one takes no less than
\* to make one; or a reload deletes the user (registrar.go:62-102, 198-215).
BindingsChangeByOwner ==
    [][\A u \in Users : regs'[u] # regs[u] =>
           ReloadDeletes(u) \/ \E r \in Reqs : OwnerChanges(u, r)]_vars

\* A phone that stops refreshing its registration is in the end neither forked
\* to nor dialled, though its entry stays in the map (registrar.go:171-195).
LapsedPhonesAreNotCalled ==
    <>[](GetAllRegistrations = {} /\ \A u \in Users : GetRegistration(u) = NoReq)

\* What registrar.go:208 says of a reload, "Remove registrations for deleted
\* users": nobody outside the configuration is registered.
RegistrationsAreConfigured ==
    \A u \in Users : regs[u] # NoReq => users[u] # NoPassword

(***************************************************************************)
(* The inductive invariant.                                                *)
(***************************************************************************)
\* What a handler knows of its request at each place.
HandlerKnows ==
    \A r \in Reqs :
        /\ pc[r] \in {"challenge", "401"} => msg[r].from \in Users
        /\ pc[r] = "verify" \/ Verified(r) =>
               /\ msg[r] \in Messages
               /\ pw[r] \in Passwords
               /\ pc[msg[r].auth.nonce] = "401"

\* A pending challenge was sent, to the user it is pending for.
PendingSent ==
    \A r \in Reqs : nonces[r] # NoUser => pc[r] = "401" /\ nonces[r] = msg[r].from

\* What verifyAuth has established of a request, and spent.
VerifiedFacts ==
    \A r \in Reqs : Verified(r) =>
        LET n == msg[r].auth.nonce
        IN  /\ nonces[n] = NoUser
            /\ msg[n].from = msg[r].from
            /\ msg[r].auth.pw = pw[r]

\* A lookup since the last reload saw the users there are.
LookupFresh ==
    \A r \in Reqs :
        /\ seen[r] <= gen
        /\ pc[r] # "new" /\ msg[r].from \in Users /\ seen[r] = gen =>
               users[msg[r].from] = pw[r]

\* Bindings are made by requests of their user that got through, and those of
\* users no longer configured since the last reload.
BindingStored ==
    \A u \in Users : regs[u] # NoReq =>
        /\ pc[regs[u]] \in {"stored", "200"}
        /\ msg[regs[u]].from = u
        /\ users[u] = NoPassword => stored[regs[u]] = gen

BeforeAnswered == \A r \in Reqs : before[r] \subseteq Answered

IInv ==
    /\ TypeOK
    /\ HandlerKnows
    /\ PendingSent
    /\ VerifiedFacts
    /\ LookupFresh
    /\ BindingStored
    /\ BeforeAnswered
    /\ NonceSingleUse
    /\ LatestRegisterWins

=============================================================================
