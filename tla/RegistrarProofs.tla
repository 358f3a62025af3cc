--------------------------- MODULE RegistrarProofs ---------------------------
(***************************************************************************)
(* Proofs about Registrar for any users, passwords, requests and number of *)
(* reloads: every safety property of the module, from its inductive        *)
(* invariant IInv.                                                         *)
(***************************************************************************)
EXTENDS Registrar, TLAPS

\* Requests with and without credentials are told apart by auth.
LEMMA CredentialsOrBare ==
  /\ \A m \in Messages :
        /\ m.from \in Users /\ m.auth # NoAuth
        /\ m.auth.user \in Users /\ m.auth.nonce \in Reqs /\ m.auth.pw \in Passwords
        /\ m.expires \in Int
  /\ \A u \in Users \cup {NoUser} : Bare(u).from = u /\ Bare(u).auth = NoAuth
<1>1. ASSUME NEW m \in Messages
      PROVE  /\ m.from \in Users /\ m.auth \in Credentials
             /\ m.expires \in Int
  BY ExpiriesAssumption DEF Messages
<1>2. ASSUME NEW c \in Credentials
      PROVE  /\ c # NoAuth
             /\ c.user \in Users /\ c.nonce \in Reqs /\ c.pw \in Passwords
  BY NoUserAssumption DEF Credentials, NoAuth
<1>3. QED
  BY <1>1, <1>2 DEF Bare

LEMMA InitIInv == Init => IInv
<1> SUFFICES ASSUME Init PROVE IInv
  OBVIOUS
<1>1. TypeOK
  BY DEF Init, TypeOK, Places
<1>2. \A r \in Reqs : ~Verified(r)
  BY DEF Init, Verified
<1>3. QED
  BY <1>1, <1>2
  DEF Init, IInv, HandlerKnows, PendingSent, VerifiedFacts, LookupFresh,
      BindingStored, BeforeAnswered, NonceSingleUse, LatestRegisterWins, Answered

-----------------------------------------------------------------------------
\* What every arrival has in common.
Arrival(r, m, password, place) ==
    /\ LookUp(r, m, password)
    /\ Goto(r, place)
    /\ m \in Messages \cup {Bare(u) : u \in Users \cup {NoUser}}
    /\ password \in Passwords \cup {NoPassword}
    /\ place \in {"400", "403", "challenge", "verify"}
    /\ m.from \in Users => password = users[m.from]
    /\ place = "challenge" => m.from \in Users
    /\ place = "400" => m.auth = NoAuth
    /\ place = "verify" =>
         /\ m \in Messages
         /\ password \in Passwords
         /\ pc[m.auth.nonce] = "401"

LEMMA ArriveArrival ==
  ASSUME TypeOK, NEW r \in Reqs, Arrive(r)
  PROVE  \E m, password, place : Arrival(r, m, password, place)
<1> USE CredentialsOrBare DEF TypeOK, Arrival
<1>1. CASE ReceiveNoFrom(r)
  <2>1. Arrival(r, Bare(NoUser), NoPassword, "400")
    BY <1>1, NoUserAssumption DEF ReceiveNoFrom
  <2>2. QED
    BY <2>1
<1>2. ASSUME NEW u \in Users, ReceiveUnknownUser(r, u)
      PROVE  Arrival(r, Bare(u), NoPassword, "403")
  BY <1>2 DEF ReceiveUnknownUser
<1>3. ASSUME NEW u \in Users, ReceiveUnauthorized(r, u)
      PROVE  Arrival(r, Bare(u), users[u], "challenge")
  BY <1>3 DEF ReceiveUnauthorized
<1>4. ASSUME NEW m \in Messages, ReceiveAuthorized(r, m)
      PROVE  Arrival(r, m, users[m.from], "verify")
  BY <1>4 DEF ReceiveAuthorized
<1>5. QED
  BY <1>1, <1>2, <1>3, <1>4 DEF Arrive

\* A request that arrives reads the users and the answered requests; nothing
\* spoke of it before.
LEMMA ArriveIInv ==
  ASSUME IInv, NEW r \in Reqs, NEW m, NEW password, NEW place,
         Arrival(r, m, password, place)
  PROVE  IInv'
<1> USE CredentialsOrBare, NoUserAssumption, NoPasswordAssumption
    DEF Arrival, LookUp, Goto, config, bindings
<1>1. pc[r] = "new" /\ ~Verified(r)
  BY DEF Verified
<1>2. TypeOK'
  <2>1. pc' \in [Reqs -> Places] /\ Answered \subseteq Reqs
    BY DEF IInv, TypeOK, Places, Replies, Answered
  <2>2. QED
    BY <2>1 DEF IInv, TypeOK
<1>3. ~Verified(r)' /\ \A q \in Reqs \ {r} : Verified(q)' <=> Verified(q)
  BY DEF Verified, IInv, TypeOK
<1>4. HandlerKnows'
  BY <1>1, <1>3 DEF IInv, TypeOK, HandlerKnows
<1>5. PendingSent' /\ VerifiedFacts'
  BY <1>1, <1>3 DEF IInv, TypeOK, PendingSent, VerifiedFacts, HandlerKnows
<1>6. LookupFresh'
  BY DEF IInv, TypeOK, LookupFresh
<1>7. BindingStored' /\ BeforeAnswered'
  BY <1>1 DEF IInv, TypeOK, BindingStored, BeforeAnswered, Answered, Replies
<1>8. NonceSingleUse' /\ LatestRegisterWins'
  BY <1>1, <1>3 DEF IInv, TypeOK, NonceSingleUse, LatestRegisterWins, BindingStored
<1>9. QED
  BY <1>2, <1>4, <1>5, <1>6, <1>7, <1>8 DEF IInv

-----------------------------------------------------------------------------
\* A step that only moves a handler on, to a place that verifies no request,
\* keeps the invariant.
LEMMA RejectIInv ==
  ASSUME IInv, NEW r \in Reqs, RejectName(r) \/ RejectNoContact(r)
  PROVE  IInv'
<1> USE CredentialsOrBare DEF RejectName, RejectNoContact, Goto, config, bindings, arrival
<1>1. TypeOK'
  BY DEF IInv, TypeOK, Places, Replies
<1>2. \A q \in Reqs : Verified(q)' <=> Verified(q)
  BY DEF IInv, TypeOK, Verified, HandlerKnows
<1>3. HandlerKnows' /\ PendingSent' /\ VerifiedFacts'
  BY <1>2 DEF IInv, TypeOK, HandlerKnows, PendingSent, VerifiedFacts
<1>4. LookupFresh' /\ BindingStored' /\ BeforeAnswered'
  BY DEF IInv, TypeOK, LookupFresh, BindingStored, BeforeAnswered, Answered, Replies
<1>5. NonceSingleUse' /\ LatestRegisterWins'
  BY <1>2 DEF IInv, TypeOK, NonceSingleUse, LatestRegisterWins
<1>6. QED
  BY <1>1, <1>3, <1>4, <1>5 DEF IInv

\* verifyAuth says yes only to the first request that presents a challenge.
LEMMA CheckNonceIInv ==
  ASSUME IInv, NEW r \in Reqs, CheckNonce(r)
  PROVE  IInv'
<1> DEFINE n == msg[r].auth.nonce
           good == nonces[n] = msg[r].from /\ msg[r].auth.pw = pw[r]
<1> USE CredentialsOrBare, NoUserAssumption
<1>1. /\ pc[r] = "verify" /\ msg[r] \in Messages /\ n \in Reqs /\ pc[n] = "401"
      /\ nonces' = [nonces EXCEPT ![n] = NoUser]
      /\ pc' = [pc EXCEPT ![r] = IF good THEN "store" ELSE "challenge"]
      /\ UNCHANGED <<users, gen, regs, left, msg, pw, seen, before, stored>>
  BY DEF CheckNonce, Goto, config, bindings, arrival, IInv, HandlerKnows
<1> HIDE DEF n, good
<1>2. TypeOK'
  BY <1>1 DEF IInv, TypeOK, Places, Replies
<1>3. /\ \A q \in Reqs \ {r} : Verified(q)' <=> Verified(q)
      /\ Verified(r)' <=> good
  BY <1>1 DEF IInv, TypeOK, Verified
<1>4. HandlerKnows'
  BY <1>1, <1>3 DEF IInv, TypeOK, HandlerKnows
<1>5. PendingSent'
  BY <1>1 DEF IInv, TypeOK, PendingSent
<1>6. good => /\ msg[n].from = msg[r].from
              /\ \A q \in Reqs : Verified(q) => msg[q].auth.nonce # n
  BY <1>1 DEF IInv, PendingSent, VerifiedFacts, HandlerKnows, good
<1>7. VerifiedFacts'
  <2> SUFFICES ASSUME NEW q \in Reqs, Verified(q)'
               PROVE  /\ nonces'[msg[q].auth.nonce] = NoUser
                      /\ msg[msg[q].auth.nonce].from = msg[q].from
                      /\ msg[q].auth.pw = pw[q]
    BY <1>1 DEF VerifiedFacts
  <2>1. CASE q = r
    BY <1>1, <1>3, <1>6, <2>1 DEF IInv, TypeOK, n, good
  <2>2. CASE q # r
    BY <1>1, <1>3, <2>2 DEF IInv, TypeOK, VerifiedFacts, HandlerKnows
  <2>3. QED
    BY <2>1, <2>2
<1>8. LookupFresh' /\ BindingStored' /\ BeforeAnswered'
  BY <1>1 DEF IInv, TypeOK, LookupFresh, BindingStored, BeforeAnswered, Answered, Replies
<1>9. NonceSingleUse'
  BY <1>1, <1>3, <1>6 DEF IInv, NonceSingleUse, n
<1>10. LatestRegisterWins'
  BY <1>1 DEF IInv, TypeOK, LatestRegisterWins
<1>11. QED
  BY <1>2, <1>4, <1>5, <1>7, <1>8, <1>9, <1>10 DEF IInv

\* A new challenge is nobody's credentials yet.
LEMMA SendChallengeIInv ==
  ASSUME IInv, NEW r \in Reqs, SendChallenge(r)
  PROVE  IInv'
<1> USE CredentialsOrBare, NoUserAssumption
    DEF SendChallenge, Goto, config, bindings, arrival
<1>1. TypeOK'
  BY DEF IInv, TypeOK, Places, Replies, HandlerKnows
<1>2. \A q \in Reqs : Verified(q)' <=> Verified(q)
  BY DEF IInv, TypeOK, Verified
<1>3. HandlerKnows' /\ PendingSent'
  BY <1>2 DEF IInv, TypeOK, HandlerKnows, PendingSent
<1>4. VerifiedFacts'
  BY <1>2 DEF IInv, TypeOK, HandlerKnows, VerifiedFacts
<1>5. LookupFresh' /\ BindingStored' /\ BeforeAnswered'
  BY DEF IInv, TypeOK, LookupFresh, BindingStored, BeforeAnswered, Answered, Replies
<1>6. NonceSingleUse' /\ LatestRegisterWins'
  BY <1>2 DEF IInv, TypeOK, NonceSingleUse, LatestRegisterWins
<1>7. QED
  BY <1>1, <1>3, <1>4, <1>5, <1>6 DEF IInv

\* The locked section binds its own request or nobody: no request answered
\* before an earlier arrival was still to be stored.
LEMMA WriteIInv ==
  ASSUME IInv, NEW r \in Reqs, Unregister(r) \/ Register(r)
  PROVE  IInv'
<1> USE CredentialsOrBare, ReqsAssumption
<1>1. PICK binding \in {r, NoReq}, time \in Int : Write(r, binding, time)
  BY DEF Unregister, Register, Write, IInv, HandlerKnows, Verified
<1> USE <1>1 DEF Write, Goto, config, arrival
<1>2. TypeOK' /\ msg[r].from \in Users
  BY DEF IInv, TypeOK, Places, HandlerKnows, Verified
<1>3. \A q \in Reqs : Verified(q)' <=> Verified(q)
  BY DEF IInv, TypeOK, Verified
<1>4. HandlerKnows' /\ PendingSent' /\ VerifiedFacts'
  BY <1>3 DEF IInv, TypeOK, HandlerKnows, PendingSent, VerifiedFacts
<1>5. LookupFresh' /\ BeforeAnswered'
  BY DEF IInv, TypeOK, LookupFresh, BeforeAnswered, Answered, Replies
<1>6. BindingStored'
  BY <1>2 DEF IInv, TypeOK, BindingStored
<1>7. NonceSingleUse'
  BY <1>3 DEF IInv, NonceSingleUse
<1>8. LatestRegisterWins'
  <2>1. \A q \in Reqs : r \notin before[q]
    BY DEF IInv, TypeOK, BeforeAnswered, Answered, Replies
  <2>2. QED
    BY <1>2, <2>1 DEF IInv, TypeOK, LatestRegisterWins
<1>9. QED
  BY <1>2, <1>4, <1>5, <1>6, <1>7, <1>8 DEF IInv

LEMMA Respond200IInv ==
  ASSUME IInv, NEW r \in Reqs, Respond200(r)
  PROVE  IInv'
<1> USE DEF Respond200, Goto, config, bindings, arrival
<1>1. TypeOK'
  BY DEF IInv, TypeOK, Places, Replies
<1>2. \A q \in Reqs : Verified(q)' <=> Verified(q)
  BY DEF IInv, TypeOK, Verified
<1>3. HandlerKnows' /\ PendingSent' /\ VerifiedFacts'
  BY <1>2 DEF IInv, TypeOK, HandlerKnows, PendingSent, VerifiedFacts
<1>4. LookupFresh' /\ BindingStored' /\ BeforeAnswered'
  BY DEF IInv, TypeOK, LookupFresh, BindingStored, BeforeAnswered, Answered, Replies
<1>5. NonceSingleUse' /\ LatestRegisterWins'
  BY <1>2 DEF IInv, TypeOK, NonceSingleUse, LatestRegisterWins
<1>6. QED
  BY <1>1, <1>3, <1>4, <1>5 DEF IInv

-----------------------------------------------------------------------------
\* A reload only removes bindings, and makes every lookup so far an old one.
LEMMA UpdateUsersIInv ==
  ASSUME IInv, NEW new \in [Users -> Passwords \cup {NoPassword}], UpdateUsers(new)
  PROVE  IInv'
<1> USE ReqsAssumption DEF UpdateUsers, arrival
<1>1. TypeOK'
  BY DEF IInv, TypeOK
<1>2. \A q \in Reqs : Verified(q)' <=> Verified(q)
  BY DEF Verified
<1>3. HandlerKnows' /\ PendingSent' /\ VerifiedFacts'
  BY <1>2 DEF IInv, HandlerKnows, PendingSent, VerifiedFacts
<1>4. LookupFresh' /\ BeforeAnswered'
  BY DEF IInv, TypeOK, LookupFresh, BeforeAnswered, Answered
<1>5. BindingStored' /\ LatestRegisterWins'
  BY DEF IInv, TypeOK, BindingStored, LatestRegisterWins
<1>6. NonceSingleUse'
  BY <1>2 DEF IInv, NonceSingleUse
<1>7. QED
  BY <1>1, <1>3, <1>4, <1>5, <1>6 DEF IInv

\* The invariant speaks of the time left only in its type.
LEMMA TickIInv ==
  ASSUME IInv, Tick \/ UNCHANGED vars
  PROVE  IInv'
<1>1. left' \in [Users -> Int]
  BY DEF IInv, TypeOK, Tick, vars, bindings
<1>2. UNCHANGED <<users, gen, regs, nonces, msg, pw, seen, before, pc, stored>>
  BY DEF Tick, vars, config, bindings, arrival
<1>3. TypeOK'
  BY <1>1, <1>2 DEF IInv, TypeOK
<1>4. \A q \in Reqs : Verified(q)' <=> Verified(q)
  BY <1>2 DEF Verified
<1>5. QED
  BY <1>2, <1>3, <1>4
  DEF IInv, HandlerKnows, PendingSent, VerifiedFacts, LookupFresh, BindingStored,
      BeforeAnswered, NonceSingleUse, LatestRegisterWins, Answered

\* The inductive invariant holds in every reachable state.
THEOREM RegistrarInvariant == Spec => []IInv
<1>1. ASSUME IInv, NEW r \in Reqs, Arrive(r) PROVE IInv'
  BY <1>1, ArriveArrival, ArriveIInv DEF IInv
<1>2. ASSUME IInv, NEW r \in Reqs, Handle(r) PROVE IInv'
  BY <1>2, RejectIInv, CheckNonceIInv, SendChallengeIInv, WriteIInv, Respond200IInv
  DEF Handle
<1>3. IInv /\ [Next]_vars => IInv'
  BY <1>1, <1>2, UpdateUsersIInv, TickIInv DEF Next
<1>4. QED
  BY InitIInv, <1>3, PTL DEF Spec

-----------------------------------------------------------------------------
\* Type correctness, for every instance.
THEOREM RegistrarTypeOK == Spec => []TypeOK
<1>1. IInv => TypeOK
  BY DEF IInv
<1>2. QED
  BY <1>1, RegistrarInvariant, PTL

\* No challenge authenticates two requests, whatever handlers run at once
\* (registrar.go:138-143).
THEOREM RegistrarNonceSingleUse == Spec => []NonceSingleUse
<1>1. IInv => NonceSingleUse
  BY DEF IInv
<1>2. QED
  BY <1>1, RegistrarInvariant, PTL

\* Every binding goes back to a challenge of its user answered with the user's
\* password (registrar.go:55-102, 130-168).
THEOREM RegistrarAuthentic == Spec => []RegistrationAuthentic
<1>1. ASSUME IInv, NEW u \in Users, regs[u] # NoReq
      PROVE  LET r == regs[u]
                 n == msg[r].auth.nonce
             IN  /\ msg[r].from = u /\ msg[n].from = u
                 /\ pc[n] = "401" /\ nonces[n] = NoUser
                 /\ seen[r] = gen => users[u] = msg[r].auth.pw
  <2>1. regs[u] \in Reqs /\ Verified(regs[u]) /\ msg[regs[u]].from = u
    BY <1>1 DEF IInv, TypeOK, BindingStored, Verified
  <2>2. pc[regs[u]] # "new"
    BY <1>1 DEF IInv, BindingStored
  <2>3. QED
    BY <1>1, <2>1, <2>2 DEF IInv, HandlerKnows, VerifiedFacts, LookupFresh
<1>2. IInv => RegistrationAuthentic
  BY <1>1 DEF RegistrationAuthentic
<1>3. QED
  BY <1>2, RegistrarInvariant, PTL

\* Only a REGISTER in progress during the last reload can leave a deleted user
\* bound, after any number of reloads (registrar.go:198-215).
THEOREM RegistrarDeletedByOverlap == Spec => []DeletedUserOnlyByOverlap
<1>1. ASSUME IInv, NEW u \in Users, users[u] = NoPassword, regs[u] # NoReq
      PROVE  seen[regs[u]] < gen /\ stored[regs[u]] = gen
  <2>1. regs[u] \in Reqs /\ Verified(regs[u]) /\ msg[regs[u]].from = u
    BY <1>1 DEF IInv, TypeOK, BindingStored, Verified
  <2>2. pc[regs[u]] # "new" /\ stored[regs[u]] = gen
    BY <1>1 DEF IInv, BindingStored
  <2>3. seen[regs[u]] # gen
    BY <1>1, <2>1, <2>2, NoPasswordAssumption DEF IInv, HandlerKnows, LookupFresh
  <2>4. seen[regs[u]] \in Nat /\ gen \in Nat /\ seen[regs[u]] <= gen
    BY <1>1, <2>1 DEF IInv, TypeOK, LookupFresh
  <2>5. QED
    BY <2>2, <2>3, <2>4
<1>2. IInv => DeletedUserOnlyByOverlap
  BY <1>1 DEF DeletedUserOnlyByOverlap
<1>3. QED
  BY <1>2, RegistrarInvariant, PTL

\* An older binding never comes back over a later one (registrar.go:89-109).
THEOREM RegistrarLatestWins == Spec => []LatestRegisterWins
<1>1. IInv => LatestRegisterWins
  BY DEF IInv
<1>2. QED
  BY <1>1, RegistrarInvariant, PTL

\* A binding changes only in the locked section of an authenticated request of
\* its user, or in a reload without that user (registrar.go:62-102, 198-215).
THEOREM RegistrarChangesByOwner == Spec => BindingsChangeByOwner
<1>1. ASSUME IInv, NEW r \in Reqs, Unregister(r) \/ Register(r),
             NEW u \in Users, regs'[u] # regs[u]
      PROVE  OwnerChanges(u, r)
  <2>1. PICK binding \in {r, NoReq}, time \in Int : Write(r, binding, time)
    BY <1>1, CredentialsOrBare, ReqsAssumption
    DEF Unregister, Register, Write, IInv, HandlerKnows, Verified
  <2>2. /\ pc[r] = "store" /\ pc'[r] = "stored"
        /\ regs' = [regs EXCEPT ![msg[r].from] = binding]
    BY <1>1, <2>1 DEF Write, Goto, IInv, TypeOK
  <2>3. Verified(r)
    BY <2>2 DEF Verified
  <2>4. msg[r].from = u /\ regs'[u] \in {r, NoReq}
    BY <1>1, <2>2 DEF IInv, TypeOK
  <2>5. /\ nonces[msg[r].auth.nonce] = NoUser /\ pc[msg[r].auth.nonce] = "401"
        /\ msg[msg[r].auth.nonce].from = u
    BY <1>1, <2>3, <2>4 DEF IInv, HandlerKnows, VerifiedFacts
  <2>6. seen[r] = gen => users[u] = msg[r].auth.pw
    BY <1>1, <2>2, <2>3, <2>4 DEF IInv, VerifiedFacts, LookupFresh
  <2>7. QED
    BY <2>2, <2>4, <2>5, <2>6 DEF OwnerChanges
<1>2. ASSUME IInv, NEW new \in [Users -> Passwords \cup {NoPassword}], UpdateUsers(new),
             NEW u \in Users, regs'[u] # regs[u]
      PROVE  ReloadDeletes(u)
  BY <1>2 DEF UpdateUsers, ReloadDeletes, IInv, TypeOK
<1>3. ASSUME IInv, [Next]_vars, NEW u \in Users, regs'[u] # regs[u]
      PROVE  ReloadDeletes(u) \/ \E r \in Reqs : OwnerChanges(u, r)
  <2>1. ASSUME NEW r \in Reqs, Arrive(r) PROVE regs' = regs
    BY <2>1
    DEF Arrive, ReceiveNoFrom, ReceiveUnknownUser, ReceiveUnauthorized, ReceiveAuthorized,
        LookUp, bindings
  <2>2. ASSUME NEW r \in Reqs, Handle(r), ~Unregister(r), ~Register(r) PROVE regs' = regs
    BY <2>2
    DEF Handle, RejectName, CheckNonce, SendChallenge, RejectNoContact, Respond200, bindings
  <2>3. Tick \/ UNCHANGED vars => regs' = regs
    BY DEF Tick, vars, bindings
  <2>4. QED
    BY <1>1, <1>2, <1>3, <2>1, <2>2, <2>3 DEF Next
<1>4. IInv /\ [Next]_vars =>
        [\A u \in Users : regs'[u] # regs[u] =>
            ReloadDeletes(u) \/ \E r \in Reqs : OwnerChanges(u, r)]_vars
  BY <1>3
<1>5. QED
  BY <1>4, RegistrarInvariant, PTL DEF Spec, BindingsChangeByOwner

=============================================================================
