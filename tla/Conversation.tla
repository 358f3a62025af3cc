----------------------------- MODULE Conversation -----------------------------
(***************************************************************************)
(* What a call that is bridged promises its two parties, whoever copies    *)
(* the audio: they are joined once, when both have answered; only a        *)
(* departure ends it; then whoever is left is hung up, and nothing is over *)
(* before nobody is in a session, the recording included.                  *)
(*                                                                         *)
(* CallHandler implements this specification with CopyEnds for all that    *)
(* happens inside the bridge, CallAudio with the goroutines that do it.    *)
(***************************************************************************)
VARIABLES
    party,      \* party[p]: where party p of the call is
    endedBy,    \* the party in whose direction the audio stopped first
    taped       \* is the conversation being recorded

conversationVars == <<party, endedBy, taped>>

Parties == {"caller", "callee"}

\* apart: not bridged yet, up: in the bridge, left: hung up by itself,
\* bye: the server hung up, parted: the call is over.
AllAre(place) == party = [p \in Parties |-> place]

Init ==
    /\ AllAre("apart")
    /\ endedBy = ""
    /\ taped = FALSE

\* Both have answered; either may have hung up since, unnoticed.
Join ==
    /\ AllAre("apart")
    /\ party' \in [Parties -> {"up", "left"}]
    /\ taped' \in BOOLEAN
    /\ UNCHANGED endedBy

\* The call ends without a conversation.
Miss ==
    /\ AllAre("apart")
    /\ party' = [p \in Parties |-> "parted"]
    /\ UNCHANGED <<endedBy, taped>>

Leave(p) ==
    /\ party[p] = "up"
    /\ party' = [party EXCEPT ![p] = "left"]
    /\ UNCHANGED <<endedBy, taped>>

\* The bridge notices that a party has left.  Who is named is not said: the copy
\* from the other one may fail first.
End(by) ==
    /\ endedBy = ""
    /\ \E p \in Parties : party[p] = "left"
    /\ endedBy' = by
    /\ UNCHANGED <<party, taped>>

HangUp(who) ==
    /\ endedBy # ""
    /\ \A p \in who : party[p] = "up"
    /\ party' = [p \in Parties |-> IF p \in who THEN "bye" ELSE party[p]]
    /\ UNCHANGED <<endedBy, taped>>

\* The recording is finished, and the call with it.
Part ==
    /\ endedBy # ""
    /\ \A p \in Parties : party[p] \in {"left", "bye"}
    /\ party' = [p \in Parties |-> "parted"]
    /\ endedBy' = ""
    /\ taped' = FALSE

Next ==
    \/ Join \/ Miss \/ Part
    \/ \E p \in Parties : Leave(p) \/ End(p)
    \/ \E who \in SUBSET Parties : HangUp(who)

Spec == Init /\ [][Next]_conversationVars

=============================================================================
