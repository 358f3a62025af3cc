---------------------------- MODULE MCCallHandler ----------------------------
(***************************************************************************)
(* Instances of CallHandler for TLC.                                       *)
(***************************************************************************)
EXTENDS CallHandler

\* The configuration with the settings of on, and no other.
With(on) == [f \in ConfigFields |-> f \in on]

\* Every combination of the settings that steer a bridged call, and the settings
\* that turn a call away or over to voicemail, with voicemail on and off.
AllModes ==
    {With(on \cup {"script"}) : on \in SUBSET {"recording", "ann", "answerFirst"}}
    \cup {With({"filter", "hours", "unavailAnn"} \cup vm) : vm \in {{}, {"vm", "script"}}}

\* Answer-first mode as README.md:73 describes it.
AnswerFirstMode == {With({"recording", "ann", "answerFirst", "script"})}

=============================================================================
