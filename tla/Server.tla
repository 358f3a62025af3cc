-------------------------------- MODULE Server --------------------------------
(***************************************************************************)
(* The life of the process (main.go): start, signals, reload and shutdown, *)
(* with LoadConfig (config.go) and the head of every call, HandleInvite    *)
(* and handleIncoming (calls.go), which reads what a reload replaces.      *)
(*                                                                         *)
(* The goroutine of the signals replaces the configuration and then the    *)
(* users, a call reads the configuration, the users and the configuration  *)
(* once more.  What follows the head of a call is CallHandler; the uplink  *)
(* registration is UplinkRegistrar, of which main sees how Run returns.    *)
(***************************************************************************)
EXTENDS BusinessHours

CONSTANTS
    Contents,   \* what the configuration file may hold
    Users,      \* the users it may name
    Stranger,   \* a caller who is none of them
    Instants,   \* when calls may come
    Elsewhere,  \* an address that belongs to no uplink
    MaxEdits,   \* bound on the changes of the file
    MaxSignals  \* bound on the signals

ASSUME CallersAssumption == Stranger \notin Users
ASSUME BoundsAssumption == MaxEdits \in Nat /\ MaxSignals \in Nat

VARIABLES
    file,       \* what the configuration file holds
    edits,      \* how often it was changed
    process,    \* the process
    boot,       \* the configuration it was started with
    cfg,        \* the configuration in h.cfg
    users,      \* the users the registrar knows
    uplinkIPs,  \* h.uplinkIPs
    loop,       \* where the goroutine of the signals stands
    loaded,     \* the configuration it has loaded
    sigCh,      \* the channel of the signals
    signals,    \* how many were sent
    cancelled,  \* the context of main is done
    uplink,     \* the registration on the uplink
    call,       \* the head of a call
    asked,      \* history: how new the file was at the last SIGHUP
    read,       \* history: how new it was when it was last read
    stopping    \* history: a SIGTERM has reached the channel

disk == <<file, edits>>
start == <<process, boot, uplinkIPs, uplink>>
settings == <<cfg, users>>
channel == <<sigCh, signals, asked, stopping>>
vars == <<disk, start, settings, loop, loaded, channel, read, cancelled, call>>

-----------------------------------------------------------------------------
(***************************************************************************)
(* LoadConfig: a file is a function on the settings it gives.              *)
(***************************************************************************)
Defaults == [host |-> "", username |-> "", users |-> {}, recording |-> FALSE, dir |-> "",
    filterCalledNo |-> FALSE, filterSourceIP |-> FALSE, hours |-> [enabled |-> FALSE]]

Overlay(f) == [s \in DOMAIN Defaults |-> IF s \in DOMAIN f THEN f[s] ELSE Defaults[s]]

Usable(c) ==
    /\ c.host # "" /\ c.username # ""
    /\ c.users # {}
    /\ c.recording => c.dir # ""

\* The configuration in f, or none: a file that cannot be read or parsed is like
\* one that gives nothing.
LoadConfig(f) == {c \in {Overlay(f)} : Usable(c)}

Configs == UNION {LoadConfig(f) : f \in Contents}

ASSUME UsersAssumption == \A c \in Configs : c.users \subseteq Users

\* Times of day are not negative.
ASSUME TimesAssumption ==
    /\ Instants \subseteq Nat /\ Offset \in [DOMAIN Offset -> Int]
    /\ \A c \in Configs : c.hours.enabled =>
          Minutes(c.hours.start) \in Nat /\ Minutes(c.hours.end) \in Int

-----------------------------------------------------------------------------
\* Verdicts: what HandleInvite and handleIncoming decide.  Of a call the model
\* keeps what was read from the configuration and what the verdict was about.
Refusals == {"not found", "forbidden"}
Rings == {"phones", "voicemail"}
Verdicts == {"outgoing"} \cup Refusals \cup Rings

Numbers == {c.username : c \in Configs}
Addresses == {c.host : c \in Configs} \cup {Elsewhere}

NoCall == [at |-> "none"]

Calls ==
    [at : {"none", "incoming", "outgoing"}] \cup [at : {"invite"}, held : Configs]
    \cup [at : Refusals, held : Configs, to : Numbers, source : Addresses]
    \cup [at : Rings, held : Configs, now : Instants]

TypeOK ==
    /\ file \in Contents
    /\ edits \in 0..MaxEdits
    /\ process \in {"starting", "serving", "exited"}
    /\ process = "serving" => boot \in Configs /\ cfg \in Configs
    /\ users \subseteq Users
    /\ uplinkIPs \subseteq {c.host : c \in Configs}
    /\ loop \in {"idle", "load", "update", "users", "stop", "over"}
    /\ loaded \subseteq Configs
    /\ loop = "update" => loaded # {}
    /\ sigCh \in Seq({"HUP", "TERM"}) /\ Len(sigCh) <= 1
    /\ signals \in 0..MaxSignals
    /\ cancelled \in BOOLEAN
    /\ uplink \in {"first", "registered"}
    /\ call \in Calls
    /\ {asked, read} \subseteq 0..MaxEdits
    /\ stopping \in BOOLEAN

Init ==
    /\ file \in Contents
    /\ edits = 0
    /\ process = "starting"
    /\ boot = Defaults /\ cfg = Defaults
    /\ users = {}
    /\ uplinkIPs = {}
    /\ loop = "idle"
    /\ loaded = {}
    /\ sigCh = <<>>
    /\ signals = 0
    /\ cancelled = FALSE
    /\ uplink = "first"
    /\ call = NoCall
    /\ asked = 0 /\ read = 0
    /\ stopping = FALSE

-----------------------------------------------------------------------------
(***************************************************************************)
(* The operator.                                                           *)
(***************************************************************************)
Edit(f) ==
    /\ process # "exited"
    /\ edits < MaxEdits
    /\ f # file
    /\ file' = f
    /\ edits' = edits + 1
    /\ UNCHANGED <<start, settings, loop, loaded, channel, read, cancelled, call>>

\* What the loop does with a signal.
PlaceOf(s) == IF s = "HUP" THEN "load" ELSE "stop"

\* Mutant: the channel has no buffer.
DeliverUnbuffered(s) ==
    /\ loop' = IF loop = "idle" THEN PlaceOf(s) ELSE loop
    /\ stopping' = (stopping \/ (s = "TERM" /\ loop = "idle"))
    /\ UNCHANGED sigCh

\* signal.Notify hands s to the loop that waits, or leaves it in the channel, or
\* drops it.
Deliver(s) ==
    /\ loop' = IF loop = "idle" THEN PlaceOf(s) ELSE loop
    /\ sigCh' = IF loop # "idle" /\ sigCh = <<>> THEN <<s>> ELSE sigCh
    /\ stopping' = (stopping \/ (s = "TERM" /\ sigCh = <<>>))

Signal(s) ==
    /\ process = "serving"
    /\ signals < MaxSignals
    /\ signals' = signals + 1
    /\ asked' = IF s = "HUP" THEN edits ELSE asked
    /\ Deliver(s)
    /\ UNCHANGED <<disk, start, settings, loaded, read, cancelled, call>>

-----------------------------------------------------------------------------
(***************************************************************************)
(* main.                                                                   *)
(***************************************************************************)
\* The process ends, with the calls in progress.
Exit == process' = "exited" /\ call' = NoCall

StartFails ==
    /\ process = "starting"
    /\ Exit
    /\ UNCHANGED <<disk, boot, uplinkIPs, uplink, settings, loop, loaded, channel, read, cancelled>>

\* Up to ServeBackground; the addresses of the uplink are looked up once.
Start(c) ==
    /\ process = "starting"
    /\ c \in LoadConfig(file)
    /\ process' = "serving"
    /\ boot' = c /\ cfg' = c
    /\ users' = c.users
    /\ uplinkIPs' \in {{}, {c.host}}
    /\ read' = edits
    /\ UNCHANGED <<disk, uplink, loop, loaded, channel, cancelled, call>>

Registered ==
    /\ process = "serving"
    /\ uplink = "first"
    /\ uplink' = "registered"
    /\ UNCHANGED <<disk, process, boot, uplinkIPs, settings, loop, loaded, channel, read, cancelled, call>>

\* Run returns the error of its first register, cancelled or not, or it returns
\* after the unregister.  Either way the process ends with whatever it does.
RunReturns ==
    /\ process = "serving"
    /\ uplink = "first" \/ cancelled
    /\ Exit
    /\ UNCHANGED <<disk, boot, uplinkIPs, uplink, settings, loop, loaded, channel, read, cancelled>>

-----------------------------------------------------------------------------
(***************************************************************************)
(* The goroutine of the signals.                                           *)
(***************************************************************************)
\* The next turn of the range over sigCh.
Continue ==
    /\ sigCh' = <<>>
    /\ loop' = IF sigCh = <<>> THEN "idle" ELSE PlaceOf(Head(sigCh))

LoadNew(c) ==
    /\ process = "serving" /\ loop = "load"
    /\ c \in LoadConfig(file)
    /\ loaded' = {c}
    /\ loop' = "update"
    /\ read' = edits
    /\ UNCHANGED <<disk, start, settings, channel, cancelled, call>>

\* Mutant: the goroutine returns.
LoadFailsForGood ==
    /\ process = "serving" /\ loop = "load"
    /\ LoadConfig(file) = {}
    /\ loop' = "over"
    /\ read' = edits
    /\ UNCHANGED <<disk, start, settings, loaded, channel, cancelled, call>>

\* Mutant: the process ends, as it does when the first load fails.
LoadFailsExit ==
    /\ process = "serving" /\ loop = "load"
    /\ LoadConfig(file) = {}
    /\ Exit
    /\ UNCHANGED <<disk, boot, uplinkIPs, uplink, settings, loop, loaded, channel, read, cancelled>>

\* Mutant: the error is not looked at.
LoadFailsUnseen ==
    /\ process = "serving" /\ loop = "load"
    /\ LoadConfig(file) = {}
    /\ loop' = "update"
    /\ loaded' = {}
    /\ UNCHANGED <<disk, start, settings, channel, read, cancelled, call>>

LoadFails ==
    /\ process = "serving" /\ loop = "load"
    /\ LoadConfig(file) = {}
    /\ Continue
    /\ read' = edits
    /\ UNCHANGED <<disk, start, settings, loaded, signals, asked, stopping, cancelled, call>>

UpdateConfig(c) ==
    /\ process = "serving" /\ loop = "update"
    /\ c \in loaded
    /\ cfg' = c
    /\ loop' = "users"
    /\ UNCHANGED <<disk, start, users, loaded, channel, read, cancelled, call>>

\* Mutant: users are added, and none removed.
AddUsers(c) ==
    /\ process = "serving" /\ loop = "users"
    /\ c \in loaded
    /\ users' = users \cup c.users
    /\ Continue
    /\ UNCHANGED <<disk, start, cfg, loaded, signals, asked, stopping, read, cancelled, call>>

UpdateUsers(c) ==
    /\ process = "serving" /\ loop = "users"
    /\ c \in loaded
    /\ users' = c.users
    /\ Continue
    /\ UNCHANGED <<disk, start, cfg, loaded, signals, asked, stopping, read, cancelled, call>>

\* cancel() and return: no signal is looked at any more.
Stop ==
    /\ process = "serving" /\ loop = "stop"
    /\ cancelled' = TRUE
    /\ loop' = "over"
    /\ UNCHANGED <<disk, start, settings, loaded, channel, read, call>>

-----------------------------------------------------------------------------
(***************************************************************************)
(* The head of a call.                                                     *)
(***************************************************************************)
At(place) == process = "serving" /\ call.at = place

CallUnchanged == UNCHANGED <<disk, start, settings, loop, loaded, channel, read, cancelled>>

HandleInvite ==
    /\ At("none")
    /\ call' = [at |-> "invite", held |-> cfg]
    /\ CallUnchanged

RouteOutgoing(from) ==
    /\ At("invite")
    /\ from \in users
    /\ call' = [at |-> "outgoing"]
    /\ CallUnchanged

\* Mutant: the source is compared with the host of the configuration.
IsFromConfiguredUplink(source) == source = call.held.host

IsFromUplink(source) == source \in uplinkIPs

Passes(to, source) ==
    /\ call.held.filterCalledNo => to = call.held.username
    /\ call.held.filterSourceIP => IsFromUplink(source)

RouteIncoming(from, to, source) ==
    /\ At("invite")
    /\ from \notin users
    /\ Passes(to, source)
    /\ call' = [at |-> "incoming"]
    /\ CallUnchanged

Refuse(from, to, source) ==
    /\ At("invite")
    /\ from \notin users
    /\ ~Passes(to, source)
    /\ call' = [held |-> call.held, to |-> to, source |-> source, at |->
            IF call.held.filterCalledNo /\ to # call.held.username
            THEN "not found" ELSE "forbidden"]
    /\ CallUnchanged

\* handleIncoming reads the configuration for itself.
HandleIncoming(now) ==
    /\ At("incoming")
    /\ call' = [at |-> IF IsWithinBusinessHours(cfg.hours, now) THEN "phones" ELSE "voicemail",
                held |-> cfg, now |-> now]
    /\ CallUnchanged

CallEnds ==
    /\ process = "serving" /\ call.at \in Verdicts
    /\ call' = NoCall
    /\ CallUnchanged

-----------------------------------------------------------------------------
Loop ==
    \/ LoadFails \/ Stop
    \/ \E c \in Configs : LoadNew(c) \/ UpdateConfig(c) \/ UpdateUsers(c)

Next ==
    \/ \E f \in Contents : Edit(f)
    \/ \E s \in {"HUP", "TERM"} : Signal(s)
    \/ StartFails \/ \E c \in Configs : Start(c)
    \/ Registered \/ RunReturns
    \/ Loop
    \/ HandleInvite \/ CallEnds
    \/ \E from \in Users \cup {Stranger} :
        \/ RouteOutgoing(from)
        \/ \E to \in Numbers, source \in Addresses :
              RouteIncoming(from, to, source) \/ Refuse(from, to, source)
    \/ \E now \in Instants : HandleIncoming(now)

Spec == Init /\ [][Next]_vars

\* The goroutine of the signals is scheduled, and Run returns in the end once
\* its context is done (ShutdownInTime of UplinkRegistrar).
FairSpec == Spec /\ WF_vars(Loop) /\ WF_vars(cancelled /\ RunReturns)

-----------------------------------------------------------------------------
(***************************************************************************)
(* Properties.                                                             *)
(***************************************************************************)
\* When no reload is under way the users of the registrar are those of the
\* configuration in force, whatever files failed to load and whatever signals
\* came in between (main.go:139-148).
UsersFollowConfig == process = "serving" /\ loop # "users" => users = cfg.users

\* A call from the uplink of the start is never refused for its source, to
\* whatever host a reload has moved: it is "not found" or passes, and the number
\* registered at the start is not found only where a reload has changed the
\* username: the extent of what RegisteredNumberReachable finds (calls.go:36-41,
\* 67-77, 93-98).
RefusedOnlyByRename ==
    call.at \in Refusals /\ call.source = boot.host /\ uplinkIPs # {} =>
        /\ call.at = "not found"
        /\ call.to = boot.username => call.held.username # boot.username

\* README.md:15: phones ring "only during configured days and hours", taken as
\* minutes of the local week: for a window within one day (business_hours.go:21-44).
InOfficeHours(hours, minute) ==
    \E day \in 0..6 :
        /\ Weekdays[day] \in hours.days
        /\ minute - day * DayLength \in Minutes(hours.start) .. Minutes(hours.end) - 1

OpenAsWritten ==
    call.at \in Rings =>
        LET hours == call.held.hours
        IN  hours.enabled /\ Minutes(hours.end) <= DayLength =>
                (call.at = "phones"
                    <=> InOfficeHours(hours, Local(hours.timezone, call.now)))

\* README.md:176: a reload drops no call, whatever is in the file.  Only a stop,
\* or the failure of the first registration, cuts calls short (main.go:139-152,
\* 177-181).
ReloadCutsNoCall ==
    [][process = "serving" /\ process' = "exited" => stopping \/ uplink = "first"]_vars

\* Whatever the channel of one signal drops, the file is read again after every
\* SIGHUP, unless the process ends (main.go:134-148).
ReloadTakesEffect == (asked > read) ~> (read >= asked \/ process = "exited")

\* A SIGTERM that finds room in the channel ends the process, also if a reload
\* is under way or fails; one that finds none is lost (main.go:134-154).
StopTakesEffect == stopping ~> (process = "exited")

(***************************************************************************)
(* What the documentation says and the code does not do.                   *)
(***************************************************************************)
\* README.md:56: filter_called_no is to "Only accept calls addressed to our
\* registered number", and README.md:185 lists "uplink host/credentials" among
\* the "Settings that require a restart": as long as the process runs, who calls
\* the number it has registered, from the uplink, is not refused (calls.go:67).
RegisteredNumberReachable ==
    /\ uplink = "registered" /\ uplinkIPs # {}
    /\ call.at \in Refusals
    => ~(call.to = boot.username /\ call.source = boot.host)

-----------------------------------------------------------------------------
(***************************************************************************)
(* The inductive invariant of the safety properties.                       *)
(***************************************************************************)
\* The loop puts in force what it has loaded, configuration first.
ReloadInOrder ==
    /\ process = "starting" => loop = "idle"
    /\ loop = "update" => \E c \in Configs : loaded = {c}
    /\ process = "serving" /\ loop = "users" => loaded = {cfg}
    /\ UsersFollowConfig

\* Whatever ends the process goes back to a SIGTERM.
StopInOrder ==
    /\ loop = "idle" => sigCh = <<>>
    /\ sigCh # <<>> /\ Head(sigCh) = "TERM" => stopping
    /\ loop = "stop" \/ cancelled => stopping

\* A verdict is that of the settings the call has read.
VerdictsInOrder ==
    /\ process # "serving" => call = NoCall
    /\ process = "serving" => uplinkIPs \subseteq {boot.host}
    /\ RefusedOnlyByRename
    /\ call.at \in Rings =>
          (call.at = "phones" <=> IsWithinBusinessHours(call.held.hours, call.now))

IInv == TypeOK /\ ReloadInOrder /\ StopInOrder /\ VerdictsInOrder

=============================================================================
