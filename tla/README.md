# A TLA+ model of sip2sip

sip2sip is a small SIP B2BUA in Go: phones on the local network register with
it, it registers with one uplink, and it connects calls between the two, with
forking, recording, announcements, business hours and voicemail. The media and
the SIP dialogs are the work of the libraries diago and sipgo, which are not
part of the repository. This project models the program around them: the
decisions of its handlers, what its goroutines share and how they overlap.

Line numbers below refer to the files under `src/`.

## 1. Inventory

| Component (file) | State it keeps | Operations | Interacts with |
|---|---|---|---|
| Forking (`calls.go` `forkCall`) | `winner`, `mu`, `wg`, the fork's context; one goroutine per phone | invite every phone, first session wins, cancel and hang up the rest, wait for all | called by normal and answer-first mode; diago's `Invite` |
| Call handling (`calls.go`) | per call: the caller's dialog, `CDR`, `recordingState`, WAV files, drain and copy goroutines; shared: `h.cfg`, an atomic pointer, and `h.uplinkIPs`, resolved once at the start | `HandleInvite`, `handleIncoming`, answer-first mode, `handleOutgoing` (internal, uplink), `bridgeWithRecordingState`, `finishCall`, `UpdateConfig` | registrar (who is registered), configuration, forking, voicemail, CDR |
| Voicemail (`voicemail.go`) | the message file, the recording loop's silence and start times | announcement, beep, record until silence, limit or hang-up | called by `handleIncoming`; CDR |
| Call detail record and script (`cdr.go`) | one record per call, a JSON file, the script's process | save, run the script with record and WAV path | deferred by the two call handlers |
| Local registrar (`registrar.go`) | `users`, `registrations`, `nonces` under `mu` | `HandleRegister` (challenge, verification, binding), `UpdateUsers`, getters | sipgo runs each REGISTER in a goroutine; reload; call handling reads it |
| Uplink registration (`register.go`) | `expiry`, `contact`, the interval and timers of `Run` | register, refresh at 75% of the expiry, pause after a failure, unregister | started and cancelled by `main` |
| Start, reload, shutdown (`main.go`) | the channel of the signals, the context of everything | start; SIGHUP: load the file, `UpdateConfig`, then `UpdateUsers`; SIGTERM: cancel; end with the uplink registration | all of the above |
| Configuration (`config.go`) | none after loading | parse, defaults, validation | read by everything |
| Business hours (`business_hours.go`) | none | is this instant within the days and hours of the local week | call handling |
| Log filter (`log.go`) | none | wording of log lines | none |
| Helper scripts, packaging, CI | none | external services | run by the operator |

What is hard here, and what makes each part correct:

* **Forking.** Several phones answer within the same millisecond, while the 30
  seconds run out or the caller cancels. Correct: at most one session survives,
  all others are hung up before the caller's handler goes on, a phone that got
  through is not turned away for nobody, and the handler is never stuck.
* **Registrar.** Handlers overlap each other and the reload; the user is read
  without the mutex and the binding written three critical sections later.
  Correct: a challenge is good once and for one user; a binding is owed to the
  password configured when its user was looked up; a later registration is not
  undone by an earlier one; only a user's own request or a reload that deletes
  the user changes a binding; lapsed bindings are not called.
* **Call handling.** Parties leave at any moment, media and files fail, and
  each function reads the configuration anew. Correct: nobody is left in a
  session, the caller gets one final answer and not before a callee has
  answered, whoever is recorded has been told, a conversation is joined once and
  ended by a departure only, the script runs when the record is filed and the
  WAV file is closed.
* **Audio hand-over.** The goroutine that drains the caller's audio while the
  phones ring is given 100 ms to stop before the bridge reads the same stream;
  the losing copy goroutine can still write to the recorder that is closed.
  Correct: what is lost to a late drain, and what comes late to the recorder, is
  one packet each; a bridge ends when and only when a party has left; no
  goroutine outlives its dialogs.
* **Voicemail.** Silence and duration are looked at between reads that block.
  Correct: a message over a limit gets at most one packet more.
* **Uplink.** The uplink grants what it likes, answers late or not at all, and
  the program may be stopped while a request is out. Correct: the binding is
  refreshed before it lapses, a failure does not end the loop, the shutdown
  unregisters and takes a bounded time, and no binding is left behind that a
  reply could have spared.
* **Start and reload.** A signal channel of size one; two updates that are not
  one step; files that do not load; a start whose addresses and number stay in
  use after a reload; a shutdown in the middle of calls. Correct: between
  reloads the users are those of the configuration, the file is read after every
  SIGHUP, a reload cuts no call short, a SIGTERM that was not dropped ends the
  process.
* **Business hours.** Times that cannot be read, zones nobody knows, windows to
  and over midnight, a day that is not that of UTC.

`PROJECT.json` lists each of these hazards at its line, with the properties
that cover it or the reason why none does.

## 2. Modules

| Module | Models | Kind |
|---|---|---|
| `FirstAnswer` | what forking promises | abstract specification |
| `ForkCall` | `forkCall`, its goroutines and their phones | component |
| `ForkCallProofs` | its invariants and the refinement | proofs |
| `Registrar` | `registrar.go` | component |
| `MCRegistrar` | symmetry for TLC | instance |
| `RegistrarProofs` | its invariants | proofs |
| `CallHandler` | one call, `calls.go`, `voicemail.go`, `cdr.go` | component, composed with `FirstAnswer` |
| `MCCallHandler` | the configurations for TLC | instance |
| `CallHandlerProofs` | its invariants | proofs |
| `Conversation` | what a bridged call promises its parties | abstract specification |
| `CallHandlerRefinement` | a call implements `Conversation` | proofs |
| `CallAudio` | the goroutines that read and write the audio of one call, `calls.go`, `voicemail.go` | component |
| `CallAudioProofs` | its invariants | proofs |
| `CallAudioRefinement` | a bridge implements `Conversation`, its channel | proofs |
| `UplinkRegistrar` | `register.go`, the uplink and the clock | component |
| `UplinkRegistrarProofs` | its invariants | proofs |
| `BusinessHours` | `business_hours.go` | operators |
| `Server` | `main.go`, `LoadConfig` of `config.go`, the head of a call in `calls.go` | component, uses `BusinessHours` |
| `MCServer` | files, zones and moments for TLC | instance |
| `ServerProofs` | its invariants, and the hours | proofs |

`CallHandler` uses the actions of `FirstAnswer` for the time a call spends in
`forkCall`, and `ForkCall` is shown to implement `FirstAnswer`, so what is
checked of calls rests on the promise alone and not on how goroutines keep it.
`CallAudio` is what `CallHandler` takes a bridge and a message to be. Both are
shown to implement `Conversation`: the parties are joined once, only a departure
ends the bridge, whoever is left is hung up, and nothing is over before nobody
is in a session and the recording is closed. `CallHandler` does so with one
step, `CopyEnds`, for all that happens inside a bridge; `CallAudio` with the two
copies, the channel and the drains of which that step is made. That a departure
always ends a bridge is `DepartureEndsBridge`. `Server` is the process around
the calls: it models what a call reads before `CallHandler` takes over, and how
the process ends.

### ForkCall

`go[p]` is the place of the goroutine that invites phone `p`; `line[p]` is the
call as the phone sees it. Both are needed: a phone is *up* before its `Invite`
has returned, and the mutex decides only afterwards. `Spawn` is one turn of the
loop (415-416), `InviteOK` and `InviteFails` the return of `dg.Invite` (421-430),
`Win` and `Lose` the critical section (432-440), `HangupLoser` and `CloseLoser`
the loser's two calls after the unlock (441-442), `ReturnWinner` `wg.Wait` and
the return (446-450). A critical section is one action: nothing else reads or
writes what it protects before `wg.Wait` has returned. The context (407-408)
ends by its limit, with the caller, by the winner, or when `forkCall` returns.

### Registrar

A handler is split where another goroutine can come between: the unlocked lookup
of the user (55), `verifyAuth`'s and `sendChallenge`'s critical sections
(138-143, 116-118), the locked write of the binding (89-103), the reply. The
unlocked read of `r.users` is a data race with `UpdateUsers`; the map it points
to is never written again, so a build reads the old map or the new one, and
these are the two orders of `LookUp` and `UpdateUsers`. A challenge is named by
the request it answers and a digest by the password it was computed from
(`Response` and 16 random bytes neither collide nor repeat). Requests are
numbered as they arrive; a phone can answer any challenge that was sent, any
number of times, with any user name and password. `left[u]` is the time until a
binding's `Expires`. `gen`, `seen`, `stored` and `before` are history variables:
they record what the properties speak of and no guard but the bound on reloads
reads them.

### CallHandler

The handler of a call is one goroutine, so its model is a program counter with
one action per stretch between two points where somebody else can act (a call
into diago, a file, a read of the configuration). Each function that calls
`h.getConfig` anew has a `GetConfig` at the same place, and SIGHUP
(`UpdateConfig`) may come between any two steps. The answers of the registrar,
of business hours and of the dial plan are arbitrary. `leg`, `chosen` and
`returned` are the variables of `FirstAnswer`; the outgoing calls, which invite
one callee and do not fork, use the same `leg`. Failures of diago are part of
the model: `Answer`, the media setup and playing a file may fail while
everybody is there (`faults` remembers it for the properties), and fail always
for a party that is gone; where both parties are to hear a file, any of them may
miss it, since `playAnnouncement` gives up before anybody hears when it cannot
create both playbacks, and plays to each by itself after that (560-600). In the
words of `Conversation` (`PartyOf`) the parties are
apart until both copies run (534), and parted when the record is left to
`finishCall`; `endedBy` is `cdr.hangupBy`, `taped` an open recording. A call
that ends without a bridge, or by an error of the media setup, is a `Miss`.

### CallAudio

`at[g]` is the place of goroutine `g`: the two drains (one of answer-first mode
or voicemail, one of `playAnnouncement`), the two copies of the bridge, and the
loop of `recordVoicemail`, which is the handler's own. `stop` holds the
drains whose `drainStop` is set, `done` is the channel of the bridge,
`queue` the packets of the caller that nobody has read. A `Read` is one action
when the packet is there (`TakePacket`) and one when the dialog has ended;
until then the goroutine stays in "read", which is how a drain outlives the
100 ms (`DrainAwaited` needs nothing of the drain). The use of a packet is an
action of its own, so the recorder may be closed in between. `elapsed` and
`quiet` run while the loop of a message waits. `stolen`, `late` and `overdue`
count what the properties bound; no guard reads them. In the words of
`Conversation` a party is up while its dialog is and a copy was started
(`Bridged`), and parted when the handler is done with the bridge.

### UplinkRegistrar

`Run` is one goroutine: `pc` says whether it is in its first `register`, in the
select of the loop, in a refresh, in the sleep after a failure or in
`unregister`, and `timer` is what is left of the time it waits there. `wire` is
the request of the current `doRequest`, or the reply to it; `auth` and `replay`
say whether the request carries credentials and whether its branch was used
before, which is what the removal of the Via header in `register` (162-165) is
about and what `unregister` lacks. The uplink is the environment: `bound` is the
time until the binding it keeps lapses. It may decline to bind at all and say so
with an expiry of zero, which `Run` asks for from then on. It may bind for another time than it
announces (no Expires header leaves `r.expiry` standing, 272-278), and a reply
may come as late as the request's own limit, or never. Time passes in units and
only while `Run` waits, so code between two waits takes none.

### Server and BusinessHours

A file is a function on the settings it gives; `LoadConfig` puts it over the
defaults and is the empty set when the result is not usable, or the file cannot
be read or parsed. `loop` is the goroutine of the signals: `Deliver` is what
`signal.Notify` does with a channel of one (hand over, leave, drop), `LoadNew`,
`UpdateConfig` and `UpdateUsers` are the three steps of a reload, between which
calls come and the file changes. The head of a call reads the configuration
(`HandleInvite`), the users (`RouteOutgoing`, `RouteIncoming`, `Refuse`) and the
configuration again (`HandleIncoming`), each in a step of its own; `call` keeps
what was read and the verdict. Of the uplink registration `main` sees only that
`Run` returns: with the error of the first register, or once cancelled. `boot`
is the configuration of the start, whose number stays registered and whose
addresses `uplinkIPs` keeps, whatever is loaded later.

`BusinessHours` computes with minutes of the week. A time is the sequence of
its parts between colons, one that cannot be read counts as zero as `Atoi`'s
ignored error makes it, and an unknown zone is UTC.

## 3. Runs

| Run | Instance | Shows |
|---|---|---|
| `fork` | 3 phones | `ReturnSettlesEveryPhone`, `NoAnswerDropped`, `ForkReturns` and the refinement `KeepsPromise` |
| `registrar_users` | 2 users, 2 passwords, 3 requests, 1 reload | `NonceSingleUse`, `RegistrationAuthentic`, `DeletedUserOnlyByOverlap`, `BindingsChangeByOwner` |
| `registrar_retries` | 1 user, 4 requests, expiries of -1, 0 and 1, 1 reload | `LatestRegisterWins`, `LapsedPhonesAreNotCalled` |
| `call_modes` | 2 phones and a trunk, ten configurations, 1 reload | `ScriptSeesFinishedFiles`, `NobodyLeftTalking`, `AnsweredAfterCallee`, `OneFinalAnswer`, `RecordedAreAnnounced`, `UnansweredFileIsAnswerFirst`, `CallerGoneEndsCall` and the refinement `KeepsConversation` |
| `uplink_refresh` | expiries of 0, 3, 12 and 20 units of 8 s | `RefreshInTime`, `ShutdownInTime`, `BindingOutlivesFailureOnly`, `KeepsTrying` |
| `call_audio` | a message of 3 units at most, silence of 2, 2 packets waiting | `DrainTakesOneAtMost`, `OneLateSampleEach`, `OnePacketOverLimit`, `DepartureEndsBridge`, `GoroutinesEnd`, `MessageEnds` and the refinement `KeepsConversation` |
| `server` | 4 files of which 3 load, 2 changes, 3 signals, 5 moments | `UsersFollowConfig`, `RefusedOnlyByRename`, `OpenAsWritten`, `ReloadCutsNoCall`, `ReloadTakesEffect`, `StopTakesEffect` |
| `registrar_deleted`, `call_announcement`, `server_number`, `uplink_retry`, `uplink_unregister` | one setting each | where code and documentation disagree (section 6) |

The runs of the other components check their type invariants as well; that of
`ForkCall`, which no change of the code one could think of would break, is stated
by a theorem only. So are `WinnerKept`, which `KeepsPromise` implies,
`BridgeEndsByDeparture`, which `KeepsConversation` of `CallAudio` implies, and
`ChannelServes`, the safe half of `GoroutinesEnd` and `DepartureEndsBridge`.

**Bounds.** The properties of `ForkCall` compare a phone with the winner;
with three phones there is a winner, a loser and one more in any third place.
The properties of the registrar speak of two requests that verified, and a
verified request needs one challenge, which it may share: three requests are
the smallest number that lets two of them fight for one challenge, four let two
complete registrations overlap. Two users and two passwords are needed to
confuse them, and are not told apart by anything, hence the symmetry (of a run
without temporal properties). A binding that lives one tick is
alive, at its limit and past it in turn, and one whose `Expires` is below zero is
past it from the start. One reload separates what came before it from what
comes after; the properties compare with the last one. One call stands for all:
calls share only the registrar and the configuration, both of which may be
anything at any time. Two phones give it a winner and a loser. The
configurations of `call_modes` are all eight combinations of recording,
announcement and answer-first mode with the script on, and two that filter
calls, keep hours and play announcements, with voicemail off and on; the one
reload may replace any of them by any other.

In `uplink_refresh` a unit stands for about 8 s: sipgo's timeout of 32 s and the
least interval of 30 s are 4 units, the pause and the limit of the unregister
1. `RefreshInTime` needs an expiry above four timeouts, which 20 is; 12 and 3
are expiries that are granted but too short, the latter below the least
interval, and 0 is no binding.

In `call_audio` either limit of a message can come first, with and without the
other. Two packets can wait: one for a drain that is late, one for the reader
that comes after it; a property that bounds what is lost by one packet is
broken by the second.

In `server` one signal is handled, one waits in the channel and one is dropped.
The files differ in what a call reads twice (number, users, filters, hours) and
in the host; the one that does not load records nowhere. Two changes let the
file change again while it is loaded. The moments lie before, at and after an
opening in each zone, and on a night that is another day elsewhere; the windows
are one of office hours, one to midnight and one over it.

**Deadlock** is not checked: a finite number of calls and requests runs out,
`Run` returns, a call and the process end.

**Fairness.** Goroutines that can move are scheduled and timers fire: weak
fairness for every goroutine of a fork, its limit and its `wg.Wait`, and for the
handler's own steps. Phones, callers and callees promise nothing. The steps of
`CallHandler` that stand for a limit (`InviteFails`, the end of a fork) are the
handler's because diago and the contexts bound them by 60 and 30 seconds. The
end of a voicemail is forced only once the caller is gone, because then `Read`
fails; the limits of the recording loop are looked at only between reads and
promise nothing to a caller who sends nothing. In the registrar only the clock
is fair; in the uplink registration, the clock and `Run`. In `CallAudio` the
goroutines and the handler are scheduled, and what is played comes to its end;
nobody has to speak or to leave, so `MessageEnds` speaks of a caller who goes on
sending, and `GoroutinesEnd` of dialogs that have ended. In `Server` the
goroutine of the signals is scheduled and `Run` returns once its context is
done, which `ShutdownInTime` of `UplinkRegistrar` bounds; nobody has to call,
and the file need not stay unchanged.

## 4. Proofs

The theorems hold for any sets of phones, users, passwords, requests, expiries,
configurations and files, finite or not, any limits of a message, and any bound
on reloads, packets, changes and signals. They assume that the values that mean
"none" are not among the others (`NoPhoneAssumption`, `NoUserAssumption`,
`NoPasswordAssumption`, `ReqsAssumption`, `PeersAssumption`), that requests,
grants, limits and bounds are natural numbers, and that the expiries of the
registrar, which `Sscanf` reads with a sign, are integers.

* `ForkInvariant`: `IInv` of `ForkCall`. What a place in a goroutine says about
  its phone is not in the properties: that a returned fork leaves no loser
  talking holds because a goroutine is done only after `Hangup` or after an
  `Invite` that left no session (`LoserLines`), and that no answer is dropped
  because a goroutine takes the loser's path only when there is a winner already.
  From it: `ForkTypeOK`, `ForkSettles`, `ForkDropsNoAnswer`, and `ForkKeepsWinner`,
  of the action property `WinnerKept`.
* `ForkKeepsPromise`: every behaviour of `ForkCall` is one of `FirstAnswer`
  under `leg[p] = Session(p)`, `chosen = winner`. `InviteOK` maps to
  `Establish`, `Win` to `Choose`, `HangupLoser` to `Release` or a stutter,
  `PhoneHangsUp` to `Leave`, the return to `Return`, all else to a stutter.
* `RegistrarInvariant`: `IInv` of `Registrar`. `NonceSingleUse` is not
  inductive: a handler that is about to verify must find the nonces of all verified
  requests spent (`VerifiedFacts`), and a challenge in `nonces` must be one that was
  sent and by its own request (`PendingSent`), so that it cannot come back.
  `LatestRegisterWins` needs that only answered requests precede another and
  never write again (`BeforeAnswered`); `DeletedUserOnlyByOverlap` and the part of
  `RegistrationAuthentic` about the password need `LookupFresh` and `BindingStored`.
  From it: `RegistrarTypeOK`, `RegistrarNonceSingleUse`, `RegistrarAuthentic`,
  `RegistrarDeletedByOverlap`, `RegistrarLatestWins`.
  `RegistrarChangesByOwner` is about steps: each action of `Next` either leaves
  `registrations` alone or is the locked section of a request whose challenge
  was sent to its user and is spent, or a reload that knows the user no more.
  Which password that request answered with is again `LookupFresh`.

* `UplinkInvariant`: `IInv` of `UplinkRegistrar`. `RefreshInTime` relates
  binding and timer in the loop only; it follows once the age of the binding is
  known where it comes from, in a reply on its way (`BindingAge`), and the
  interval is known to be that of the expiry the loop was entered with
  (`IntervalKept`). `ShutdownBudget` divides the time of a shutdown between the
  places it can find `Run` at. From it: `UplinkTypeOK`, `UplinkRefreshInTime`,
  `UplinkShutdownInTime`. `UplinkOutlivesFailureOnly` has an invariant of its
  own, `LeftInv`: what is on the wire once `Run` unregisters, and what the last
  reply it took has left at the uplink (`LastWord`). Assumed: the expiry asked for
  and the least interval are positive, the expiries granted natural numbers
  (`ExpiriesAssumption`, `IntervalAssumption`), and so the limits
  (`LimitsAssumption`).

* `CallInvariant`: `IInv` of `CallHandler`. The properties speak of the end of
  the handler, or compare two parties in the middle of a call; none is
  inductive, since they do not say how far the handler has come. `IInv` says for
  each place what is settled there: the caller's dialog (`CallerSettled`), which
  function has the call (`RouteSettled`), whether there is a callee and that
  there is no other (`CalleeSettled`), the state of recording, record and script
  (`FilesSettled`), and who has heard what (`AnnouncementSettled`).
  `ScriptSeesFinishedFiles`, `NobodyLeftTalking`, `AnsweredAfterCallee` and
  `RecordedAreAnnounced` follow, the last with `CallerHeard`, for the caller of
  answer-first mode who hears the announcement long before there is a bridge. It
  does not except reloads: what it leaves out is the callee of a call that is
  bridged under the settings of answer-first mode, the subject of
  `call_announcement`. So do `UnansweredFileIsAnswerFirst` (`CallUnansweredFile`), with
  `FileOfAnswered`, and `OneFinalAnswer`, an action property, from the places
  where the caller is answered. The time in `forkCall` enters through the
  actions of `FirstAnswer` alone. Assumed besides: a configuration says yes or
  no to each of its switches (`ConfigsAssumption`).
* `CallKeepsConversation`: every behaviour of `CallHandler` is one of
  `Conversation`. `StartCopy` maps to `Join`, `CopyEnds` to `End`, `HangupBoth` to
  `HangUp`, `CloseRecording` after a bridge to `Part`, a departure inside the
  bridge to `Leave`; what files a call without a bridge maps to `Miss`, all else,
  reloads included, to a stutter. `IInv` does not say that the handler still knows
  whom it talks to and who ended the bridge when it closes the recording; that is
  `TalkSettled` (`CallTalkSettled`).
* `AudioInvariant`: `IInv` of `CallAudio`. That a late drain takes one packet is
  not inductive: the flag was set before the hand-over, so the packet is
  followed by the test that ends the drain (`DrainsInOrder`). A late sample is
  the last one because the recorder is closed after both hang-ups
  (`ClosedInOrder`), hence after any `Read` that could bring another
  (`SamplesInOrder`). `EndsInOrder` traces whatever is in the channel, on its way to
  it, or taken from it back to a departure. From it: `AudioTypeOK`,
  `AudioDrainTakesOne`, `AudioOneLateSample`, `AudioBridgeEnds`,
  `AudioOnePacketOver`.
* `AudioKeepsConversation`: every behaviour of `CallAudio` is one of
  `Conversation`. `StartBridge` maps to `Join`, `AwaitFirst` to `End`, the two
  hang-ups to `HangUp` or a stutter, `CloseRecorder` to `Part`, `Leaves` to
  `Leave` or a stutter; drains, packets and copies, late ones too, are not seen.
  That both copies start together between two answered dialogs, and that
  `hangupBy` lives from the end of the bridge to its close, is `BridgeInOrder`
  (`AudioBridgeInOrder`). `AudioChannelServes` counts what is in the channel by
  the copies that have ended (`RoomInOrder`): there is room for each, and a
  bridge that waits has something to receive as soon as one has ended.
* `ServerInvariant`: `IInv` of `Server`. `UsersFollowConfig` needs to know what
  the goroutine has loaded while it is between its two updates
  (`ReloadInOrder`); `ReloadCutsNoCall` needs the way of a SIGTERM from the
  channel to the cancelled context (`StopInOrder`); `RefusedOnlyByRename`
  and `OpenAsWritten` need that a verdict rests on what the call has read
  (`VerdictsInOrder`). That the test by day and minute of the day is the one by
  minutes of the week, for windows within a day, is the lemma
  `OpenIsInOfficeHours`. From them: `ServerTypeOK`, `ServerUsersFollow`,
  `ServerRefusedOnlyByRename`, `ServerOpenAsWritten`, `ServerReloadCutsNoCall`.
  Assumed: the users of a configuration are users (`UsersAssumption`), times of
  day are not negative and offsets are integers (`TimesAssumption`).

Only model-checked is liveness, which is beyond the prover: `ForkReturns`,
`LapsedPhonesAreNotCalled`, `CallerGoneEndsCall`, `KeepsTrying`,
`DepartureEndsBridge`, `GoroutinesEnd`, `MessageEnds`, `ReloadTakesEffect`,
`StopTakesEffect`. The refinements `KeepsPromise` and `KeepsConversation` (of
calls and of bridges) are checked and proved; so is every invariant and action
property of a run that passes.

## 5. What the code is taken to rely on

diago and sipgo are outside the repository. `dg.Invite` returns a session once
the callee has answered, or an error when it refuses, cannot be reached, or the
context is done; an error leaves no session behind, also when the answer and the
cancellation cross. `Hangup` of a dialog that has ended changes nothing.
`Answer` of a caller who cancelled fails. A read from a party that left fails.
The client of sipgo ends a transaction that gets no reply (`RequestLimit`), and
keeps the Via of a request that has one. The uplink treats a known branch as
`register.go:162-164` says. The file system either does what it is asked or
reports an error; a crash of the process is not modelled, since nothing is read
back after a start.

## 6. Findings

* `registrar_deleted`: "Remove registrations for deleted users"
  (`registrar.go:208`) misses a REGISTER that looked its user up before the
  reload and writes after it. `DeletedUserOnlyByOverlap`, proved, says that this
  is the only way.
* `call_announcement`: in answer-first mode the callee never hears the
  announcement that `README.md:14` and `README.md:216` promise, nor does either
  party of an outgoing call.
* `server_number`: "uplink host/credentials" need a restart (`README.md:185`), and
  the number that was registered stays so until then; but `filter_called_no`,
  which is to admit "calls addressed to our registered number" (`README.md:56`),
  compares with the username that was loaded last (`calls.go:67`). After a reload
  that changes it, calls to the registered number get 404. `RefusedOnlyByRename`,
  proved, says that a caller at the addresses of the start is refused for nothing
  but the number called, and for the registered number only after such a reload.
* `uplink_retry`: after a failed refresh the loop pauses for 5 s and then waits
  the whole interval again, where `register.go:59` says "Retry sooner".
* `uplink_unregister`: `unregister` repeats its request with credentials but
  with the branch of the refused one, which `register.go:162-164` says the
  uplink ignores; the binding survives the shutdown and the program logs
  "Unregistered".

Three more are visible in the code and have no run that shows them.

* `README.md:236` promises `none` for a call that was not answered; in
  answer-first mode a call no phone answered is filed with its recording, and the
  script gets the path of the WAV file (`calls.go:269-278`).
  `UnansweredFileIsAnswerFirst`, checked and proved, says that it does in no
  other.
* Outgoing calls use the uplink host and account of the reloaded configuration
  (`calls.go:365`), where `README.md:185` says that they need a restart: the other
  half of `server_number`.
* `hangup_by` may be `"system"` or empty, which `cdr.go:27` does not list.

`NobodyLeftTalking` excepts two paths of the code: after an error of the media
setup (`calls.go:505-515`) the handler returns without hanging up either leg
itself, and after a failed `Answer` it sends the caller nothing. Whether the end of the handler
ends these dialogs is up to diago; the property says that there are no others.

## 7. Not modelled

* Audio samples: codecs, resampling, the level that tells sound from silence,
  the beep and the header of a WAV file. They are data; a packet is sound,
  silence or junk, a sample is counted.
* Symmetric RTP: `enableRTPNAT` sets a flag of diago's and nothing comes back.
* The text of the digest header, of SIP URIs and of log lines (`log.go`): a
  challenge is the request it answers, a digest the password behind it.
* JSON syntax and the numeric defaults of the configuration: a file is what it
  gives, and one that cannot be parsed gives nothing.
* Times and durations in the record: subtractions of time stamps, with no state.
* Who is named in `hangup_by` when both copies fail: it depends on which of
  two failures inside diago comes first.
* The change to summer time: a zone is a constant offset.
* A negative `Expires` in a reply of the uplink, which `Atoi` would read
  (`register.go:272-278`); one of zero is modelled.
* A crash of the process: nothing is read back after a start, so there is
  nothing to recover; a stop in the middle of calls is `Exit` of `Server`.
* The helper scripts, the unit file and the release workflow, which are run
  outside the program.
