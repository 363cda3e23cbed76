# StackChan AtomS3R firmware: a TLA+ development

The firmware turns an M5Stack AtomS3R into a desktop companion: a button, a
face, a half-duplex voice base, an HTTP device API and a gateway that answers
what is recorded with a stream of speech.  This directory models the parts of
it where several tasks meet, where hardware and network fail, where a clock
wraps, and where text crosses fixed buffers; checks the models with TLC; and
proves the central results with TLAPS.

Sections: [the system](#1-the-system), [modules](#2-modules),
[how they follow the code](#3-how-the-modules-follow-the-code),
[runs](#4-what-the-runs-check), [fairness](#5-fairness),
[proofs](#6-what-is-proved), [disagreements](#7-where-code-and-words-disagree),
[not modelled](#8-what-is-not-modelled), [plan](#9-plan).

## 1. The system

### Tasks

| task | what it runs | source |
|---|---|---|
| main loop | every 10 ms: button poll → presenter → face → Wi-Fi tick | `src/main/main.cpp:197-216` |
| HTTP server | one request at a time: router → command handlers | `stackchan_deviceapi`, `stackchan_commands` |
| conversation | one turn per notification (core 1, priority 4) | `stackchan_conversation/src/task.cpp` |
| Wi-Fi events | driver callbacks | `stackchan_net/src/wifi.cpp:107-149` |

They share, without a common lock: the cancellation source (atomic), the
conversation phase (atomic), the words to speak (written by whoever took the
phase), the `DeviceState` (refreshed by the two callers), the audio device
(changes of direction under a recursive lock, reads and writes without it), and
the Wi-Fi policy.

### Components

| component | state | operations | interacts with | correct when | hard because | status |
|---|---|---|---|---|---|---|
| Cancellation source | one atomic reason | cancel, reset, clear_emergency | everybody | each call acts at one instant; a graver reason wins; a reset never releases a stop | lock-free retries | modelled, proved |
| Conversation task | phase, words, notification, the turn | request_start, run_one_turn | callers, voice base, gateway | one owner per turn; words whole; a cancel stops it promptly; a stopped turn is silent; waits are bounded | hand-over between tasks without a lock | modelled, safety proved |
| Gateway client | connection, deadlines, the URL in flash and in memory | converse, configure, load | the task, the gateway, the server task | every wait ends; every way out reports once; the URL copied is one whole URL | a slow or silent peer, a URL written meanwhile | converse and the URL modelled |
| Conversation turn | expected number, dropped events | feed, abort | readers, stager | audio in order, only a breach of contract fails the turn | dropped and malformed events | modelled, order proved |
| SSE reader, speech segmenter | line, event and sentence buffers, queues | feed, finish, flush | the turn | what comes out is what the text means, however it was cut | cuts anywhere, small buffers | modelled, the reader proved |
| Stager and player | staged audio, expressions, the time the sink runs dry | begin_sentence, accept, flushed, discard, remaining_ms | sink, face | nothing lost or repeated; the right face; the tail is heard | full stage in mid-event, wrapping clock | modelled, proved |
| Voice base | direction, channels, codec, amplifier, lock | start/stop capture/playback, read, write, play_tone | task, presenter | half duplex; a failed change is undone; a recording, a tone and a reply keep the channel they use | two tasks, failing drivers | modelled, proved |
| Commands | the shared `DeviceState` | conversation.*, estop.*, device.state, token.*, gateway.*, face.* | router, task | no start under a stop; a reply is true | unlocked refresh by two tasks | modelled, but for the commands that only read |
| Button and gesture | level, timers, click count | update, poll | presenter | each press reported once, in the true time | bounce, wrapping clock | modelled, proved |
| Network policy, Wi-Fi | failures, back-off, guests, flags of the driver | tick, events, save_credentials | setup page | always reachable one way or the other | flags raised between two reads, three tasks, power cuts | modelled, safety proved |
| Provisioning pages | none | credentials posted on the access point | network | only guests may save | races with the tick | in `Network` |
| Presenter | notices and their time, last phases seen | handle, tick, beep | task, network, face | a notice has its time; the face shown is the one the state asks for | several writers of one face, wrapping clock | modelled, proved |
| Identity and token | token in NVS and in RAM | access_token, rotate | router, conversation task | the token a caller was told survives a power cut and failing writes; a conversation carries one whole token | crash between write, commit and swap | modelled, proved |
| Face | expression, mode, mouth; blink and gaze timers | show, show_message, set_talking, tick | three tasks | see presenter | no lock around the values | values modelled, drawing not |
| Router, registry, `/command`, `/save` | the static body buffer | receive, route, dispatch, reply | server task | only what was sent, authorised and whole is run | bodies that stop short, a reused buffer | modelled, the transport proved |
| JSON scanner, JSON writer | none; the writer's position, brackets and overflow | find, find checked; begin, key, value, end | router, turn, commands | what is accepted is legal; what is written is well-formed or reported | duplicate names, nesting, a full buffer | modelled over tokens and bytes; the writer proved |
| base64, WAV, identifiers | none | convert | | | | not modelled |
| Mailbox, buffer pool, event bus | fixed arrays | post/take, acquire/release | only tests, for now | limits hold | | not modelled: unused by the firmware |
| Health, probe, self-test, board profile | none | read-outs | | | | not modelled: no state of their own |

`PROJECT.json` lists the places where each component is hard to test
("hazards"), with the properties that would catch them going wrong.

## 2. Modules

| module | what it is |
|---|---|
| `CancelReason` | the reasons in order of gravity and the effect of each operation |
| `CancelCell` | abstract specification: one cell, each call takes effect at one instant |
| `Cancellation` | `cancellation.cpp`: every load and compare-exchange is a step; implements `CancelCell` |
| `Turns` | abstract specification: an accepted start is one turn, with its own words, through the four phases |
| `ConversationTask` | `task.cpp`, `gateway_client.cpp` and the callers in `stackchan_commands` and `presenter.cpp`; implements `Turns` |
| `ConversationCancel` | history variables over `ConversationTask`: how long a cancelled turn goes on, whether it sends |
| `VoiceBase` | `voice_base.cpp`, `audio_direction.cpp`, and the two tasks that use them |
| `Playback` | `conversation.cpp`, `speech.cpp`, `playback_stager.cpp` and the `Player` of `task.cpp` |
| `Button` | `button.cpp` and `button_gesture.cpp` of the domain, polled by `stackchan_input` |
| `Network` | `network_policy.cpp`, `wifi.cpp` and the POST handler of the setup page |
| `Screen` | `presenter.cpp`, what `m5gfx_face.cpp` keeps, and the three tasks that write it |
| `StoredSetting` | `token.cpp` and the URL of `gateway_client.cpp`, in flash and in memory |
| `Sse` | `sse.cpp`, byte by byte, beside a reader with all the room it needs |
| `SseMeaning` | what a whole stream means, as one expression |
| `Speech` | `speech.cpp`, byte by byte, and what a reply's text means |
| `JsonText` | the two walks of `json_scan.cpp`, as operators over tokens |
| `JsonScan` | one search by both, against the grammar of legal objects |
| `Request` | the transport: `command_route.cpp`, `receive_exact.hpp` and how `/save` receives |
| `Router` | what a whole body comes to: `request_router.cpp`, `command_registry.cpp` and what `/save` reads |
| `JsonOut` | `json_writer.cpp` and a caller that follows its rule |
| `CancellationProofs`, `VoiceBaseProofs`, `PlaybackProofs`, `NetworkProofs`, `SseProofs` | the theorems about the module they are named for |
| `ConversationProofs` | those about `ConversationTask` and `ConversationCancel` |
| `DeviceProofs` | those about `Button`, `Screen` and `StoredSetting` |
| `ApiProofs` | those about `Request` and `JsonOut` |
| `MC*` | the instances TLC checks |

Composition.  `ConversationTask` uses the cancellation source through
`CancelReason!Effect`, one atomic step per call; that this is sound is what
`Cancellation` implementing `CancelCell` says, and it is both checked and
proved.  `ConversationTask` implements `Turns`, checked and proved too.
`ConversationCancel` extends `ConversationTask` with history.  The
sequence of one turn appears in three modules, each time with the detail its
properties need: in `ConversationTask` audio is a number of slices, in
`VoiceBase` it is who holds the lock and the channels, in `Playback` it is
numbered pieces with an expression.  `Request` takes what a body comes to as a
parameter, `Interpret`; `Router` extends `JsonText` and `Request` and defines
`Handle`, the value it is given, which reads with the walks that `JsonScan` checks
on their own.  `Playback` takes for
granted what `Sse` and `Speech` check, that the events and sentences that come
out are the ones sent.

`MCDevice`, `MCShared` and `MCText` bundle components that share no state: a variable
`part` chooses in the initial state which of them runs, and the others rest.  The
state graph is the disjoint union of the parts' graphs.  Only `VoiceBase` among them
has fairness, and at rest none of its fair steps is enabled.

## 3. How the modules follow the code

`PROJECT.json` "map" gives the lines of every definition.  In words:

**Cancellation.** `reason` is `reason_`.  `pc[c]` is where a thread is in its
call: about to load, about to compare-exchange, or done.  A failed
compare-exchange reloads and compares again, and may fail spuriously, as
`compare_exchange_weak` may.  `clear_emergency` is one strong exchange.

**ConversationTask.** `phase`, `spokenText`, `notified`, `reason` and `dev` are
`g_phase`, `g_spoken_text`, the FreeRTOS notification, `g_cancellation` and
`g_state`.  A caller goes load → store → phase → decide → exchange → copy →
terminate → notify; these are the loads and stores of `refresh_state` and
`request_start` that another task can come between.  The task goes through
`run_one_turn`: stale → words → record → capture → aborted → connect → … →
close → wind → forget → publish.  Each `token.cancelled()` and each bounded
read or write is a step.  `Torn` is the text buffer between its copy and its
terminator.  `budget` counts the polls a deadline still allows, the slices left
to upload or the events left in a read, whichever the loop the task is in is
bounded by.  Audio and gateway answer nondeterministically.

**Turns.** What all of this comes to for whoever sees only that there is a turn:
it is accepted, handed over by the caller that was accepted, taken up, worked on
and released.  `ConversationTask` implements it with `stage` read off the owner (a
caller that has taken the phase, the pending notification, the task), `said` the
task's view of the words, and the phase itself.

**ConversationCancel.** `late` counts reads and writes made while cancelled,
`underStop` that the turn began under a stop which still holds, `cancelledAt`
when it was first cancelled.  They are history: no action of the task reads
them.

**VoiceBase.** `direction` is `AudioDirection::state_`, `rx` and `tx` are the
channel handles, `owner`/`depth` the recursive lock, `place[t]` where a task is and
`ret[t]` where its call returns to.  Every take of the lock,
every change of direction, register sequence, channel or amplifier and every
unlocked check is a step, and each driver call may fail into the code's own
undo path.  `borrowed` is history: `speak()` was let through by a `playing()` that
was true because the button was still starting playback.

**Playback.** The gateway chooses each event within its contract or breaks it
(`breach`).  `todo` holds the calls the event being handled still makes to the
listener; `stage`, `speaking`, `pending`, `until`, `spoke` are the stager's
fields; `heard` records what was played and under which face.  Time passes in
ticks modulo `Modulus`, and `sounding` is what the hardware still holds.

**Button.** The variables are the fields of `ButtonDebouncer` and
`ButtonGesture`.  One action, `Poll`, is a pass of `input::poll`: the clock
advances by any gap up to `MaxGap`, the contact reads anything.  The ages are
history: true time, which does not wrap.

**Network.** `policy` groups the fields of `NetworkPolicy`.  `mpc` walks
`tick()` on the main loop, `hpc` walks `save_credentials()` on the server's
task, `Outcome` and `Deliver` are the driver and its event task.  What one task
reads of the policy and later writes is two steps wherever the other can tell.
Each storage and driver call may fail; `Restart` keeps only NVS.  `known`, the
credentials that have failed since they were entered, `untried` and `missed`, that
the policy was told of a lost connection at a moment when it could not tell which
one, are history.

**Screen.** `notice` and `until` are `notice_shown_` and `notice_until_ms_`;
`lastBusy`, `wasConnected`, `wasApUp` and `begun` the edges `tick()` remembers;
`expression`, `mode` and `talking` the face's atomics.  The main loop walks one
iteration: `handle` → `notice` → `phase` → `link` → `ap` → `net`, and each
`show_face()` is a read of the resting expression and, later, a show.
`set_expression` is a show and, later, a store.  `remaining`, `shownBy`,
`ticked` and `crossed` are history.

**StoredSetting.** One module for both settings, `kind` says which.  A change
goes checked → written (`nvs_set_str`) → stored (`nvs_commit`) → half copied →
swapped → replied; a conversation copies the value in two halves.  A commit that
fails, or a power cut, may or may not leave what was written.  At power-on the
storage may fail to come up (no token), or to open or be read: a token is then
drawn and stored as if there had been none, over a good one too, and a URL is left
out.  `told` is the last value a caller was answered with, `misread` that since
then a token in flash was replaced in this way; both are history.

**Sse.** `stream` and `received` are what arrives.  `feed()` is two actions:
`ReceiveBlock` takes a block of any length and rewinds the queue, as the
conversation has drained it after the block before; `ReadByte` is one pass of its
loop, with one operator per function of the source.  `meant` is history: a reader
that takes the same bytes, whose line and data have no limit and which never
drops a finished event, so that it holds what was meant next to what was read.
It counts apart the events whose data exceed the limit (`lost`) and those whose
data do not and a line of which does (`disputed`): the contract accepts the latter
and the code drops them.
`SseMeaning` says the same of a whole stream in one expression that reads nothing
byte by byte, and `SseWhole` compares the two.

**Speech.** `text` and `fed` are what arrives; the step is `feed()` of a block of any
length, folded byte by byte.  The property compares with a definition of the
meaning of the whole text that knows no buffers.

**JsonText, JsonScan.** A text is a sequence of tokens; a scalar carries what the
two walks disagree about (an escape, a leading zero, a control character).

**Request, Router.** `buffer` is `command_route`'s static array and keeps what the
last request left, `page` the array on the stack of `/save`.  A body arrives in
chunks of any length, stops short, or fails; `HandleBody` hands the front of the
buffer to `Interpret`, which yields the outcomes a request may have: several, where
the handler may be busy or its answer may not fit.

**JsonOut.** `writer` has the fields of `JsonWriter`; one `Put` stands for as many
`put(char)` as there are bytes.  `output` is the document the caller's calls make,
without a buffer: it has its own rule for commas, which looks at the byte before.

## 4. What the runs check

| run | instance | states | shows |
|---|---|---|---|
| `MCShared` | source: 3 threads, all calls; voice base: the two tasks there are | 399 k | a stop leaves only through `clear_emergency`, refinement of `CancelCell`; the port settled when unlocked, half duplex, and a recording, a tone and the conversation's own playback keep their channel (`PortIsKept`), the lock is granted |
| `MCConversation` | server + main loop, 1 text or none, 2 polls, 2 slices, 2 events | 2.12 M | one owner, words intact, at most two more reads or writes after a cancel, a cancelled recording is not sent, a stopped turn is silent; refinement of `Turns` |
| `MCConversationLive` | the same, 1 slice, 1 event | 389 k | a cancelled turn ends; no wait without a bound |
| `MCPlayback` | 3 events of ≤ 2 pieces, stage of 2, open, closed and unusable texts, tones | 415 k | order, completeness, silence after the end, buffering ends |
| `MCPlaybackTime` | 3 events, tones, clock of 11 ticks, sink of 2, every start of the clock | 5.56 M | tail heard, wait short, right face, only a breach fails |
| `MCDevice` | button: thresholds 2/8/7, gaps ≤ 3, clock of 12; screen: 2 expressions, times 3/2, iterations ≤ 2, clock of 10; setting: 4 values | 4.1 M | gestures in true time across the wrap, each press once; a notice has its time, a turn leaves no face, the face is the one reported; a reply is durable but for a misread token, a copy whole but for a change beside it |
| `MCText` | see below | 1.55 M | streams and texts come out as they are meant, however cut; the checked search is exact; a request is answered for its own body, and only what was sent is run; documents are well-formed or reported |
| `MCNetwork` | 2 networks, 2 failures, 1 guest, 1 save, 1 power cut | 278 k | the phase never waits in vain, guests left alone, keeps trying, setup page reachable |
| `MCLostCancel`, `MCOtherRate`, `MCFreshCredentials`, `MCLongLine` | | | violations, section 7 |

Why the bounds are enough.

- *Cancellation*: a call is decided by the values of the others between its
  load and its exchange.  Three threads give one caller two others to be
  overtaken by, the firmware has three, and the proofs lift the number.
- *Conversation*: two slices make "in the middle of a recording, an upload or a
  sentence" differ from its ends; two polls make "still within the deadline"
  differ from "expired"; two events let one read hold a sentence and more.  The
  state graph is complete: any number of turns follow one another.  The
  liveness run takes one slice and one event, which keeps every loop and every
  check but not their middles.
- *Voice base*: there are exactly two tasks and one device; the graph is
  complete.
- *Playback*: an event larger than what is free in the stage, equal to it and
  smaller all occur with pieces of one or two and room for two.  Three events
  let a sentence span events and a sentence follow a dropped event.
- *Playback time*: `2 * (SinkDepth + TurnTicks) < Modulus` is the condition
  under which a signed 32-bit difference is right; the instance is the smallest
  that keeps it with a turn longer than the sink, from every start of the clock.
- *Button*: a hold inside its window, a window inside the clock, polls that
  skip over a threshold.  Proved for all values that satisfy the assumptions.
- *Network*: two networks let a correction replace a typing mistake, two
  failures pass the access point's threshold and saturate the counter, one
  guest and one power cut can fall between any two steps.  The safety proofs lift
  every bound, on saves, guests and power cuts too.

- *Screen*: a notice that overlaps a turn, a clock that wraps inside a notice
  and an iteration later than a notice's last unit all occur; proved for all
  values that satisfy the assumptions.
- *Stored setting*: the value told, the one in flash and the one in memory may be
  three, and a fourth is left to draw; halves of two of them can be told apart.
- *Text*: all streams of five pieces, and events of two data lines with one more
  event behind them, in buffers of four bytes and blocks of up to two: lines and
  events that just fit and just do not, each without the other, a CRLF cut in two.  `BlocksAreShort`
  (`MaxBlock + 2 <= MaxEventBytes`) is what makes the queue long enough; the code
  reads blocks of 1024 bytes and allows events of 8192.
  All texts of four pieces with sentences of four bytes: markers cut in two, a
  three-byte character at the limit.  All legal objects of ten tokens and every
  text one token away from one of nine, nested to the limit and one beyond.
  Two requests in a row, each in chunks.  Documents of twelve bytes and the call that
  passes them, in buffers of 0, 3, 5 and 30 bytes, nested to two and beyond.  `MCText` says
  `CHECK_DEADLOCK FALSE`: its inputs end.

## 5. Fairness

- `ConversationTask`: the task is scheduled and each bounded read or write
  returns; a handler that began runs to its end.  Nobody need press, ask or
  clear anything, and the gateway need not answer.  `CancelEndsTurn` leaves out
  the cancellation that `estop.clear` takes back.  `WaitIsBounded` says exactly
  what the code bounds: a turn that never ends is one to which the gateway keeps
  sending.
- `VoiceBase`: both tasks are scheduled and driver calls return.  Strong
  fairness of `ToneWritten` stands for the fixed number of blocks a tone has.
- `Playback`: the conversation task is scheduled and a write returns within its
  deadline.
- `Network`: all tasks are scheduled, the event task among them (`Deliver`).  The
  driver reports every attempt it accepted.
  `RaiseAccessPoint` is strongly fair: the driver does not refuse for ever.
  `KeepsTrying` and `SetupIsReachable` except a device that has `missed` the loss of
  its connection (section 7).

- `Screen`, `StoredSetting` and the parts of `MCText` state safety only; none of
  their steps is assumed to happen.

## 6. What is proved

All proofs hold for every value of the constants that the named assumptions
allow; TLC evaluates those assumptions in the runs.

**Cancellation** (any set of callers).  Invariant: types, a caller about to
exchange holds a value that justified it, and only a caller outside a call has
no call recorded.  From it: `EmergencyHolds`, `ShutdownHolds`, and `Atomicity`,
that every step maps to a step of `CancelCell` or a stutter.  The justification
is what is needed: without it a retried exchange could install a lighter reason.

**ConversationTask** (any callers, words and bounds).  `OneOwner` and
`WordsIntact` are not inductive alone.  The strengthening `Handover` carries the
words with the ownership from the caller that took the phase, through the
pending notification, to the task; `LoopsBounded` keeps the loop counters typed.
`PhaseFollows` ties the phase to how far the turn is.  Theorems: `TypeCorrect`,
`TurnHasOneOwner`, `WordsAreIntact`, and `OneTurnForEachStart`, that every step of
a caller or of the task maps to a step of `Turns` or a stutter.  `OneOwner` is what
makes the mapping well defined: it says that at most one of the three owners is
there to be read off.

**ConversationCancel** (any callers, words and bounds).  `CancelInv` says at each
step how many reads and writes a cancelled task may still make, where a turn
under a stop can be, and where a turn cancelled while recording can be.  Two
facts carry the induction: a caller's step leaves the task where it is, and a
task's step raises no reason.  `HistoryOnlyWatches` lets the turn's own invariant
be used.  Theorems: `CancelStopsPromptly`, `CancelledRecordingIsNotSent`,
`StoppedTurnIsSilent`.

**VoiceBase** (two tasks).  `Roles` says who may be where, `HoldsLock` relates the
lock and its depth to the program counters, `Changing` how far a change of
direction has come.  Theorems: `TypeCorrect`, `DeviceIsSettled`,
`PortIsHalfDuplex`, `MicrophoneIsKept`, `SpeakerIsKept`, `SentenceIsKept`, and
these four as one, `PortKept`.  `SentenceIsKept` rests on this: a conversation that
writes and was not let through early found playback past its last failure, and
only the conversation task itself stops it.  `DeviceIsSettled` says nothing of the
amplifier (section 7).

**Button** (any thresholds with `Hold <= Window`, any range of the clock longer
than the window and a gap).  The clock readings the code keeps determine the true
age of what they stand for, and no age has reached its threshold.  Theorems:
`ReportedInTime`, `EachPressOnce`, `StartIsSilent`.

**Playback** (any number of events and pieces, any stage, sink and clock).
`Ordered` says that what was heard, what is staged and what the event in hand
still offers are three ascending runs, each before the next and none beyond what
the gateway has numbered; `InControl` which calls are still to be made at each
step of the task; `Timed` that what sounds ends by the time the stager noted.
`Complete` numbers them without a gap, so that until a turn fails nothing is lost;
`Punctual` says that the end noted in this turn lies at most a sink ahead;
`Blamed` that a gateway without a breach is at the number expected; `Faced` which
sentence each piece staged or in hand belongs to.  The difficult steps are those
that cut sequences (`Take`, `Write`), each a lemma.  Theorems: `TypeCorrect`,
`PlayedInOrder`, `TailHeard`, `SilentWhenEnded`, `NothingIsLost`, `WaitsAreShort`;
`FailuresAreBreaches` where all audio comes at one rate, and `FacesAreRight` where
every text ends in a terminator: the conditions without which section 7 shows the
properties to fail.

**Network** (any credentials, parameters, saves, guests and power cuts).  `Walk`
says where the two tasks can be and what the policy and the storage then hold;
`Told` that a link that is gone has left an event, or a flag, that tells of it, and
where the flags come between two reads of a tick; `Spared` that credentials known to
fail are not tried beside guests: either a failure is counted, or what is stored is
new, and where a save is half done the pair loaded is not yet whole.  Theorems:
`TypeCorrect`, `PhasesAreTrue`, `GuestsAreLeftAlone`.

**Sse** (any streams of bytes, any cuts, any buffers with `BlocksAreShort`).  `SseInv`
puts the reader next to `meant`: the line held is the line meant, or the part of it
that fits and a mark that it overflowed; the same of the event's data; and the
events queued are the ones meant whose lines and data fit, the others, disputed
ones among them, counted.  A dropped line marks
its event, which is why an event with a hole never comes out.  That the queue never
drops one needs a bound on what a block can complete (`QueueHasRoom`): once something
is queued, its bytes, those of the line and the event in hand and those of the block
still to come are together no more than a buffer, a block and one.  Theorem:
`EventsComeOutWhole`.

**Request** (any requests, bodies, chunks and limits, and whatever bodies come to).
`RequestInv` says that what has been received lies at the front of the buffer it goes
into, whatever lay there before; `Overwriting` is the lemma that a chunk keeps it so.
When the whole body is there, that front is the body, so the outcome is one of its
own.  Theorem: `RequestsAreTheirOwn`.  What it leaves to `Interpret`, that the router
runs only what the body says, is `OnlyWhatWasSent`, checked with `Handle` in its place.

**JsonOut** (any buffers, values and depth).  Until the caller fails, the writer's
length, brackets and comma are those of the document, and its text too while it
fits; from then on it is overflowed.  The commas carry the induction: that the flag
agrees with the last byte written.  Theorem: `DocumentsAreWhole`.

**Screen** (any expressions, times and delays with
`2 * (NoticeTime + MaxLate) <= ClockRange`).  The time a notice has left is
determined by the two clock readings; a message on the screen has a notice or is
about to go; the presenter has seen every turn that has shown an expression.
Theorems: `ScreenTypeCorrect`, `NoticesAreTimed`, `TurnsLeaveNoFace`,
`FacesAreReported`.

**StoredSetting** (any values).  How far a change has come says what flash and
each half in memory hold, and a conversation that is not exposed never runs
beside one.  That a reply is durable is part of it: every power-on that makes a
token although flash holds one notes it in `misread`, and nothing else but a
change, which withdraws the reply first, touches flash.  Theorems:
`SettingTypeCorrect`, `RepliesAreDurable`, `CopiesAreWhole`.

A type invariant or an inductive invariant that is proved is not also a run's
property.

Only model-checked: every liveness property (`CancelEndsTurn`, `WaitIsBounded`,
`LockIsGranted`, `BufferingEnds`, `KeepsTrying`, `SetupIsReachable`), because
liveness under fairness is out of the prover's reach; and four properties of
readers, which say what a recursive walk or a fold yields for every text, an
induction over data the provers cannot do: `SseWhole` (the closed form of a stream;
that the reader gives out what the unlimited reader means is proved),
`SpeechIntact`, `ScanIsExact`, and `OnlyWhatWasSent` (that the walk finds the members
of the body; that the body is the request's own is proved).

## 7. Where code and words disagree

Each of the four numbered ones is a run TLC must find violated.

1. `MCLostCancel`: a cancel answered with `cancelled: true` before the task has
   woken is cleared as stale, and the turn goes on and is sent (`task.cpp:303`).
2. `MCOtherRate`: an event at another sample rate is dropped before it is
   counted, so the next one is taken for a gap (`conversation.cpp:126`).
3. `MCFreshCredentials`: the failure of an attempt with the old credentials holds
   back the first attempt with the new ones (`network_policy.cpp:90`).
4. `MCLongLine`: an SSE event of 8187 to 8192 bytes in one line is dropped although
   the event buffer has room: the line buffer, as large, also holds the `data: `
   before it (`sse.cpp:59`, against `sse.hpp:53-63` and `device-interface.md:421`).
   `SseDelivers` and `SseWhole` say nothing of a stream once it had such an event.

Seen while modelling, present in the models' behaviours, and kept out of the
properties by the conditions named:

- A caller that saw a conversation running may cancel the next one
  (`conversation_commands.hpp:60`, `presenter.cpp:240`).  A start decided on a
  `DeviceState` another task has just refreshed may pass an emergency stop
  (`device_commands.hpp:34`); the stop then cancels the turn.
- A cancellation by `shutdown` is gone once an emergency stop that came after it
  is cleared (`cancellation.cpp:53`); `ShutdownOutlivesReset` excludes it.
- An emergency stop engaged and cleared between two of the task's checks goes
  unnoticed (`estop_commands.hpp:27`); `StopsPromptly` counts from the last raise.
- A tone between the stop of playback and the start of capture makes the recording
  fail (`task.cpp:251`), though `task.cpp:247-250` stops playback so that it
  should not; `VoiceBase` has the interleaving.
- A start of playback that fails at the channel leaves the amplifier powered, with
  the direction idle, until a later playback has ended (`voice_base.cpp:443-453`,
  against `pins-and-peripherals.md:114`); `Settled` says nothing of the amplifier.
- A token that cannot be read at power-on is replaced by a fresh one
  (`token.cpp:88-116`, against `README.md:122`); `ReplyIsDurable` excepts it by
  `misread`, until a power-on reads the token again or another reply names one.
- A tone may begin during a conversation (`presenter.cpp:131`), and a write may
  find its channel gone (`voice_base.cpp:417`); the code then returns an error.
  The write in question is one that `playing()` let through while the button was
  still starting playback (`voice_base.cpp:475`), if that start fails; `PortIsKept`
  excepts it by `borrowed`, and no other.
- A turn aborted while a tone has left playback running does not reset the
  stager; if the last reply is more than half the clock's range old, the
  wind-down waits for a time that is not due (`task.cpp:375`).  `WaitIsShort`
  excepts that turn, if there are tones at all, and no other.
- The expression of a text that ends without a terminator is known only after
  its first audio (`speech.cpp:142`); `RightFace` is checked and proved with terminators.
- A second press held across the end of the window is counted, and then also
  reported as a hold (`button_gesture.cpp:41`); `ReportedOnce` speaks of presses
  alone in their window.
- A connection that comes up and drops between the two exchanges of one tick
  leaves the phase "connected" without a link until a later event
  (`wifi.cpp:468`); `MCNetwork` has it, and `missed` names it in the properties.
- A save that read the phase before an attempt began overwrites "connecting" by
  "backoff", and a second attempt is made while one is in flight.  With a second
  save and a credential that cannot be read between them, the loss of a connection
  comes when the policy holds itself unprovisioned and is forgotten: also `missed`.
- A power cut between the two writes of a save leaves the new name with the old
  password (`wifi.cpp:506`); the models keep the pair as two halves, and
  `GuestsLeftAlone` speaks of whole pairs.
- The segmenter's queue has 512 bytes for a text of up to 512: many short
  sentences in one event do not all fit beside their headers, and the rest are
  dropped and counted, but nobody reads the count (`speech.hpp:118-119`,
  `conversation.cpp:129`).  `SpeechIntact` follows those sentences too.
- The pairing screen (`presenter.cpp:87-92`) is taken off by an earlier notice's
  expiry, and a notice that a sentence replaced still expires and puts the
  resting face back in mid-sentence (`presenter.cpp:61`, against `:69-71`).
  `NoticeIsTimed` speaks of messages, `TurnLeavesNoFace` of the end of a turn.
- `face.set_expression` shows and then stores; a `show_face` whose read comes
  before the store and whose show comes after puts the older expression back,
  against `device-interface.md:178-179`.  `FaceIsReported` excludes it by
  `crossed`.
- `gateway.configure` writes the URL, and a rotation the token, while a
  conversation accepted in the meantime may copy it (`gateway_client.cpp:95`,
  `token_commands.hpp:42`); `CopyIsWhole` excludes it by `exposed`.
- A commit that fails is answered with an error but may leave the new token in
  flash (`token.cpp:143-144`); the old one then stops working at the next restart.
- A command whose reply does not fit has run, though `internal` is answered
  (`request_router.cpp:90-100`).
- `/save` reads leniently: a body that is no legal object may be saved
  (`provisioning_routes.cpp:75`).  `OnlyWhatWasSent` asks legality of commands only.
- Nesting: the checked walk allows the outer object and 16 more levels
  (`json_scan.cpp:358`), `device-interface.md:60` says 16 containers.

## 8. What is not modelled

- The lexer of JSON strings and numbers, unescaping, base64, the WAV header, the
  HTTP headers and the syntax of a URL: stateless conversions of bytes, covered by
  the repository's native tests.  The models choose what they yield.
- `begin()` of the components and failures of allocation: one sequential start-up
  before any task runs.
- Volume, the codec's register tables, the display's drawing: data without control.
- Blinking and gaze: their times are random, and nothing depends on them.  They are
  compared absolutely (`m5gfx_face.cpp:165`), so at the wrap of the clock, after 49
  days, an eye may blink late or at once.
- The scan for networks, the status text and `wait_remaining_ms`.
- The random source, the comparison of tokens and the device's name.
- Mailbox, buffer pool and event bus: the firmware does not use them yet.
- Health, probe, self-test, board profile: no state of their own.

## 9. Plan

Done, in this order: `Cancellation`, `ConversationTask` with its cancellation,
`VoiceBase`, `Playback`, `Button`, `Network`; then `Screen`, `StoredSetting`,
`Sse`, `Speech`, `JsonText` with `JsonScan`, `Request` with `Router`, `JsonOut`; the
proofs of every safety property but the four that are inductions over data.

Left:

1. A generation number of the turn in `ConversationTask`, to tell the turn a
   caller meant to cancel from the one it hits.
2. `Mailbox`, `BufferPool` and `EventBus` once the firmware uses them.
3. `Speech` one byte per step beside a segmenter without limits, as `Sse` is, so
   that what it says step by step can be proved as well.
