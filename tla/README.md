# A TLA+ development of the Omnix Voice SDK

The Omnix Voice SDK is a SIP telephony library: a C core (`cpp/`) over the vendored
baresip and re stacks, and facades for Android (Kotlin and JNI), iOS (Swift and
Objective-C) and React Native. This directory holds TLA+ models of the C core and of the
Android and iOS facades over it, TLC configurations that check them on small instances, and
TLAPS proofs of the properties that matter most. Paths are relative to the root of the repository.

## 1. The system

### Components

| Component | Code | State | Operations | Model |
|---|---|---|---|---|
| Call registry | `cpp/src/omnix_call.c` | `g_calls[8]`: raw `struct call` pointer, Call-ID, `omnix_call_info_t` | make, answer, reject, hangup, hold, resume, get_state; baresip's call events | `OmnixCall` |
| Notification queue | `cpp/src/omnix_events.c` | the mqueue (a non-blocking pipe) | notify, `omnix_mqueue_handler` | in `OmnixCall`, `OmnixReg`, `OmnixLifecycle` |
| Registration | `omnix_voice.c`, `omnix_events.c` | `reg_state`, `unregister_pending`; the REGISTER client of baresip and re | register, unregister; bevents; answers, refresh timer | `OmnixReg` |
| Lifecycle | `omnix_voice.c` | `g_state`, `g_re_ready`, the re thread | `omnix_init`, `omnix_shutdown` | `OmnixLifecycle` |
| Media direction | `omnix_call.c` 781-922 over baresip | `is_muted`; stream and SDP directions | set_mute, hold, resume; negotiation, DTLS-SRTP, the timer of establishment | `OmnixMedia` |
| Account | `omnix_account.c` | the UA pointer, its account, the loaded modules, the copy of the password | set-up, teardown; AOR, codec list, STUN URI | `OmnixAccount` |
| Log filter | `omnix_log.c` | the handler, the secret to hide | set and clear, register; redaction | its life in `OmnixAccount`; not the text filter |
| Speaker flag | `omnix_audio.c` | one flag nothing in the core reads | set_speaker | not modelled |
| Android | `android/src/main` | `initialized`, calls cache, audio router, JNI callback | the facade; callbacks on the re thread; the main looper | `OmnixAndroid` |
| iOS | `ios/Sources` | tracked calls, audio session, `NSLock`, calls cache of the bridge | the facade; main-queue blocks | `OmnixIos` |
| React Native | `react-native/` | operation queue, cached state, listeners | the client; the Android module | not modelled |
| baresip, re | `third_party/` | calls, SIP sessions, REGISTER clients, poll loop | only what the core's state depends on | environment of the core's models |
| OpenSSL, ios-cmake, scripts | `third_party/`, `scripts/` | - | - | no logic of the SDK |

### How they interact

An application thread calls the API. A call operation takes the re lock
(`re_thread_enter`), finds the entry of `g_calls` by Call-ID, calls baresip, changes the
entry, pushes notifications to the mqueue and leaves the lock. The **re thread** runs
`re_main` with the same lock: SIP messages and timers lead baresip to call events and
bevents, whose handlers change the registry and `reg_state` and push to the same queue.
The queue's own handler, also on the re thread, gives the notifications to the
application's `on_call_event` and `on_reg_state`. `omnix_shutdown` runs on the
application's thread *without* the lock: it sets `shutting_down`, clears the registry and
the UA pointer, pushes SHUTDOWN to the queue (or calls `re_cancel` if the queue is full),
joins the re thread and closes the stack.

The facades are such applications. Each has one lock that its operations hold while they
are in the core. On **Android** the core's callbacks run through JNI on the re thread, take
no lock of the facade, fill its cache of calls, start or end the call audio (mode, focus,
speaker) and post to the **main looper**, where the listeners are told. On **iOS** the
re thread only posts blocks to the **main queue**; a block fills the bridge's cache and
the facade's `trackedCalls` (under the facade's lock, let go of at once), starts or ends
the call audio, and tells the delegate.

### What is hard

* The registry holds raw pointers to objects baresip frees: an entry must go before its
  call does, on every path (reject, hang-up, CLOSED, failed gathering, Replaces).
* `omnix_shutdown` and the registration functions write shared fields outside the lock.
* The queue is bounded and drops silently; SHUTDOWN shares it.
* Answers, refreshes and un-REGISTERs of replaced clients cross.
* The timer that restores the media direction after establishment crosses mute and hold.
* Every step of `omnix_init` and of the account set-up may fail with the rest half up.
* The Android audio router has fields and no lock, and two threads in it; the JNI callback
  may be deleted while it is about to be called.
* On iOS the call audio reports route changes to the facade, at once if on the main thread,
  whatever locks are held.
* Runnables and blocks outlive the session that posted them.

`PROJECT.json` lists the hazards one by one, at their lines, with the property that would
catch each going wrong, or the reason none does yet.

### What makes each component correct

* Registry: no entry without its call, no live call without an entry, room for what
  baresip admits, and one consistent history between what is told and what can be read.
* Registration: REGISTERED means that the present client was accepted; the application is
  not left with an old state, nor waiting for ever; an unregistration lasts.
* Lifecycle: both calls return; after init the loop is live; after shutdown it is gone;
  nothing leaks.
* Account: OK means the account that was configured, all of it; a failed or ended session
  leaves nothing; the password is never logged in the clear.
* Media: what is sent follows what the application asked for last.
* Facades: the call audio runs exactly while some call is active and is given back; what
  is told is what the core said, in its order; what the application asks of a call does not
  contradict it; operations return; nothing of a session survives it.

## 2. The modules

`CallStream` is the abstract specification: what an application may hear of one call
through `on_call_event`. A path leads from the announcement (OUTGOING or INCOMING)
through CONNECTED and HELD, perhaps ENDING, to one of ENDED and FAILED; states may be
skipped (the queue drops) and nothing follows the end. Two abstract specifications stand on
it. `CallSessions` adds what the facades rely on over any number of sessions: nothing is
heard while the core is down, and nothing more of the calls of a session that is over.
`CallRelay` says how a facade passes the calls' states on: through one queue, each once and
in order across all calls, losing only what comes while nobody takes it in or listens.

| Abstract | Implemented by | Its variables there |
|---|---|---|
| `CallStream` | `OmnixCall` | `heard` |
| `CallSessions` | `OmnixCall` | `core`: `stage` is not `down`; `past`: the calls that are freed and of which nothing is queued |
| `CallStream` | `OmnixAndroid`, `OmnixIos` | `told` |
| `CallRelay` | `OmnixAndroid` | `way`: what runs, what is posted, and what the re thread carries; `open`: there is a callback |
| `CallRelay` | `OmnixIos` | `way`: the block that runs and the queued ones; always open, always listened to |

The facades' own environment is the core: their `CallEvent` is a `Hear` of `CallSessions` (a
call of `past` is never heard of again, nothing is heard while the core is down), so what
they assume is what `OmnixCall` is proved to give.

`OmnixCall` is the registry with its queue and the shutdown around it.

| Variable | Code |
|---|---|
| `phase`, `idOf`, `sess`, `onHold` | baresip's `struct call`: its state (plus unborn, freed), `call->id`, its SIP session, `on_hold` |
| `hdl` | whose `eh` the call has: the UA's, or the one installed by `call_set_handlers` with an entry as argument |
| `slot`, `info` | `g_calls[i].baresip_call` and `.info.state` |
| `mq` | the mqueue; the SHUTDOWN command is `NoMsg` |
| `stage` | how far `omnix_shutdown` has come: `flagged` (shutting_down), `reset` (registry), `posted`, `halted` (re_main left), `down` |
| `heard`, `lossy` | history: what `on_call_event` got last; whether some push failed |

Each operation holds the re lock from its lookup to its last assignment and is one
action: `MakeCall`/`MakeCallRefused`, `Answer`, `Reject`, `Hangup`, `Hold`, `Resume`,
`ForceConnected` (the test helper), and on the re thread `Arrive`, `MnatDone`,
`MnatFail`, `Progress`, `Establish`, `Closed`, `Deliver`, `HandleShutdown`.
`omnix_shutdown` is four actions, since it takes no lock. An operation that finds no
entry changes nothing and is no step. Abstracted: the registration gate of
`omnix_call_make` (OmnixReg has the state it reads), SIP codes beyond FAILED or ENDED,
DTMF, memory exhaustion. The id of an outgoing call is fresh, as the random one is; that
of an incoming call is the peer's choice and may be in use.

`OmnixReg` splits `omnix_register` and `omnix_unregister` where they leave the lock
(`app`), and `omnix_reg_apply` between its assignment and its push (`toPush`), so the
unlocked writes of the application thread fall between the steps of the re thread. The
client (`client`, `inFlight`, `timer`) is re's `sipreg` as baresip drives it: a new
registration replaces it, its answers arrive in any number and order, its timer sends a
refresh or fails. `accepted` and `onlyOut` are history variables for the properties.

`OmnixLifecycle` has the application thread's program counter through `omnix_init` and
`omnix_shutdown`, the re thread (`thread`, `polling`) with its test of `polling` and the
handler's test of `shutting_down` as steps of their own, and the queue with three kinds
of message. Any step of `omnix_init` may fail; the wait for `g_re_ready` may time out.

`OmnixAccount` extends `OmnixLifecycle` with the account set-up. Its steps are conjunctions
of a step there and of what the account and the log filter do in it, so every behaviour of
it is one of `OmnixLifecycle` (a theorem). `AccountSetup` becomes `RefuseConfig` (before
anything is touched), `CheckConfig` (the copy of the password, the filter) and `SetUp(n)`
(the block under the re lock, of whose eleven steps n succeed). A configuration is a record
of names: the AOR is the set of the names in it, which is what the test for the password
needs; the codec list is filtered by what is registered; a STUN URI is none, good or a
`turn:` one. `agent` is baresip's user agent with its account, `uaSet` whether `g_state.ua`
points to it. Memory exhaustion in `omnix_log_filter_set_secret` is left out: the filter
would then know no secret and the code would not notice.

`OmnixMedia` is one call's audio: the direction asked for (`ldir`), the one offered and
applied (`sdpDir`), the peer's wish (`peerHears`), the key exchange (`secure`), the
sender (`tx`), and the timer of `set_established_mdir`. `Modify` has the outcomes of
`call_modify`: an offer sent, an offer that cannot be sent (media left alone), or an
update while an offer is open. Hold and resume need CONNECTED, which only the test helper
sets, so they are enabled by `TestHook`.

`OmnixAndroid` has two program counters, `at["app"]` for the thread inside an operation of
the facade (its monitor admits one) and `at["re"]`, and the main looper.

| Variable | Code |
|---|---|
| `core`, `heard`, `past` | the C core as a `CallStream`: it runs, what it told of each call, the calls of earlier sessions |
| `callback`, `event` | `g_callback`; what the re thread carries from `omnix_jni_on_*` into the facade |
| `initialized`, `regState`, `calls`, `router` | the fields of `OmnixVoice.kt` |
| `active`, `previousMode`, `speaker` | the fields of the `OmnixAudioRouter` made last |
| `mode`, `focus`, `speakerOn` | the AudioManager; `focus` tells the request of this router from one of an earlier one |
| `looper`, `running`, `listening`, `told` | posted runnables, the one that found a listener, whether there is one, what it heard |
| `overtook` | history: the two threads were in the router against each other (see section 5) |

Every access of the router to a field or to the AudioManager that the other thread could
come between is an action. Left out: operations that only call the core under the lock,
`audioRoute`, the permission check, and the runnables of registration, error and route
events, which hold no state. `Dispatch` posts the one of `onCallStateChanged`; that of
`onIncomingCall` goes right before it, with the same state.

`OmnixIos` has a program counter for the main thread, in a block or an operation, and for
a worker in an operation; `lock` is the facade's `NSLock`.

| Variable | Code |
|---|---|
| `core`, `heard`, `past` | as in `OmnixAndroid` |
| `queue`, `block`, `ringing` | call blocks in the main queue; the one that runs; whether `incomingCall` comes first |
| `calls`, `tracked` | `_calls` of the bridge (IDLE only by `callInfo`), `trackedCalls` of the facade |
| `sessionActive`, `avActive` | the flag of `OmnixAudioSession`, and AVAudioSession itself, which may refuse |
| `told`, `strayed` | what the delegate heard; history, see section 5 |

`@synchronized` of the bridge covers single steps, but for `shutdown`, which waits in it
for a re thread that takes no lock. `_calls` has two writers. `Cache` is the block's.
`CallInfo` is `callInfoForCallId`: in a session it asks `omnix_call_get_state` and writes the
answer over what the blocks cached, on whatever thread asks, the delegate's methods included;
it holds the facade's lock and `@synchronized` from the question to the write, so it is one
step. `GetState` is what the core may answer. `omnix_call_get_state` reads without the re
lock and may be ahead of the blocks or meet an entry being written, so any reported state or
IDLE may come back, until the call's end was said: from then on nothing is found and the
answer is IDLE. That the entry is gone by then is a theorem about the core
(`EndedNeverTracked`). A call is its Call-ID here: a peer that uses an id again after the end
of its call would be another call of the same name. Left out: the speaker preference's value,
registration and error blocks, a failing `initialize`.

## 3. The runs

| Run | Bounds | What it shows |
|---|---|---|
| `OmnixCallRegistry` | 3 calls, 3 ids, 2 entries, max_calls 2, queue of 3, symmetric | registry safety, agreement of state and stream, refinement of `CallSessions` |
| `OmnixCallMediaLive` | 2 calls, 2 ids, 1 entry, max_calls 2, queue of 2, STUN and test helper on | with candidate gathering, hold and resume: shutdown completes, a queued end is heard. The safety of this instance is not run again: it is proved for every instance |
| `OmnixRegSafety` | queue of 3, 2 requests in flight | registration safety and progress |
| `OmnixLifecycle` | queue of 4, 3 sleeps, 7 configurations | init, account set-up and shutdown, with all their failures |
| `OmnixMedia` | - | mute and hold safety |
| `OmnixAndroid` | 2 calls, each told INCOMING and ENDED, 1 runnable posted, 1 registration state | the facade on three threads through any number of sessions |
| `OmnixIos` | 2 calls, each told INCOMING and ENDED, 2 blocks queued, operations on a worker | the facade, its lock and the main queue |
| `OmnixCallRefused`, `OmnixCallConnected`, `OmnixRegUnregister`, `OmnixMediaMute`, `OmnixIosSpeaker` | as small as shows it | disagreements of code and comment (section 5) |

Why the bounds are enough. Calls do not look at each other but through the table and the
queue: three calls over two entries reach a full table, a refused call, the reuse of an
entry and of an id; a queue of two or three is filled by one or two operations, with and
without SHUTDOWN behind. In the code the registry (8) is larger than baresip's max_calls (4), so
a full table takes outgoing calls; one entry under a max_calls of two
(`OmnixCallMediaLive`) is a harder case, an incoming call that finds the table full.
Two requests in flight are one that crosses a refresh or an un-REGISTER; a third can only
do what the second does. Three sleeps stand for 5000: the thread may start before,
between or after them. `OmnixMedia` is finite as it is.
The seven configurations of `MCOmnixLifecycle` are a plain one; one with STUN; one for each
way to be refused (a `turn:` URI, no usable codec, the password in the AOR, no domain); and
one without password and domain whose codec list is half usable.
The facades tell states apart only as active, final and INCOMING, so `Reported` has one of
each kind; two calls are needed for one to end while another goes on, and for one of an
earlier session beside one of this. One posted runnable and one that runs, and two queued
blocks, are enough for an order to be wrong. Both numbers (`MaxPosted`, `MaxQueued`) bound the
models and not the code: `Handler.post` and `dispatch_async` take any number, and the proofs
hold for every bound.

`OmnixAndroid.cfg` and `OmnixIosSpeaker.cfg` do not check deadlock: a VM that aborted takes
no step, nor does a main thread that waits for itself. In `OmnixIos.cfg` the operations are
called by a worker only, since on the main thread they hang (section 5).

The properties, by module:

* `OmnixCall`: `RegistryConsistent` (an entry's call is alive, is its own handler's, has
  an id no other entry has), `LiveCallsAreTracked` (no announced call out of the
  application's reach), `RoomForIncoming` (the table is never full for what baresip admits
  when it is as large), `GetStateAgrees` (`omnix_call_get_state` is what was told last),
  `EndIsTold` (an entry is only cleared with an ENDED or FAILED in the queue),
  `ImplementsCallSessions`, `ShutdownCompletes`, `FinalIsHeard`.
* `OmnixReg`: `RegisteredIsBacked`, `ToldAgrees`, `RegisteringIsAwaited` (REGISTERING always
  has something under way that ends it), `RegisteringSettles`, `RegisteringIsResolved`.
* `OmnixLifecycle`: `UpIsServed`, `NothingOutlivesStack`, `AtMostOneLeaks`,
  `StopReachesLoop` (a thread that is joined will see the request to stop), `CallsReturn`.
* `OmnixAccount`: `UpIsConfigured` (OK means the whole configured account), `UaIsAlive`
  (`g_state.ua` never dangles), `SecretIsHidden` (whoever holds the password, the filter
  knows it), `DownIsClean` (no module, password or agent survives a session).
* `OmnixMedia`: `UnmuteRestores`, `StartsAsAsked`.
* `OmnixAndroid`: `CacheNotBehind`, `AudioFollowsCalls`, `AudioGivenBack`,
  `DownIsUninitialized` (and a deleted callback is used in a shutdown only, when the VM
  may abort), `ListenersAreToldInOrder`, `OperationsReturn`.
* `OmnixIos`: `AudioFollowsCalls`, `CallInfoAgrees` (after the session `callInfo` answers what
  the last block brought or nothing, never what the core was ahead of it; and a call whose
  end was brought is not answered as active again), `DelegateIsToldAll`, `ThreadsReturn`; and
  the refuted `SpeakerReturns`. In a session `callInfo` may well contradict what the delegate
  is being told: asked in `callStateChanged` for ENDED it answers IDLE, and before a block it
  may know more than the block brings.

`ImplementsCallSessions`, `ListenersAreToldInOrder` and `DelegateIsToldAll` each say more
than the `CallStream` of single calls that the same three modules implement
(`ImplementsCallStream`, `ListenersHearAStream`, `DelegateHearsAStream`): those are proved
and need no run beside them.

Each has a mutant in its module: an operator that changes one definition the way a
plausible bug would, under which TLC finds the property violated.

### Fairness

* `OmnixCall`: weak fairness of the queue handler (re_main polls the pipe) and of the
  steps of a shutdown that has begun (straight-line code; the join waits for re_main).
  Nothing is assumed of the peer or the application.
* `OmnixReg`: strong fairness of the application's steps inside a function, since the
  lock they wait for is free again and again; of an answer, since a SIP transaction ends
  in a response or a timeout; and of the queue's delivery. Weak fairness of the second
  half of a handler. New API calls are not fair.
* `OmnixLifecycle`: weak fairness of both threads, strong of the queue's handler, as a
  poll may always find another descriptor ready first and the pipe stays readable.
  `OmnixAccount` has the same fairness, of the same steps.
* `OmnixAndroid`: weak fairness of the two threads inside an operation or a callback. None
  of the main looper: an application may call from there.
* `OmnixIos`: weak fairness of the worker in an operation and of the main queue; strong
  fairness of the steps of the main thread, since the lock some of them wait for is free
  again and again and NSLock does not starve a waiter.

## 4. What is proved

The proofs hold for every value of the constants under the assumptions named in the
modules: at least one entry, a queue of at least one message (two in `OmnixLifecycle`:
RE_READY, and SHUTDOWN behind it, must fit), flags that are Booleans, names that differ.

* `OmnixCallProofs`: `TypeCorrect`; `RegistryAlwaysConsistent`; and
  `CallStreamImplemented`, the refinement. The registry's consistency is inductive with
  the type. The refinement needs `HandlerInv` (a call that is unborn or gathers
  candidates before its announcement has the UA's handler) and `StreamInv` (for each call,
  the notifications in the queue continue what was heard, each `After` the one before;
  nothing was told of a call with the UA's handler; a call that is still tracked has not
  been told its end): a delivery is then a `Hear`, and every other action leaves `heard`
  alone.
* `OmnixCallTrackingProofs`, on top of it: `LiveCallsTracked`, with the clause that nothing
  is alive once the SDK is down, so that the next `omnix_init` starts with it;
  `RoomAlways`, for a registry at least as large as baresip's limit and finitely many
  calls: entries hold distinct live calls, so a full table would count more of them than
  baresip admits (the pigeonhole principle); `EndAlwaysTold`, since a notification at the
  end of the queue is what the application is told last; `GetStateAlwaysAgrees`, for a
  build without the test hook, through `AgreeInv`: there no entry gets past its
  announcement (finding 3 below), and a delivery moves the last word on a call from the
  queue to what was heard. `EndedNeverTracked`: a call whose end was heard has no entry,
  as `StreamInv` says of tracked calls. `CallSessionsImplemented`, the refinement over
  sessions: a call is in `past` once it is freed and nothing is queued for it, `LiveCallsTracked` has every
  call freed when the SDK is down, and a freed call gets no new notification (`FreedStep`),
  so `past` only grows and a delivery is never of one of its calls.
  `EndAlwaysStays` and `StopAlwaysComes` are the safety two liveness properties rest on: an
  end that was told stays heard or queued (`QueueStep`: every action appends to the queue,
  takes its head or leaves it), and a posted SHUTDOWN is in the queue, which from then on
  only gets shorter. `NeverConnected` and `RefusedAlwaysStays` generalise findings 3 and 2.
* `OmnixRegProofs`: `TypeCorrect`; `AlwaysBacked`; `AlwaysAgrees`, through `LastWordInv`:
  when no request, call or handler is under way the last word of the queue is `reg_state`;
  before that, the state the re thread is about to push still is `reg_state` unless a call
  to `omnix_register` is under way, and a refused client waits for nothing.
  `AlwaysAwaited`, through `Awaited` (reg_state is REGISTERING only in `omnix_register` or
  with a request in flight) and `LastWordInv`, by which what was told is reg_state unless
  more is on its way. `OkAlwaysSaysRegistered`, through `PendingInv`, generalises finding 1.
* `OmnixLifecycleProofs`: `TypeCorrect`, `AlwaysServed`, `StackOutlivesThread` and
  `AtMostOneEverLeaks`, through `LifeInv`, which ties the program counter of
  `omnix_init`/`omnix_shutdown` to the state of the thread and the queue (there is a thread
  exactly between its creation and its join, with stack and queue up; before the stop there
  is no SHUTDOWN in the queue and a running thread polls; `ready` is only set by this
  session's running loop). The leak needs two more: nothing is emitted outside a session
  (`DeafInv`), and behind the request to stop there is at most one message (`StopInv`).
  `StopAlwaysReaches`, through `RequestInv`: a thread that has not set `polling` yet has at
  most RE_READY in the pipe, so the request fits behind it and the fallback `re_cancel`,
  which `re_main` would undo, is not taken.
* `OmnixAccountProofs`: `ImplementsLifecycle`, that a behaviour with the account set-up is
  one of `OmnixLifecycle`, whose theorems then hold of it; `SetupTypeCorrect`,
  `UpAlwaysConfigured`, `UaAlwaysAlive`, `SecretAlwaysHidden`, `DownAlwaysClean`, through
  `AccountInv`: what the account may be at each place of the program counter, on top of
  `LifeInv`.
* `OmnixAndroidProofs`: `TypeCorrect`, `StreamImplemented`, `CacheAlwaysAhead`,
  `DownAlwaysUninitialized`, `AudioAlwaysFollows`, `AudioAlwaysGivenBack`, through
  `AndroidInv`, of which
  `BridgeInv` ties core, callback and router to the places of the two threads, `StreamInv`
  lines up what was told, what runs, what is posted and what the re thread carries, each
  `After` the one before, `CacheInv` keeps the cache at the last of these that entered it,
  and `AudioInv` says what the router's fields are at every step of its operations, with
  the other thread anywhere. `GivenInv` adds that what is changed in the AudioManager
  belongs to an active session or to one being started. `TellingIsARelay` is the refinement
  of `CallRelay`: each action appends to the way, takes its head, or only moves the cut
  between its parts (`WayShape`, `WayTail`, `PostedFacts`).
* `OmnixIosProofs`: `TypeCorrect`, `StreamImplemented`, `CallInfoAlwaysAgrees`, through
  `IosInv`: the holder of the lock is in an operation, the queue continues what the
  delegate was told, and the cache (`CacheInv`) is what the last block brought or empty
  once the core is down and never active of a call whose end a block brought, since the core
  has said that end before (`EndIsHeard`). `AudioAlwaysFollows` adds `SessionInv` (the flag
  and AVAudioSession differ only within the two steps that change both, and a block that ended the audio
  beside a shutdown waits for its lock), `TrackInv` (the last block of a call carries what
  the core said last, and a call without a block under way is tracked so) and `FollowInv`
  (what a block decided at `syncCallAudio` stays right until it is done). `AllIsTold` is the
  refinement of `CallRelay`; from it `AlwaysUpToDate`, through `LastInv` (the last state on
  the way of a call is what the core said last of it, and a call with none was told so).
  `WorkersNeverDeadlock`: if no operation is called on the main thread, that thread waits
  only for a worker in an operation, and such a worker for nobody. `OnceStuckForEver`
  generalises finding 5.
* `OmnixMediaProofs`: `TypeCorrect`, `UnmuteAlwaysRestores`, `AlwaysStartsAsAsked`,
  through `DirInv` (only SENDRECV and RECVONLY are ever asked for, the first whenever the
  call is not muted; off hold the SDP has the direction asked for; and the SDP never
  sends unless that direction does).

Every safety and action property of the passing runs is proved, the refinements too. Only
model-checked is liveness, which rests on fairness and is out of the prover's reach. For six
of the seven the prover checks the safety they rest on, for every value of the constants;
what fairness adds is that the steps which remain possible are taken:

| Liveness, model-checked | Safety, proved |
|---|---|
| `ShutdownCompletes` | `StopAlwaysComes`: SHUTDOWN is queued and only finitely much is before it |
| `FinalIsHeard` | `EndAlwaysStays`: a queued end is given up only by its delivery or the end of the SDK |
| `RegisteringSettles`, `RegisteringIsResolved` | `AlwaysAwaited`: something is under way that ends REGISTERING |
| `CallsReturn` | `StopAlwaysReaches`: the thread that is joined will see the request to stop |
| `ThreadsReturn` | `WorkersNeverDeadlock`: no wait is circular |
| `OperationsReturn` | - (no step of the Android facade waits for a lock of the facade on the re thread; the model has no such wait to reason about) |

The findings of section 5 are counterexamples of one small instance each. Four of them have
a theorem that says the same of every instance: `OkAlwaysSaysRegistered` (1),
`RefusedAlwaysStays` (2), `NeverConnected` (3) and `OnceStuckForEver` (5).

Not stated: that a facade's own calls of the core implement `CallSessions`. It would hold by
the guards of `CallEvent`, which are that assumption; the direction that says something is
`CallSessionsImplemented`.

## 5. Where the code and its comments disagree

1. **Unregistration ends REGISTERED** (`OmnixRegUnregister`). BEVENT_UNREGISTERING sets
   `unregister_pending` and `omnix_reg_apply` clears it at once
   (`omnix_events.c:204-205`, 127-133), so the 200 to the un-REGISTER is reported as
   REGISTERED; the comments at 179-182 and `omnix_internal.h:31` say UNREGISTERED.
2. **A refused outgoing call is never released** (`OmnixCallRefused`):
   `call_hangup` fires no CLOSED, whatever `omnix_call.c:643` says.
3. **CONNECTED is never set on a live call** (`OmnixCallConnected`), against
   `omnix_call.c:1006`; so hold, which insists on it, is refused.
4. **Mute does not stop the sender of an established call** (`OmnixMediaMute`), against
   `omnix_call.c:911`.
5. **`setSpeakerEnabled` on the main thread hangs during a call** (`OmnixIosSpeaker`): it
   holds the facade's `NSLock` (`OmnixVoice.swift:126`) over `emitCurrentRoute`, which on
   the main thread calls `handleExternalRouteChange`, which takes the same lock;
   `OmnixAudioSession.swift:94-95` says the preference is applied immediately. `shutdown`
   on the main thread during a call has the same path.

Met on the way and not the subject of a run: a mute before the streams exist is lost, and
one within the first moments of a call is undone by baresip's timer while `is_muted`
stays; a mute of a held call overwrites the direction of the hold; the comments at
`omnix_call.c:655-659` and `omnix_internal.h:152` say `on_call_event` runs outside the re
lock, while the queue's handler runs inside it; `omnix_register` reports a rejected
request as FAILED twice. A payload may leak at shutdown: the test of `shutting_down` and
the push are two steps (`omnix_events.c:137-143`); at most one does, as long as the queue
does not overflow (`AtMostOneLeaks`).

Two histories mark the cases in which a facade's call audio is not what its calls ask for,
and the properties of the audio exclude exactly those. `overtook` (Android): a callback is
in `startCallAudio` while `shutdown` has passed its test of `sessionActive`, so mode, focus
and speaker stay with a router nobody has any more, against
`docs/integration-android.md:65`; or `setSpeakerEnabled` turns the speaker on behind the
end of the call audio. `strayed` (iOS): a block of an ended session is handled, a block
starts the audio beside a shutdown, or AVAudioSession refuses; the session then stays active
with no call, against `OmnixVoice.swift:255-256`.

## 6. What is not modelled, and the plan

Done: the C core with its account set-up, the Android and iOS facades, the runs of
section 3 and the proofs of section 4.

1. `OmnixClient`: the React Native operation queue, cached state and subscription over an
   abstract native SDK, whose specification `CallStream` and an abstract registration are.
   Not modelled so far: it runs on one thread, and its two hazards are about a cached
   registration state, which the facades below keep out of their models too.
2. The registration state of the facades and its runnables and blocks.
3. A second application thread on the C API during `omnix_shutdown`.
4. Proofs of what the models of 1 to 3 promise; a counterpart of
   `AlwaysUpToDate` for Android, where what comes without a callback or a listener is lost.
5. Pure operators over text: `omnix_log_redact_to`, `omnix_parse_reg_text` and
   `closed_sip_code`, against reference definitions. They keep no state.

Not planned: SIP transactions, RTP, codecs and cryptography (third-party), and the
wording of logs.
