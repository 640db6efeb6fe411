# WorkTrackMap: a TLA+ model of its core

WorkTrackMap is two programs in one tree: a team web application of its own
(`src/server`, `src/client`, `src/shared`: presence, chat, map, attendance) and
a complete RustDesk (`src/rustdesk`: the remote desktop that the team app
starts for remote help). This directory models the parts of both whose
correctness depends on the order in which concurrent parties act. TLC checks
each model on small instances; TLAPS proves the main safety results about eight
of the nine models for every value of the constants.

## 1. The system

### Team application (`src/server`, `src/client/src`)

| Component | State | Operations | What is hard | What makes it correct |
|---|---|---|---|---|
| WebSocket hub (`routes.ts` 24-153) | `connectedClients`, a `userId` per connection | accept, authenticate, chat and location messages, close, `broadcastToAll` | handlers interleave at every `await`; sockets drop, open again, authenticate twice | a user's list is the open sockets authenticated as that user; broadcasts tell the truth |
| `useWebSocket` (`hooks/useWebSocket.tsx`) | `socketRef`, `isConnected`, timers | connect, disconnect, onopen, onmessage, onclose, retry after 5 s | timers nobody cancels; callbacks of an old socket that look at the current one | a logged-in tab is connected in the end; a logged-out one is not |
| `AuthProvider` (`context/AuthContext.tsx`) | the user query's cache | login, logout, register, effect that connects | the session outlives pages; effect against retry | who is logged in is who is connected |
| REST API and storage (`routes.ts`, `storage.ts`, `db.ts`) | tables of `shared/schema.ts` | attendance, locations, messages, activities, users | several statements and no transaction; read, then update | an error leaves nothing half done; one location per user |
| Accounts and sessions (`auth.ts`) | session store, users table | register, login, logout | check, then insert | one account per name |
| Pages and components | view state | queries, mutations, forms | little | - |
| Location tracking (`useLocationTracking.tsx`) | one interval, `isTracking` | start, stop, read, post | an effect that depends on the state it sets; reports that overtake each other; two statements per report | no interval outlives its page; no failure is silent; rows in order |
| RustDesk bridge (`server/rustdesk.ts`) | none | starts a program | I/O | - |

### Remote desktop host (`src/rustdesk/src`)

| Component | State | Operations | What is hard | What makes it correct |
|---|---|---|---|---|
| Service (`server/service.rs`, `server.rs`) | `ServiceInner` behind a lock; one worker thread | on_subscribe, on_unsubscribe, snapshot, send, repeat, run, join | a worker and many connections; several short critical sections per operation | exactly the permitted connections are subscribed; each gets the snapshot once, then every change; a worker stops when told |
| Video services (`server/video_service.rs`) | encoder, capturer, frame controller; one notifier for all displays | capture, encode, send, wait for the frame to be fetched | one queue of answers for all displays and frames; joins in the middle of an encoder's life; peers that never answer | first frame decodable, bounded backlog, no viewer holds the others, no capture for nobody |
| Privacy mode (`privacy_mode.rs`, `privacy_mode/`) | one global: implementation, owner, input hook | turn on (directly, or by a thread with 5 s), turn off, switch implementation, Ctrl+P, close | a timeout that does not cancel the work; a hook thread that ends on its own time; check and act in two critical sections | one owner; local input blocked while it is on; nobody's mode outlives the connection; the peer knows what it has |
| Connection (`server/connection.rs`) | login, permissions, queues, recent sessions | login, 2FA, permission switches, options, message dispatch, close | permissions and options that change before, during and after a login; order of login steps; throttling of attempts | what is subscribed is what permissions and options say; the peer knows its permissions |
| Video QoS (`server/video_qos.rs`) | per-connection delays, fps, ratio | delay samples, new/closed connections, periodic adjust | one rate stepped by several users; limits | rate and windows stay in bounds; a late user slows the sender; the rate recovers |
| Rendezvous mediator (`rendezvous_mediator.rs`) | registration, failures, `SHOULD_EXIT`, key state | register_peer, register_pk, restart, punch hole, relay | lost replies, growing timeouts, restart flags shared by tasks | registered in the end; a change of servers is noticed; nobody waits for a task that has ended |
| Voice call (`connection.rs`, `client/io_loop.rs`, `ui_cm_interface.rs`) | request and call on each of three sides, input device | ask, answer, hang up at either end | requests, answers and hang-ups cross on four queues; no side takes a request back | the microphone records only for an accepted request; the three agree in the end |
| Audio, clipboard, display, printer services | one state each | callbacks of `repeat`/`run` | as Service | as Service |
| Input and portable service, IPC, connection manager | platform handles, pipes | relay | platform | - |
| Virtual displays (`virtual_display_manager.rs`) | plugged monitors | plug in and out, reset | driver | - |
| Client session (`client.rs`, `client/io_loop.rs`) | the peer's view | connect, decode, notifications | what it believes against what the host does | - |
| File transfer, port forward, LAN, HTTP sync, updater, plugins, Flutter UI, platform code, `libs/` | - | - | mostly I/O, or in `libs/hbb_common`, which is a submodule outside the tree | - |

Interactions. A *connection* subscribes to *services* through `Server`, receives
their messages through its queues, answers for video frames through
`FRAME_FETCHED_NOTIFIER`, asks for the *privacy mode*, and undoes all three in
the tail of its loop (`connection.rs` 830-865, in that order: privacy mode,
answer for the frame, subscriptions). It subscribes to what its *permissions*, which
the host's user switches, and its *options*, which the peer's user toggles, allow;
carries the *voice call* between client and connection manager; and measures for
*video QoS* the delays from which the frame rate of all video services
follows. The *rendezvous mediator* is how a peer finds the host; it shares no
state with connections. The *privacy mode* makes the video
services switch their encoder. The *team hub* shares no state with the host:
the team server only launches it. `PROJECT.json` names every component, also
those without a module, and lists the hazards at the lines where they bite.

## 2. Modules

| Module | Models | Proofs |
|---|---|---|
| `ServiceInner` | `ServiceInner` of `service.rs`: one operator per critical section. Used by `Service` and `VideoFlow`. | |
| `Subscription` | Abstract: what a service promises (members, and what they heard). | |
| `Service` | One service, its `repeat` worker with the cursor callback, and `Server`; implements `Subscription`. | `ServiceProofs` |
| `VideoFlow` | The workers of `video_service::run`, the shared notifier, and the connections. `MCVideoFlow` adds the symmetry. | `VideoFlowProofs` |
| `VideoQoS` | The frame rate of `video_qos.rs` with the delay test of each connection. | `VideoQoSProofs` |
| `PrivacyMode` | The global mode, two implementations, the requests of connections, the host's user. `MCPrivacyMode` adds the symmetry. | `PrivacyProofs` |
| `Permissions` | One connection: permissions, options, subscriptions, login, voice call, and the peer's toggles. | `PermissionsProofs` |
| `VoiceCall` | A voice call between client, host and connection manager. | `VoiceCallProofs` |
| `Rendezvous` | `start_all`, one UDP task per server, registration of id and key. `MCRendezvous` names two servers. | `RendezvousProofs` |
| `TeamHub` | Presence: hub, hook and provider. `MCTeamHub` says who may log in where. | `TeamProofs` |
| `Locations` | The location hook, its reports, and their handler with its two statements. Its definitions have names of their own (`TrackSpec`, ...), so that one module can extend it and `TeamHub`. | `TeamProofs` |

`Service` and `VideoFlow` extend the same `ServiceInner`, so that the operators
whose races `Service` explores are the ones video runs on. Where one model
takes a step of another component for granted it says whose subject that is:
subscribing is one step in `VideoFlow` and `Permissions`, whose races are those
of `Service`; a voice call is two flags in `Permissions` and three parties in
`VoiceCall`. The operators named as mutants (`...Unchecked`, `...Late`, ...) are
wrong versions of the definition after them; no specification uses them. They
show that each property can fail.

### Service

A step is one critical section of the service's lock. `Server` has a lock of its
own (`srv`), so one of `add_connection`, `remove_connection`, `subscribe` runs at
a time; `subscribe` is three steps because `is_subed` takes the service's lock
twice (`SubscribeBegin`, `SubscribeSecondRead`) and the change a third time
(`SubscribeDecide`). The worker is `ServiceTmpl::repeat` with `run_cursor`:
`LoopHead`, `CheckSubscribers` (with the reset when the last subscriber has
left), `Poll` or `PollFails`, `SnapshotBegin`, `SnapshotSend`, `SnapshotSwap`.
`heard`, `late`, `revoked` and `slipped` are ghosts: they record what was sent
and name the two windows in which the code does not do what its operations say.

- *Late joiner.* Who subscribes after the snapshot was sent and before the drop
  of `ServiceSwap` is promoted without a snapshot (`InSync` except `late`).
- *Lost unsubscription.* A swap between the two reads of `is_subed` moves the
  connection out of the map read second: `subscribe(.., false)` returns with
  the connection subscribed (`RevokeHolds` except `slipped`). `remove_connection`
  does not ask `is_subed` and always takes effect; a service without a snapshot
  has no such case.

### VideoFlow

Per display: the service's maps, the worker's place in `run`, the receivers of
the current frame (`sent`), the answers of the wait (`fetched`). All workers
take answers from one `notifier` whose receiver sits behind a mutex (`holder`).
A wait of 3 s is `MaxRounds` rounds of 300 ms, and its clock is tested after every
round, also one that an answer ended: an answer may use up its round (`RoundPasses` in
`Receive`), and one that comes late in the last round ends the wait while the next
answer is already in the queue. Time passes for all workers that wait. `Switch` stands for every reason
to leave `run` with an error: refresh, codec, quality, privacy mode, resolution,
capturer error. A connection's loop and the peer's `VideoReceived` are one
action, `Fetch`: either answers once per frame, in order. `NotifyClose` and
`RemoveConnection` are the two ends of the tail of the connection's loop.
`takeover` and `slack` are ghosts: who joined a running encoder in the moment its
last viewer left, and how many waits ended without their answers.

### VideoQoS

`users` holds what `VideoQoS.users` does for each open connection (delay history,
RTT window, counters, limits), `fps` the rate of all. A delay is classed by how
the test that measures it went: `TimerTick` sends one, or notices that the one
that is out is slow or late (`user_delay_response_elapsed`); `Answer` is
`user_network_delay` with the delay. Both adjust the rate, and so does a worker
once a `Second`. `Age` is the second after which a new user no longer caps the rate
at `INIT_FPS`. `MIN_SAMPLES` and `WINDOW_SAMPLES` are constants (10 and 60 in the
code). Where the code divides in `f32` and rounds up, the model divides integers: the two
differ at most where the quotient is a whole number and `avg / 150` is not exact in
`f32`, and then by one.

### PrivacyMode

`mode` is the record behind the global mutex: implementation, owner, hook. What
happens under the mutex is one step, but the thread of the input hook, which
does not take it, may end in the middle (`Settled`). A request is
`Request`, then `SyncTurnOn` or the thread's `ThreadTurnOn`, which may come after
the caller's `Timeout` (`late`), then `Succeeded`, `Failed`, or `SeeOn` and
`Undo`: the two critical sections of the error branch. The host's side is
`HotKey` (Ctrl+P), `ResetDriver` and `Switch`. `win_mag` and
`win_exclude_from_capture` share `win_topmost_window` and are one implementation.
`told` is what the peer was last told, `robbed` and `stuck` are ghosts.

### Permissions

`conn` is the part of `Connection` that decides what it hears: `perms`, `opts`,
`subs`, and the flags of login and voice call. Each `Switch...` is a branch of
`Data::SwitchPermission`, each `Update...` a part of `update_options` in the order
of the code, `Logon` the end of `send_logon_response` with
`try_sub_monitor_services`. The peer keeps the toggles (`config`) over
reconnections and turns them into the options of a login (`LoginOptions`) or a
message (`Toggled`), which arrive in order (`sent`). The user may toggle at any time, also in the
view mode (`client.rs` 1766 looks at neither the login nor the mode), and log in again
after a wrong password. `Authorize` also stands for the
password, the second factor and the user's click, whose outcome it is, and so it
may come before or after any message. What the
code makes of the cases a reader would not expect:

- switching the keyboard on subscribes the cursor although the peer has disabled
  the keyboard itself (`connection.rs` 532), so `CursorMatch` bounds it from
  above by the permission and not by `peer_keyboard_enabled`;
- neither the clipboard permission nor `disable_clipboard` looks at the file
  clipboard again (536-541, 3275-3286), so `ServicesMatch` leaves that service out
  and `FileClipboardNeedsFile` says what does hold of it;
- switches before the login subscribe as well, and a camera session keeps a
  clipboard or cursor it got that way;
- an option message that arrives after the login request the host goes by and before
  the connection is authorized is ignored (`connection.rs` 2111), while the peer has
  stored its toggle: until the next toggle or login the two differ. `missed` is the ghost
  that holds such options, and `OptionsArrive` excepts them;
- in the view mode the menus still offer toggles that the mode decides itself, and
  send them as they are: `Meant` accepts the one meaning or the other, but for the
  keyboard.

### VoiceCall

Three loops and four queues that keep their order. A request carries a
timestamp, here the number of the request, and the answer carries it back.
`pending` and `asked` are the two `voice_call_request_timestamp`s, `mic` the
client's recording, `device` the host's input device. The client's user may ask
at any time, because neither the menu nor `io_loop.rs` 936 looks at the call that is
shown: a request during a call leaves the recording on, its acceptance goes on with it,
and its refusal ends the call at the host without a word about microphone and
device, which both stay on until the next call or close (`connection.rs` 3119,
`io_loop.rs` 1910). `talk` is history, the request the client records for, and
`refused` says that the host has refused a caller who was recording. What the client's user
clicks reaches the loop through a queue of its own: a close may come from a
button that was shown earlier, so `CloseVoiceCall` may fire whatever the client
shows now.

`crossed` is history: an answer or a hang-up met a call that was over. Every property
but `MicAccepted` names it, because neither side forgets a request when a call is
closed: once a cancel has crossed an answer (`io_loop.rs` 946) the three may disagree
until the next call. Not in the model: the client's own input device, and how
`start_voice_call` replaces a recorder that is running.

### Rendezvous

`pc` is the loop of `start_all`: reading the servers and clearing `SHOULD_EXIT` are
two steps, between which a restart is lost (`lost`). A task's timer (`Tick`) may
find any registration expired or any answer late. `Handle` is the response
handler, where any answer does for the request that is awaited; `PkMismatch`
changes the id and makes this task the only one that registers
(`SOLVING_PK_MISMATCH`). The server is external: it knows the keys it accepted
and refuses the ids of others. Whether `set_key_confirmed(false)` also forgets the
confirmed hosts is decided in the absent library, so both happen.

The list of servers changes in three steps: it is remembered (`Remember`, the
`CheckIfRestart::new` of `ipc.rs` 573 and 588, or `v0` at `rendezvous_mediator.rs`
312), the new one is stored (`Store`), and, after the answer has been sent, the check is
dropped and compares (`DropCheck`). `checks` holds those alive, so two may overlap. A
strategy of the API server is stored with no check at all (`StoreStrategy`,
`hbbs_http/sync.rs` 229). `ChangeNoticed` names what follows: a restart that falls into the window
of `start_all` (`lost`); a strategy's change; and a check that remembers a
list which another change has replaced and which it then stores again, so that it finds
no difference (both `blind`). TLC finds each of the three when its exception is
taken out.

### TeamHub

A tab has a few sockets numbered by `Slots`. The browser's side of a socket
(`browser`) and the hub's (`server`) change independently; messages from
browser to hub are a queue (`uplink`). `HistoryLoaded` is the part of the
authenticate handler behind its `await`, `Reconnects` the timer of `onclose`,
which nothing cancels. Only the hook instance in `AuthProvider` ever connects,
so the chat and location messages of the other instances cannot be sent and
are left out. The list of a user's sockets is kept as a count of each socket's entries
(`connectedClients[u][s]`): it is filtered and its length is compared with 0, and
its order is read by nothing.

`Accounts[t]` is the sequence of users who log in on a tab, each after the logout of
the one before; a user who comes back is in it again. A logout leaves the timer of `onclose`
running, which opens a socket for the user who has gone: the next user's `connect` may
find it open and return (`useWebSocket.tsx` 20-22), and is then not listed for as long as
it stays open (`ConnectedForOther`). Or `onopen` sends on the current socket, which may be the next
user's: it then authenticates as both (`mixed`), and the hub, whose `userId` is the last
of them, never takes it off the list of the first. A slot is used again when its
socket is gone; what stays listed of that socket is kept in `left`. The network may drop a socket at
either end (`Drops`), which the other end learns later.

### Locations

The effect of the hook as React runs it: `Render` is one rendering after a queued
update, with the cleanup of the run before and the effect of this one.
`startTracking` depends on `isTracking`, so setting it makes another function, which
runs the effect again: the model follows that, and `timers` counts the intervals.
A position read is posted by a request of its own; the handler stores it
(`CreateLocation`) and then logs it (`LogUserActivity`), and may fail before
either; a request or its answer may be lost while the handler goes on.
`crossed` is history: two reports were under way at once.

## 3. Runs

| Run | Instance | Distinct states | Shows |
|---|---|---|---|
| `ServiceSnapshot` | 2 connections, 2 contents, snapshot | 41 400 | `Disjoint`, `InSync`, `RevokeHolds`; joiners are promoted (`Promoted`), the state is reset when idle (`ResetWhenIdle`), `join` returns (`JoinTerminates`); refines `Subscription` |
| `VideoTwo` | 1 connection, 2 displays, 1 round, slack 1 | 4 203 738 | `Backpressure` although workers take each other's answers |
| `VideoLive` | 2 connections, 1 display, 2 rounds | 297 471 | `KeyFrameFirst`; `GivesUpOnMissing`; liveness: `FlowsOn`, `StopsUnwatched` |
| `VideoQoS` | 2 users, 1 bad, slow or late answer, 2 changes | 180 634 | types and limits; `DelayedCaps`; liveness: `AloneRecovers` |
| `QosTwo` | 2 users, perfect network | violation | `AllRecover` |
| `Privacy` | 2 connections, with threads | 1 691 788 | `OwnerLive`, `InputBlocked`, `BeliefTracked`, `Exclusive` |
| `PrivacyOthers` | 2 connections, without threads | violation | `OthersKeepMode` |
| `Permissions` | 5 services, 4 toggles, 1 message under way | 1 856 848 | `ServicesMatch`, `CursorMatch`, `CameraAudioInCall`, `OptionsArrive`, `PeerKnows`, `FileClipboardNeedsFile` |
| `VoiceCall` | 3 requests, 3 messages at the host or between it and the manager | 1 028 573 | `MicAccepted`, `AgreeWhenQuiet`, `DeviceInCall`; liveness: `Announced`, `MicStops` |
| `Rendezvous` | 2 servers, 6 ids, 1 fault, 1 change under a check, 1 strategy, 1 loss | 1 284 946 | `SolverRuns`, `ChangeNoticed`; liveness: `Settles` |
| `Hub` | 1 tab with 2 sockets, 2 users, 3 logins | 183 388 | `ListedIffOpen`, `OfflineIsTrue`; liveness: `ComesOnline` |
| `Locations` | 3 readings, 2 under way | 51 336 | `TimerOwned`, `NothingSilent`, `InOrder` |

Each passing run explores its whole graph. The type invariants that are proved
need no run and most have none. Deadlock is checked everywhere but in
`VoiceCall`, which really ends when the connection does and its queues are never read
again.

### What the violations show

1. `PrivacyOthers`. A request refused with "Privacy occupied by another one."
   finds the mode on and turns it off with `INVALID_PRIVACY_MODE_CONN_ID`
   (`connection.rs` 3412), which passes the check that would answer "Failed to
   turn off privacy mode that belongs to someone else." The owner hears nothing.
2. `QosTwo`. The header of `video_qos.rs` says that a good network raises the rate
   (11-12). Every user's step starts from the rate of all (269), which is the
   least of what the users got last, and above the normal rate of the quality a
   step is taken at every third good answer only. Where the thirds of two users fall
   on different answers, the raise of one is set back by its own next answer
   before the other has made its own: on a perfect network the rate stays at 24
   or below where both allow 30. Alone, a user recovers (`AloneRecovers`).

### Disagreements that the models reach and no run keeps

Each was once found by TLC as a violation or follows from the transitions; the
properties of the runs are stated so that they hold beside it.

- *Late answers.* "break if all connections have received current frame"
  (`video_service.rs` 800): a wait is given up, the late answer to that frame
  ends the wait for the next, because answers carry no frame. `Backpressure`
  says how far this can go: one more frame per such wait. With two displays the
  worker of one takes an answer the other waits for, so that `GivesUpOnMissing` is
  stated for one. Even then a wait can be given up with an answer in the queue, if the one
  before came at the end of the 3 s (795).
- *Input hook.* The branch marked "unreachable!" (`win_input.rs` 33) is reached
  when the mode is turned on before the thread of the last hook has left.
  `InputBlocked` shows that the magnifier's mode survives this, by failing;
  the virtual display's does not, because it ignores the failure.
- *Logout.* `disconnect` closes the socket and `onclose` starts the timer
  (`useWebSocket.tsx` 91) that opens it again, with the userId of the user who has
  logged out.
- *Stale announcement.* The socket closes while the hub awaits the history
  (`routes.ts` 48); the handler then announces as online a user already announced
  as offline (54). A newcomer is told who comes and goes, never who is there.
- *Shared tab.* `onopen` sends on the hook's current socket (`useWebSocket.tsx`
  35), so where two users log in on a tab one after the other, one may authenticate on
  the other's socket and stay listed after it has closed, for ever; or the second finds the tab
  connected for the first, and is never listed. Both are in the run, where
  `ListedIffOpen` and `OfflineIsTrue` except `mixed` and `ComesOnline` `ConnectedForOther`.
- *Refused while talking.* A caller who asks again during a call and is refused is shown as
  not in a call and goes on recording; the host's input device stays in use as
  well. `AgreeWhenQuiet`, `DeviceInCall` and `MicStops` except it by `refused`.
- *Toggle during a login.* The peer stores a toggle that the host ignores, because the
  login is not over (`connection.rs` 2111).
- *Strategy.* The servers of a strategy are stored and nobody restarts
  (`hbbs_http/sync.rs` 229): the mediator stays with the old ones until something
  else restarts it.
- *Cancelled call.* The caller cancels while the acceptance is under way
  (`io_loop.rs` 946): its request is still pending, so the acceptance starts its
  microphone, and host and manager see the call closed.
- *Tracking loop.* Setting `isTracking` runs the effect of `useLocationTracking.tsx`
  again (95); the cleanup clears the interval and sets `isTracking` false, and
  tracking starts anew. A position is read on every second rendering for as long as
  the page is shown, whatever the interval ("defaults to 30 min", 9).
- *Frame rate.* On a steady link of 225 ms the average equals the RTT, is not
  subtracted (the comments at `video_qos.rs` 27 and 72 say it should be), and the rate sinks to 2. A new
  user brings the rate to `INIT_FPS` (10) only at the next adjustment. A delay of
  150 to 199 ms can raise the rate to the minimum of the quality (24 says it
  lowers it). The history holds three delays where `HISTORY_DELAY_LEN` is 2.
- *Rendezvous.* A server that answers `UUID_MISMATCH` once and never again keeps
  all others from registering until the next restart. `Settles` holds because a
  server that is up goes on answering.

### Bounds, and why they are enough

- *Two connections, users, servers* are the smallest number at which one joins,
  leaves, answers or fails while another is served. Connections and displays are
  interchangeable; `Symmetry` is used in runs without liveness only.
- *Two contents* of a service's source: a change, and a change back.
- `MaxRounds`: 2 of the code's 10 in `VideoLive`, so that a wait is answered in time, answered
  at the end of its time, or times out in the first or the last round; 1 in `VideoTwo`. The
  theorems hold for any number.
- `MaxSlack` bounds the ghost `slack`, and with it the queues (`InFlight` <
  `MaxQueue` in `SendFrame`). `Backpressure` speaks of states below the bound, in
  which no frame was dropped from the model. In `VideoLive` it is 0, so that a
  queue holds one frame: liveness is about one that is never fetched.
- `VideoQoS`: one answer that is bad, slow or late takes every branch of
  `user_network_delay` over the histories it stays in; two changes open both users or
  open one and set a limit. `MIN_SAMPLES` 2 and `WINDOW_SAMPLES` 3 instead of 10 and
  60 make the RTT known, and the window slide, within a run; the theorems
  hold for any.
- `Permissions`: `MaxQueue` 1 lets an option or a login cross the host's acceptance, a switch
  or a reconnection; longer queues only delay what a single message shows.
  Toggles and services are those whose handling differs: `follow_remote_window` with its
  service is handled as `show_remote_cursor` with the position, and
  `disable_clipboard` is toggled by the view mode. The theorems hold for any length, all
  services and all toggles.
- `VoiceCall`: with three requests one is accepted, one refused during that call and one asked
  over both; `MaxQueue` 3 bounds only how often the two users click ahead, and leaves room
  for a request, its answer and a close at once. The theorems hold for any bounds.
- `Rendezvous`: `MaxId` 6 is enough (a task that needed a seventh id would be stuck
  and violate `Settles`); one loss, one fault, one change under a check and one strategy can meet
  at any point of a registration; the strategy is also what overtakes a check. `ChangesNoticed`
  is proved for any number of either. The first id is taken at both servers, so both
  must solve a mismatch.
- `Locations`: two readings under way overtake each other, the third comes after.
  `timers` needs no bound.
- `Hub`: two sockets of one tab at a time is what a timer next to a login makes. One user
  who logs in twice and then another (`TwiceThenOther`) meets timers of the same and of
  another account. Two tabs do not touch each other but for the list, and the theorems
  have any number of them.
  `Free` lets a slot be used again once nothing of its last socket is left.
- Chat history, pictures, encoders, sound and positions are not data here.

### Fairness

- `Service`: the worker thread runs, and a poll tried for ever succeeds some time
  (SF on `Poll`): each poll is an independent call to the system. A connection
  inside `Server::subscribe` finishes. No connection has to act.
- `VideoFlow`: workers run; tokio's mutex is fair, so a worker that wants the
  receiver gets it (SF on `TryWaitNext`); neither a switch nor an empty picture nor
  an encoding error comes at every turn (SF on `CheckOk`, `Capture`, `SendFrame`).
  Connections owe nothing, not even answers.
- `VideoQoS`: time goes on (`Age`), a worker adjusts every second, a connection whose
  test is answered sends the next, and a test is answered in the end: a peer
  silent for 30 s is disconnected (`connection.rs` 794). Which delay it measures is
  nobody's duty; `MaxBad` makes the network good in the end.
- `VoiceCall`: every loop goes on reading its queues. No user has to answer or hang up.
- `Rendezvous`: `start_all` and every task's timer and flag check run, and what is not
  lost arrives. Losses are finitely many (`MaxLosses`): a network that loses everything
  registers nobody. A check need never be dropped: `Settles` speaks of the list in use.
- `TeamHub`: browser and hub run, the database answers, and the network, which may
  drop any socket at any time, is stable in the end (no more `Drops`). What one socket waits for
  is not put off by others, each being served by events of its own. Nothing is
  assumed of users.
- `PrivacyMode`, `Permissions` and `Locations` have safety properties only.

## 4. Proofs

Eight modules hold the proofs; each extends its model and proves for every value
of the constants, from the named assumptions of that model. In each, `IInv` (or
the conjunction named below) is the inductive invariant; a lemma per action shows
that the action keeps it, and the theorem of the specification follows by one
temporal step. Every model has its type invariant proved
(`TypeCorrect`; `HubTypeCorrect` and `TrackTypeCorrect` in `TeamProofs`).

*ServiceProofs.*
- `IInv` is `TypeOK`, `Disjoint`, `RevokeHolds` and two parts. `SnapshotInv`: subscribers
  who are not late have heard `state` at every place of the worker (`InSync` says it
  of the loop's head only); between the snapshot's send and its swap, so has
  whoever waits and is not late; without snapshots nobody ever waits.
  `ServerInv`: what a pending `is_subed` has read so far is still true, unless a
  swap came between, in which case the connection is in `slipped`; and `active`
  is cleared only by the drop of `Server`. `InSync` is not inductive without the
  former, nor `RevokeHolds` without the latter.
- `MapsDisjoint`, `SubscribersInSync`, `RevocationHolds` follow.
- `Refinement`: every step of `Service` is a step of `Subscription` with
  `member = subscribes ∪ new_subscribes`, or leaves it as it is. The lemmas
  `SubscribeAdds`, `UnsubscribeRemoves`, `SwapKeepsMembers` state what the operators
  of `ServiceInner` do to that union; `MapsDisjoint` is needed because
  `on_unsubscribe` looks at one map only.

*VideoFlowProofs*, for any finite set of displays.
- `FirstsAreKeys` (`KeyFrameFirst`) needs `FirstInv`: a viewer without a frame is one
  whose worker has yet to set up, or has just set up, its encoder, or one that took
  over; and `SwapInv`: a swap without a switch has no viewers to share with.
- `BacklogBounded` (`Backpressure`) needs an account (`BacklogInv`): what is under way
  for a connection is at most one per display whose worker still waits for it
  (`Unanswered`), and one per unit of `slack`. A step that ends a wait early
  pays with slack for the connections it gives up on; taking the last missing
  answer takes one off both sides. The lemmas `OwedAppend` and `OwedTail` count
  answers in the queue, the latter by a bijection.
- `GaveUpOnMissing` (`GivesUpOnMissing`), for one display. `WaitInv`: nothing is sent before
  the frame, and a wait that goes on has fewer answers than receivers, which are sets
  of a size (`FiniteInv`) for any set of connections. `AnswerInv`: the frame of a receiver
  that is still there is before it in its queue, or its answer is under way or
  counted. So a round without an answer gives up on who has not fetched or has ended, and one
  that an answer has used up may also leave the missing answer in the queue. With two displays the claim is false, because the other
  worker may take the answer (`Backpressure` says what follows from that).

*VideoQoSProofs.* `IInv` is `TypeOK` and `DelayedCaps`. The rate is the least of a set, so
`MinInNat` (well-foundedness of the naturals) comes first; `AdjustedIsRate` says
that the adjusted rate is in its limits, and at most one above the minimum with a late
answer; `WindowTypes` and `AddDelayTypes` that the windows do not grow. `LateHoldsRate`
then follows because every step that makes a user late adjusts the rate.

*PrivacyProofs*, for any set of connections and both kinds of driver.
- `IInv` is `TypeOK`, `Blocked(mode)` (which `InputBlocked` states), `RequestInv` (a
  request is under way only in an open connection, which waits for at most one
  thread) and `OwnerInv` (the owner has logged in, and is not closed unless a late
  thread served it). `OwnerLive` needs `RequestInv`: a connection with a request in
  progress cannot be closing, so no request of its own makes it owner behind
  its `CloseCheck`.
- `OwnerIsLive`, `InputIsBlocked` and the action property `OneOwner` follow. The lemmas
  (`TurnOffOutcome`, `StartOutcome`, `TurnOnOutcome`, ...) say what one critical
  section of the mutex can leave behind.
- `BeliefIsTracked` (`BeliefTracked`) needs `BeliefInv`, which says it between the steps of a
  connection as well: who was told of success, or is about to be, owns the mode,
  has a notice to read, or lost it to somebody whom the code lets take it silently
  (`robbed`), until its own next request has lost it (`Held`).
- `OnlyUndoTakes` is the other half of the finding `OthersKeepMode`: no step of a
  connection takes the mode from another one, and no late thread either,
  but for the step that turns off after a failed request (`Undo`).

*PermissionsProofs*, for any build, any built-in options and any queue. `Good` is a
predicate of the connection alone: `MayHear` (who hears a service may hear it),
`HearsAll` (a remote session that has its services hears all it may hear), `CallsOnly`
(a camera's audio is its call's) and `Fresh` (nothing exists before the login).
A lemma per operator (`Subscribe...`, `Switch...`, `Update...`) shows that it
leads from such a connection to such a connection; that one option after the other
is handled makes `UpdateOptions` a chain of them. `ServicesAlwaysMatch`, `CursorAlwaysMatches`,
`CameraAudioOnlyInCall`, `FileClipboardPermitted` and `PeerAlwaysKnows` follow.
`OptionsAlwaysArrive` (`OptionsArrive`) has an invariant of its own, `ArriveInv`: of every option
the last message under way that carries it says what the peer's toggles mean (`LastWord`),
or none carries it and the host, or the login request it has kept, has it so (`HostInv`), but for
what it has ignored since that request (`missed`). The same holds behind every login
request that is still under way (`LoginsInv`), because it takes the place of all
that came before. `UpdateOptionsSets` says that handling a message sets exactly the options
it carries, whatever else it does, and `ToggleCarries` that a toggle's message
carries every option whose meaning it changes, also in the view mode.

*VoiceCallProofs*, for any number of requests. `MicAlwaysAccepted` needs `AnswersGiven` (every
acceptance under way is of a request the host's user accepted) and `OnePending` (a pending
request is the last one, and not the one that is recorded for).
`AgreementWhenQuiet` (`AgreeWhenQuiet`) and `DeviceOnlyInCall` (`DeviceInCall`) need the account
of the queues, `CallInv`, for as long as the connection lasts and nothing has crossed:
the host's state goes with the last thing it told the manager (`HostShown`, `Shown`);
the last message on the way to the host says what the client shows, and only that one
may be the last request (`ToHostInv`); at most one answer is on its way to the client,
to the request it waits for, behind which the host has nothing to read
(`ToClientInv`); once the host has read everything, the client's state follows from what the
manager will show (`StatusInv`); and recorder and input device are on together, but for
messages on their way (`RecordInv`), which holds through a refusal because that touches
neither.

*RendezvousProofs*, for any servers and any number of changes, which may overlap.
`SolverAlwaysRuns` and `ChangesNoticed` need `BetweenRounds`: between two rounds no task runs, and
between reading and clearing `ChangeNoticed` holds without the flag, which is about to be
cleared: a change is in a check that is alive, in `lost`, or in `blind`. `ChangeRound` says so
of each step of `ChangeServers`: a check that is dropped on a list that differs
sets the flag or `lost`, and one that finds no difference leaves the list as it
was, unless it has been overtaken.

*TeamProofs*, the hub for any users, tabs, slots and sequences of accounts.
- `HubInv` is `TypeOK`, `Wired` (a socket that is not idle was opened for a user, a tab's
  current socket is its own, an unaccepted one is noted for nobody) and `OpenIsListed`.
  `NobodyForgotten` is the half of `ListedIffOpen` that needs no exception:
  an open socket is in the list of the user it authenticated as last.
- `TabInv` is `ListedIsOpen` (a socket that has not authenticated as several users is listed
  only while open, and for the user its handlers have noted) and `OfflineIsTrue`, which needs
  it, because the handler announces `userId` and not whom it has listed. `ListsAreOpen`
  (`ListedIffOpen`) and `OfflineWasTrue` (`OfflineIsTrue`) follow for any tabs, with the exception `mixed`.
- `OneAccountOneUser` says where the exception cannot arise: a socket of a tab with one
  account (`Single`) never authenticates as several users, also where `onopen` sends
  on another socket, because all that its sockets are opened for, send and note is an account of
  the tab (`Owned`).

*TeamProofs*, the reports for any number of readings. `TimersOwned`, `NothingIsSilent`,
`LoggedAreStored` and `RowsInOrder` need `Progress` (what a handler has done is in the
tables) and `Begun` (what is begun is not stored yet, and without a crossing only
the last reading is begun).

So every invariant and action property of the passing runs is proved. Only
model-checked: the liveness properties (`Promoted`, `ResetWhenIdle`, `JoinTerminates`, `FlowsOn`,
`StopsUnwatched`, `ComesOnline`, `Announced`, `MicStops`, `Settles`, `AloneRecovers`), because fairness
is out of the prover's reach, and the two counterexamples. `GivesUpOnMissing` is proved for one
display only: beyond that it is false.

## 5. What is not modelled

- Inside the modelled parts: options and stored handles of services; the
  callbacks other than the cursor's; screenshots, recording and UAC of the video
  loop; the bit rate ratio of the QoS, which is floating point throughout; display
  geometry under the virtual display; passwords, second factor and limits on
  attempts of a login; TCP registration, latencies, punch holes, relays and the
  `stop-service` option of the mediator; chat and location messages of the hub;
  failing system calls once the privacy mode is on.
- Components: see the notes in `PROJECT.json`. Most of the tree is platform code,
  native libraries, user interface, plugins and generated bridges: calls into
  systems that the tree does not define, or presentation, with no protocol
  of their own. `libs/hbb_common` is absent, so file transfer jobs and the
  configuration are known only by their use.

## 6. What could follow

1. *Team storage*: attendance (read, then update), registration (check, then insert)
   and messages, against atomic operations as the abstract specification.
2. *Client session*: reconnection, and what it believes of displays and codecs.
3. *Punch holes and relays* of the mediator, on top of `Rendezvous`.
4. Proofs: the safety lemmas behind the liveness properties, such as that a step of
   the service's worker is enabled wherever `Promoted` waits for one; and, for any number
   of displays, what a wait that gives up says of the other workers' waits.
