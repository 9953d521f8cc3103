# A TLA+ model of matrix-octopus-napcat

`matrix-octopus-napcat` is an agent between the Matrix bridge *Octopus* and QQ.
For each Matrix user it runs one *NapCat* process (a QQ client), drives it over
a websocket and over its WebUI (HTTP), and relays events to the bridge and the
bridge's requests to NapCat. The program is small and almost all of it is
concurrent: every request, every event and every response runs in a goroutine
of its own, and they meet in a handful of maps, mutexes and fields. This project
models those meetings in TLA+, checks them with TLC on small instances, and
proves the main invariants with TLAPS for instances of any size.

All paths below are relative to the repository root, which is `src/`.

## 1. The system

| component | state | operations | where |
|---|---|---|---|
| bridge service | the websocket to Octopus | `Start`, `Stop`, `consumeWebsocket` (a goroutine per request), `transmitFunc` | `internal/octopus/service.go` |
| client registry | `clients`, `clientsLock`, `clientIncPort` | `ProcessRequest`, `handleRequest`, `getClient`, `ServeHTTP`, `Stop`, `cleanupConfig` | `internal/napcat/manager.go` |
| instance lifecycle | `instance`, `instanceLock`, the process, `webui.json` | `Connect`, `Disconnect`, `overwriteWebUIConfig` | `handle_octopus.go`, `client.go` |
| login | `credential`, `instanceLock`, NapCat's WebUI | `Login`, `GetLoginInfo`, `auth`, `checkLogin`, `updateOB11Config`, `getLoginInfo` | `handle_octopus.go`, `client.go`, `api.go` |
| websocket session | `conn`, `writeLock` | `ServeHTTP`, `updateConn`, `Serve`, `_request` | `client.go`, `manager.go` |
| request/response correlation | `websocketRequests` and its lock, `websocketRequestID`, a channel per call | `request`, `add/removeWebsocketResponseWaiter`, `handleResponse` | `client.go`, `handle_napcat.go` |
| event dispatch | the client's `KeyMutex` | `handleEvent`, `getEventKey`, the handlers of each event type | `handle_napcat.go` |
| key mutex | 47 mutexes | `LockKey`, `UnlockKey` | `internal/common/key_mutex.go` |
| message building and media | the avatar cache | `populateMessage`, `getMedia`, `getUserAvatarURL`, `Download` | `handle_napcat.go`, `client.go`, `misc.go` |
| request methods | none | `GetUserInfo` ... `SendMessage`, `RevokeMessage`, `genTextSegments` | `handle_octopus.go`, `manager.go` |
| protocols | none | JSON decoding of both sides | `napcat/protocol.go`, `common/protocol.go` |
| configuration, entry point | none | `main`, `Load` | `cmd/`, `common/config.go` |

How they interact:

- `consumeWebsocket` starts `go ProcessRequest`. `handleRequest` first fetches
  or creates the user's client (`getClient`, under `clientsLock`, which it gives
  back), and for connect and disconnect takes `clientsLock` *again*, and keeps
  it while `Connect` or `Disconnect` holds the client's `instanceLock`.
  `Manager.Stop` nests the locks the same way. `Login` takes `instanceLock`
  alone.
- `ServeHTTP` installs the connection a NapCat process makes in its client and
  reads from it in `Serve`, which starts a goroutine per frame: `handleResponse`
  or `handleEvent`.
- Any goroutine may call `request` (also `handleEvent`, for media), which
  registers a one-slot channel under a fresh echo, writes on `conn` under
  `writeLock`, and waits for the channel or for the deadline.
- `handleEvent` works under the key mutex of its chat and ends in
  `transmitFunc`, which writes to the bridge and logs a failure.

What is hard about it, and what makes each part correct:

- **Correlation.** Timeouts race late answers, NapCat may answer twice or never,
  the map is unlocked between lookup and send, and the deadline runs while a call
  still waits to write. A call must get its own response or an error, the table must hold the calls in flight and nothing else, and no
  goroutine may be left behind.
- **Lifecycle.** The client fetched before the lock may be stale under it.
  No client may get two instances, no running instance may be out of reach of
  Disconnect and Stop, the shared `webui.json` must be the starting client's,
  and the locks may not deadlock.
- **Sessions.** A session can end after its successor began. No connection may
  leak or be written after it was closed, and a lost connection must be noticed.
- **Events.** One chat's events must not be handled at the same time, although
  47 mutexes serve all chats, and each must be relayed. A handler downloads media,
  without a timeout, under its mutex: that may hold up the chats of this mutex,
  and nothing else may.
- **Login.** Two goroutines share a credential without a common lock, errors
  of `auth` and `updateOB11Config` are dropped, and a call of the WebUI has no
  timeout.
- **The client as a whole.** An event handler waits for an answer while it holds
  its chat's mutex; a connection on which a write has failed stays installed. A
  call nothing disturbed must be answered, and `Serve` must never wait for a
  handler.
- **Messages.** A message is put together from segments whose number and order
  decide its type, with media that may fail in four ways. No part may be lost,
  the chat must be the one whose mutex is held, and what one agent sends another
  must read back.
- **Methods.** Dispatch, parameters and answers are untyped; the bridge decodes an
  answer by the method's name, and what is missing or of another form may be a
  panic. Answers must be of that type and about what was asked, no request may go
  unanswered without such a reason, and the shared avatar cache must keep the users' own avatars.

`PROJECT.json` lists each hazard at the line where it bites ("hazards").

## 2. The modules

| module | models | state and actions correspond to |
|---|---|---|
| `RequestReply` | what `Client.request` promises | a call is pending until it is resolved once, by an answer NapCat gave to it, or gives up |
| `NapCatRPC` | `Client.request`, the waiter table, `handleResponse` | `pc`/`hpc` are the lines a call/a handler is at; one action per atomic increment, critical section, write, select branch, close, lookup, send |
| `ChatLock` | what `KeyMutex` promises | a lock per key |
| `HashedKeyMutex` | `key_mutex.go` | `mutexes[hash[key]]` |
| `EventDispatch` | `Serve`'s goroutine per event, `handleEvent`, `transmitFunc` | extends `HashedKeyMutex`; `sent` is what the bridge gets, in order |
| `Manager` | `ProcessRequest` with its `recover`, `getClient`, `handleRequest`, `Connect`, `Disconnect`, `Stop`, the processes | `pc` per request; a client object is named by the request that made it, an instance by the Connect that started it |
| `WebsocketSession` | `ServeHTTP` after its lookup, `updateConn`, `Serve`, `_request` | a session names the connection it upgraded |
| `Login` | `Login`, `GetLoginInfo` and the WebUI calls | `pc`, `api`, `try` per request; `used` is the credential a call under way was sent with; `credential` is a string of two words, read and written one at a time |
| `Client` | one `Client`: composition of `EventDispatch`, `NapCatRPC` and `WebsocketSession` | the variables of all three, and the connection each request was written on, the connections a write failed on, the calls whose deadline has passed |
| `Protocol` | decoding: frames, segments, parameters, answers, attachments | a function per Unmarshal method or constructor |
| `Messages` | `SendMessage`, `genTextSegments`, `handleEvent`, `populateMessage`, `getMedia` | `i` is the segment `populateMessage` is at, `tried` the sources `getMedia` has tried for it |
| `Methods` | `handleRequest`'s methods that ask NapCat, `getUserAvatarURL` and its cache | `got` are NapCat's answers, well formed or not, to the calls of a request, `todo` the users it needs avatars of |
| `MC...` | | finite hashes, symmetry sets, sets of frames and inputs; the other modules are instantiated by their `.cfg` alone |
| `...Proofs` | | the theorems, section 5 |

Definitions keep the names of the code where they can; `PROJECT.json` maps each
to its lines. Names beginning like a definition and preceded by "Mutant:" are
slips a programmer could have made there; they are not part of any `Next`, and
show that each property depends on the line it is meant for.

What is external, and modelled from how the code uses it:

- *go-cmd*: `Start` returns at once; `Status().PID` is set when the process is
  forked and stays 0 when it cannot be; `Status().Complete` is set for a process
  that exited by itself, never for one that a signal ended.
- *NapCat*: it connects to the agent when it has no connection, may lose it at
  any time, may answer a request late, twice or never, sends a recall only of a
  message it has sent before, and reads `webui.json` some time after its start.
- *NapCat's WebUI*: it accepts the credentials it gave out until they expire,
  and may fail any call: no response, an error code, or an HTTP error status,
  for which resty leaves the decoded result zero. It may also never end one.
- *net/http*: it recovers a panic of `ServeHTTP` and leaves the hijacked
  connection to the handler. Nothing recovers one in `handleResponse`.
- *QQ's avatar server*: it has an avatar of a user in some sizes and serves the
  default avatar for the others; any download may fail, or bring the page of an
  HTTP error, whose status `HTTPGetReadCloser` does not look at.
- *golang-lru*: a full cache drops one entry, which here may be any.

`Manager` and `Login` both model `Login`: `Manager` as one step under
`instanceLock`, for its effect on the locks, `Login` call by call. The parts of
`Client` are checked alone on larger instances, with NapCat at its worst; in the
composition NapCat answers a request at most once, early or late. The deadline of
a call there is a step of its own, `Expire`, which may come at any time after
`request()` began: also while the call waits for `writeLock` behind others, and
after its answer has come. So `Client` meets the panic of `NapCatRPC_panic` too: it
ends the agent, and the model with it. An event with media makes at most one call
there (a message with several makes one after the other), and downloads before it,
after it, or instead. `Methods` takes a call of NapCat as what
`RequestReply` promises, its own answer or an error, where the data of the answer
may be null, of another form, or a list with an entry that is null.

In `Messages` text is a sequence of tokens, and a blob is known by the segment it
came from; the space that follows a mention, captions and names are left out. In
`SentIsUnderstood` the frame that arrives has the segments that were sent, with
urls for images and videos, as NapCat makes them.

## 3. The runs

| run | instance | question | result |
|---|---|---|---|
| `NapCatRPC` | 2 calls, 2 handlers, 21 309 states | own response, exact waiter table, refinement of `RequestReply`, late lookups dropped, everything ends | holds |
| `NapCatRPC_panic` | 1 call, 1 handler | does `handleResponse` ever end the process? | **violated** |
| `Manager_safety` | 3 requests, 2 users, starts may fail, no shutdown, 218 426 states up to symmetry | one instance per client, own `webui.json`, nothing out of reach, disconnect stops | holds |
| `Manager_live` | 2 requests, 2 users, starts may fail, shutdown, 106 373 states | the inductive invariant with `Stop`; Stop stops every registered instance; what can keep Stop, or a request, from its end? | holds |
| `Manager_timeout` | 1 request | does Connect give up after `init_timeout`? | **violated** |
| `EventDispatch` | 3 events, 2 chats and the empty key in 2 buckets, 77 278 states | mutex owners, refinement of `ChatLock`, transmitted at most once and unless lost, handled to the end unless a download hangs under the mutex | holds |
| `EventDispatch_order` | 2 events | does a message reach the bridge before its recall? | **violated** |
| `WebsocketSession` | 3 sessions, 2 writers, 167 436 states | no leak, no write on a closed connection, loss is noticed, writers end | holds |
| `Login` | 2 requests, 787 330 states | does a request nothing went wrong for succeed, does every request end unless the WebUI says nothing? | holds |
| `Client` | 2 events of one chat, one with media, a request of the bridge, 1 session, 646 329 states | do the parts fit, may a call fail without a reason, is every event handled unless a download hangs? | holds |
| `Messages` | 18 kinds of segments, frames of up to 3; texts of up to 3 tokens, up to 2 mentions, 178 223 states | is everything told, under the right key, media given up last, and does the agent read what it sends? | holds |
| `Methods` | 2 requests of every method, 3 users, 2 avatar sizes, a cache of 2, 272 400 states | do answers fit, are avatars the best, is every request answered that can be, can only downloads hang? | holds |

The bounds, and why they are enough:

- *NapCatRPC*: a mix-up takes two calls; a duplicate answer, one answer looked
  up in time and another late take two handlers. Echoes are not capped: each
  call takes one.
- *Manager*: losing an instance takes a connect, a disconnect and a third
  request of the same user; sharing `webui.json` takes two users. Each request
  makes at most one client and one instance, so nothing else needs a bound.
  Shutdown is left to `Manager_live` (`MayStop` is FALSE in `Manager_safety`):
  `Stop` with two requests already meets a busy client and one that it stopped,
  and the proofs cover `Stop` with any number of requests.
  Liveness is checked without symmetry and so with two requests; a deadlock of
  two locks needs no more, and `Stop` is a third contender. `StartMayFail` is TRUE
  in every run.
- *EventDispatch*: three events are a message, its recall and a bystander; of
  the three keys two share a mutex and one has its own.
- *WebsocketSession*: one session that ends late, its successor, and one more to
  overtake both; two writers, one of them waiting for the other.
- *Login*: the interference on the credential is between pairs of goroutines;
  each makes up to three calls, each call up to two tries.
- *Client*: calls compete for `writeLock` when there are two at a time, and the calls
  of one chat's events follow one another, so one is an event's and one the
  bridge's. A deadlock takes a handler that waits for an answer and one that waits
  for its mutex: the two events. The one session may come and go at any step, and
  its connection be lost or broken; a connection that *replaces* another takes a
  second session, which is in `WebsocketSession`, and in the proofs of `Client`,
  which are for any number of events, calls and sessions at once.
- *Messages*: `populateMessage` treats a segment by its type, what came before
  only through `summary` and `images` being empty, one, or more, so three segments
  of every kind meet every combination; headers are tried with up to one segment.
  A mention that is a prefix of another, and one that is a prefix of what an `@`
  names, take two mentions and texts of a few tokens.
- *Methods*: two goroutines that miss the cache for the same user, a third user to
  fill the cache, one user with the first size, one with the second, one with
  none. The real cache holds 1024 entries and there are six sizes; the proof is
  for any number of either.

Deadlock is checked in every run: each module has a
`Terminated` step for the states in which the program is really finished.

### What the violated runs found

1. **`NapCatRPC_panic`**: `handleResponse` finds the waiter under the read lock
   and sends after the unlock. If the call times out in between,
   `removeWebsocketResponseWaiter` closes the channel, and the send panics in a
   goroutine nothing recovers: the agent dies, with every user's session.
   `LateLookupIsDropped` delimits it: a response looked up after the removal is
   always dropped. So does `Joined` in `Client`: it is the answer to a call that
   gave up because its deadline had passed, and no other, that can do this.
2. **`Manager_timeout`**: the `break` under `ctx.Done()` leaves the `select`,
   not the loop. A command that cannot be started keeps `clientsLock` for ever,
   and "failed to start the client" is unreachable. `RequestsAnswered` and
   `StopEnds`, in `Manager_live`, say who waits behind it.
3. **`EventDispatch_order`**: the key mutex excludes two handlers of a chat from
   each other, but goroutines queue for it in any order, and a message that waits
   for media keeps nobody from locking before it. A recall can reach the bridge
   before its message; the README lists redactions as a feature (`README.md:36`).

### Seen while modelling

What the properties exempt, or delimit, because the code does otherwise:

- A connect or disconnect gets its client in `getClient` and takes `clientsLock`
  only afterwards (`manager.go:154`, `159`, `166`). If another disconnect has
  deleted that client in between, a Connect starts an instance on an object nobody
  can find again, and a Disconnect stops nothing and deletes whatever client is
  registered by then (`manager.go:170`). `NoOrphan` and `DisconnectStops` leave out
  the users this has happened to (`astray`), and show that it is the only way:
  overlapping connects, disconnects and logins lose nothing otherwise.
- Nothing ends a download (`misc.go:17`) or a call of the WebUI (`client.go:215`,
  `236`): `httpClient` and resty have no timeout here. A download in `getMedia`
  holds the mutex of its chat, and with it other chats of that bucket; a Login that
  hangs holds `instanceLock`, the user's next Disconnect then `clientsLock`, and
  every request and `Stop` wait. The liveness properties do not assume these away:
  each says that what it promises comes, or that what is named in its `HeldUp`
  lasts for ever.
- The deadline of a call runs from `client.go:312`, before the wait for
  `writeLock` (`340`). Behind slow writers that succeed a call is written when its
  context is done, and fails although nothing happened to its connection.
  `UndisturbedCallAnswered` leaves out calls whose own deadline has passed.
- Connect waits for the PID, that is for the fork, not for NapCat to have read
  `webui.json`; the next user's Connect may overwrite it. `WebUIWhileStarting` is
  what does hold: up to the PID the file is the client's own, and an instance
  that has read it by then has read its own.
- A NapCat process that was killed by a signal has `Complete == false` and counts
  as existing: Connect answers success and starts nothing until the user
  disconnects (`handle_octopus.go:27`). `OneInstancePerClient` is the other side.
- A session that notices late that its connection is gone runs `updateConn(nil)`
  on the connection NapCat has made since, and closes it (`client.go:92`). NapCat
  reconnects after five seconds; `LostIsCleared` and `InstalledIsServed` show that
  the state stays consistent, and `UndisturbedCallAnswered` counts the calls under
  way as disturbed.
- After a failed write a connection stays installed, every later call fails at
  once, and only NapCat can end that (`client.go:348`).
- A message that is one image which could not be had becomes an image message
  without an attachment, its placeholder lost (`handle_napcat.go:218`); a card
  without a link becomes an empty text. `NothingUntold` exempts these two, and
  speaks only of messages as QQ composes them (`Composed`): a reply or not, then a
  text with faces, mentions and images, or one thing of another kind. Of other
  mixtures the code does lose parts (`handle_napcat.go:226-230`): of a video and an
  image only the image is attached; of a text and a video that could not be had the
  placeholder is overwritten by the text. Segments of types `generateSegments` does
  not know (contact, music) are dropped before.
- When NapCat's answer is no file at all, `getMedia` returns without trying the
  url (`handle_napcat.go:335`).
- `genTextSegments` cuts `@12` at a mention of `1` (`handle_octopus.go:427`):
  `SentIsUnderstood` is about the texts where no mention is a prefix of another
  name.
- `get_group_list` is answered with the friend list (`manager.go:192`), and
  `GetGroupList` is never called.
- Requests that panic go unanswered (`ProcessRequest` recovers the panic): with too
  few parameters (`manager.go:183` and below), with a medium or a location without
  its attachment (`handle_octopus.go:329`-`351`), with a login step without its
  parameters (`91`); and where NapCat's answer is taken apart unseen: no map with a
  numeric `message_id` for `send_message`, which has been sent by then (`392`), no
  data for `get_group_member_info` (`306`), a null entry in a list (`223`, `275`).
  `AnswerFits` says that no other request does. The malformed answers are in the
  model as answers that are null, of another form (`Odd`) or with such an entry
  (`Holey`).
- `get_group_info` looks up the avatar of every member and throws them away
  (`handle_octopus.go:191`).
- `KeyMutex.UnlockKey` documents an error for an unknown ID and always returns nil.

## 4. Fairness

Liveness needs an assumption for everything that is waited for:

- every goroutine that can move does so (weak fairness per goroutine): the Go
  scheduler is fair to runnable goroutines;
- a mutex is handed on: `sync.Mutex` enters starvation mode after a millisecond,
  and a model has finitely many goroutines that each lock finitely often, so
  weak fairness is enough;
- a write ends: `_request` sets a write deadline; a call's wait ends: its context
  has `request_timeout` (in `NapCatRPC` and `WebsocketSession`);
- a write to the bridge ends (`transmitFunc`, whose connection is an external
  library's);
- the operating system forks or fails to (`Fork`, `ForkFails`);
- nothing is assumed of downloads and of calls of NapCat's WebUI: neither has a
  timeout. In `Manager` (`LocalStep` and no other step of a request is fair),
  `EventDispatch` and `Client` (`~Downloads(e)`), `Login` (`LocalStep`, not
  `WebUIStep`) and `Methods` they need never end. The properties say what is then
  held up: `[]HeldUp(...)`, `[]RegistryHeld`, or a request at its own download;
- a lost connection is noticed by the reader (`ReadError`): the kernel's TCP
  keep-alive, on by default for net/http's listeners;
- in `Client`, NapCat answers what it was asked over a connection it still has,
  and of a call whose answer can no longer come (`Unanswerable`) the deadline
  passes. No other deadline is assumed to pass, though any may, so that a handler's
  end does not rest on its deadline while NapCat's answer can come. (`Messages` has no liveness: a message is a loop over
  its segments, and the same downloads.)
- elsewhere nothing is assumed of NapCat's events and answers, of the bridge, of the
  user, of signals, or of processes ending.

## 5. What is proved

Each `...Proofs` module proves an inductive invariant, as `THEOREM Inductive` or
in its parts (`EventDispatchProofs`: `TypeOK` and `BucketInv`): the initial states
satisfy it, every step preserves it, and the properties follow. TLC checks the
properties in the runs, and `IInv` itself in `NapCatRPC`, `Manager_live`,
`WebsocketSession`, `Login` and `Client`. The assumptions are the named ones of
each module: the null value is none of the actors, the hash maps keys to buckets,
the manager's port is positive, lists of segments, tokens, mentions and parameters
are finite sequences (`InputsAssumption` for the last of these).
`MessagesAssumption` says besides what the bridge's messages look like: a token is a pair, no user is called `all` (QQ's ids are numbers, and the
room is `room`), an image message has an image, and the other media have one blob,
since `SendMessage` takes `[0]` and would panic without it. Nothing bounds the
number of actors or the length of a message.

- `NapCatRPCProofs`: `OwnResponse`, `WaiterTableExact`, `LateLookupIsDropped`,
  and the refinement of `RequestReply`. That a call gets its own response rests
  on a chain: echoes are distinct (the increment is atomic), the table maps an
  echo to the call that has it, so a handler that found a waiter found the call
  its answer is for (`ResponsesInv`), so what is in a channel is an answer to its
  call. The echo of an answer alone would not say so.
- `ManagerProofs`: `OneInstancePerClient`, `WebUIWhileStarting`, `NoOrphan`,
  `DisconnectStops`, `StopStopsAll`. `LockInv` says who is in which critical
  section. `InstanceInv` ties the process of a starting Connect to the client it
  will be stored in: no other instance of it is live from the test of
  `c.instance` to the assignment, because both locks are held. `LoadInv` says that a
  new instance has read nothing yet, and reads `webui.json` while nobody else can
  write it, as long as its Connect waits. `NoOrphan` and
  `DisconnectStops` hold of users none of whose connects and disconnects came to
  `clientsLock` with a client that was deleted meanwhile (the history variable
  `astray`). `RegisteredInv` carries the argument: who holds `clientsLock` otherwise
  works on the registered client, and nobody else can change the registry then.
- `EventDispatchProofs`: who holds which mutex, that buckets under *any* hash
  implement a lock per chat, and `TransmittedOnce`: nothing is sent twice, and what
  was handled was sent or lost. `FateInv` ties each event's place to whether it is
  in `sent` or `lost`; that `sent` has no duplicates follows because an event is
  appended only from the one place it then leaves. A goroutine that holds a chat's lock holds its
  bucket; hence no second one of the same chat.
- `WebsocketSessionProofs`: `NoSocketLeak`, `WritesOnOpen`, `InstalledIsServed`.
- `LoginProofs`: `UntroubledSucceeds`. Between the answer to `auth` and the
  answer to the call that is made again, the credential must stay accepted;
  `trouble` records who has an excuse: an own call that failed, or, in just that
  window, an expiry, a torn read, or another request's store of a credential
  that is no longer accepted. Everything else is shown harmless.
  A credential is two words, so a store is two steps and two stores at once may
  leave a mixture: `RetryInv` says that both words are accepted ones wherever a
  retry is to read them.
- `MethodsProofs`: `BestAvatar`, for any users, any sizes and a cache of any size.
  `CacheInv` adds what a goroutine has found out so far: while it downloads size
  `n` of a user no download of whom has failed, QQ has none of the sizes before
  `n`. Two goroutines may both download and both add; each adds the same size.

  `AnswerFitsCorrect` is the other half of the module. `Asking` says of a
  request under way that it has all its parameters, that nothing was answered yet,
  and that `got` holds one answer to each of its calls so far, NapCat's own for the
  user or group of the request or null; any other malformed answer ends the
  request. `AnswerInv` says besides that what is answered from then on fits. The
  lemma `RespondFits` is about one call of `Respond`, for any method; the other
  outcomes of `CallReturns`, an error or a panic, bring no data.
- `ClientProofs`: the composition. The theorems of the parts are not proved again:
  `EventDispatchProofs`, `NapCatRPCProofs` and `WebsocketSessionProofs` are
  instantiated inside the client with the substitution `Client` itself uses, and
  lemmas (`DispatchKeeps`, `RPCKeeps`, `SocketKeeps`) carry their step lemmas
  over, for `SocketSteps`, `DispatchSteps` and `RPCSteps` say which steps of the
  parts the client's actions take. So `PartsCorrect` (own responses, the exact
  waiter table, writes on open connections and no leaked one hold inside the
  client). With three invariants of the composition follows the rest. `CallInv`: a
  call writes once, and an event waits for its own call, so that `Joined` can say
  that the call of an event runs under the mutex of its chat. `AnswerInv`: an
  answer comes over the connection the call was written on and is handled once,
  and an outcome `timeout` is that of a call whose deadline has passed: so a handler
  that finds its channel closed has the late answer to such a call, since any other
  call leaves the table with its answer, or was never written. `UndisturbedInv`: as
  long as a call is undisturbed the installed connection is good and is the one the
  call was written on; hence the only step that gives up is its own deadline's, and
  `UndisturbedCallAnswered`.
- `MessagesProofs`: `KeyIsChat`, `GivesUpLast`, `NothingUntold` and
  `SentIsUnderstood`, for messages of any length. `MediaInv` says for each place in `getMedia` which sources have been
  tried. `BuildInv` says what the first `i - 1` segments have left behind: a piece
  in the summary for each that is summarised, in their order (`SummaryInv`), and in
  the message the reply, an attachment of the right form and whatever the last
  segment has (`MessageInv`). `NothingUntold` alone is not inductive, since it
  speaks of the end only. The lemma `Finished` is the case analysis of
  `populateMessage`'s last lines: a summary of one piece with an image first means
  a message of one segment, and an empty summary means that the one segment that
  is not the reply was noticed elsewhere.

  `SentIsUnderstood` follows one message from one agent to the other. `SentInv` says
  that the frame is the one `SendMessage` made, and, in `SoFar`, what is built after
  its first parts: of a text, a piece for each part and the mentions of these parts
  in order; of images, as many as parts; of anything else, its one attachment. The
  lemma `TextRead` is about `genTextSegments` alone: what it makes of a text reads
  back, part by part, as that text, and names whom the text mentions where no
  mention is a prefix of another name. It holds by induction over the tokens,
  since each token appends one part or extends the last one (`ReadToken`).
  `FlattenSeq`, in which the property is stated, is recursive: `FlatEmpty`,
  `FlatGrows` and `FlatTyped` say what it gives for one more sequence.

  That what `generateSegments` and `genTextSegments` return is a sequence of
  segments takes an induction over their argument. The library's induction theorems
  take the statement as an operator, so `Induction` restates the principle for a
  set of numbers, from the well-foundedness of `<` on the naturals, and
  `RecursionExists` shows that a function defined by recursion over `0..N` has a
  value. Both are proved like all else.

Proving changed the model in four places. `AppendToken` was a `CASE` whose guards
could overlap, which TLC resolves by order and logic does not. The card that
`NothingUntold` exempts was the one kind the run has; it is any card that is
neither a location nor has a link. `generateSegments` and `genTextSegments` are
recursive functions, since the provers cannot expand `SelectSeq` and `FoldLeft`.
`Mentioned`, whom a text mentions, is stated with `FlattenSeq` for the same reason,
and the assumptions on `Outgoing`, which the sets of the run had met unsaid, are
written down.

Only model-checked: liveness and everything that rests on fairness (TLAPS proves
none here), `OnlyDownloadsHang` among them, and the violated properties. `IInv` of
`Messages` and of `Methods` is in no run: there the runs check the properties, and
the proof alone shows that the rest of `IInv` holds.

## 6. Not modelled

- *Configuration files.* `Disconnect` and `cleanupConfig` remove
  `napcat_<uin>.json` and `onebot11_<uin>.json`. Which of them exist, and when they
  are read, is up to NapCat, and nothing in the repository reads them: a model
  would be one of NapCat. The hazards that depend on it (a `uin` that is 0 until
  the first heartbeat; the order of `Service.Start`) are listed with that reason.
  For the same reason there is no model of a crash and restart: the agent keeps
  nothing but these files.
- *`ServeHTTP`'s lookup of the client by token*: one read under `clientsLock`,
  which `WebsocketSession` starts after. Its 401s and failed upgrades change
  nothing.
- *The connection to the bridge.* Connecting, reconnecting and what happens to a
  packet that cannot be decoded belong to the library `octopus/service.go` uses;
  `transmitFunc`, a goroutine per request, and `Stop` are modelled.
- *Decoding of single fields*, formatting, captions, mime types and names, wording
  and logging.
- *The configuration file, `main`'s wiring, the container's build and entrypoint.*
- *Time*: deadlines are steps that may happen; how long a call may wait behind
  others for `writeLock` is not stated, only that its deadline may pass there.
- *A blank command.* `Connect` takes the first word of `c.command` (`parts[0]`), and
  panics if a configuration has none; the deferred unlocks run and the request goes
  unanswered.
- *What is left behind.* `Live` is an instance nobody has asked to stop: one that was
  signalled and still runs counts as stopped, since nothing waits for its end.

What would add most from here: a refinement of `RequestReply` by `Client` as a
whole, from the theorem about the part; and a model of the registry with `ServeHTTP`'s lookup, in which a session can
outlive the client it was made for.
