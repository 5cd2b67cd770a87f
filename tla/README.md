# RDP123 in TLA+

RDP123 is a Remote Desktop client for macOS written in Rust. Its core
(`src/crates/rdp123-core`) connects to a Windows host over a vendored and
locally patched IronRDP, decodes graphics into a shared framebuffer and moves
input, clipboard contents, files and audio. Its application
(`src/crates/rdp123-app`) has one AppKit window per session, a menu bar item and
a settings window. Each session runs on a thread of its own with a
single-threaded tokio runtime; everything the user sees happens on the main
thread. What the two share is small and easily got wrong: a bounded command
queue, a few atomics, a mutex around the framebuffer, a mutex around the
clipboard's state, and the main dispatch queue. That is what these modules are
about.

Paths below are relative to `src/crates/` unless they begin with `src/`.

## The parts of the system

| Part | State it keeps | Operations | Talks to | What is hard | Correct when | Modelled in |
|---|---|---|---|---|---|---|
| Session commands and loop: `rdp123-core/src/session.rs` (`SessionHandle`, `PendingCommands`, `run_session`, offline draining) | command queue, coalesced slots, two flags, `keys_down`, `input_db` | `try_command`, `resolve_pending_command`, the `select!` arms, `drain_should_stop`, `wait_for_retry` | view and window on one side, server on the other | queue full, flag and marker raced, a command kept over a reconnect, a close whose PDUs cannot be sent | no accepted value and no release is lost; a closed window ends its session | `CommandQueue` |
| Session lifecycle: `session.rs` (`run`, `connect`, `tofu_gate`), `window.rs`, `delegate.rs` | attempt counters, trusted key, password, token; window, sheet, overlay | phases of an attempt, retry and reconnect, terminal events, closing | server, user, main queue | a key that changes, a question whose window is gone, events that lag behind | trust comes from the user, attempts are bounded, the window tells the truth | `SessionLifecycle` |
| Output path: `session.rs` (`emit`, `writer_loop`, `graceful_shutdown`, `reactivate`) | output queue, writer task, socket | emit, write, flush, abort | server | backpressure, a writer that failed, a server that stops reading | frames go out complete and in order, quitting is bounded | `OutputPath` |
| Local clipboard: `session.rs` (`LocalClipboardState`, CLIPRDR backend, signal queue) | what is offered, what is reserved for a dictation, what the server acknowledged | copy, dictate, offers, answers, data requests, time-outs, reconnects | user, by way of the command queue, server, spawned timers | answers without correlation, dropped signals, copies made during a dictation, commands that wait while a connection is set up | a dictation is neither overwritten nor pasted late, a copy is not stranded | `LocalClipboard` over `ClipboardState`, abstractly `PasteReservation` |
| Framebuffer: `framebuffer.rs` | pixels, generation, dirty log | writes, blits, resize, incremental copies | session task, UI thread | log overflow, resize with equal area, recycled buffers | a synced buffer shows exactly the pixels | `Framebuffer` |
| Frame notification: `delegate.rs`, `ui.rs`, `view.rs` | two atomics, an 8 ms block, the main queue | raise, coalesce, repaint | session thread, main thread | every interleaving of the atomics; a resize between reading the size and copying | no flood, no lost update; what the screen shows at rest is the framebuffer | `FramePipeline`, with `Framebuffer` in `Presentation` |
| Remote clipboard and files: `session.rs` (`RemoteClipboard`, `FetchJob`), `window.rs` | remote file list, the fetch at work, stream ids, cache directories; `changeCount`, what the window reserved | plan, request, write, finish or fail a fetch; prepare, publish or give up; poll | server, session task, main queue, pasteboard | answers of an older fetch, a copy of the user meanwhile, a disk that fails, a window that closes | files appear at once and complete, never over a newer copy; no directory is left over | `RemoteFiles` over `FileListing`, abstractly `FileOffer` |
| Local files served: `session.rs` (`queue_file_contents_response`) | tasks, read permits | resolve an entry, read, answer | server, disk | a newer copy while a request waits | every request is answered, from what was on offer when it came | `RemoteFiles` |
| Graphics compositor: `gfx.rs` | surfaces, retired surfaces, mapping, bitmap cache | create, delete, map, bitmaps, fills, copies, cache, reset | framebuffer, session loop | resets, unclamped regions, linear memory | the screen shows what was drawn; a reset keeps pictures | `GfxCompositor` |
| Input routing: `view.rs` (`InputRoutingState`), `window.rs` | held, held-back and swallowed modifiers, key-ups to swallow | key, modifier, menu and mouse events, focus | AppKit, session | key-ups AppKit omits, a setting that changes meanwhile, a reconnect the window's state does not notice | what is down on the remote is down on the keyboard; shortcuts arrive once | `InputRouting` |
| Profiles and their store: `profile.rs`, `secrets.rs` | one JSON document, the key chain | load, migrate, save, change one field, store and delete a password | file system, key chain | power cuts and failures at any step | the old or the new document, never another | `ProfileStore` |
| Settings window: `settings.rs` | its copy of the document, the form, the selection, `dirty` | show, edit, save, revert, add, remove, select, close | store, user, sessions that write too | dialogs behind which the sessions go on, two writers | a clean form shows the document, secrets follow the policy | `Settings` |
| Audio: `audio.rs` | bounded channel, buffer, handshake | wave, callback | server, audio thread | arithmetic on samples | | not modelled |
| Key map: `keymap.rs` | none | a table | | nothing | | not modelled |
| Entra sign-in: `rdsaad.rs`, `web_auth.rs` | token, proof-of-possession key | sign in, redeem, assert | Microsoft, server | a late answer, a window that closes | a question is always answered | phases of `SessionLifecycle`; HTTP and JSON are left out |
| TLS, Wake-on-LAN, terminal launch, build tasks | none to speak of | one call each | system | nothing | | not modelled |
| Vendored connector and codecs: `src/vendor/` | third-party | | | | | the connector is a step of `SessionLifecycle`; the rest is not modelled |

## Modules and how they correspond to the code

Each module says at its head what it stands for, and `map` in `PROJECT.json`
names the lines behind each definition. A definition whose comment begins with
"Mutant" is a plausible mistake in the code; it is no part of any specification
and is used only to show that a property can fail.

**`CommandQueue`**. The main thread handles one AppKit event at a time as a
short list of steps (`todo`: raise a flag, `try_send`, undo a slot), and the
session thread interleaves at every step. The session goes through
`connecting`, the top and the `select!` of `run_session`, and the two loops
between connections (`drain_should_stop`, `wait_for_retry`). Slots are
`PendingCommands::mouse_move` and `resize`; flags are `release_all_keys` and
`shutdown`. `pressed` is `input_db`, `keysDown` is `keys_down`. The ghost
`mustRelease` remembers the keys that were down when a release was asked for. A
window that closes drops its handles last; then the end of the queue ends the
session wherever it is. It has to: a shutdown that a marker brings consumes the flag,
and when the PDUs of its graceful shutdown cannot be sent (`cut`) the loop
reports a lost connection and retries. Clipboard commands are in `LocalClipboard`.

**`SessionLifecycle`**. The session thread goes through the phases of `connect`,
runs, and decides as `run` does (`DecideFirstConnect`, `DecideReconnect`,
`DecideSessionEnded`, `DecideQuit`). The main thread takes events one by one;
the window goes from `open` through `sheet` or `closing` to `gone`, where
`closing` stands for the block that `windowWillClose` puts in the main queue.
Oneshot channels are the variable `reply`. A failure is one of the classes
`connector_failure` tells apart. Name resolution, with its mDNS fallback, is
part of the TCP phase. Wake-on-LAN only raises `MaxInitial`. Saving the pinned key
may fail, and so may showing the sign-in window. A session whose window is gone may find its
shutdown or only that nobody holds its handle any more, and a shutdown that cannot be sent
ends the connection but not the session. The branch of `run` for a failed reconnect without `reconnect` is
modelled and cannot be reached: `PasswordInv` shows why. The user is assumed to answer the
modal certificate question.

**`OutputPath`**. `emit` waits for room inside a handler, so a handler is a step
that sets how many frames it has to emit and one step per frame. Frames and
PDUs are counted. `reactivate` reads PDUs of its own and looks at neither
commands nor the shutdown flag. An answer on the clipboard channel that cannot be sent is only
logged (`ClipboardArm`). A shutdown that cannot be sent is a quit at the top of the loop, where
the flag is looked at, and a lost connection when a marker brought it. Leaving the loop
aborts the writer. The command queue
is taken to have room for the shutdown marker; `CommandQueue` has it full.

**`ClipboardState`, `LocalClipboard`, `PasteReservation`**. `ClipboardState` has
one operator per method of `LocalClipboardState`, on a record. `LocalClipboard`
adds the command queue, which outlives the connections: `run_session` serves it, it is
emptied when a connection is lost (`drain_should_stop`) and served while the session waits
to retry (`absorb_offline_command`), but nobody looks at it while `connect` is awaited,
so what is given then is handled on the new connection. It also adds the session loop, the CLIPRDR callbacks, the bounded signal queue, the bag
of spawned timers, and an external server that accepts, refuses, omits an answer
and asks for data. `PasteReservation` is what a user is promised: a dictation
reserves the clipboard, copies wait in one slot, the end of the reservation lets
the last of them in.

**`Framebuffer`**. Every method holds the mutex throughout, so each is a step.
Buffers are linear memory with a stride, because the interesting mistakes are
strides and lengths. Two kinds of buffers are distinguished: vectors laid out by
the current width and surfaces with a fixed geometry.

**`FramePipeline`**. One step per atomic access of the callback in
`start_session`, of the 8 ms block and of a repaint, which reads the dimensions
without the framebuffer's lock. Instead of pixels it asks whether the screen
shows the current picture (`fresh`). A session that ends (`SessionEnds`) drops an update it has
not yet taken from its channel; nobody owes a repaint for it then.

**`Presentation`**. The two together, over the one desktop size they share
(`Desktop`): each action is an action of `FramePipeline` with the one of
`Framebuffer` that the same code performs, or of one of them alone. It adds the layer
whose contents `RdpView::refresh` sets: a surface of the size that was read
(`PaintSurface`, shown at that size, with the pixels there are when the mutex is taken) or an
image of the current size (`PaintImage`). Whether WindowServer still uses a
surface is left open, so either path may be taken. What `fresh` abstracts from is now the memory
behind the layer. Not modelled: an allocation by CoreGraphics that fails.

**`FileListing`, `FileOffer`, `RemoteFiles`**. `FileListing` says what a remote
copy lists and what a fetch makes of it: which names are refused, what is a
directory, what has to be requested. `RemoteFiles` has three parties. The server
copies, answers late, short or too long, refuses, and asks for files itself. The session
task handles one signal at a time (`HandleSignal`) and takes what the window offers from the
command queue (`posted`, `TakeOffer`), so that the user's copy, the offer of it and a request for
what was on offer before may overtake one another; an answer is looked at only if it is
the one outstanding (`Expected`); requests of the server become tasks that wait
for a permit, read, and wait for room. The main thread takes one event at a time;
`handling` is a handler between clearing the pasteboard, writing it and reading
`changeCount`. `FileOffer` is what the user is promised: files appear all at once,
complete, from one copy, and only in the place that was cleared for them. A file is a
sequence of bytes that name copy, entry and offset, so that files that are mixed up
differ. A file list is fetched while the server keeps it locked (`data_id`).

**`GfxCompositor`**. One action per callback of the graphics pipeline. Surfaces and
cache entries are linear memory, row by row, because clamping and overlapping copies
go wrong there. A decoded bitmap or stream of tiles is an input,
of the length its size says. A loop over the points of a command is a recursive function. `painter` and
`lastSeen` are history: who painted each pixel last, and what a surface held
when it was taken away. Writes are clamped, flushes are not: a flush that leaves its surface
reads on in the next row or panics, and the model follows a behaviour up to
there (`strayed`). A surface that was just created is not mapped: `create_surface` asks whether
the id is, but the vendored protocol has dropped the earlier mapping by then, and the
repository's tests call it so. A reconnect makes a new compositor, so the framebuffer's other
writers do not matter here.

**`InputRouting`**. `InputRoutingState` is a record and each of its methods an
operator that returns the next state and the keys that go down and up. Actions
are the events of AppKit: a key pressed or repeated, its key-up or the lack of
one, `flagsChanged` with and without device bits, menu items with and without a
key equivalent, the mouse, focus, the setting, and a connection that is lost and comes back.
`remote` is what all this leaves pressed on the remote. A reconnect clears `remote`, since
the session begins with an empty `input_db`, and leaves the window's state as it is, since
neither `set_reconnecting` nor `set_connected` releases keys; `lost` are the modifiers
that the window still believes down. Events without device bits are taken only where no change of
a modifier was missed before.

**`ProfileStore`, `Settings`**. `ProfileStore` has the document and a file as a
file system keeps it: what is there now, and what a power cut may leave (`kept`).
`SaveSteps` are the steps of `save_document`; a save may fail or be cut at each of
them. The renaming of an earlier version's document is not synced, so a power cut may
undo it. `Settings` adds the window and the sessions, which write single fields
(`SessionSaves`) at any time, also behind a dialog of the settings window: `doing` is the operation
that goes on afterwards. A save cleans what was typed, by a function `Cleaned` of the
mode of authentication: texts are trimmed, Entra has no domain, a desktop that fits the window no
resolution. The form keeps what was typed. A saved password that cannot be read is prompted for
as one that is missing. Every caller of `load_document` gives up on an error, so
reading is taken to succeed.

Apart from `Presentation`, the components share no variables. What one takes for granted
of another is stated at its head: `OutputPath` on `CommandQueue` for markers, and the life of a connection
is `SessionLifecycle`'s while the other modules let it begin and end at any time.

## What the runs check

| Run | Question | Result |
|---|---|---|
| `clip_safety` | A waiting copy always has a reservation it waits for; what a Ctrl+V fetches is the dictation; nothing handled or given before a connection was lost is pasted into a later one; `LocalClipboard` implements `PasteReservation`; the time-out of a served dictation gets through a signal queue that other traffic keeps full | holds |
| `clip_restore` | A waiting copy is let in, and the last copy is offered until it is accepted or its last retry is refused as well | holds |
| `remote_files` | No cache directory is left over, no copy is taken for another's; `RemoteFiles` implements `FileOffer`; a preparation ends; what the server asks for is answered | holds, with `CopyRaces` off |
| `screen` | A synced buffer shows exactly the pixels; at rest the screen is the framebuffer, pixel for pixel, unless `frame_dirty` marks a missed update | holds |
| `gfx` | The screen shows what the surfaces hold, copies are exact, a reset keeps cache and retired pictures, flushes are reported, and clamped ones stay inside | holds |
| `frames` | The main queue is not flooded, a stream of updates is painted | holds |
| `frames_lost` | The last update is painted | violated |
| `input` | Command keys on the remote are those held and neither held back, nor swallowed, nor pressed before a reconnect; what is let go of comes up; a paste is submitted once and keys arrive after their Command key | holds |
| `cmd_queue` | An accepted value keeps exactly one marker; a release is not swallowed and reaches the host; a closed window ends its session, also one whose shutdown cannot be sent | holds |
| `out_served` | No frame is skipped; what the server sends is read; a closed session ends | holds while the server reads |
| `lifecycle` | Trust, password, rejected credentials, bounded and correctly announced attempts, the truth in the window, questions answered, no frozen window | holds |
| `profiles` | The document on disk is whole at every step; the window knows it; secrets follow the policy; to save a clean form changes nothing; what a session wrote stays, unless it wrote after the window loaded its copy | holds |

Type invariants are part of `Inv` in `remote_files`, `gfx` and `profiles`; elsewhere they
are proved.

Bounds, and why they are enough:

- *Clipboard*: two texts and one file list distinguish "dictated", "copied
  meanwhile" and "not a text"; two generations make a dictation and a copy over it,
  or two dictations, and each may be refused twice. More generations are covered by the proofs,
  which hold for every number. A queue of two signals is full in most runs, which is the case that
  matters; in `clip_restore` it holds everything, because a dropped signal really does
  lose a restore. One command in the queue is enough for a dictation that waits
  for a connection; `clip_restore` has two, one behind the other.
- *Remote files*: a file of two chunks, a folder with an empty file, one of
  unknown size and one that would leave the cache, names that are refused and a
  list without a top-level name; four distributions of copies on the remote, requests of the
  server, copies of the user and one lost connection (`FetchAndServe`). Four stream ids wrap within one fetch.
  One permit, two signals.
- *Graphics*: seven callbacks on two surfaces of one or two columns, a screen of
  four pixels, one cache slot, two colours; rectangles of one pixel, larger than
  a surface, and beginning inside; at most two rectangles or points in one command. Seven calls create, map, paint, reset, create again, map
  and copy. Surface numbers are interchangeable, hence the symmetry; the run has no
  liveness.
- *Input*: two Command keys and Control, V, Tab and one more key of the Edit menu:
  one of each kind the code tells apart; the Command keys are interchangeable, hence
  the symmetry (no liveness). Nothing is bounded but the keys, reconnects included, so the
  run is complete for them.
- *Settings*: two connections, two values of their fields and a value that does
  not validate, of which one is cleaned away under Entra, four operations of the user and one
  write of a session or three and two (`EitherLonger`), one failure or power cut.
- *Screen*: a tall and a wide desktop of equal area, a tall surface with room for
  both, two image buffers (interchangeable, hence the symmetry; no liveness), one log entry and
  four updates: a resize, a write, a write that overflows the log and another resize. The
  theorem about the same property has no such bounds.
- *Frames*: two sizes, one of which fits into the surface of the other; two
  unrelated blocks on the main queue, one in `frames_lost`, which needs none.
- *Commands*: one key, one position, one size and a queue of two, which is full
  whenever a flag and a slot meet. The counter of held keys stops at three,
  enough for auto-repeat.
- *Output*: two frames in the queue, one in the socket; four commands and two
  PDUs fill both and leave a frame waiting.
- *Lifecycle*: two keys, two initial and three reconnect attempts, two
  connections. With fewer reconnect attempts a counter that is not reset would
  not be told from one that is.

Deadlock checking is off where the system really stops: a session that is over
with its window gone, or a user who has nothing left to do within the bounds.

### Fairness

- `LocalClipboard`: the session task polls its command queue, its signal queue and the
  transport, a session that lost its connection tries again, and a host that can be
  reached again and again is reached in the end (strong fairness: a handshake may fail any number of
  times in between). A
  task waiting for room in the queue is served in the order it began to wait
  (tokio's semaphore is fair, hence strong fairness), and the server greets and
  answers. In `clip_restore` connection loss is switched off: nothing is restored for
  a session that is gone. In `clip_safety` it is on, since a reconnect ends a
  reservation as well.
- `RemoteFiles`: the server answers every FileContents request while its
  connection lasts, which the code cannot enforce and has no time-out for; the
  runtime runs every task that can go on, and the main queue is served.
- `FramePipeline`: both threads run on and the 8 ms block fires. Nothing obliges
  the server to send another frame, which is what makes `frames_lost` a loss.
- `CommandQueue`: the main thread ends an event it began, which for a window that closes
  includes that it drops its handles. The session loop runs
  on; a waiting command is received in the end because `select!` polls its arms
  in random order (strong fairness). No fairness of `connect`: after TCP nothing
  limits its time, so `CloseEndsSession` excludes a `connect` that never returns.
- `OutputPath`: the runtime polls the loop and the writer. `PathSpec` assumes nothing
  of the server; `ServedSpec` adds a server that reads and finishes the
  reactivations it starts. Reading an arm that is ready cannot be put off for ever here, because
  the number of commands is bounded.
- `SessionLifecycle`: the main thread drains its queue, the sheet has a timer of
  its own, and the session thread goes on where it waits for nobody but the main
  thread. Nothing is assumed of the network or of the user.

## Where code and text disagree

One disagreement is a run, listed as a finding in `PROJECT.json`: `frames_lost`.
`delegate.rs:491-493` says that the trailing repaint will show the pixels of a
coalesced update; one that sets `frame_dirty` after the closing block has looked at
it is shown by nobody.

The others are properties of a module that says "does not hold"; TLC finds the
counterexample in seconds to minutes when they are put into the configuration
named here:

- `LocalClipboard!RejectedOfferIsRetried` (`clip_restore`'s constants with
  `Refusable = {"first"}`): a refused first offer is retried before the channel counts as
  ready, and `advertise_local_clipboard` (`session.rs:2390`) returns early; the test
  `rejected_local_clipboard_offer_is_retried` says it must be retried.
- `CommandQueue!NoKeyStuckOnHost` (`cmd_queue`): the release flag overtakes key
  presses queued in front of its marker (`session.rs:1654`), which then stay down;
  `view.rs:396-397` says that modifiers never get stuck on the host.
- `OutputPath!QuitIsBounded` (`out_served` with `SPECIFICATION PathSpec`): inside
  `reactivate` (`session.rs:2518`) nothing looks at commands or the flag, so a server that
  is silent there keeps a closed session; it holds under `ServedSpec`.
- `LocalClipboard!CtrlVOnlyAfterMatchingAccept` (`clip_safety`'s constants): a
  FormatListResponse has no correlation. An offer made while an older one is
  unanswered overwrites `in_flight` (`session.rs:287`), so the older answer
  confirms the newer offer and Ctrl+V is pressed early. `src/README.md:76-78`
  says the app waits for Windows to confirm the matching text.
- `LocalClipboard!NoDelayedPaste` (`clip_safety`'s constants): nobody looks at the command queue
  while `connect` is awaited, and `run_session` begins with whatever waits there, so a dictation
  given during the handshake is pasted on the new connection (`session.rs:1687`,
  `2176-2192`); the window lets it be given (`view.rs:310-317`). `session.rs:1498-1499`
  says that a delayed paste into a potentially different remote caret is never performed.
- `CommandQueue!KeepAliveResumes` (`cmd_queue`'s constants):
  `update_keys_down` (`session.rs:2588`) counts every auto-repeated key-down and
  one key-up, so the keep-alive stays suppressed after all keys are up;
  `session.rs:109-112` says it always wins the race against the time-out.
- `CommandQueue!TapNeverMerges` (with `Keys <- TwoKeys`): `PasteAccepted` sets
  `keys_down` to zero even when its paste is no longer current
  (`session.rs:1728`); `session.rs:1632-1633` says the tap can never merge with a
  held modifier.
- `CommandQueue!SessionMatchesWindow` (with `Sizes <- TwoSizes`): a resize handled online is not stored
  (`session.rs:2148`), so a reconnect asks for the size of the previous connect;
  `session.rs:1475-1476` wants the session to match the current window.
- `OutputPath!ReadsNeverStall` (under `PathSpec`): `emit` waits inside the loop that
  reads (`session.rs:2407`); `session.rs:1604-1605` says a blocked write can
  never stall reads. It holds under `ServedSpec`, see `out_served`.
- `SessionLifecycle!OnlyReachabilityRetried`: `connector_failure`
  (`session.rs:2910`) also lets undecodable answers and CredSSP failures that reject
  nothing be retried before the first connection; `src/README.md:163-165` says that
  only TCP reachability is. Rejected credentials are indeed never repeated
  (`RejectedOnlyOnce`).
- `SessionLifecycle!LogoffEndsTheSession`: with reconnecting on, `run` reconnects
  after a logoff too (`session.rs:1374`); `session.rs:73-74` calls it a normal end.
- `RemoteFiles` with `CopyRaces = TRUE`: a program that writes the pasteboard
  between the window's own write and its reading of `changeCount` (`window.rs:796`, `721`, `852`)
  has its copy taken for the window's own: it is never offered to Windows, and
  remote files replace it. `window.rs:165-166` says that a newer local copy wins.
- `Settings!NothingOverwritten` (`profiles`): the settings window saves its whole copy of
  the document (`settings.rs`, `save_document`) and with it undoes a pinned key, a
  window size or a password policy (`delegate.rs:409`) that a session wrote since.
  `settings.rs:12` says that Revert re-loads from disk; it takes what the window
  loaded earlier.
- `InputRouting!NoKeyStays` (`input`): `paste_invoked` (`view.rs:562`) expects a key-up of
  V that AppKit may omit; the next plain V then loses its own and stays down on the remote.
- `InputRouting!RemoteCommandsAlwaysMatch` (`input`): neither `set_reconnecting` nor
  `set_connected` (`window.rs:599-631`) lets go of the keys, and the session begins with an empty
  `input_db` (`session.rs:1605`). A Command key held over a reconnect is down for the
  window and up on the remote, and a shortcut made with it arrives as a letter.
- `InputRouting!ShortcutKeepsCommand` (`input`): after a swallowed Command+V the
  Command key stays swallowed while it is held, so a following Command+C arrives as the letter c.

What the properties excuse, because the code does not provide for it:

- A FileContents answer that finds the signal queue full is dropped, and the
  fetch hangs until the next list (`PreparationEnds` excuses `dropped`); so does the window when a list
  names nothing at the top (`NothingNamed`). Files finished while their window
  closes stay in the cache (`NoOrphanCache`).
- A flush that leaves its surface (`strayed` in `GfxCompositor`): nothing is claimed of what it reads.
- A dictation given while `connect` is awaited (`NoLatePaste` is about those handled or given before
  the last connection was lost), and Command keys that a reconnect let go of (`RemoteCommandsMatch`).
- A request of Windows that crosses a new offer is answered from the new selection. What
  `ServedAsAsked` says is that the selection is looked up when the request is handled and not when
  its turn to be read comes.
- A save that fails after the rename reports an error although it took place;
  the directory's sync is its last step (`MemoryMatchesDisk`). A power cut leaves the temporary file.
- Edits the user discards for an operation that is then cancelled or fails stay in the form
  unmarked, and the next Save writes them (`kept` in `Settings`).
- A save of a window that loaded its copy before a session wrote (`SessionFieldsStay`).
- `store_password` deletes before it sets, so a failure loses the old password;
  `delete_password` leaves an entry under the earlier service name, which the
  next `load_password` brings back (`secrets.rs:26`, `69`). After a failure `SecretsMatchPolicy` says
  nothing: document and key chain are two stores that are written one after the other. It
  counts current entries only.

## What is proved

TLAPS proves the following for every value of the constants that satisfies the
named assumptions of the modules (`ClipboardAssumption`, `QueueAssumption`,
`FramebufferAssumption`, `NoneAssumption`, `LimitsAssumption`, `CapsAssumption`,
`BoundsAssumption`, `CommandAssumption`, `DesktopAssumption`, `PipelineAssumption`,
`PresentationAssumption`, `KeysAssumption`, `GfxAssumption`,
`FetchAssumption`, `StoreAssumption`, `FileAssumption`, `SettingsAssumption`, `FormAssumption`).

- **`LocalClipboardProofs`**: types, `DeferredNotStranded`,
  `CtrlVFetchesDictation`, `NoLatePaste`, and the refinement
  `Spec => PromiseKept`. The invariant adds to the types `ClipInv`, which orders
  the generations in the state record (a pending or serving paste is never ahead
  of the current generation, a deferred item implies a reservation), `DictatedInv`
  (a pending paste was handled on this connection and not given before the last one was
  lost) and `LinkInv` (no signals while disconnected, and no command from before the loss once
  the next handshake begins). One lemma per method of `ClipboardState` says what it
  preserves and to which step of `PasteReservation` it maps; one lemma per action
  lifts this to the whole state.
- **`SessionLifecycleProofs`**: types, `TrustComesFromTheUser`,
  `PasswordHeldWhenNeeded`, `RejectedOnlyOnce`, `AttemptsBounded`,
  `AnnouncedAttemptIsNext` and `WindowShowsTheTruth`. `CountInv` relates the code's counter `failures` to the
  ghost count of attempts, which run apart by one while an outcome is being judged.
  `PasswordInv` says that a session whose password is wiped is on its way to its
  end. `TrustInv` follows a key from the question to the answer, to the session and
  through the main queue to the profile; it needs that at most one question is
  in the queue, and only while the thread waits for it. `TruthInv` says what an open
  window will show once its queue is delivered (`Settles`: the last event that draws
  decides), that the end of a thread under an open window is in the queue, and that a
  shutdown is only ever asked for by a window that closes. `QuestionsAreNotLost` and
  `WindowIsNotForgotten` are the safety halves of the liveness properties: a thread that
  waits for the user has its answer, its question in the queue or an open sign-in
  that nothing queued closes, and under a thread that is gone the window's end,
  removal or timer is on its way. They rest on the end being announced by none
  but a thread that stops (`AnswerInv`).
- **`CommandQueueProofs`**: types, `ReleaseNotSwallowed` and
  `AcceptedValueIsDelivered`, for every capacity.
  `ReleaseInv` adds that nothing is down on a host that is not connected, which
  is why draining a release marker offline may take its flag, and that the keys a
  release has to reach are still down. `SlotInv` says that a slot is marked as queued
  exactly while its one marker is on its way, in the queue or in the main thread's hands, never
  both, and that a marker to be undone was refused. `NoWakeUpLost` says why a full queue
  does no harm to a flag: whatever kept its marker out wakes the session as well, which
  needs that the flag is raised before the marker is sent (`MarkerFollows`).
  `CloseIsNotForgotten` keeps the wish to close in its flag until the session ends or could not
  send it; from then on the window's last step, or the end of the queue, is what ends it.
  The same module proves types and
  `NoFrameSkipped` of `OutputPath`, the other side of the same loop, for every capacity
  (`PathTypeCorrect`, `FramesAreContiguous`).
- **`FramePipelineProofs`**: types, `MainQueueNotFlooded` and
  `MissedUpdateIsMarked`, for every set of sizes and surfaces and every amount of other work. An open window has
  exactly one end ahead of it, in the callback, with the timer or in the main
  queue (`WindowEnds`), and its paint comes before (`PaintsInOrder`); a stale screen
  is about to be painted, or its update is noted somewhere (`StaleIsNoted`).
  The same module proves types, `LogCoversStale` and `SyncedShowsPixels` of
  `Framebuffer`, for every set of sizes, every pool and every length of the log
  (`BufferTypeCorrect`, `LogIsComplete`, `PresentIsExact`). That
  invariant needs that every log entry is in the past (`LogIsPast`) and that a
  buffer never synced has no claim to the log (`NeverSized`). That two cells never
  share an offset is `OffsetInjective`, the arithmetic behind strides.
  `ScreenComposes` shows that `Presentation` implements both: each of its steps is a step of
  `FramePipeline` or a stutter, and the same for `Framebuffer`. So what is
  proved of either holds of the two together, and one more invariant joins them: a fresh
  screen is a buffer synced to the current generation and shown at the current
  size (`FreshIsShown`). `QuietScreenIsExact` follows (`ScreenIsRight`): at rest every
  pixel on the screen is the framebuffer's unless `frame_dirty` marks a missed update.
- **`InputRoutingProofs`**: types, `RemoteCommandsMatch`, `NothingStaysDown` and the
  action property `ShortcutsArrive`, for every set of keys. The invariant says of the state record what is on the
  remote (`Matches`, but for the keys a reconnect let go of, `lost`), that a focused window believes no modifier down that is not
  (`HeldInv`), and that a key on the remote went down by a key-down of its own or
  has lost its key-up (`KeysInv`). One lemma per method of `InputRoutingState`.
  For shortcuts it needs what the state knows of a paste (`PasteInv`): an active one
  still waits for the key-up of V and for a swallowed Command key (`Pending`), which is
  why the release of either ends it; with V up it is over, unless the window
  could not see its end; and while nothing but V was pressed since Command+V, all Command keys
  that are down are swallowed and the paste goes on (`Swallowed`), so a V that
  repeats submits nothing.
- **`SettingsProofs`**: `Inv` (types, the document on disk and in the window),
  `SecretsMatchPolicy`, `CleanFormShowsDocument` and the action property
  `SessionFieldsStay`, for every set of entries and any number of connections, saves,
  writes of sessions and failures. `Inv` is not inductive. `StoreInv` says of the file
  that each document a power cut may leave is whole, with unique identifiers that
  were given out (`RanSteps` and `SaveOutcome` are the steps of `save_document`
  one by one). `WindowOK` adds what a dialog relies on when it returns: that the
  operation behind it began with a clean form. `AgreeInv` is the reason why a save
  does not take back what a session wrote: unless a session wrote behind the window, the
  window's document and the one on disk agree on the fields sessions write, even
  after a save that failed past the rename, when they disagree on the others: on these
  they agree while nothing failed or no power cut can bring an older document back.
  `CleanFormIsTruthful` needs of `Cleaned` that nothing is left to clean in what was cleaned
  (`FormAssumption`).
  `KeyInv` is the policy for the document on disk; that it says nothing once the
  window has overwritten a change is `overwrote`.
- **`RemoteFilesProofs`**: `Inv` (`OwnersAreRight`) and the refinement of `FileOffer`
  (`FilesAreOfferedWhole`), for every set of selections that can be copied, every chunk
  size, queue and number of permits, and all distributions of copies and lost
  connections. The first invariant is `Owned`: what is asked, queued or read names a
  copy or request that exists (`ServerOK`, `SignalsOK`, `ServingOK`); a job has exactly
  one request open, and its file is as long as what arrived (`JobOK`); a
  directory of the cache has one owner, the job, one event on its way, or the pasteboard
  (`CacheOK`, which is why a job that fails may delete its directory and a published
  one stays); and what the window wrote it has acknowledged, or is about to
  (`BoardOK`). The second is `Filled`: all files before the one at work are complete,
  that one is a prefix of its entry, every answer under the id of the open
  request is an answer to it, and what waits to be published is whole. Its lemmas
  are about byte sequences: what is received in pieces is the whole
  (`BytesJoin`, `WrittenFills`). Then each action is mapped to one of
  `FileOffer` or to none (`OfferStep`).

  Two hypotheses. `~CopyRaces`: the user does not copy in the moment between a write of the
  pasteboard and the reading of its change count; with it the code fails (see above).
  `[]IdIsFresh`: a stream id does not come round while its last use is unanswered,
  since an answer is recognised by its id alone. `FreshUntilTheLast` shows that this
  holds while fewer than 2^32 - 1 requests were sent on any one connection, which
  gives `FilesAreOfferedWholeAtFirst`. `Inv` does not need it.

  Three results are about what is under way. `NoRequestForgotten`: while its
  connection lasts a request of Windows is answered, or has a task, or its answer is in
  the queue. It needs that no request belongs to a connection still to come (`Lasting`)
  and that each is in one place only (`AnsweredOnce`), from which also follows that an
  answer is never replaced (`AnswersAreFinal`). `PreparationIsNotStuck`: a fetch at work
  has its request at the server or the answer in the queue, unless a signal was
  dropped, and a place kept free on the pasteboard has a job or an event on its
  way that gives it back, unless the list named nothing: these are the two exceptions
  `PreparationEnds` has as well. All three assume `~CopyRaces` since they rest on `Owned`.

- **`GfxCompositorProofs`**: `Inv` (`SurfacesAreShown`), `ResetsKeepPictures` and
  `FlushesAreSound`, for surfaces, screens, bitmaps and tiles of every size and for
  commands of any number of rectangles and points (`MaxList` is any number). Neither
  `ScreenShowsSurfaces` nor `MappedIsPainted` is inductive. `Pixels` says where the
  former only looks: a surface that painted a pixel is still mapped and lies under
  it, since off the surface the linear memory has a pixel of some other row.
  `RetiredAsSeen` says that what a surface held when it was taken away is what is
  retired. The lemmas are about linear memory: a row and a column have one place
  (`Place`, `Position`), and reads, writes and fills do to offsets what they
  should do to cells (`ReadEffect`, `WriteEffect`, `FillEffect`); from them follows that
  overlapping copies are exact (`CopyIsExact`). A drawing callback
  leaves some cells of its surface stale until it has flushed them: `Good` says of an output under
  construction that everything but those is right, a write adds to them
  (`WriteMakesStale`), a flush takes its region from them (`FlushEffect`), and at the end none
  is left. Mappings, fills and codecs flush inside their surface (`ClampedStep`);
  what they draw is flushed because the region is around all of it (`BoundsEffect`).
  A loop over rectangles or points is a recursive function of the number handled;
  what holds of every round is proved from the least round of which it
  would not hold (`LeastNat`).

Only model-checked: the liveness properties, since fairness is out of the prover's
reach. For those of the session, the command queue and remote files, what is proved is that
at no moment the thing waited for is lost (`QuestionsAreNotLost`, `WindowIsNotForgotten`,
`NoWakeUpLost`, `CloseIsNotForgotten`, `NoRequestForgotten`, `PreparationIsNotStuck`);
that it then happens is what the runs check. Every safety invariant, action property and refinement of a passing run has
a theorem.

## Plan

Done, in this order, the most important behaviour first: `ClipboardState`,
`PasteReservation`, `LocalClipboard`, `Framebuffer`, `FramePipeline`, `Presentation`,
`CommandQueue`, `OutputPath`, `SessionLifecycle`; then `FileListing`, `FileOffer`,
`RemoteFiles`, `GfxCompositor`, `ProfileStore`, `Settings`, `InputRouting`; with eight proof
modules.

To come:

1. The composition of `InputRouting` with `CommandQueue`: what the window sends is
   what arrives, as long as the queue has room.
2. The connector's sequence in `src/vendor/ironrdp-connector`.

## Not modelled, and why

Pixel formats, codecs, encodings and PDU layouts: data, not control. Names,
paths, TOML and JSON. AppKit layout, drawing and menus. Name resolution. The
contents of files and texts. Clipboard modes that disallow a direction: they
remove actions and add none. TLS and CredSSP themselves. Timing beyond "a
timer fires in the end".

Audio (`audio.rs`): the session thread sends blocks into a bounded channel and drops those
that do not fit, the callback of the audio device empties it and never waits; the
two share nothing else. What remains is resampling and a handshake of one answer
per request. Names that occur twice at the top of a remote copy, and the bytes a
range of a local file gives. Resizing the framebuffer in a reactivation happens in
`Framebuffer`, not in `GfxCompositor`. Coordinates and pointer shapes.
