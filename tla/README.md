# Formal models of the KNoT thing

TLA+ models, TLC runs and TLAPS proofs for the firmware in this repository: a
thing that registers with a KNoT cloud over a TCP connection on an OpenThread
mesh, sends the schemas of its data items, and from then on pushes values and
obeys commands. Paths below are relative to `src/`.

## 1. The system

The main application (`core/src`) has two threads of the same, lowest priority
that take turns, joined by two pipes of 128 bytes and a semaphore; OpenThread,
timers and the reset button run above them. A second image, the setup
application (`setup/src`), boots first: it starts the main application, or lets
a phone set the thing up over Bluetooth LE.

| Part | State | Operations | What is hard about it |
|---|---|---|---|
| state machine, `sm.c` | state, awaited response, timer flags, uuid/token/device id, schema and polling index | `sm_start`, `sm_stop`, `sm_run` and one handler per state, `timer_expired` | answers late, lost, repeated or wrong; timeouts that start the schema pass anew; three flash writes in a row |
| data proxy, `proxy.c` | a pool of items: events, last value, pending mark, limit marks, last period | register, configure, read, write, force, confirm | what was sent, what was confirmed and what the variable holds drift apart; 32-bit time |
| protocol thread, `proto.c` | last connection state | one turn: `loop()`, reset, connection check, read pipe, `sm_run`, write pipe | sees the connection only as a level, once in a turn |
| network thread, `net.c`, `tcp6.c` | `connected`, `conn_sem`, the socket | connect and retry, receive, send, close; `ot_disconn` from OpenThread | flag and semaphore written in two steps; sockets given up; stale errno |
| credential storage, `storage.c`, `clear.c` | uuid, token, devid, peer address in flash | write, read, reset; `clear_factory` | no transaction: power cuts and failures between keys |
| OpenThread configuration, `ot_config.c` | credentials, role | load, set, start, stop, role callback | the callback preempts both threads |
| peripherals, `peripheral.c` | reset flag, LED period | reset button timer, LED | interrupt against thread |
| message creation, `msg.c` | none | one function per message | byte layout |
| boot, `main.c` | none | starts storage, proto, net | failing steps |
| setup application, `setup/src` | peer address, reset signal | Bluetooth services, choice of the application to start | long writes in fragments, half-done setups |

How they interact: `proto_thread` calls `loop()` of the application, then looks
at the reset flags and at `conn_sem`; a rise calls `sm_start`, a fall `sm_stop`.
While connected it reads the whole incoming pipe, hands it to `sm_run`, which
calls the proxy for values and the storage for credentials, and writes what
`sm_run` returns to the outgoing pipe. `net_thread` connects, gives the
semaphore, and in each turn receives into one pipe and sends from the other.

What makes the parts correct:

* state machine: a wait has a timeout; a step of the handshake needs an answer
  in time; schemas are acknowledged in order and all of them before anything is
  saved; what is saved is of one registration; who is online can authenticate
  again after a power cut; the handshake ends.
* proxy: what is at rest is known to the cloud; only changes, crossings and
  periods are sent, and all of them; the period survives the wrap of the clock.
* setup and boot: the main application runs on complete settings and a whole
  address, as far as the boot can tell; the address in flash is whole;
  OpenThread never starts on what it stored of another network; the button, the
  reset command and the advertising always lead on.
* threads: the semaphore means a connection; every connection has its own
  session, which takes no message of an earlier one; a connection found lost is
  replaced while there are sockets; the outgoing pipe has room.

`PROJECT.json` lists the hazards of the code at their lines with the properties
that watch them.

## 2. The modules

| Module | Stands for | Role |
|---|---|---|
| `Sm` | `sm.c` as driven by `proto.c`, with the three keys of `storage.c` and the reset of `clear.c` | component |
| `MCSm` | - | values for TLC |
| `SmProofs` | - | theorems about `Sm` |
| `Proxy` | `proxy.c`, with its callers in `sm.c` and `knot.h` | component |
| `MCProxy` | - | applications for TLC: which items with which events |
| `Net` | `net.c`, `tcp6.c`, and the turns of `proto.c` | component; its runs give the constants directly |
| `Account` | what `Sm` and its flash promise: one registration at a time, whole | abstract specification, implemented by `Sm` |
| `SmTimer` | `sm_run` line by line against `timer_expired` | detailed specification; every step is shown to be one of `Sm` |
| `Telemetry` | `Sm`, the due values of `Proxy` and an ordered connection with a cloud | composition |
| `Setup` | `setup/src`: `bt_srv.c`, `gatt_inet6.c`, `gatt_ctrl.c`, the loop of `main.c` | component |
| `Button` | the reset button of `core/src/peripheral.c` | component |
| `Device` | both images with `Setup` and `Button`: `main.c` twice, `ot_config.c`, `net_start`, `clear.c` | composition |
| `ProxyProofs`, `NetProofs`, `SmTimerProofs`, `TelemetryProofs`, `DeviceProofs` | - | theorems about the module each is named after |

In every component module the operators named `slip_...`, each with a comment,
are wrong versions of the definition that follows them, and no action uses
them. With a slip in place of its definition a run must find a
property violated; which property is named in `PROJECT.json` under `mutants`.

### Sm

One call of `sm_run` is one step, with the message it was given and the set
`ready` of items for which `proxy_read` would return a value. `finish` is the
part of `sm_run` around the switch: a matching answer stops the timer before
the handler, a change of state waits for nothing, and a response to wait for
starts the timer if it does not run. The handlers are disjuncts guarded by
`state`; each of the code's early returns is a disjunct (`register_send`,
`register_rejected`, `register_accepted`, ...). The conditions of `sm_run` that
drop a message are `ignored`.

`timer_expired` is a step between two calls. `sm_start` and `sm_stop` are the
edges of `check_connection`. `factory_reset` deletes any prefix of the keys,
because `storage_reset` returns at the first failing key and the power may go
in between; the erase of the partition that follows in `clear_factory` is the
prefix of all three. A deleted key is one that is not there: that the settings
might call back for it with no value is in `Device` for the address, not here.
`power_cut_in_save` is a power cut between two of the three `storage_write`
calls, and `credentials_saved` has a failing write at every key. A single key
is written or deleted whole: the settings subsystem below promises that.

The network is arbitrary: at every call any message may be at hand, of any
type, result and registration. Histories, never read by an action: `acked`
(ids acknowledged in this pass) and `torn` (a wipe was cut off before DEVID and
nothing complete was saved since).

The schema walk and the polling are written by their result: the next
registered id (`first_from`), the ready id nearest after the last one polled
(`distance`). An application registers at least one item: with none `last_id`
is 0xff and both walks leave the pool.

### Proxy

An item's slot is a function per field. A value is a small number whatever the
type; `val_i` is what the integer member of the union shows after a float was
stored. `set_proxy_value` is the four cases of the switch in one, limits being
refused for BOOL and RAW items at configuration. `poll` is a read by
`process_event`, `poll_request` one by a command, `proxy_write` a write from
the cloud. `tick` advances the uptime; `Wrap` is the 2^32 of the code's `u32_t`
and `Horizon` bounds the run.

The state machine has one push waiting at a time (`awaiting`), which is
confirmed or fails in any order with commands and changes of the variable.
Histories: `known` is what the cloud has for certain, `inflight` the value of
the pending push, `unsure` whether a poll's answer was lost or a write refused
since the last push, `seen` the value last read, `returned` whether that read
handed it on, `stamp` the full time of the last period. The cloud is taken to
know 0 for an item never sent, as the cleared slot says.

### Net

`npc` is where the network thread is and `cpu` whose turn it is. Threads of one
priority run until they yield or block; `loop()` "must NOT be blocking"
(`core/src/knot.h:20`), so the protocol thread has exactly one turn
after each turn of the network thread, and any number while that sleeps or
connects (`Blocked`). OpenThread's callback, `role_lost`, comes between any two
steps. The constant `SettingsOt` is the build option CONFIG_SETTINGS_OT, set for
every board (`core/CMakeLists.txt:4`) and in every run; without it there is no
mesh to wait for and no callback. The history `raced` remembers that a role was
lost between the flag and the semaphore (`net.c:102`), until the protocol thread
has seen the semaphore taken again.

A message in a pipe is the number of the connection it came over or of the
session that made it. `Put` loses a message that does not fit. `sm_runs`
reads the whole pipe and `sm_run` sees its first message, so the others
are lost. What `sm_run` does is left open, except what `Sm` shows: the first
call after `sm_start` sends a request and looks at no message
(`register_send` and `auth_send` are enabled by `xpt_opcode = 0xff` alone).

`errno` is kept because `receive` acts on it where `zsock_recv` has not set it.
Which errno a failing `zsock_send` or read leaves is the network stack's choice.

### Account

`account` is the registration that the flash holds and `online` whether the
thing runs with it. `Sm.Held` is the refinement mapping: without DEVID, the key
that is written last, nothing is held; with DEVID the uuid if the token is its
own, and `Broken` otherwise, which only a wipe that was cut off can leave.
`KeepsAccount` says that `Sm` implements it: of all the steps that touch a key
(a save that fails or is cut off after any key, a wipe likewise, a reboot) each
is `Register`, `Wipe`, `CutWipe` or nothing seen from outside. That `Broken` can
be gone online with is the finding of `sm_torn_wipe`.

### SmTimer

Here a registered thing runs `sm_run` in pieces: the test of `to_on`,
`k_timer_stop` and the two flags, the handler with its one look at `to_xpr`, the
second test of `to_on`, `k_timer_start` and the two flags. `interrupt` falls
between any two of them, except between the start of a timer and the last of the
flags: a timer of three seconds does not fire in the call that started it
(`fresh`). That is an assumption about the pace of the thread; without it both
properties of the run fail, which is the hazard of `sm.c:608`. `before` is the
machine as the call found it, changed by an interrupt that counts as earlier;
with it for the variables of `Sm` while a call is under way, every step is a
step of `Sm` or nothing. This is what allows `Sm` to have calls as single steps.
The branch at the tail that stops the timer is reached with `to_on` set by no
path, as a command leaves the wait alone and is always answered.

### Telemetry

`up` and `down` are the messages under way on a TCP connection: in order, none
lost until it drops. `turn` reads the first k messages and handles one, as
`Net` has it. The cloud accepts or refuses each push, including the
PUSH_DATA_REQ by which a poll is answered, and polls and writes at will while
the thing is online. `marks` and `ready` come from `Proxy` (`P!due`); no
application callback fails here, which `Proxy` has. The flag `own` of a message
is history: it is the latest push or the answer to it. `misled` collects the
items that an answer to something else confirmed, `told` those last reported by
the answer to a poll or a write, which is sent once and may be lost.

### Setup, Button, Device

In `Setup` the main loop is two steps, the look at `active_conn` and the
advertising, against the callbacks of the Bluetooth thread, which come one at a
time. `link` is the connection as the controller has it, of which there is one
(CONFIG_BT_MAX_CONN), and `active_conn` what the callbacks say of it. An address
of one or two pieces is written plainly, or prepared piece by piece, in any
order, with cancellation, a full queue and disconnections in between, and
executed. The OpenThread settings are one value: complete, with a first wrong one
of some length (`Partial`), or of none (`Empty`), which `ot_config_load` reports
as success. A deleted setting is taken to be read with an error; a deleted
address as one never written or as one without a value (`Deleted`), which
`storage.c:91` counts as set.

In `Button` an edge is an interrupt that is served some time later, before the
next tick, and reads the level as it is then.

`Device` boots, selects an application, starts the network, wipes the flash in
the four steps of `clear_factory`, and loses power at any step. Every reading,
erasure and start may fail. The calls that give OpenThread its settings succeed
all or fail as one; in the setup application the pin is taken as released until
the next boot. `stale` and `uneven` are histories: an erasure failed, an address
was written out of order.

## 3. The runs

| Run | Question | Result |
|---|---|---|
| `sm` | Does the state machine keep its waits timed, its flash whole, its schemas in order, its handshake on answers in time, does the handshake end, and is all of it an `Account`? | holds; the end of the handshake under the fairness below |
| `sm_torn_wipe` | Are the credentials it authenticates with of one registration (`sm.c:434`)? | no: a wipe cut off before DEVID, then a save cut off after UUID |
| `sm_timer` | Does an expiry inside of `sm_run` do what one before the call does, or none, and is no wait left without its timer? | holds, with calls shorter than three seconds |
| `proxy_change` | Is an item at rest known to the cloud, is only a change sent, and does a change that stays reach the cloud? | holds; the last under the fairness below |
| `proxy_events` | Is the period right across the wrap, is each crossing of a limit sent, and sent once, and is `last_id` the largest? | holds |
| `proxy_float` | Is a FLOAT sent only when it changed (`proxy.c:456`)? | no: compared through the integer member |
| `telemetry_misled` | Is an item sent until its push is answered (`proxy.c:72`)? | no: the late answer to an earlier push, of this item or another, ends it |
| `telemetry` | Which answers confirm which push, is a confirmed value the cloud's, and does a change reach the cloud? | an answer can be taken for another's only after a timeout or a poll on the same connection; else the cloud knows what is at rest; a change that no such answer confirmed arrives under the fairness below |
| `net_ot` | With OpenThread interrupting anywhere: do flag, semaphore, session and connection agree, does a session take a message of an earlier connection, is there room in the pipe, is a connection followed by a session and a loss by a connection? | holds, but for the race of `net_ot_race`, an end of the stream that is not noticed (`net_eof`), and sockets used up; the last two under the fairness below |
| `net_ot_race` | Does the semaphore mean a connection (`proto.c:49`)? | no: the callback between the flag and the semaphore |
| `device` | Does the main application run on an address and settings that are whole, is the address that is stored whole, is each network joined afresh, and do button, reset command and advertising lead on? | holds, with the exceptions that `MainIsSetUp`, `AddressWhole` and `JoinsAfresh` name; the last three under the fairness below |
| `net_eof` | Is the end of the stream acted on (`tcp6.c:62`)? | no: depends on an older errno |

Met while modelling and not run: a poll of id CONFIG_KNOT_THING_DATA_MAX passes
the test of `sm.c:346` and reads one slot past the pool; a poll of the item whose
push is pending clears its mark (`proxy.c:378`), so that the value is not sent
again if both messages are lost (the exceptions `unsure` and `told`); each lost
OpenThread role abandons a socket that `ot_disconn` does not close (`net.c:72`),
until none of CONFIG_NET_MAX_CONTEXTS is left, and the thing is not connected
again (the exception `Exhausted` of `RetryConnects`); `ot_config_load` returns a
length when a setting has the wrong one, which `main` does not take for an error
(`core/src/net.c:206`), and which is 0, success for the setup application too
(`setup/src/main.c:68`), when the setting has no length (the exception `Empty` of
`MainIsSetUp`); an address whose write was cut off, or that a wipe deleted, can
pass for one (`uneven`, `Deleted`).

### Bounds

* `Sm`: ids 0, 1 and 3 of a pool of four (two fragments before the last, so
  that the pass can fail behind an id already acknowledged, and a gap), two
  registrations and two device ids (a mixed pair needs two), every message with
  every result, every set of ready items. No counter needs a bound.
* `Proxy`: one item with the events in question, a second one that only takes a
  turn, an id the pool has no slot for; three or four values (below, within,
  above two limits). `Wrap = 4`, `Horizon = 6` in `proxy_events`: the clock wraps
  with a period of two begun before and after it.
* `Net`: `MaxConn = 3` connections, the last of which is not lost, so that two
  losses of every kind follow each other; `MaxSockets = 2` of the board's ten,
  so that lost roles use them up; `Room = 2` messages in a pipe, so that one
  can wait and a third be dropped.

* `SmTimer`: one item, one registration; every message but UNREG_REQ, whose
  effect is the reset of `Sm`. No counter needs a bound.
* `Telemetry`: two items of two values, which is what it takes to confirm the
  one by the other's answer; `InFlight = 2` messages, so that a late answer
  and the next push are under way together; `Demands = 1` poll or write, after
  which an answer too many is on its way for good. Commands without end, which
  can keep a push from being repeated (`sm.c:607`), are beyond this bound and not
  covered; two commands already make 1.3 million states. `telemetry_misled` needs
  none.
* `Device`: a short address and one of two fragments, two networks, settings
  incomplete in either way,
  `PrepareCount = 2` fragments in the queue, so that it fills; `HoldTicks = 2`,
  so that a release can come in the middle.

### Fairness

* `Sm.FairSpec`: the protocol thread runs (weak fairness of `sm_start`,
  of a call with no message, of the reset); an armed kernel timer expires (weak).
  Each request that is made again and again, the schema of one id being another
  than that of the next, is answered in time at last (strong) and the flash then
  takes the keys: without this nothing the thing can do ends the handshake, as
  every request may be lost. Fairness to each opcode would not be enough: a pass
  that times out at the second fragment begins again with the first (`sm.c:187`),
  and the link would be fair by answering that one.
* `Proxy.FairSpec`: `process_event` comes round to each item and some push of an
  item is answered at last (strong), a push ends (weak).
* `Net.FairSpec`: both threads are scheduled (weak), sleeps and `zsock_connect`
  return (strong fairness of the turn that hands over), the peer can be reached
  at last and a dead socket reports EBADF at last (strong). Nothing is assumed
  about errno at the end of a stream.
* `Telemetry.LinkFairSpec`: the protocol thread reads what has come and the
  timer expires (weak); the cloud takes what arrives (weak), and answers in time
  and accepts each item again and again (strong). That a connection lasts is a
  premise of the property, not of the specification.
* `Device.FairSpec`: the thread of the image at hand runs and the power comes
  back (weak), a boot is not cut off for ever (strong), callbacks, interrupts and
  ticks come (weak), `bt_le_adv_start` succeeds at last when no connection is up
  (strong). Nothing obliges a phone or a hand to do anything.

## 4. What is proved

Every invariant and every action property that a passing run checks is proved
for all values of the constants, and so are the two refinements. Each proof
module follows one scheme: an inductive invariant, a lemma for each action that
it survives, `InitInv`, `NextInv` and `Invariance` (with a prefix where two
modules meet), and from these the theorems below. All inductive invariants were
checked by TLC on the runs' instances before they were proved.

| Module | Theorem | States |
|---|---|---|
| `SmProofs` | `TypeCorrect`, `WaitsAreTimed`, `PairsAreStored`, `OnlineSurvives`, `SchemasInOrder` | the invariants of the run `sm` |
| | `SavesFollowSchemas`, `AdvancesInTime` | its action properties |
| | `AccountKept` | `Sm` implements `Account` |
| `SmTimerProofs` | `RestTimed` | the invariant of `sm_timer` |
| | `CallsRefineSm` | `SmTimer` implements `Sm` |
| `ProxyProofs` | `TypeCorrect`, `WalksReachAll`, `NothingLostInSilence`, `PeriodKept` | the invariants of `proxy_change` and `proxy_events` |
| | `UpdatesOnly`, `CrossingsOnly`, `CrossingsSent` | their action properties |
| `NetProofs` | `TypeCorrect`, `SemaphoreTellsUnlessRaced`, `NoConnectionMissed`, `NothingStaleTaken`, `MessageFits` | the invariants of `net_ot` |
| `TelemetryProofs` | `LinkTyped`, `RestKnown`, `AnswersBelong` | the invariants and the action property of `telemetry` |
| `DeviceProofs` | `TypeCorrect`, `WholeAddress`, `SetUpBeforeMain`, `FreshNetwork`, `ResetWasHeld` | the invariants and action properties of `device` |

### Assumptions

The constants are assumed to be what the modules' ASSUMEs say: types and bounds,
and in `Sm` that ids lie in the pool and `LastId` is the largest of them. In
`Telemetry` there is besides a registration and a device id, as the thing is
registered from the start. One theorem has a hypothesis of its own, because
without it a run has the counterexample: `UpdatesOnly`, that no item is a FLOAT
(`proxy_float`). The theorems about `Net` are about every build. Their
statements except the states after the race of `net_ot_race` (`raced`), but for
`NothingStaleTaken`, which needs no exception.

The proofs are about the models: the pace assumed in `SmTimer` (no expiry in the
call that started the timer) and in `Proxy` (every item is read once in a wrap
of the clock) is in what they conclude.

### Sm

The invariants are not inductive alone. `IInv` adds what they lean on:

* `WaitInv`: the kernel timer is armed exactly while a session has `to_on`
  set, `to_on` excludes a recorded expiry, and the awaited response is one that
  the state expects. Without it a handler could be entered with an answer to
  something else.
* `SchemaInv`: during the pass exactly the ids below the one in flight are
  acknowledged, and the end is awaited exactly for the last id. So the save
  finds everything acknowledged.
* `SessionInv`: an authenticating or online session runs with what the flash
  holds; a registering one has a device id and, unless a wipe was cut off, no
  DEVID in flash; in the schema pass uuid and token are of one registration. So a
  save, complete or cut short, never leaves DEVID beside a mixed pair.
  And a session that registers found no complete set of keys, so that a save
  never replaces an account.
* `ShownInv`: the connected blink is shown by an online session only.

`AccountKept` rests on it: `SaveTakesAccount` shows what any prefix of a save
makes of `Held`, and `StepOfAccount` that each action, under `IInv`, is a step of
`Account` or leaves its two variables alone. `sm_run` is split by handler, and
`FinishKeepsWait` and `AnswerInTime` carry what all handlers share.

### SmTimer

`TimerIInv` ties `before`, the machine as the call found it, to the variables at
each place of the call. Up to the handler nothing has changed but the flags
(`FoundInv`, `FlagInv`), and while the answer is taken the wait is being ended
(`TakeInv`). After it the machine is one of the seven `outcome`s of `Handled`. The
timer is started only where none runs (`StartInv`). The case that looks dangerous,
a call under a wait that is not its answer, is `CommandUnderWait`: it handled a
command, so it neither stops nor starts the timer. `CallsRefineSm` then goes line
by line: lines in the middle of a call show nothing (`MiddleStutters`), one that
returns is the whole call in `Sm` (`ReturnSimulates`), and an expiry inside of it
is one that came before it (`InterruptSimulates`).

### Proxy

* `AnswerInv`: while a push is awaited, what the cloud will know once it is
  confirmed is the value the item shows, unless something newer was told about
  it. `QuietIsKnown` says nothing of an item that is marked, and would be lost
  when the confirmation takes the mark away.
* `StampInv`: `last_timeout` is the time of the last period cut to 32 bits, and
  that time has passed. With it `CutDifference` shows that the difference of the
  cut times is the difference of the times, for any wrap.
* `LimitInv`: the mark of a limit says whether the value last read was beyond
  it. A crossing is therefore seen as one whoever read the value before. The
  crossing properties speak of `beyond`, the set of limits a value exceeds, as an
  item may have a lower limit above the upper one and exceed both.
* `SetupInv`: nothing is read before `setup()` returns, so that configuring an
  item again leaves no mark of limits it had before.

### Net

* `PipeInv`: what is in the pipe during a session came over the connection the
  session began on or a later one. It holds because the turn that begins a
  session reads the whole pipe and drops what it finds.
* `SocketInv`: the socket of the variable is one of those counted.
* `TurnInv`: where the network thread may be with the flag set, and that
  between flag and semaphore a lost role is remembered in `raced` (`PlaceInv`),
  that a session outlives its semaphore only to the end of the turn
  (`StopInv`), and that the session is the connection's at every moment and not
  only when it is looked at (`SessionInv`).

### Telemetry

The machine is in `IInv` of `SmProofs`: each step here is one of `Sm`'s, with a
message that the cloud has sent. On top of it:

* `OwnPushInv`: the push last made for the item polled last carries its value,
  and nothing that follows it in the stream carries another, unless the cloud
  polled or wrote the item meanwhile.
* `OwnAnswerInv`: when its acceptance is under way the cloud already has the
  value, and nothing is under way that could replace it. So the confirmation, when
  it is read, puts to rest an item that the cloud knows.
* `MatchInv`: while nothing disturbed the connection there is at most one push or
  one answer under way, it is the one waited for, and no expiry is recorded.

`TurnKeeps` splits a turn into those that push the next item and those that do
not; the lemmas `RestOf`, `OlderUp`, `OlderDown` and `AddsOne` say what a turn
makes of the two streams.

### Device

* `WriteInv` and `QueueInv`: while the pieces of one address are being written,
  either both are left or the second with the first in the buffer. Every other
  order of pieces is counted as `uneven`.
* `FreshInv`: what OpenThread has stored is of the network in the settings, or
  its erasure failed or was cut off, or the settings are not complete, or they
  were just written and `ot_updated` has yet to erase. The static flag of
  `ot_updated` is set only after an erasure of this boot.
* `AppInv`: what the flags, the threads and the button are while the other image
  runs, as both are one machine.
* `HeldInv`: a running reset timer with no edge left to serve has run since the
  button went down: what is left of it and what has passed make up the whole
  time.

### Only model-checked

The eight liveness properties: liveness under fairness is out of the prover's
reach. The five runs that expect a violation have counterexamples, not proofs.

## 5. What is not modelled

* Byte layouts, lengths and endianness of messages (`msg.c`); `msg_create_error`
  returning the length of the result alone is one of these.
* The UDP transport: no configuration in the repository selects it.
* An application without items, whose walks leave the pool (`sm.c:241`); an expiry
  in the call that started the timer (`sm.c:608`); a row of commands without end
  (`sm.c:607`); whether the answer to UNREG_REQ leaves before the reboot
  (`proto.c:95`): `Sm` has the reboot and no pipes, `Net` the pipes and no reboot.
* What follows after an erasure of OpenThread's storage failed (`bt_srv.c:136`):
  `Device` has the failure, and `JoinsAfresh` says nothing until one succeeds.
* The calls that give OpenThread its settings, one by one: a straight line into
  the library, whose failures end in the same place.
* TCP as a stream: a message is received whole.
* Reading the address back over Bluetooth, pairing, and a failed connection,
  which the stack does not report to the side that was connected to.
* The toggling of the LEDs: it follows the clock, and nothing follows from it.
* The firmware update over Bluetooth (mcumgr), which is Zephyr's.
* Example applications (what they may call is the environment of `Proxy`), the
  QEMU mocks, `scripts/cli.py`, vendored code.

## 6. Plan

All the components that have behaviour of their own are modelled, and every
safety property of the runs is proved. What is left is to join the parts by
proof as well:

1. An abstract link (a connection begins, takes messages in order, ends) that
  `Net` implements while `raced` is false and that `Telemetry` has as its
  `connects`, `drops` and `turn`: `NoConnectionMissed` and `NothingStaleTaken`
  are two thirds of the argument.
2. For the build with OpenThread, how long the semaphore can be available
   without a connection: not beyond the next turn of the network thread.
