# Verification of the Levaware Gen3 firmware

TLA+ models, model-checking runs and machine-checked proofs for the firmware in
`src/src`: a battery-powered LTE-M sensor device on an nRF9160 (Zephyr, C) that
connects to AWS IoT, takes its configuration from a device shadow and recovers
from almost every failure by resetting itself.

## 1. The system

| Part | State it keeps | Operations | Hard behaviour |
|---|---|---|---|
| AWS connector, `connectors/aws_connector.c` | `aws_cblk`: a state and a queue of 5 events | the supervisor thread: initialise, connect once, then one event at a time; ask for the shadow on READY | the client's thread queues while the supervisor is blocked in `aws_iot_send`; two handlers assign an *event* code to the *state* |
| AWS callbacks, `connectors/aws_callbacks.c` | none | `aws_iot_event_handler`: maps client events to queue events, decodes a shadow message in the client's context | runs concurrently with the supervisor; a full queue resets the device |
| LTE connection manager, `cell/lte_connect_mgr.c` | `modem_cblk`: PDP state, statistics, link-down counter; a semaphore; the reboot timer | `lte_connect_init` blocks until a PDP context is up; PDP callback; SMS listener and delayed reboot; link watchdog | callbacks in the modem library's context; unlocked counter shared with the shell; redelivered SMS |
| Modem support, `bsp/modem.c` | APN, PDN family, the callback to notify, signal strength | APN lookup by the IMSI, PDP set-up, PDN events, queries | the card is read while powered and unpowered; the callback must be set before the link starts |
| Configuration datastore, `config/config.c` | a table of attributes with a dirty flag each | load at boot, set, save when dirty | RAM and flash must agree after any reset |
| Configuration files, `config/config_utils.c` | LittleFS files | read, write, test for existence | every failure resets the device |
| Shadow decoding, `encoding/aws_decoding.c` | none | decode a message, limit, convert, set and save each attribute in turn | a reset in the middle; conversions that lose bits |
| System wrapper, `bsp/sys_wrapper.c` | none | `erabort`: log and reset the chip | called from any context |
| Shell, `apps/app_shell.c` | none | `lte display`, `lte clear` | clears the counters while they are used |
| Main, `main.c` | none | the order of the boot | state checked at one step of the boot and used at a later one |
| Battery, `sensors/battery.c` | ADC set-up | millivolts, state of charge by interpolation | integer arithmetic at the ends of the table |
| Sensor manager, `sensors/sensor_mgr.c` | a request queue and an event queue | not built, unfinished | one work item for many queued requests |
| LEDs, `bsp/led.c` | pins | set up and switched off at boot | a failure resets the device |
| Power regulator, boards, build files | – | truncated file, not built; no behaviour | – |

How they interact: `main` loads the configuration, starts the LTE manager, which
blocks on the semaphore until the modem's PDN callback gives it, and then starts
the connector's thread. The nRF AWS client calls `aws_iot_event_handler` in a
thread of its own; it queues events for the connector, and writes the shadow
into the datastore itself. Any of them may call `erabort`. Nobody in this
repository calls `lte_application_conn_up`; its comment names the cloud module
and others as its callers, and it is modelled with one caller, which reports freely.

What makes each part correct:

- connector: no event lost or reordered between callback and state machine; the
  shadow asked for exactly once per boot; READY reached whenever the client is;
- LTE manager: the boot goes on after, and only after, a context came up; a
  commanded reboot happens, after its acknowledgement; the watchdog reboots
  after the tolerated number of reports and never before;
- modem: no change of the context is lost on its way to the manager; the APN
  fits the card (it does not, finding 2);
- the device as a whole: a desired state is forgotten only for reasons that can be
  named, the files never go back, and a device that stays up and connected ends
  with the desired configuration;
- configuration: a reset at any point leaves files the device can continue from,
  with a version that covers them; RAM and flash agree between messages; a
  device that stays online converges to what the operator desired.

## 2. Modules

| Module | Models | Kind |
|---|---|---|
| `PhaseTracker` | what the connector promises: phases of a session are noticed one by one, in order, in the end | abstract specification |
| `AwsConnector` | supervisor thread, callback, queue, and the client as the callback sees it | detailed specification |
| `LteConnectMgr` | start-up gate, PDP state machine, SMS reboot | specification |
| `LinkWatchdog` | `lte_application_conn_up` statement by statement, against the shell | specification |
| `ConfigStore` | the datastore over its files: state and operations, without a caller | component |
| `ShadowDecoder` | the decoder, the boot that loads the store, the cloud's shadow and resets; extends `ConfigStore` | composition |
| `ShadowSync` | what decoder, store and session promise: versions accepted whole, in the order sent, all of them in a session that lasts | abstract specification |
| `Modem` | `bsp/modem.c` as the boot uses it: card, APN, PDP set-up, notifications; state and operations, without a caller | component |
| `Device` | `main.c`: the boot, `Modem`, the gate of `LteConnectMgr` and `AwsConnector`, with the network, the client and the shadow in the cloud | composition |
| `Battery` | measurement and state of charge of the battery, as functions with a caller | specification |
| `*_proofs` | the theorems and proofs of the module they are named after | proofs |
| `MC*` | instances for TLC | model checking |

Conventions. An operator has the name of the C function it models. A step ends
where another context can observe or interrupt: a call that blocks, a statement
on shared data (the watchdog), a write to flash (the decoder). `erabort` ends
the actions of the device (`up = FALSE`) until the action for the next boot, and
`Reset` stands for the calls of `erabort` elsewhere in the firmware and for a
loss of power. Operators introduced as *mutants* are plausible slips in the code
they stand before; no specification uses them, and each is put in the place of
the operator it mutates to see that a property notices.

**AwsConnector.** `thread` is the program counter of
`aws_connector_task_entry`, `state` and `queue` are `aws_cblk`, `callback` tells
whether the client's thread is inside the parser. State and event codes are the
numbers of the C enums, because `aws_offline_state` and `aws_connecting_state`
assign one to the other. `RequestShadow` and `SendReturns` are the two halves of
the READY event, with `aws_iot_send` in between. The session (`client`) is
external: it goes through its phases in order, may drop at any of them, and does
not dial again, as the nRF library does not without its own reconnection option.
`announced` and `sends` are history variables.

**LteConnectMgr.** `main` is the program counter of `lte_connect_init`,
`lte_connected` the semaphore's count. The modem may report contexts up and down
in any order once the link controller runs. The SMS centre delivers one message
at a time, and again after a reset if it has no acknowledgement. A message is
represented by how many digits of the serial number follow `REBOOT-`, all the
comparison depends on. Time is in ticks: the delay must be longer than an
acknowledgement takes, the assumption the comment at `REBOOT_DELAY_MS` makes.
Statistics are left out.

**LinkWatchdog.** `pc` follows one call of `lte_application_conn_up`, whose
`link_down_cnt++` is a load (`reg`) and a store. The shell's clear falls anywhere.
`downs` and `cleared` are history: the reports since the session was last up, and
whether a user cleared the counter since. Two reporters at once, which the comment
at `lte_connect_mgr.c:116` allows and nobody in the repository is, could lose an
increment between them and are not modelled: `RebootsAfterN` is for one.

**ConfigStore, ShadowDecoder.** A file has a value, no contents or is missing.
LittleFS makes a write durable at the close, so `save_to_file` is one step and a
reset falls before or after it. `ToInt16` is the conversion to the `int16_t`
parameter of `config_set_int16`, `ToEnum` the cast to an enum of `EnumBits` bits
that precedes the comparison of the types. A desired number stands for the
`valueint` cJSON (external) makes of it, which saturates at 32 bits before either
conversion. The cloud merges changes into
`desired` and sends the whole of it, since the device reports nothing;
`GetShadow` is the connector's request at READY. `before` and `origin` are
history: the files when the message came, and the version that wrote each.
The files of a provisioned device and the changes of the operator are constants,
and what is assumed of them (`ProvisionedAssumption`, `PatchAssumption`) is all
the proofs use: any contents the store could have written, any numbers, but no
version that did not come from the shadow service.

**ShadowSync.** `ImplementsSync` maps the messages under way to their versions;
the one in hand counts as under way (`InHand`) until its version is saved, and
`stored` is the version a reboot would load. A patch of the operator, a request
at READY, the save of the version and the loss of the session are its `Change`,
`Begin`, `Accept` and `End`; every other step of the decoder is a stutter. So no
reset, however placed, makes the device go back a version or skip one that a
lasting session delivered.

**Modem.** One operator per operation, as it succeeds; `Device` adds the failures.
A card is known by the MCC/MNC of its IMSI. It is powered (`uicc`) while
`modem_get_iccid` reads it, and after it only if the modem refuses `CFUN=40`, the
result of which the code ignores. `Imsi` is the read in `modem_lookup_apn`, which
gives nothing from a card without power: the external assumption, made by the
comment at `modem.c:215`, that finding 2 rests on. `notices` are the AT
notifications between the modem and `pdn_event_handler`.

**Device.** `boot` is the position of `main` before the link is started, one step
per call; each may fail and reset the device (`FailBoot`). From there on the
steps are those of `LteConnectMgr` (without SMS) and of `AwsConnector`, by
`INSTANCE`, joined with their counterparts: a connection needs a context
(`Connect`), a request is answered with the version of the moment (`Request`), a
message is stored by the callback (`Decode`). The configuration is known by its
version alone, as `ShadowDecoder` has the detail. A reset takes all parts at once
and loses RAM, session and messages. `mishaps` is history: `no_connect`,
`dropped`, `no_send` and `late` are the four ways in which the environment can
keep a device that runs from being in sync, and the properties name the ones they
tolerate. `Late` repeats or delays a message, once per boot.

**Battery.** The two functions are operators, called with every reading of the
ADC. `Undivided` does the arithmetic of the C expression, an unsigned 64-bit
product and quotient assigned to 16 bits: for a negative reading by long
division of the 64-bit word, byte by byte (`DivideByte`), as the integers of TLC
have 32 bits. A divider without an output resistance, for which the code returns
the undivided value, is excluded by `DividerAssumption`; the board has one.
`OnCurve` is the reference for the state of charge: the point of the broken line
through the levels, rounded down. It has no index to get wrong. The charge is kept
in hundredths of a percent: the code divides by 100 before it returns
(`battery.c:295`), where `battery.h:47` promises parts per ten thousand, a
difference of units that no property sees.

## 3. Runs

| Run | Instance | Shows |
|---|---|---|
| `connector` | queue of 5, as in the code; no other bound | `NothingLost`, `EventsInOrder`, `ReadyMeansRequested`, `OverflowNeedsShadow`, `ReachesReady`, and `TracksPhases`, the refinement of `PhaseTracker` including its liveness |
| `reconnect` | the same | finding 1 |
| `lte` | delay 4, acknowledgement 2 ticks, 3 messages, 12 digits against 8 | `StartupGate`, `GateOpens`, `RebootAcked`, `RebootHappens` |
| `watchdog` | tolerance 4, as in the code; 8 reports | `NoEarlyReboot`, `RebootsAfterN` |
| `shadow` | 3 changes by the operator out of 5, 2 faults, two provisioned devices | `DurablePrefix`, `RebootInvisible`, `VersionCoversAttributes`, `NoStepBack`, `Converges`, and `ImplementsSync`, the refinement of `ShadowSync` including its liveness |
| `interval`, `topic`, `missing` | one change, no faults | findings 3, 4, 5 |
| `device` | queue of 5, 2 changes by the operator, 2 notifications under way, a listed and an unlisted card, any number of boots | `ContextKnown`, `ActivationHeard`, `NothingForgotten`, `NoStepBack`, `EndsInSync` |
| `apn` | the same | finding 2 |
| `battery` | the board's curve and divider, every reading from -8 to 2^14-1 | `SocOnCurve`, `SocMonotonic` |
| `noise` | the same | finding 6 |

Why the bounds suffice. The connector is finite without bounds, so its run is
exhaustive. In `lte`, two messages make a second command meet the timer of the
first, and a third one is delivered again after a reset; a delay of twice the
acknowledgement lets both orders of their ends occur. In `watchdog`, 8 reports
leave room for a clear after four and four more. In `shadow`, three versions make
a message overtake the decoding of another and merge with the next, and two
faults interrupt a message and its repetition; the patches have values inside,
below and above the limits, a value that an 8-bit enum accepts by truncation,
values that are refused, and the topic, whose setter resets the device.

In `device`, two versions give an old message (1) to come after a newer one (2), and
messages of both to meet the request at READY; two notifications let a context go
down and up, or up and down, before the manager hears of either; every boot may
find the other card in the slot.

`OverflowNeedsShadow` shows that the comment at `aws_connector.c:40` is right for
the session itself: its four events never fill the queue, even while the thread
is blocked in `aws_iot_send`. `EndsInSync` needs all four mishaps excluded: with
any of them a device that stays up may stay out of sync until it is reset. So it
says nothing of a request that fails (`aws_connector.c:225`), which nothing repairs,
nor of a connection attempted after the context was lost again
(`lte_connect_mgr.c:745`), which finding 1 is about: these two are recorded as
hazards without a guarantee.

In `battery` every input of the functions on this board is enumerated.

Deadlock is checked except in the runs of the decoder: a device that is idle
after the last change within the bound has nothing to do.

Fairness. The scheduler runs a thread that is ready (`aws_iot_send` and the
parser return; neither waits for another of these parties), a reset chip boots, a
due timer expires, time passes. Nothing is assumed of the network, the client,
the modem, the operator or the callers of the watchdog, except in `topic`, where
the device gets online, and in `device`, where a client that was asked to connect
goes on while it has a context, and the session delivers its messages; all else
that `EndsInSync` needs of the network is its premise. `Converges` is conditional on a session that stays up.

## 4. Findings

1. `reconnect`: the connection is attempted once per boot, although the comment
   at `aws_connector.c:8` says it needs to be restarted.
2. `apn`: the PDN is to be set "based on the SIM card being used" (`modem.c:431`),
   and `lte_connect_mgr.c:701` takes the card for powered; but `modem_get_iccid`
   powers it down again (`modem.c:232`) before `modem_lookup_apn` reads the IMSI,
   unchecked, so a card of a listed operator gets the default APN. `PowerDecides`
   (section 5) shows that the card's power alone decides.
3. `interval`: an interval between 32768 and 86400 s passes the limits and
   becomes another number, mostly negative, in the 16 bits it is stored in.
4. `topic`: `config_set_str` aborts whatever the index (`config.c:485`): a desired
   topic resets the device at every boot.
5. `missing`: a missing file, which two comments handle, aborts every boot.
6. `noise`: an ADC reading below zero, possible with the input at ground, is
   multiplied as an unsigned word (`battery.c:253`) and reported as a full battery.

Two more differences between a comment and the code need no run to see: the SMS
command has 12 digits at `lte_connect_mgr.c:612` and 8 in the code (`LEN_SER_NUM`,
line 35; `IsRebootCommand` follows the code), and the unit of the state of charge
(`battery.h:47`, `battery.c:295`).

## 5. Proofs

All theorems hold for every value of the constants under the assumptions named in
the modules; TLC evaluates the assumptions in the runs.

**`AwsConnector_proofs`** (assumes a queue of at least one). `NothingLost` is not
inductive: a queue with the right members in the wrong order satisfies it and loses
an event one step later, when a handler of the wrong state swallows it. The
invariant `IInv` therefore says that the phase events in the queue are exactly the
numbers from `state` (or from the one after, while the thread is in
`aws_iot_send`) up to `announced`, each once and in order, with the other events
anywhere between them, and how the client's session and `sends` go with them. Lemmas
about `Append` and `Tail` carry it over a put and a get. From it follow
`TypeCorrect`, `NoEventLost`, `OrderedEvents`, `OneRequest`, and
`StepsTrackPhases`: every step of the connector is a step of `PhaseTracker` or a
stutter. `FiveAreEnough` adds to it that at most one disconnection is in the queue
(`OneDrop`): phases that increase and one disconnection are four events at most, so
a queue of five, the code's `MSG_QUEUE_SZ`, overflows only with shadow messages in
it. It assumes a size of at least five; with four it would be false.

**`LteConnectMgr_proofs`** (assumes an acknowledgement shorter than the delay). For
the gate, the invariant ties the semaphore's count and the PDP state to the main
thread's progress. For the reboot, it says that a running timer has at least as
far to go as the acknowledgement of a command under way. The second part needs a
restarted timer to start over. Hence `GateCorrect` and `AckBeforeReboot`.

**`LinkWatchdog_proofs`** (any tolerance). The counter, and the register between
load and store, never exceed the reports since the last session, even if a clear
is overwritten, and equal them unless somebody cleared. Hence `NeverEarly` and
`NeverLate`.

**`ShadowDecoder_proofs`** (any provisioned files, any changes, any number of
faults). `VersionCoversAttributes` needs the order of all versions on their way:
files, message in hand, messages under way, cloud never decrease (`Ordered`).
`DurablePrefix` and `RebootInvisible` need each other's half: the table in RAM is
what a boot would load, except for the one attribute that was set and is about to
be saved (`Clean`, `Pending`). One lemma per action carries the conjunction. From
it `TypeCorrect`, `PrefixIsDurable`, `RebootChangesNothing`, `VersionCovers`,
`NeverOlder` (an action property) and `StepsSync`: every step is one of
`ShadowSync` or a stutter, with lemmas on how the sequence of versions goes with
the sequence of messages. `ModerateInRange` tells how far finding 3 goes: with no
desired interval above 32767, and no interval's file empty (an empty file reads
as 0), the limits hold in every state.

**`Device_proofs`** (any cards, table of operators, queue size, number of versions
and notifications). The proofs of the parts are used as they are: the module has
instances of `AwsConnector_proofs` and `LteConnectMgr_proofs`, and `AwsStep` and
`LteStep` show that every step of the device is a step of each part, or leaves it
alone. So `IsConnector` and `IsGate` hold, and `ComponentsCorrect`: what is proved of
the parts holds in the composition. The invariant adds only what ties them
together: the boot's order (`Started`), the notices, which end with the state of the
context (`Informed`), what the lookup makes of the card (`Identified`), the order of the versions
(`Ordered`), and that a request that was answered, with the changes after it, leads
the files to the desired version (`Answered`). Hence `TypeCorrect`,
`ContextIsKnown`, `NoneForgotten` and `NeverOlder`. `PowerDecides` tells how far
finding 2 goes: a listed card gets its operator's APN exactly if it was left powered,
for every table.

**`Battery_proofs`** (any falling curve, any divider, any readings). That the walk
down the curve ends, and that the curve falls from each point to all that follow,
would be inductions; `Smallest`, which takes the least element of a set of numbers
from the library's theorem on well-founded relations, does instead: there is no
first point where it fails. Then the voltage lies between the two points
interpolated, and integer division is within one of the line and monotonic. Hence
`SocCorrect` and `SocNeverFalls`, and `TypeCorrect` for what the 64-bit
arithmetic may deliver. `NoNoiseNoError` shows that finding 6 is all there is to find
in the voltage: without readings below zero, and with a voltage that fits 16 bits,
the header's promise holds.

Only model-checked: every liveness property (`ReachesReady`, `GateOpens`,
`RebootHappens`, `Converges`, `ActivationHeard`, `EndsInSync`, the liveness halves of
`TracksPhases` and `ImplementsSync`), as fairness and ENABLED are beyond the proof
system's backends. Every invariant and every action property that a passing run
checks is stated by a theorem. What `WordQuotient` computes is not: only that it is
a number, which the types need. The value of a negative reading is TLC's, in `noise`.

## 6. Not modelled

- The statistics of the LTE manager other than `link_down_cnt`, and their
  print-out: nothing decides by them. Registration, cell, PSM and eDRX reports
  only count or log.
- Of `modem.c`: `modem_pdp_control`, `modem_set_state` and the RSRP monitor, which
  have no caller; operator and signal queries, which only read for the print-out.
  The PDN family goes with the APN and is left out.
- Firmware updates, whose handlers are empty; the identity strings and the
  `sub_topic` attribute, written only by provisioning; the wording of logs; what
  the LEDs show.
- `sensors/sensor_mgr.c`: not in the build, and three of the state handlers it
  calls do not exist, so there is no behaviour to be faithful to.
  `bsp/power_reg.c`: not in the build, the file ends within a function.
- Boards and build files: no behaviour of their own.
- SMS and the watchdog inside `Device`: both end in a reset, which `Device` has at
  any moment.
- A message out of order or repeated is in `Device`, not in `ShadowDecoder`, which
  has the session's messages in order.

## 7. Plan

1. *(done)* connector with its abstract specification; LTE manager; watchdog;
   datastore and decoder; battery; the proofs of the first three.
2. *(done)* `Device` and `Modem`: gate, connector, session and shadow composed over
   boots; `ShadowSync` and its refinement.
3. *(done)* Proofs about the decoder, the device, the size of the connector's queue and
   the battery.
4. The proofs left: that the shadow run's `InSync` holds whenever a message with the
   cloud's version has been decoded (the safety half of `Converges`); that the device
   in sync stays in sync without changes and mishaps (that of `EndsInSync`); and that
   the version alone, in `Device`, is a sound abstraction of `ShadowDecoder`.
