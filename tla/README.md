# Formal model of the WolkAbout Modbus gateway module

This directory holds TLA+ modules that model the module's code, TLC
configurations that check them on small instances, and proofs, checked by TLAPS,
of the properties that matter most for every instance. Paths below are relative
to the root of the repository.

## 1. The system

The program reads registers of Modbus devices and publishes them to the
WolkAbout IoT platform; the platform sends back values to write. It is one
process, started by systemd (`Restart=always`), with these threads: `main()`'s
loop, the threads on which the WolkAbout SDK (WolkConnect-Cpp, a submodule)
delivers callbacks, and the reader threads of MoreModbus (a submodule). The
repository's code takes no lock that another of its threads takes.

| Component | State | Operations | Talks to |
|---|---|---|---|
| Start-up (`main()`, `generateDevices`, `DevicesConfiguration`, `DeviceInformation`) | device and template maps, `deviceMap`, `deviceTypeMap`, `devicesToRegister` | parse, check, generate, initialize the bridge, list the devices | configuration files, bridge |
| Life cycle (`StateHandler`, callbacks of `main()`) | `m_connected`, `m_registered`, registrations in flight | connection listener, platform status, registration result, publish loop | SDK, bridge |
| `ModbusBridge` | three maps of settings (default value, repeat period, safe mode value), mapping maps, `m_connectivityStatus`, the reader | `initialize`, `start`, `stop`, `platformStatus`, `handleUpdate`, `sendOutMappingValue` | MoreModbus, persistence, SDK |
| `JsonFilePersistence` (a `KeyValuePersistence`) | one file per kind of setting | `storeValue`, `loadValues` | file system |
| `RegisterMappingFactory`, `ModuleMapping`, `MappingType` | none | translate a JSON mapping into a MoreModbus mapping | MoreModbus |
| `WolkaboutTemplateFactory`, `DeviceTemplate` | none | translate a template into registration data | SDK |
| `ModuleConfiguration`, `SerialRtuConfiguration`, `TcpIpConfiguration`, `JsonReaderParser` | values read once | read JSON with defaults | - |

Who calls whom: the SDK calls the connection listener, `StateHandler::platformStatus`,
the registration callback and `ModbusBridge::handleUpdate`; `StateHandler` calls
`start`, `stop` and `platformStatus` of the bridge, which write registers through
MoreModbus, one request on the wire per register; the listener, the status
callback and a failed registration call `registerDevices` of the SDK.

What is hard here, and what should hold:

* **Two booleans, three callbacks, no lock.** `m_connected` and `m_registered`
  become true in any order. The reader must run exactly when both are, nothing
  may be read or published before registration, and no loss or refusal of a
  registration may leave the module waiting for ever.
* **`start()` and OFFLINE fight over the same registers.** Both loops take as
  long as the wire does, both may be cut by a crash, and each undoes the other.
* **Settings live in memory and in a file.** A reading assigns the map, then its file
  is read, emptied and written; the process may die and another reading come between
  any two of these. The next process must come up with what the platform set,
  wherever the file still has it, and must not die of it again.
* **Maps shared by threads.** `handleUpdate` assigns into a map
  `writeAMapOfValues` may be iterating over, and `operator[]` inserts null
  mappings for keys it does not know.
* **A file rewritten in place.** `storeValue` reads the whole file, changes one key
  and writes it back, without a lock or a temporary file: what fails or dies there
  takes the other keys with it.
* **Two threads that send the same value.** `start()` sends a local copy it has read,
  while the reader it has just started sends what it reads.
* **Partial validity of a configuration.** Devices without an address, with a
  shared address, with an address of more than 16 bits, with an unknown template;
  templates without a mapping; mappings whose fields contradict each other.
* **Numbers that change their type.** A configured number is an `int`, a text, a
  number of the mapping's type, one or two registers, and a number again.

`PROJECT.json` ("hazards") lists each of these at its line.

## 2. Modules

| Module | Models | Checked by | Proved in |
|---|---|---|---|
| `StateHandler` | the life cycle | `life_serial`, `life_overlap` | `StateHandlerProofs` |
| `ModbusBridge` | settings, files, writes of the bridge | `bridge_*` | `ModbusBridgeProofs` |
| `SettingsStore` | abstract: what the platform may rely on | - | - |
| `SettingsRefinement` | the bridge as a `SettingsStore` | `bridge_settings` | `ModbusBridgeProofs` |
| `ModbusModule` | life cycle and bridge, composed | `module_*` | `ModbusModuleProofs` |
| `FilePersistence` | one persistence file, step by step | `persistence` | `FilePersistenceProofs` |
| `KeyValueStore` | abstract: what `KeyValuePersistence` promises | `persistence` | `FilePersistenceProofs` |
| `DeviceGeneration` | which devices are made, polled and registered | `start_up`, `devices_*` | `DeviceGenerationProofs` |
| `Conversions` | numbers from JSON to registers and back | `start_up` | `ConversionsProofs` |
| `StartUp` | all of `main()` before `connect`, extends the last two | `start_up` | `StartUpProofs` |
| `Mappings` | a mapping as the template factory, the mapping factory and the bridge see it | `outbound`, `outbound_feeds` | `OutboundValuesProofs` |
| `OutboundValues` | how the platform's picture of a mapping follows its register | `outbound`, `outbound_feeds` | `OutboundValuesProofs` |
| `MC...` | instances for TLC | | |

### StateHandler

`pc[t]` is the statement SDK thread `t` executes next and `caller[t]` the
callback it is in. Each access to a member that another thread can see is a
step: an entry action assigns `m_connected` or `m_registered` (the first
statement of the callback), `ReadRegistered` and `ReadConnected` are the guards in
front of `start()`, `Stop`, `Start`/`StartReturn` and `Status`/`StatusReturn` are
the calls into the bridge, `CheckRegistered`, `Notify` and `Retry` the calls of
`registerDevices`. `main()`'s condition is two steps and its `publish()` a third.
`Restart` is the death of the process at any step and its relaunch.

External, and modelled from its use here: `link` is what the SDK last said of the
connection, `requests` the registrations whose answer is outstanding. A request
made without a link may be lost, a drop of the link may lose any of the
outstanding answers, and an answer may be a refusal.

### ModbusBridge

A key stands for `"<device key>.<reference>"`; a map is a function that is `Absent`
where it has no entry. `Mappings` are the configured keys and `Stale` those the
platform still knows from an older configuration: the device exists, the mapping
does not. `memory[s]` are the three maps, `disk[s]` is what `initialize()` would find in
the files, `written` the registers. `writeAMapOfValues` takes one step per entry
(`WriteEntry`), in any order, with the value the map has at that moment; `job[t]` and
`todo[t]` say what thread `t` still has to visit.

A reading of `handleUpdate` that is to be stored takes several steps of its thread:
`HandleValueReading` and `HandleRepeatWriteReading` assign the map and call `storeValue()`
(`StoreValue`: `job[t]` becomes `"read"`, `call[t]` has the arguments); `ReadFile` reads the
whole file into the local `json[t]` and changes one key, `OpenFile` opens the file and
so empties it, `WriteFile` fills it. Each of the three may fail (`StoreOutcomes`): an unreadable
file is replaced by the one key, a file that cannot be opened stays as it is, a text that
is not written whole leaves no value of the setting (`disk[s]` is `NoValues`, as for an
empty file). Another thread or a death may come between any two of them. Two
threads that have one file open mix their texts (`WriteInPart`, and the second disjunct of
`WriteFile`).

An unlocked assignment to a map that another thread iterates over works or crashes the
process (`RaceOutcome`), and a new entry may or may not be met by that iteration
(`Insert`). A null mapping crashes the process. `Kill` is any other death, `Initialize` the
constructor and `initialize()` of the next process: the first element of a file
that matches a configured key replaces the configured value, all others have no
effect (`Load`, `Effective`).

The code ignores the results of writes and stores, so what they cost is named by history
variables that no action looks at, all empty again in the next process:

* `refused`: the mappings whose last write the wire refused (`WriteOutcomes`);
* `unsaved`: the settings whose last value the file may not have, because it could not be
  opened, or is not open yet; when a file could not be read or a text was not written
  whole, all those of its kind;
* `overlapped`: the kinds of settings of which two readings were handled at once;
* `endangered`: since the launch a setting came for a feed without a mapping, or for a map
  another thread was going through (`Endanger`).

Abstractions: the mappings are of type `UINT16`, the type whose conversion cuts
(`Word`); a text that does not parse is `NotANumber`. The readings and attributes
that `start()` and the reader hand to the SDK are the subject of `OutboundValues`
and left out here, and so is the order of the keys in a map, which no property
needs. `FilePersistence` has the same steps of the same file, with an empty, a torn and a
missing file told apart and the loss of one stored key followed through them.

### SettingsStore, SettingsRefinement

`SettingsStore` has for each setting of a mapping a `value` in force and a value `kept`. It has
no file and no process. A reading changes one value and leaves it `unsaved`
(`Receive`). A `Save` makes kept values of the changed ones and goes on until `Saved`;
until then the setting is `saving`, and a `Relaunch` brings the configured values
back instead of the kept ones, for all mappings: that is the price of emptying the file
first. `Doubt` is a file that cannot be read, or a save that fails: any of the setting's
values may be lost. `Overlap` is two readings at once: the setting is `mixed` and nothing is
promised of it before the next launch. In all other cases a `Relaunch` brings the kept
values back, all of them and nothing else.

The refinement mapping takes `memory` for the value in force (of a dead process, the last it
had) and for the kept one what `initialize()` would load from the file, or, while a thread
has it open, from the text it is about to write (`FileOf`). That the bridge implements it
says that kills, crashes, readings for unknown feeds, the reading of a file and a failure
to open it are invisible, and that nothing but what is listed above costs a value, for the
default and safe mode values of mappings configured with one. (Repeat periods are
not like that: see the finding `RepeatFollowsReading`.)

### ModbusModule

Calls and returns are joint steps of the two components (`CallStart`,
`ReturnFromStart`, `CallStop`, `CallPlatformStatus`, `ReturnFromPlatformStatus`),
everything else is a step of one; `Store` is the rest of a `handleUpdate` in the thread
that delivered the reading. The death of the process leaves the life
cycle's variables as they were until `Relaunch`, which restarts both. Every step goes with
`Remember`, which keeps the history variable `actuated`: the mappings whose register or
default value the platform itself has set since `start()` was last called.

That a step of the module is one of the life cycle or leaves it alone is so by
construction, and only a lemma of the proofs. That it is one of the bridge
(`ImplementsBridge`) is not: it needs that the callers pass the status they were called
with, and enter the bridge once at a time per thread.

### FilePersistence, KeyValueStore

One file. `file` is a map, or there is none (`Missing`), or it has been emptied
(`Empty`) or holds text that does not parse (`Torn`); `LoadValues` gives no values
for the last three. `storeValue` is three steps of a thread: `StoreValue` reads the
file into the local `json[t]` and changes one key, `Open` empties the file, `Write` or
`WriteFails` fills it. `Kill` may fall between any two and cut a text that is being
written; `Launch` is the next process, whose `loadValues` changes nothing.
`FileSystemUtils` belongs to the SDK: that `readFileContent` may fail on a file that is
there, that opening empties the file, and that two writers may leave the tail of the
longer text behind the shorter one are its behaviour as `std::ofstream` has it.

The history variables name what can go wrong: `faults` holds `"overlap"` (a store began
while another one was under way), `"unread"` (a file that was there could not be
read) and `"torn"` (a text was not written whole); `exposed` holds the keys such a fault
may have hit since they were last written.

`KeyValueStore` is an atomic map that may break once. The refinement mapping takes a
store to happen when it *opens* the file (`Content`): from then on the old content is
gone, and no content but the new one can follow without a fault. That the file
implements it says that a death before the opening, a file that cannot be opened
and any number of relaunches change nothing.

### DeviceGeneration

`Init` is any configuration of up to the given devices; an entry is `complete` when it has a
name, a key and a template. `Parse` is the part of the constructor of
`DevicesConfiguration` that makes the devices, which throws for an entry that is not
complete or has an unknown template, and the first checks of `main()`; `GenerateDevice`
is one iteration of `generateDevices` in key order; `CheckDevices`, `Initialize` and
`ListDevices` follow in `main()`. Addresses are cut to 16 bits and 0 stands for a missing one, as in
`DeviceInformation`. Entries of `deviceTypeMap` are named by the device that
pushed them, so that a doubled address is seen as two entries. In TCP/IP mode a
device without an address is ignored as in any other (`Application.cpp:85`),
though README.md:327 does not ask for one.

### Conversions

Operators on one value, with the widths of the code; `WordSize` is 65536 in the
program and a constant here. `ReadTypedValue` is `JsonReaderParser::readTypedValue`
(every integer through `int`, `null` and a missing value an empty text),
`WriteToMapping` the bridge's parse and cast per type (`std::stoul` accepts a sign and
wraps, `std::stoi` refuses what is no `int`), `ReadingOf` and `AttributeOf` the ways back,
`RegisterCount` and `Registers` the addresses `RegisterMappingFactory` gives to MoreModbus,
with `static_cast<short>` for the two of a 32-bit value. `Float` is `std::stof`: the nearest
float, the even one of two, and beyond `FloatLimit` an exception; of an integer a float
keeps the digits of `FloatSize`, 2^24 in the program, and can double it `FloatExponents`
= 104 times. So `Holds("FLOAT", n)`, which the properties go by, admits the integers up to
`FloatSize` only: 16777217 is reported as 16777216. A text of digits with other
characters behind them, of which `std::stoi` takes the digits, counts as digits, and
fractions are left out.

### StartUp

Extends `DeviceGeneration` by what goes before, between and after its actions: the
module configuration (`ReadModuleConfiguration`), the file of the devices
(`ReadDevicesFile`), its templates in any order (`ReadTemplate`: the name, the fields that must
be there and the two checks of `ModuleMapping`; a template without mappings throws), its list of
devices (`TemplatesRead`), the four tables `initialize()` fills
(`InitializeBridge`), and the feeds of the listed devices. `stage` is how far the
constructors have come; `"threw"` is an exception nobody catches. `files` says what is there
to be read: the two files (a missing one, one that cannot be read and one that is no JSON end
the program alike), the arrays of templates and of devices, and which templates have a name
and an array of mappings (`complete`).

A device key and a reference are sequences of the parts between their dots, so that
joining them with the separator is concatenation: the device `a.b` and the reference `c`
have the name of `a` and `b.c`. `First` is what `emplace()` keeps when two rows have one
name; the order is that of the maps `initialize()` goes through, by template name and
then by device key. `Announced` is what `makeReadingsFromMap` makes of the tables,
`Registered` what `WolkaboutTemplateFactory` makes of the templates: two parts of the code
that never look at each other. The persisted values are empty here (`ModbusBridge`
has them), and `createGroups` of MoreModbus is assumed to keep every mapping.

### Mappings

Pure operators on one mapping, from the three places that look at it:
`WolkaboutTemplateFactory` (`GetDataTypeFromMapping`, `GetFeedTypeFromMapping`,
`MakeRegistrationData`), `RegisterMappingFactory` (`FromJSONMapping`: whether it is
read, whether the local copy follows a write, which operation type it reports) and
the bridge's two ways to form a message (`SendOutBytes`, `SendOutBool`). Each branches on other
fields of the mapping, which is what the runs compare. Byte and word orders,
addresses, counts, filters, bit indices and string encodings are left out: a
register holds the mapping's value. `FloatMapping` is not told the operation
type, so it may report either of two.

### OutboundValues

One mapping, chosen in `Init`. External: `register` (the device changes it in
`DeviceChanges`), MoreModbus' `local` copy (`Unread` until the first read, which
always reports), the SDK's `queue` and the messages from the platform (`inbox`), both
in order, and the platform's picture, `shown` and `shownDefault`, made by the last
message in either direction. Reads of one mapping are assumed to be reported one after the
other, in the order in which they were made.

The steps of `start()` interleave with the reader, which runs already: `WriteDefault`; then
twice `TriggerGroupValueChange`, which reads the local copy into `copy`, and `SendOutCopy`, which
hands it to the SDK; then `Announce`. Nothing keeps the reader from sending a newer value
between the two, so that the older one arrives last: `overtaken` is the history variable for
it, and `PlatformConverges` excepts that case, since nothing in the code corrects the
picture before the register changes again. A write may fail; `handleUpdate` is one step per
reading, and `mustRead` the read it forces afterwards. `Publish` is the loop of `main()`.
`undone` and `announced` are the other history variables. Repeat periods and safe
mode values are announced the same way as default values and are left out.

## 3. Runs

| Run | Shows |
|---|---|
| `life_serial` | one SDK thread: types; the reader runs exactly while connected and registered whenever no callback is served; under fairness a module that stays connected reads and publishes for good |
| `life_overlap` | two SDK threads: nothing is read or published before registration; a connected unregistered module always has a registration on its way |
| `bridge_settings` | two threads, stores that may fail at every step, one removed feed: types; a process only crashes after a setting, received since its own launch, for a feed without a mapping or a map in use; what a relaunch would load is what the maps hold, but for a setting whose file is open for writing, values a file failed to take or to give, and settings of which two readings were handled at once; refinement of `SettingsStore` |
| `bridge_repeat` | violated: a received repeat period comes into force as 0 |
| `module_serial` | with failing writes and readings of every kind, `writeAMapOfValues` leaves its values in the registers that take them; a register with a default value holds it while the registers are read (not its safe mode value), unless the wire refused it or the platform set another one; the first OFFLINE status gets every safe value written that the wire takes; the module calls the bridge as the bridge expects |
| `module_offline` | violated: a reconnect while the platform is OFFLINE overwrites the safe values |
| `outbound` | types sent are types registered; when everything sent has arrived, the platform shows what the register holds, unless `start()` was overtaken by the reader or a value the platform set did not reach the register, and the default value in force |
| `outbound_feeds` | violated: a boolean attribute goes out as a reading of a feed that was never registered |
| `persistence` | two threads, every call of the file system may fail, deaths at any moment: a value is lost only to an overlap, an unreadable file or an interrupted write; without an overlap no older value ever comes back; refinement of `KeyValueStore` |
| `start_up` | devices created, polled and registered agree; `main()` comes to `connect` only with files, fields, templates and devices free of the mistakes listed in `Valid`, and ends before that only with one of them; readings find their mapping; what is announced was registered; default values that their type can hold, and register numbers, survive their conversions |
| `devices_conflict` | violated: a device with an occupied address is not ignored |
| `devices_template` | violated: one unknown template ends the program |

### Bounds

* `Threads`: one for properties that need serialised callbacks, two otherwise. Each
  race found here is between two steps of two threads; a third adds no new kind of
  pair. `ThreadSymmetry` is used
  in `life_overlap` and `bridge_settings`, where no property names a thread (of `FileOf`, which
  chooses one, nothing is looked at once two threads have the file open).
* `MaxRequests` (2 or 3) bounds the registrations outstanding or about to be made,
  so that a callback is entered only while there is room. Three allow a listener's
  request, one made on CONNECTED and a retry at once.
* `MaxUpdates` (1 or 2) bounds the readings of a behaviour: two allow an overwrite,
  an overlap, two different settings of one feed and a store after a failed one;
  `bridge_settings` has them with one mapping and one removed feed, which is where one key
  of a file takes another with it; `module_serial` has one reading, of any kind. Calls, kills
  and relaunches are not bounded.
* `Numbers` are the configured values 1, 2, 3, the 0 of the repeat handler and 65541,
  which does not fit in a register; `Inputs` adds a text that is not a number.
* Two register values, `MaxQueue` = 3 (the doubled message of `start()` and one of the reader)
  and `MaxSets` = 2 (one value of the platform overtaken by another). `TriedMappings`
  is every combination of register, data and operation type the repository's
  README.md lists (`Documented` in `Mappings`), with each mapping type, all options
  on a 16-bit holding register, the one kind every option applies to, and one mapping
  README.md does not list, for which two of the three properties promise nothing.
* `persistence`: two threads, two keys, two values and `MaxStores` = 3: one store to be
  overwritten, one that overlaps it, one that comes after the fault.
* Three devices, two templates and an unknown one, addresses 1, 2, 65536 (cut
  to 0), 65537 (cut to 1) and a missing one. Three devices allow two that share an
  address and one beside them in key order.
* `start_up` tries every devices configuration with `PlainTemplates` (a simple mapping
  and one with a dotted reference, which meets the dotted device key), and
  `TriedTemplates` only for the three configurations in `FewDevices`: the templates are read
  before the devices and do not depend on them. So are the `files` that are not whole, with
  `PlainTemplates`. `TriedTemplates` are every default value
  of every type, every check of the constructor, and every pair of places of registers.
  `WordSize` is 4, so that all numbers around the ends of 16 and 32 bits fit in -9..17;
  an `unsigned long` has 256 values then. `FloatSize` is 4 and `FloatExponents` 3, so that some of
  these numbers are rounded and the greatest refused. The proofs hold for every even word
  size and every float.

### Fairness

`FairSpec` of `StateHandler`: a thread inside a callback goes on, and `main()` loops
for ever (weak fairness; the scheduler of the operating system; none of these
statements waits for another thread). A registration that is asked over and over
is granted in the end (strong fairness of `RegistrationResult(t, TRUE)`): an
assumption on the gateway, without which retrying is pointless. `FairSpec` of
`ModbusModule`: a callback under way goes on (a write on the wire has a response
timeout). Nothing is assumed of connections, statuses or readings.

`OutboundValues` is a safety specification and needs none: `PlatformConverges` is
about states in which nothing is under way, not about reaching one.

`DeviceGeneration`, `StartUp`, `FilePersistence` are safety specifications too. The first
two are checked without deadlock checking: `main()` goes on to `connect`, quits or ends with
an exception.

## 4. Proofs

All theorems hold for every value of the constants that satisfies the named
assumptions of the modules.

* `StateHandlerProofs`. `TypeCorrect`. `RegistrationFirst`: the invariant
  `CheckedRegistered` says that a thread between its guard and the return of `start()`, and `main()`
  between its guard and `publish()`, have `registered`, which no step but
  `Restart` resets; that is why the unlocked check-then-act is harmless here.
  `RegistrationOnItsWay`: a callback of the listener always reaches
  `CheckRegistered`, so that `TypeOK` and the labels a `caller` can be at
  suffice. `SerialCallbacks` assumes `Serial` (one thread) and adds, per label of
  the one thread, what `running` is.
* `ModbusBridgeProofs`. `BridgeInvariant` with `BridgeTypeCorrect`; every theorem holds for
  any outcomes of writes and of each step of a store. `CrashTakesSetting` rests on
  `OnlyMapped`: as long as no hazard was met since the launch (`endangered`), no key without
  a mapping is in a map or in a `todo`, because `Effective` brings none back from a file.
  From it `NeverCrashesWithoutHazard` follows: one thread and no removed feed, and the
  process never crashes. `RestartKeepsValuesAlways` rests on `Sound(s)`, which is claimed of
  a setting as long as no two readings of it met (`Apart`): at most one store of it is under
  way, about the value in force, with every key of the file in its text but those that are
  `unsaved` (`SoundStore`); and what is in memory and not `unsaved` is what `Load` makes of the
  file, or of the text on its way into it (`Coherent`). `ValuesAreWritten` assumes one thread
  (`Serial`), with `TodoPresent`: entries still to be visited have an entry in the map.
  `ImplementsSettingsStore` is a step simulation on the same invariant: an assignment is a
  `Receive`, and an `Overlap` when a store of the setting is under way; the opening of a file
  is a `Save` of the one value it is for, with the fall of the unread ones it brings;
  the write that ends it is `Saved` or `Doubt`; a file that cannot be read is `Doubt`; and
  `Initialize` is the `Relaunch`.
* `ModbusModuleProofs`. `ModuleImplementsBridge` needs `CallersMatch`: a thread about to call `platformStatus`
  is in a status callback, so the argument is a status. `DefaultsHoldWhileRunning`
  assumes one thread. `DefaultsInv` relates the two components (`InStep`: what the bridge
  does follows from what the life cycle waits for, and the reader rests before the bridge
  hears OFFLINE) and says which registers hold their default value: all but those still to
  be visited, `refused` or `actuated` (`Written`).
  The other theorems carry those of the two components over to the composition, whose
  `Spec` implements both (the lemma `LifeHere` for the life cycle, which holds by the shape
  of the composition): registration first and never stranded, reading exactly when
  ready, values kept over a restart with the same exceptions, no crash loop and no crash without a hazard, the settings
  store. `SameBridge` and
  `SameLife` say that the definitions reached through the two INSTANCEs are the same, and
  `BridgeAssumption` and `LifeAssumption` (which TLC evaluates) that the constants are
  those the components expect.
* `FilePersistenceProofs`. `PersistenceTypeCorrect`; `LatestOrLostAlways` rests on `Single`
  (until an overlap one store is under way) and on what the store under way carries being
  the last value of each other key or none. `StoredIsKeptAlways` needs `OverlapExposes` and
  two statements about keys no fault has hit: `KeptInFile`, while no thread is writing,
  and `KeptInJson`, what every store carries. `ImplementsKeyValueStore` shows that, without
  a fault, `Content` changes only when a store opens the file, and by one key
  (`NextContent`). No assumption on the number of threads, keys or on which calls fail.
* `DeviceGenerationProofs`. `GenerationInvariant` describes the maps in terms of the
  devices `Seen` so far, and holds only because the loop goes in key order (every
  device seen has a lower key than those pending). `EntryType` then gives each entry
  the device created at its address, from which `LowestKeyAlwaysWins`,
  `KeysAndAddressesAlwaysAgree` and `OnceWithOwnTemplateAlways` follow. Assumed:
  device keys are naturals (they stand for the order of strings in a `std::map`).
* `ConversionsProofs`. `NumbersComeBack`: `SignedBack` and `UnsignedBack` say when a cast to a
  width and one back give the number again; `Sizes` that the 64-bit width leaves room. Of a
  FLOAT it speaks of the integers up to `FloatSize` only.
* `StartUpProofs`. A start-up is a behaviour of `DeviceGeneration`, whose actions its own
  contain (the lemma `StartUpGenerates`), so the theorems about that hold of it.
  `StartUpInvariant` adds what the constructors
  (`StageOK`) and the checks of `main()` (`ChecksOK`) have found and what is in the tables
  (`TablesOK`). The theorems on tables need that `First` exists although `Precedes` is no
  total order on rows: two rows of one device and one name cannot be, because a
  reference is used once per template (`OneRowPerName`), and devices without a dot in
  their key have no name in common (`NamesDiffer`). Assumed: keys and references are
  not empty, and no reference is used twice in one template.
* `OutboundValuesProofs`. No assumption on the mappings: where a property needs
  a documented one (`TypesAgree`, and through `Followed` `PlatformConverges`), it says so
  itself. `PictureOK` is inductive: what waits was formed as it
  was registered (`MessagesOK`); unless `start()` was overtaken the last
  value that waits is MoreModbus' local copy, and with nothing waiting a picture that differs
  is one the platform has asked for, or one that `start()` is about to replace
  (`Reported`, `Awaited`); the last announcement that waits is the default value in force
  (`DefaultKnown`). Recursive definitions over the queue were not needed: `Ones` picks the
  positions of the messages of one kind, and `TailOnes` and `ConcatOnes` say what
  delivering and sending do to them.

Every invariant of a passing run, and every refinement, is stated by a theorem.
Model-checked only: liveness (`EventuallyReading`, `SafeModeApplied`), which is
beyond the prover with its fairness and ENABLED. Induction over data and RECURSIVE
operators are out of the prover's reach too and none is used.

## 5. Disagreements between code and documents

`PROJECT.json` ("findings") quotes the lines of those a run shows: the repeat period
of 0; the safe values lost by a reconnect while OFFLINE; the missing `continue` for a
conflicting address; the boolean attribute sent as a reading; the unknown template that
ends the program.

Met while modelling, and in the models as the code has them:

* A TCP/IP device without `slaveAddress`, which README.md:327 allows, is ignored
  (`Application.cpp:85`), and being the only one makes the program quit (287).
* README.md:279 shows `"writeOnly": true`, README.md:184 `"deadBandFilter"`: the code
  reads neither name.
* A default value is written when the reader starts, at every reconnect, not only
  "when the application launches" (README.md:195).
* A repeat needs a `defaultValue`, but `null` or `""` will do (`ModuleMapping.cpp:53`), and
  counts as none afterwards.
* An attribute is registered under its name (`WolkaboutTemplateFactory.cpp:38`) and sent
  under its reference (`ModbusBridge.cpp:612`).
* A dot in a device key or a reference: `makeReadingsFromMap` (`ModbusBridge.h:397`) takes
  the first two parts for the whole, and of two mappings with one joined name the first
  stays (`ModbusBridge.cpp:158`). `KeysUndotted` and `ReferencesUndotted` name the properties'
  dependence on it.
* An integer default of a FLOAT from 2^31 on becomes negative on its way through `int`
  (`JsonReaderParser.h:64`); a negative INT16 attribute is sent as unsigned
  (`ModbusBridge.cpp:614`).
* A mapping that cannot be made ends the program although no device uses its template.
* The value of a FLOAT goes through `std::stof` (`ModbusBridge.cpp:461`), so of an integer
  beyond 2^24 the platform sees a neighbour, 16777216 for 16777217.
* While `storeValue` has a file open (`JsonFilePersistence.cpp:62`) a death costs all values of
  that kind, and a file that could not be read is replaced by the one key
  (`JsonFilePersistence.cpp:44`); README.md says nothing of either.
* `start()` may send a local copy older than what the reader has just sent
  (`ModbusBridge.cpp:415`), and the platform then shows it until the register changes.

## 6. Not modelled

* Deadband and frequency filters, bit indices, byte and word orders, string encodings:
  settings passed on to MoreModbus, whose use of them is not in this repository.
* Names, units, descriptions, log levels, baud rates and the other values read once and
  passed on; fractions.
* The SDK and MoreModbus, beyond what this code calls of them and is called back with.
  Their reader threads appear as readings of a register (`OutboundValues`) and as the
  switch `running` (`StateHandler`).
* `RegisterMappingFactory` and `ModuleMapping` are listed as partly modelled for these reasons.

Hazards without a property, each with its reason in `PROJECT.json`:

* with overlapping callbacks a `stop()` and a `start()` may reach the reader in either order
  (`Application.cpp:142`), and an assignment to a map in use (`ModbusBridge.cpp:706`) has any
  outcome: nothing in the code orders them, so nothing can be promised;
* chains of retried registrations that add up (`Application.cpp:390`) are limited by nothing
  in this repository;
* an announcement older than the default in force (`ModbusBridge.cpp:254`), a copy that was
  overtaken (415), a write the wire refuses (335) and an actuation that is not reported
  (`RegisterMappingFactory.cpp:63`) leave the platform with an older picture, to which the
  code has no answer and about which no document promises one;
* what MoreModbus does with negative addresses (`RegisterMappingFactory.cpp:190`) and with a
  request past the last address (`ModuleMapping.cpp:42`) is not in this repository.
