# XWayTrains in TLA+

XWayTrains drives model trains through a PLC (Schneider UNITE over X-Way) and
shares the sections and switches of the track between train managers with a
resource manager. This directory holds TLA+ models of its core, the TLC
configurations that check them and machine-checked proofs: every invariant the
passing runs check, and every action property, is also proved for all values of
the constants.

All paths below are relative to the repository.

## 1. Inventory

| Component | State | Operations | What makes it correct |
|---|---|---|---|
| Resource database, `src/resource_manager/resource_database.c` | per resource: registered, availability, owner, semaphore `interest` | `attemptLockResource`, `releaseResource`, `waitResource`, `registerResource` | a unit is used by one train at a time, units are conserved, the holder can release, no wakeup is lost |
| Its proxy, `resource_database_proxy.c` | the semaphore `lock` | the same calls; locking and releasing under the lock | the calls are atomic, the lock is always given back |
| Resource manager, `resource_manager.c`, `resource_manager_main.c` | listening socket, request queue, three semaphores | initialisation with clean-up, accept, end; its threads are empty functions and the file does not compile | it is complete, or every failure undoes what was done before it |
| TCP wrappers, `common/comm_general.c` | the process's sockets | create, connect, accept | a server socket listens (it does not: `listen` is never called, so connections are refused) |
| Resource messages, `common/comm_resource.c`; train manager proxy, `resource_manager/train_manager_proxy.h` | - | stubs; a header | - |
| Resource manager proxy, `train_manager/resource_manager_proxy_cli.c` and `_remote.c` | a pipe per client, reader thread, `finished` | request, release, end | each call gets the answer to its own request and returns |
| PLC proxy, `train_manager/plc_proxy_cli.c` | the same | send, read, end | messages reach their train, once and in order |
| Train, `train_manager/train.c` | thread, `finished` | init, end, the loop send / read | ends; is freed after its thread left; does not use a proxy that has been freed |
| PLC command, `remote_test/main.c` | socket, receive buffer | `send_command` | success means that the train has passed |
| X-Way frames, `remote_test/comm.c` | - | build and check frames | what is checked is what the PLC sends |
| UDP server and client, `remote_test/plc_proxy.c`, `socket_client.c` | a socket, a line | search for an address, lock-step echo | each client gets the line it wrote; nothing ends a read whose datagram is lost |
| PLC information, `plc/`; command interpreter header; unit tests, `unit_tests/` | - | a null message, constants; drivers; sample frames | the sample frames are what the code builds and accepts |

How they interact: a train's thread calls the two proxies; the reader thread of
each proxy takes the peer's lines and routes them over one pipe per client; the
peer of the one is the resource manager, whose threads will call the database
through its proxy for each train manager; the peer of the other is the PLC. In
one process both readers scan the same standard input, and neither looks at what
`scanf` returns. `main` of the resource manager initialises the database proxy
(a failure there ends the process), then the manager, and accepts in a loop.
Shared state without a lock: the pipe tables (client threads and reader thread),
`finished`, and the database tables in `registerResourceProxy` and
`waitResourceProxy`.

What is hard: two counts of one thing kept apart (availability and `interest`);
test-then-act on the pipe table; the end of a proxy against its own threads and
against the train that uses it; the end of an input that goes unnoticed; TCP as a
stream of bytes taken for a stream of frames; UDP without numbers or timeouts. `PROJECT.json` lists these as
hazards, each at its line and with the properties that cover it.

## 2. Modules

    ExclusiveUse              what the trains are promised
        ^  implements (amounts of one): TLC, and its safety part proved
    ResourceDatabase          the database, each call one step
        ^  implements: TLC, and proved
    ResourceDatabaseProxy     each access to the tables one step

    RoutingProxy              pipes, reader thread, end: the code both proxies have
        ^ EXTENDS        ^ EXTENDS    ^ INSTANCE
    ResourceManagerProxy     PlcProxy     |
                                ^ EXTENDS |
                             TrainManager a train, its two proxies, the end of the three

    ResourceManager           the process and its sockets, start to end
    SendCommand               one command to the PLC over TCP
    XWayFrame                 its frames, octet by octet
        ^ EXTENDS
    FrameSamples              the frames the unit tests keep
    EchoLink                  UDP server and clients over a faulty network

    proofs: ResourceDatabaseProofs, ResourceDatabaseProxyProofs (and the refinement),
    ResourceManagerProxyProofs, TrainManagerProofs (PlcProxy and TrainManager),
    ResourceManagerProofs, SendCommandProofs, EchoLinkProofs,
    XWayFrameProofs (XWayFrame and FrameSamples)

`MC*.tla` give small instances; each `.cfg` names its module and properties.

Several modules hold definitions that no action uses, right before the
definition they vary (`SemPostLost` before `SemPost`, `CheckRangeOnly` before
`CheckSlot`, `LockSkipped` before `LockAcquired`, `JoinTrainForgotten` before
`JoinTrain`, `DestroysLast` before `Destroys`, `LengthOnly` before
`is_read_successful`, `WriteOnly` before `Write`, ...). Each is that definition
with a plausible bug, and exists to show that the checked property fails with it.
`PROJECT.json` pairs them with the properties.

### ExclusiveUse
`holds` and `want` only. Four actions: take a free resource, ask to be told,
withdraw, give back. Its fairness: a free resource that somebody asked for is
taken.

### ResourceDatabase
The four tables of `struct ResourceDataBase_t` are the variables `registered`,
`availability`, `owner`, `interest`. `interest[r] = Uninit` stands for the
semaphore `malloc` leaves undefined until `sem_init`. `attemptLockResource` is
`GrantLock \/ RefuseLock`; the registration it makes for an unknown resource is
part of `GrantLock` (it always leaves one unit, so it is never refused).
`releaseResource` is `AcceptRelease \/ RefuseRelease`, with the `sem_post` that
stops at `SEM_VALUE_MAX`.

The callers are modelled too, since the code that will call the database is not
written: a train asks, and when refused gives up or waits and asks again;
releases what it holds; `holds`, `want` and `woken` are its side. `RepeatSpec`
adds callers that release twice. `amount` is a history variable.

### ResourceDatabaseProxy
Program counters for every access: the three writes of `registerResource`, the
test, load and store of `availability`, the write of `owner`, `sem_post` on
`interest`, and the `sem_wait` / `sem_post` on `lock`. `waitResourceProxy` and
`registerResourceProxy` take no lock, as in the code. The thread that registers
resources is done before the trains start: the code has no caller yet, and beside
a request a registration gives a taken unit back (section 5). The refinement
mapping puts the effect of a granted request at the write of `owner`, of a
release at the `sem_post` on `interest`, of a refusal at the `sem_post` on
`lock`: `Free` counts the units of a resource with the one that is between
`availability` and those points, and `seenRegistered`, `seenAvailability` and
`seenInterest` are the tables so seen. `known` and `amount` are history
variables.

### RoutingProxy, ResourceManagerProxy, PlcProxy
`outputFd` is the table of pipes, `pipe` their contents. `TryRegisterClient` is
the test (`CheckSlot`), the `pipe()` call, which stores the two ends one after
the other (`OpenPipe`, `StoreWriteEnd`) and may run out of pipes (`PipeFails`).
The reader thread loops over `TestFinished`, `ScanLine`, registration, and
`RouteLine` or `DropLine`. The end sets `finished`, sends SIGINT, which with its
default action ends the process (`killed`) unless the reader thread, out of its
loop, has already terminated, joins and frees. The mutex of the proxies only guards a
`printf`, so printing is one step.

A request registers the client before it is printed, so the resource manager
cannot answer an unregistered client. A train registers with the PLC proxy only
when it reads, so the PLC can speak first: the two modules differ in exactly
that, and in what the peer may do. In `ResourceManagerProxy` the peer answers
each request once, in any order, and may name an id that does not exist; the
field `about` of a line is history (which call it answers). The end of this proxy
begins only when no client has a call under way: the code has no such wait, and a
call that the end cuts off is left out.
`resource_manager_proxy_remote.c` has the same functions.

### TrainManager
A train manager process. `PlcProxy` is extended for the one proxy and
`RoutingProxy` is instantiated again, as `Res`, for the other; pipes, standard
input and the end of the process are shared. The train's thread is the loop of
`trainThread`: `TestStop`, `Send`, the read (the steps of `PlcProxy`), `Sleep`.
`main` makes the three ends, `EndResources`, `EndPlc` and `endTrain`, one after
the other in any order; `unit_tests/unit_test_train.c` ends the proxies first.
`order` is history.

What the proxies' modules leave to this one: the peer closes its end
(`PeerCloses`), after which `scanf` fails at once and each reader routes its last
line again and again (`ScanAtEnd`, `ResScanAtEnd`; before any line, whatever is
on the stack); `write()` blocks on a full pipe; `endPlcProxy` closes the pipe
under a blocked read (`ReadClosedPipe`); a thread that goes on with a freed proxy
stops in `UseFreedProxy`, where the code's behaviour is undefined.

### ResourceManager
`main` opens a socket of its own first (`connectSocket`). No file of the repository
defines that function; it is taken to open a socket or to fail, which `main` does
not test. Nothing uses or closes the socket: `socketFd` counts it. After the
database proxy (a failure there ends the process) `main` climbs the ladder of
`initResourceManager`: `malloc`, three semaphores, the socket
(`tcpCreateSocketWrapper`, whose steps the train managers take too). Each step may
fail; `Destroys` lists what each clean-up destroys, as the code has it. `held` is
what has been initialised and `open` counts the sockets of each process, main's own
included. `main` does not look for NULL and reads the manager's flag (`Crash`). A
process that ended may start again. Since nobody listens, `connect` and `accept`
fail. Nothing sets `finished`; the loop may end here all the same, so that what
follows it is checked. The file does not compile as it is: `resManager` and
`listenFd` are read as `manager` and its field.

### EchoLink
Server and clients look for an address with the same steps (`Start`), the server
with `bind`, the clients with `connect`. A client writes a line and blocks in
`read`; at the end of its input `fgets` fails unnoticed and the line is written
again. The network is a bag of datagrams: `Lose`, `Duplicate`, any order, and
`Refuse` for a port nobody is bound to, which the client learns of at its next
call. A line is its number and its client.

### SendCommand
The steps and return codes of `send_command`, over a stream of octets. The PLC's
four frames (acknowledgement, refusal, its report, the report of another station)
are their octets, and each octet carries the frame it is of and its place there.
`recvfrom` takes any number of the octets that have arrived, so a read may end
after any octet of any frame and begin anywhere; `reponse` keeps behind them what
an earlier read, or the stack, left. The buffer is modelled to place 14, the last
one the code compares. A closed connection leaves it alone. `send` may fall short
at any time.

The PLC acknowledges or refuses, and reports once; another station may report once,
at any time; the PLC may hang up at any time. It takes the confirmation for its own
when it is for the conversation in which it reported (`Port`), which the code reads
from place 13 of the buffer, wherever that octet came from. `Station`, the other
station, is not 14, the PLC's, and not 18: that octet has the value of a report's
length, and a cut can bring it to the length's place; with it TLC finds a refused
command that is said to be done.

A command that was accepted can be said to be done too early, and the model has
that behaviour: the first read takes the acknowledgement, the second ends after six
octets of another station's report. `is_read_successful` then sees the length of a
report and the addresses that the acknowledgement left in places 8 to 11. This is
why `WholeReportIsConfirmed` asks that the buffer begins with the header of one
frame (`HeaderIsWhole`): without it TLC finds that behaviour.

### XWayFrame
The frames of the exchange, for any command: `build_write_request`,
`build_ack`, `is_read_successful` and the package they work on, as sequences of
the octets that are sent. `Low` and `High` are `invert_byte_order`; `Station`
cuts a station id to an octet and `NetPort` packs network and port in one, with
the widths of the C types. The PLC's side (`WireRead`, `WordRead`, `ReportFrame`)
is written from the layout alone and uses none of them. A report comes from any
station, for any station, with the length of a report or another.

`FrameSamples` has the frames that `unit_tests/comm.c` keeps of a real exchange:
the request, the report and the acknowledgements. Its invariant `UnitTests` says
that the operators of `XWayFrame` build and accept exactly these octets, which
ties the model to the program's tests; its `ASSUME` evaluates
`is_write_ack_successful` on the PLC's acknowledgement.

## 3. Runs

| Run | Instance | What it shows |
|---|---|---|
| `database` | 3 trains, 2 resources of one unit, one id out of range, `SemValueMax` 2 | mutual exclusion, units are conserved, the holder can release, no lost wakeup, no wait on an uninitialised semaphore; under fairness a freed resource is used again; implements `ExclusiveUse` with its fairness |
| `double_release` | `RepeatSpec` | fails: a second release by the last owner is accepted and two trains hold one resource |
| `proxy` | 3 trains, 1 resource, amounts 1, 2 | the interleaved calls implement the atomic ones; the lock is exclusive and always given back |
| `requests` | 2 clients, 1 id out of range, 2 calls each | each call returns with its own answer |
| `plc` | 2 trains, 2 pipes, 2 messages and 2 reads each | in order, at most once, addressed to the train; a settled pipe delivers |
| `message_lost` | 1 train, 1 message | fails: registration by two threads at once loses the message and blocks the train |
| `train_manager` | 1 train, 2 pipes, 2 messages, 2 reads, pipes of one message | the train is freed after its thread left, and ended first it never uses a freed proxy; a repeated message is the last line of an input that ended; `endTrain` returns once the blocked read can |
| `resource_manager` | 2 train managers | whatever fails, a manager is complete with its socket or holds nothing; a failed start leaves one socket at most, the end none but main's own |
| `command` | one command, 12 contents of the stack, reads of any number of octets | a refused command is not said to be done; one said to be done on a whole header was reported and confirmed; a report sent after the wait began ends it |
| `echo` | 2 clients, 2 addresses, 2 lines and 3 writes each, one loss, one copy | each client gets its own lines; one datagram of a client under way besides copies; without copies the answer is to the last line; a read ends unless something was lost |
| `frames` | 4 addresses (one wider than the frame), 4 words, 2 conversations, 2 lengths | a frame says what was put into it; only the reply is accepted; the acknowledgement answers it; the unit tests' frames are reproduced |
| `coalesced` | one command | fails: acknowledgement and report taken by one `recvfrom` |

The failing runs are disagreements between the code and its comments, tests or
requirements; `PROJECT.json` quotes both sides under `findings`.

Bounds and why they are enough. Three trains give a holder and two waiters, the
smallest case in which one waiter overtakes another; two resources let a train
hold one and wait for the other, and show that the tables do not interfere.
`SemValueMax` 2 makes the signals saturate, which in the code takes
2147483647 releases: the invariants cover it. `database` has one unit of each
resource, as `attemptLockResource` registers them; other amounts are in `proxy`
and in the proofs. The proxy with one resource: two resources share nothing but
the lock. Two pipes for two trains makes `pipe()`
fail when one train is registered twice. Two calls per client are needed for a
late answer to meet a later call. A line that names an unknown client is added
only while fewer than `MaxLines` lines wait. In `command` the stack holds each combination of
values that the code's comparisons tell apart, and the low octet of the switch is
18, so that an octet of a report that is not its length has the length's value. The words
of `frames` are a train and a switch of the unit tests, a word of two octets and
0xFFFF, its conversations those of the tests; the proofs cover every value. In
`train_manager` both proxies draw on the two pipes, so that a registration by two
threads at once, and a `pipe()` that fails, both happen; pipes of one message
make `write()` block; two messages and two reads let a repeated line meet a new
one. In `echo` two lines and three writes let a late line meet a later one, and
the end of the input repeat the last; with two addresses the first can fail; one
loss and one copy are each enough to break the lock-step they bound. Two train
managers, interchangeable, restart beside the resource manager.

Deadlock checking is off where the system may stop: two trains that each hold
what the other waits for, bounded numbers of calls or writes, a lost datagram, a
process ended by SIGINT, a program that has returned. `resource_manager` keeps it.

Fairness. `database`: a waiter whose semaphore stays positive gets through and a
woken thread makes its next call (weak fairness: the threads are scheduled).
Nothing is assumed about who wins `sem_wait`, about a train asking or releasing,
so no train is claimed to get its turn. `proxy`: a thread inside the lock runs
on. `requests`: threads run and the resource manager answers. `plc`: trains and
reader thread run. `command`: the program runs, and the PLC deals with what it
was sent; hanging up is never forced. `train_manager`: the train's thread, the
PLC proxy's reader thread and an `endTrain` that has begun run; nothing is
assumed of the peers, of the other reader or of a program calling the ends.
`echo`: the programs run, and a datagram that the network does not lose is
delivered, or refused where nobody is bound; losing and copying are never forced.

## 4. Proofs

`ResourceDatabaseProofs.tla`, for every finite set of trains, any set of
resources and ids, any amounts up to `SemValueMax`, from `DatabaseAssumption`:

* `TypeCorrect`, and `Invariance`: `IInv` holds in every reachable state.
* `UnitsAreConserved`, `WakeupsAreNotLost`, `WaitsAreOnInitialised`.
* With amounts of at most one: `MutualExclusion`, `HolderCanRelease`.
* With amounts of one: `RefinesExclusiveUse` (`Spec => Use!Spec`).

The argument. `NoLostWakeup` is not inductive: releasing and waiting move units
and signals separately. `TokensCover` strengthens it to a count: signals in the
semaphore plus trains already let through are at least the free units. It is
preserved because a release adds to both sides, a wait turns a signal into a
train let through, a lock takes one from the free units and at most one from the
trains let through, and a train that is refused leaves no free unit to cover. At
`SEM_VALUE_MAX` a release adds no signal; then `UnitsConserved` is needed, which
keeps the free units within the amount. `UnitsConserved` needs `WaitersLack` (a
train does not wait for what it holds, so that it is never granted twice) and
`RegisteredFirst` (an unregistered resource has no holders). `MutualExclusion`
then follows from counting, and the refinement from `LockableIsUnused` and
`RefusedIsUsed`, which say what the counter tells about the holders.

Each invariant lemma (`TypeStep`, `UnitsStep`, ...) has one step per action.

`ResourceDatabaseProxyProofs.tla`, from `ProxyAssumption`, for every finite set of
trains, any resources and amounts: `TypeCorrect`, `LockIsExclusive`
(`LockGuards`), `OneUnitIsExclusive` (`OneUnitOneTrain`). The invariant `IInv`
has a part for each thing a thread relies on: `Exclusive` (the semaphore is 0
exactly while one train, and only one, is between `sem_wait` and `sem_post`),
`RegistrarOK`, for each train `CallerOK` (what it asked for) and `AccessOK` (what
it read is still true at the access where it uses it), `KnownOK` (a
known resource is registered and initialised, one registered but not known is
being registered, only known ones are held), and `UnitsOK` (`Free` plus holders is
the amount). The lemma `Alone` carries the argument: a train inside is the only
one there, so a step of another train writes no table (`InsideFrame` and the
lemmas beside it), and what the train inside read stays true. Of the
steps outside, `waitResourceProxy`, which takes no lock, writes only `interest` of
a resource that is already known; what the invariant says of the value of
`interest` is about resources not yet known.

The same module has `RefinesDatabase`: `Spec => ImplementsDatabase`. The write of
`owner` is `GrantLock`, the refusal's `sem_post` `RefuseLock`, the `sem_post` on `interest` `AcceptRelease`, the wait
`WaitResource` and the registrar's `sem_init` `RegisterResource`; every other step
leaves the mapped tables alone, which is what `Free` is for. With
`RefinesExclusiveUse` the chain from the accesses to what trains are promised is
proved, where amounts are one.

`ResourceManagerProofs.tla`: `TypeCorrect`, which counts the sockets, and
`NothingIsLeft` (`CompleteOrNothing`), for any train managers. The invariant
`Ladder` says what has been initialised and which sockets are open at each rung,
main's own apart from the manager's, and that main never connects. A failed start
may have left a socket; the end of the process, which follows, is what keeps the
count from growing.

`ResourceManagerProxyProofs.tla`, for any clients, ids out of range, answers,
pipes and bounds, from `RoutingAssumption` and `CallsAssumption`: `TypeCorrect`,
`PipesMatch` (`ReadsItsOwnPipe`), `AnswersMatch` (`AnswersItsRequest`). Neither is
inductive: that a client reads the right answer depends on who opened its pipe,
on what is in it, and on where its request is. The invariant follows one call
of a client from the request to the read: the request is with the resource
manager, or its answer is a line of the input, the reader's current line or the
one message in the pipe, in one place only, and everything else that names the
client is gone. The reader thread never registers a client here, since the
client was registered before it asked.

`TrainManagerProofs.tla` is about `PlcProxy` alone and in a train manager.

* `PlcTypeCorrect` (part of the `ManagerTypeOK` of run `train_manager`),
  `PlcInOrderOnce` (`InOrderOnce`), from `RoutingAssumption` and
  `PlcAssumption`, for any trains, pipes and messages. Here the reader and the
  train may register at once and a pipe may be replaced, so the invariant
  (`PlcInvariance`) speaks of owners: there is an assignment of the open pipes
  to clients (`Owned`) such that all ends in the table are the client's own and a
  pipe holds only its owner's messages. `Registered` says that the reader only
  registers a train before it has routed anything to it, and that a train left
  on a replaced pipe sleeps on an empty one that nobody writes to; so a train
  that reads has the pipe the table names. `Ordered` then gives the order along
  the way of a message: numbers rise within the input, from the input to the
  reader's line (`ToCome`), from there to the pipe and from the pipe to what was
  read last.
* `ManagerTypeCorrect`, `RepeatsOnlyLast` (`RepeatsOnlyLastLine`), with
  `TrainAssumption` too. A second proxy takes pipes and lines of the same process:
  its pipes are given to `Main` in the assignment of owners, so that whatever it
  writes is nobody's message, and a line it takes leaves the rest in order
  (`OtherStep`). At the end of the input the last line comes again, so each
  comparison of `Ordered` is relaxed to "newer, or the last line": `ManagerInv`
  (`ManagerInvariance`) has the relaxed order always and the strict one as long
  as the input has not ended. The last line stays the same from then on, except
  that a reader that never had one takes what is on the stack, numbered 0. The
  steps of the PLC proxy are carried over from `ProxyStep`, not proved again.
* `TrainFirst` (`TrainFirstIsSafe`), for any bounds. The invariant `OrderOK`
  (`OrderHolds`) says that a call that ends something begins once, and only when
  those before it have returned: a train ended first is gone before the proxy's
  end begins, and its thread with it.

`SendCommandProofs.tla`, from `CommandAssumption`, for any stack, station (but 14
and 18), conversation and switch, and every cut of the stream: `TypeCorrect`,
`RefusedIsNot` (`RefusedIsNotDone`) and `WholeIsConfirmed`
(`WholeReportIsConfirmed`). That a refused command is not said to be done is not a
matter of the refusal alone: the second read may begin and end anywhere, and
another station's report, whose length is right, may lie before or behind the
refusal. The invariant (`Invariance`) keeps what the PLC can have sent to a command
that is not accepted (`SentOK`: five streams), that after the first read the buffer
begins with what was taken (`FirstRead`), and that the buffer passed the check for
an acknowledgement (`Checked`). Of such a stream, `LengthIsElsewhere` says that
where the first read stopped at a place that looked like an acknowledgement, the
sixth octet from there is not a report's length: a first read of the stray report
stopped before its own length, one of the refusal before its status, and from
neither is a length six octets away. Less than six octets leave the
acknowledgement's length in its place. `WholeReportIsConfirmed` rests on `BytesOK`
(every octet received is that of its frame) and `ReportSent` (octets of the report
exist only when the PLC has sent it); a whole header that is accepted can only be
the report's (`WholeHeader`), and then so is the conversation. Without a whole
header the claim is false of the code.

`EchoLinkProofs.tla`, from `EchoAssumption`, for any clients, addresses, lines,
losses and copies: `TypeCorrect`, `NoForeignLine` (`EchoIsOwn`), `InLockStep`
(`LockStep`), `ReadsWhatItWrote` (`AnswersLastLine`). `LockStep` bounds the
datagrams under way; the invariant `Balance` counts the refusals a client has
not noticed with them, because a refusal takes the place of an answer. `Fresh`
adds that without copies whatever is under way carries the client's last line,
and `EchoIsOwn` needs that the server's buffer and peer address were filled by
one `recvfrom`.

`XWayFrameProofs.tla`, for any addresses, words, conversations and lengths of the
widths in `FrameAssumption`: `TypeCorrect`, `RequestIsRead`, `RepliesOnly`,
`AckAnswers` and `SwitchIsRead`. The lemmas `WordOctets`, `AddressOctets` and
`WireOctet` say that splitting a word, and packing network and port, can be
undone; `RequestOctets`, `AckOctets` and `ReportOctets` place the octets in the
frames. The invariant `IInv` says which frame each buffer holds. The reply test
compares octets, and `AddressRead` turns that into a comparison of addresses;
two station ids that differ by 256 are one station on the wire. `SamplesAgree`
(`UnitTests`) evaluates the operators on the frames of the unit tests; that
the test's report is not rejected needs `Rejected`, the reason for a rejection.

Assumptions on constants. They say that ids of clients, strangers, reader and
main differ, that bounds are numbers, and that the markers (`NoPipe`,
`NoLine`) are none of the values they stand beside, and `CommandAssumption` the
octets and the station of section 2; each is evaluated by TLC in the
runs. TLC checked the inductive invariants of the routing proxies, `EchoLink`,
`SendCommand` and `XWayFrame` too, on the instances of the runs (those of two
trains and of two echo clients in part); they have no run of their own, since the
proofs subsume it.

Only model-checked: liveness (`FreedIsTaken`, `LockAlwaysFreed`, `CallsReturn`,
`SettledReadReturns`, `LateReportEndsWait`, `EndTrainReturns`,
`ReadEndsUnlessLost`, and the fairness of `ExclusiveUse`), since `ENABLED` and
fairness are out of the prover's reach.

## 5. Not modelled, and the plan

What the safety properties say is proved. Next, in this order:

1. An abstract specification of a mailbox per client, which the two routing
   proxies implement where a client is registered once.
2. When the resource manager's threads exist: the server that joins
   `ResourceManager` and `ResourceDatabaseProxy`, with the registrations beside
   requests, and the end of the database beside its callers.

Known contradictions between code and comments that no run checks:

* with two units of a resource the second lock overwrites the owner, and the
  first holder's release is refused;
* `waitResource` may return while the resource is locked
  (`resource_database.c:134`, `:144`): a signal says only that a unit was free;
* `registerResourceProxy` takes no lock: beside a request it restores a taken
  unit (`resource_database_proxy.c:134`, against lines 9 to 12);
* the end of a proxy is said to be graceful and to return 0, and SIGINT mostly
  ends the process;
* `requestResource` is said to return an error on failure, and returns 0 when the
  resource is refused;
* a read that ends inside a header is checked with what the frame before left
  behind it (`comm.c:108` to `:132`): `send_command` may return 0 on six octets of
  another station's report, before the one it is said to wait for and to make sure
  of (`main.c:87`, `:96`; `SendCommand` has it, section 2);
* after a connection is closed `send_command` checks bytes it never received
  (`WholeReportIsConfirmed` excludes that case by `hungUp`);
* `unit_tests/unit_test_train.c:22` to `:24` end the proxies before the train
  (`TrainManager` reaches `UseFreedProxy`);
* after the end of its input a proxy routes its last line again, and two readers
  on one input take each other's lines (`TrainManager` has both);
* `accept` is never preceded by `listen`, `tcpCreateSocketWrapper` leaves its
  socket open when a later step fails, `main` does not test for NULL and never
  closes the socket it opens first, and `finished` of the resource manager is never
  set (`ResourceManager` has all five; `CompleteOrNothing` says how much is left).

Left out: releases and waits of ids out of range (an access outside the arrays),
failing `malloc` and `sem_init` in the proxies, the end of the database proxy
beside callers, malformed lines, the contents of the requests, the text that is
printed, the stubs of `comm_resource.c`, headers without code, build files. In
`RoutingProxy` the end closes the pipes and frees the table in one step
(`JoinAndFree`); what a thread does with memory after it was freed is one
undefined state. In `EchoLink` a client whose input is empty from the start (it
sends an uninitialised buffer) and empty datagrams are left out.
