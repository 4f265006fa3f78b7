# Coffee Server: a TLA+ model of the intercom

The Coffee Server (`src/`) is the server of a push-to-talk intercom. Devices and a
test page open a WebSocket, join a room, ask for the room's "mic", and send audio
frames that the server relays to the others in the room; they also exchange chat
messages and are told who is in which room. The repository also has a database
layer. This directory models both in TLA+, checks them with TLC on small instances
and proves the main safety properties with TLAPS for every instance.

## 1. The system

| Part | Source | State | Operations | Model |
|---|---|---|---|---|
| Hub | `ws/hub.go` | `clients`, `speakers`, `audioStats`, six channels, a 5 s ticker | register, unregister, chat, start, stop, audio, idle timeout, eviction | `Hub`, abstractly `Floor` |
| Segment statistics | `ws/hub.go:251-484` | one `roomAudioStats` per room | count, drop, emit, log | `SegmentStats` |
| Connection | `ws/client.go`, `ws/ws.go` | two goroutines, the queue `send` (1024), deadlines | read, answer, pass to the hub, write, ping, close | `Connection` |
| Room snapshots | `ws/hub.go:486-621`, `ws/client.go:168-220` | `revision` | snapshot, broadcast, answer | `Snapshots`; what broadcasts do to queues in `Hub` |
| Dispatch and chat | `ws/client.go:97-166, 168-220, 317-419`, `ws/hub.go:141-161, 799-825` | none | which handler takes which JSON; `dataFor` | `Dispatch`; evictions in `Hub` |
| Audio framing | `ws/client.go:222-315` | none | split a batch, check headers | `AudioBatch` |
| Test page | `tools/intercom-listener.html` | request flags, play queue, counters | press, release, acks, playback | `PttPage` (playback planned) |
| Database layer | `common/db/db.go` | pool singleton, open transactions, counters | queries, retried writes, transactions, close | `DbCalls`, abstractly for the maximum `DbMetrics` |
| Helpers, log, config, status API | `common/pub`, `common/log`, `config`, `api`, `main.go` | none that matters | conversions, wiring, I/O | not modelled |

How they interact. `Hub.Run` is one goroutine. It alone changes `clients`,
`speakers` and `audioStats` (the first two under a mutex, as other goroutines read
them). Every connection has a reader goroutine that blocks on unbuffered channels
(register, unregister, start, stop) or puts messages into buffered ones (chat,
audio; 256 each), and a writer goroutine that drains the connection's queue. The
hub never blocks on a queue: each send is a `select` with a `default`. When a
broadcast finds a queue full it puts the client on a list and, after the loop,
evicts those on the list, which closes their queues, frees their floors, announces
that, finds other queues full, and so on, all within one handler. Readers also put
their answers into their own queue, concurrently with the hub.

The database layer is a package of functions that any goroutine may call; none of the
server's packages does so yet. The first call opens the pool inside a `sync.Once`.
Queries and writes take a connection of the pool under a deadline, writes are tried up
to three times, a transaction keeps a connection while its callback runs, and every
call ends by recording how long it took.

What is hard here:

* the nesting of broadcasts and evictions inside a handler;
* requests over seven channels that `select` takes in any order: audio lags behind
  or runs ahead of start and stop, timeouts meet frames that still wait;
* floors of rooms that the holder is not in: its frames do not keep them;
* a queue closed by the hub while its reader still answers requests;
* two goroutines per connection that must end each other, with a peer that may be
  lost or may send without ever reading;
* statistics that are created by stray frames as well as by talks;
* lists put together by readers and hub at the same time, numbered after the lock
  they were read under has been released;
* messages cut anywhere, and two parsers (server and page) that must agree;
* a page whose requests and answers carry no number, and whose answers may be dropped;
* writes that are repeated after errors that say nothing of what the database has done,
  in transactions too; callbacks that go on after an error, or need a second connection of
  a pool they exhaust;
* a maximum kept by atomic fields, in a sequence of steps that is not atomic.

What makes each part correct:

| Part | Correct when |
|---|---|
| Hub | it implements `Floor`; nobody keeps a floor in silence or after leaving, or loses it to somebody else; clients hear of talks truthfully and in order; registered queues are open; requests are served |
| Segment statistics | a segment counts its own frames, all of them, and sends out the reason of its last drop |
| Connection | its goroutines end together and leave the hub, whatever fails first |
| Room snapshots | broadcasts are exact, revisions order them, only an overtaken answer is old, or a list that an untold eviction overtook |
| Audio framing | the frames of a message are the message; what is relayed the page plays without a warning |
| Dispatch and chat | what no handler takes reaches one room, marked for sender and others |
| Database layer | writes and transactions report what the database has; connections come back; every call returns that does not begin a transaction inside another; the maximum loses only overlapped calls |
| Test page | it sends audio exactly while it talks, and has no floor that it does not know of |

`PROJECT.json` lists each of these hazards at its line with the properties that
cover it.

## 2. Modules

| Module | What it is |
|---|---|
| `Floor` | What the service promises: clients join, leave, take and free floors. |
| `Hub` | The hub goroutine, the readers' requests, the ticker, and what clients were told. |
| `Membership` | What one connection and the hub are to each other, without the messages. |
| `HubInv` | The inductive invariant of `Hub`, and the hub as one of its connections sees it. |
| `HubProofs`, `HubListsProofs` | Theorems about `Hub`: floors, talks, queues and connections; the lists. |
| `MCHub` | Instances of `Hub`, the symmetry and the two action constraints. |
| `SegmentStats`, `SegmentProofs` | One room's audio statistics, and theorems about them. |
| `Connection`, `ConnectionProofs` | One connection in detail, and theorems about it. |
| `Snapshots`, `SnapshotsProofs` | How lists are put together by hub and readers, and theorems about it. |
| `MCSnapshots` | The symmetry of `Snapshots`. |
| `AudioBatch` | How a binary message becomes frames, on the server and for the page. |
| `Dispatch`, `DispatchProofs` | What becomes of any one message: audio (it EXTENDS `AudioBatch`) or text; theorems about both. |
| `MCDispatch` | The rooms of the connections in `Dispatch`'s instance. |
| `DbMetrics` | `recordMetrics` for any number of callers. |
| `DbCalls`, `DbProofs` | The database layer's calls, which record as `DbMetrics` does (it EXTENDS it); theorems about both. |
| `PttPage`, `PttPageProofs` | The page's simulated terminal and the server as it sees it; theorems. |

### Hub

`todo` is the hub goroutine's call stack: what the running handler still has to
call, innermost first. Each `case` of `Hub.Run` is an action that needs an empty
stack and pushes the calls that the handler makes (`HubRegister`, `HubUnregister`,
`HubStart`, `HubStop`, `HubAudio`, `HubChat`, `HubTick`); each call that broadcasts
or frees floors is an action that takes the head of the stack (`DoEvict`,
`DoRelease`, `DoTalking`, `DoReleased`, `DoUsers`, `DoList`) and pushes the
evictions it causes. So a handler is many steps and the readers' steps fall in
between, as in the code.

The queues. `Hub` keeps of a client's queue only whether a send may find it full:
at any send for a client in `Slow`, never for the others. `closed` holds the clients
whose queue the hub has closed. Acks and diagnostics are sent with a `default` that
drops them, change nothing and do not appear.

What the clients were told. `heard`, `played`, `roster`, `talker` and `lobby` are
history variables: the last `intercom_talking` queued for a client, whose audio has
been queued since, the users and the talker of its last `room_users`, the count of
its last `room_list`. Answers that a reader gives itself are not in them.

Time. `idle[r]` counts the ticker periods begun since the speaker's last audio.
`speakerAudioIdleTimeout` is `IdleTicks` periods; after n ticks between n - 1 and
n + 1 periods have passed, so at `IdleTicks` the timeout may or may not be over
(`Overdue`). The counter stops at `IdleTicks + 1`, when it surely is.

The default room is the only room in `room_list`, as in the code. Rooms are
model values: normalising a room's name happens in the reader and gives some room.

`MembershipOf(c)` (in `HubInv`) is the hub reduced to one connection: `MemberOf` reads
`clients` and `closed`, `ReaderOf` what its reader waits for, and it is condemned while an
eviction on the stack names it (`Doomed`). It is an instance of `Membership`, as the hub
of `Connection` is, below.

### SegmentStats

One room's entry of `audioStats`. A handler is one step: the hub goroutine alone
touches the entry, and nothing that happens within a handler after a frame has
been counted depends on it. Who holds the floor, whose frame it is and whether a
queue takes it are inputs. An entry made by a stray frame has `segment = FALSE`
(`segment_id` 0) and shows nothing.

### Connection

`reader` and `writer` are the program counters of the two goroutines, `member` the
connection's place in the hub (not yet, in, removed with its queue closed),
`condemned` the time between a send that found the queue full and the removal, during
which the hub can receive nothing. `Client.send` is only its length. A peer that is
`deaf` sends and does not read, one that is `lost` does neither; the network takes
`NetCap` writes for them. Pongs and the deadlines they renew are in `NothingToRead`:
a read fails for certain only when the connection is closed or the peer lost. It may
fail at any time, which stands for a peer that closes and for messages over the
limit.

The hub is only what the connection meets of it: `HubRegister`, `HubReceive`,
`HubUnregister`, and a broadcast that finds the queue full and then evicts (`condemned`).
That this is a hub which `Hub` can be, and that the connection asks nothing of it that
the readers of `Hub` do not, is what `Membership` is for: both modules implement it
(`ConnectionsServed`, `MembershipSpec`).

### Snapshots

Where `Hub` makes a list in one step, `Snapshots` takes the steps of
`roomUsersSnapshot` apart: read under the lock (`Ask` for a reader, `Call` for the
hub), draw the revision (`DrawNumber`), count again for `truncated` (`Count`), queue
(`Answer`, `Broadcast`). A list carries `at`, how many changes the room had seen when
it was read, which says how old it is. The room's changes are those of `Hub` reduced to one
room, with what a handler has still to do in `todo`, in the handlers' order. A broadcast
evicts any of its receivers (`Evict`), which frees their floor (`Release`), is announced
(`Talk`), and may evict others. The eviction of a client without the floor is told to
nobody: `announced` is how many changes there had been at the last one that is told.
`cast`, `answer` and `latest` are what a client was told last, by whom.

### AudioBatch

One message and the loop of `handleAudioFrames`: each step puts one frame into the
hub's channel. A message is a length and what the header at the current offset says,
chosen when the loop comes to it, which is sound as headers never overlap and no byte
of a payload is looked at. Or it is a batch as the page's simulator builds it
(`sim`). `PagePlays` is what the page's `parseHeader`, `splitAudioBatch` and
`playBinaryFrame` throw no error for; `PageWarns` is `validateAudioShape`, which only logs
a warning: the page plays such a frame, the server drops it.

### Dispatch

One message, from `ReadMessage` to the reader's next one or to the last copy the hub
makes. `text` is what decoding tells of a text: whether it is JSON, null, an object, and
for the fields that some struct has whether they are there, blank, or of another type.
`at` is the test that comes next. `Try` is one of the four handlers, which decodes the
text into its own struct (`Decodes`) and either takes it, leaving its answer or request
in `outcome`, or leaves it to the next. `HandleChat` puts it into the hub's channel;
while it waits clients come and go (`MembersChange`), and `Relay` is `Hub.Run`'s case
with `dataFor` for each receiver, any of which may have a full queue. `running` turns
false when the hub's goroutine panics. An audio message takes the steps of `AudioBatch`.

### DbMetrics and DbCalls

`DbMetrics` is `recordMetrics` alone: durations come from anywhere, and the load, the
comparison with the store, of each caller interleave. `sure` is a history variable, the
longest duration of a call that had nobody else between its load and its store.

In `DbCalls` `call[c]` is the call that goroutine c makes, `at` its program counter
through `newDB`, `retry`, the statement, the back-off and `recordMetrics`, or through
`transaction`. `tx[c]` is the transaction it is made in, and what the database has of
it. A callback may make any call, on the transaction or on the pool (`Inner`), and goes on
as it likes after an error; `failure` says whether it has. Whatever its calls did it
returns nil, an error, or panics (`CallbackEnds`). A transaction that it begins (`Nest`) is
the call of another member of `Caller`, for which it waits (`inner`): a member of `Caller`
is a goroutine or such a call of one. `Query` and `Get` are one operation, as are `Exec` and `Do`: they differ
in parameters. `pool` has the free connections; the external `database/sql` gives one
to anybody who waits, and the deadline ends a waiting call (`GetNoConn`). The external
database answers each statement with success or an error, carried out or not, with any
text; in a transaction an error may have rolled it back, so that the session commits
what follows by itself (`"auto"`), or the connection may be lost (`"dead"`). `carried`,
`lost`, `told`, `pending`, `kept`, `repeated` and `failure` are history variables that
compare the database with what was reported. `Expire` ends the deadline of the call that is being made; a
transaction has none (`Tran`; the context that a caller gives to `Tx` is left out: its
end is like a lost connection).

### PttPage

`pending`, `active` and `timer` are the page's flags, `field` its room field,
`toServer` and `toPage` the messages under way, in order. `speaker` is the server's
`speakers`, the other clients in one, and `served` whether the page is one of its clients.
Other clients come and go (`OthersTalk`). A closed connection's messages are lost and its
floors become someone else's until the server has freed them. The server may end any of
the page's talks by itself: by the idle timeout (`IdleTimeout`), also of a talk that is
about to begin or that the page keeps sending audio for, since frames go to the room the
page was connected in and do not keep the floor of another; or by evicting the page
(`Evict`), whose requests it then ignores. It drops the answer to a start when the page's
queue is full (`AnswerStart`).

Three history variables say what has happened: `strayed`, the user has asked again before
the answer came, or changed the room in the middle of a talk; `expired`, the server has
ended a talk by itself since the last request; `unanswered`, it has dropped an answer since
then.

### Faulty variants

Some definitions are preceded by a variant with the same parameters and a plausible
mistake (`GrantsAnyone` before `Grants`, `DropOnce` before `Drop`). Nothing refers to
them. With a variant in the place of the definition TLC finds a property violated:
the table of `mutants` in `PROJECT.json` says which. This guards the properties
against being true of any hub.

## 3. Runs

All with `tlc -workers 2`; the largest take about two minutes.

| Run | Instance | Checks |
|---|---|---|
| `hub_pair` | 2 clients, 1 room, 1 `Slow`, lists cut at 1 user, every interleaving, fair | `IInv`, `ConnectionsServed`, `StatsFollowFloor`, `RosterTalkerTruth`, `FloorsKept`, `RequestServed` |
| `hub_three` | 3 clients, 1 room, 2 `Slow` (`TalkOnly`, symmetry) | `FloorSpec`, `HeardTruth`, `AudioInTalk`, `TalkAlternates`, `ListsMissNobody` |
| `hub_stale_roster` | 2 clients, 1 `Slow` | `RosterTruth` is violated |
| `hub_mic` | 1 client, `Slow`, 2 rooms, `IdleTicks` 2, every interleaving, fair | `SpeakersRegistered`, `ForeignHolderReleased`, `MicNotHeldSilently` |
| `segment` | 2 kinds of invalid frame, sequence numbers mod 3, an update every 3 frames, 5 frames an entry | types, `CountsOwnFrames`, `EveryFrameCounted`, `LastDropShown` |
| `segment_gaps` | the same | `NoFalseGaps` is violated |
| `connection` | a queue of 2, 2 writes in the network, fair | types, `MembershipSpec`, `PumpsEndTogether`, `EvictedEnds`, `DeafPeerRemoved` |
| `connection_reply` | the same | `ReplyNeverPanics` is violated |
| `snapshots` | 2 clients, lists cut at 1 user, 3 changes, evictions by any broadcast, requests up to revision 4 (symmetry) | types, `BroadcastsExact`, `LowerIsOlder`, `OnlyAnswersStale` |
| `reader` | 3 clients, 2 rooms; headers of 2 bytes, frames of 2 or 3 samples, messages up to 12 bytes; every kind of text | types, `FramesTile`, `RelayedIsPlayable`, `ChatDelivered` |
| `ptt_page` | 2 rooms, 4 messages under way, timeouts, evictions and dropped answers at any time, fair | `TimerIffActive`, `PageKnowsFloor`, `PendingEnds` |
| `db` | 2 callers, 3 calls, those in callbacks included, 1 connection, 1 of it warmed up, 2 attempts, durations 0 to 2, fair | types, `ReportedWrites`, `TransactionsAtomic`, `ConnectionsReturned`, `MaxMissesOnlyOverlapped`, `CallsReturn` |

`RegisteredQueuesOpen` and `MemberHasReader` have no run of their own: they follow from
`ConnectionsServed` and `MembershipSpec`, and are proved for every instance.

Bounds and why they are enough. A nested eviction needs a client that is evicted,
one whose eviction announces it, and one that hears of it: `hub_three` has them.
Two rooms are needed for floors held elsewhere (`hub_mic`). The
channels hold one message of each kind (`AudioCap`, `ChatCap` 1), so that one
message waits while everything else happens; what a longer channel adds is several
such messages, of which each is handled by itself. `MaxRoomUsers` 1 makes two
users too many (`hub_pair`, `snapshots`). In `segment`, 5 frames pass an update, a wrap of the sequence
numbers, and every pair of drop reasons twice. In `connection`, a queue of 2 is empty,
partly full and full. In `snapshots`, three changes are a change between any two of
the steps in which a list is put together, of a room with none, one and too many
users, and two readers overtake each other and the hub; an eviction may be one of them
and may free a floor, which is another; what a fourth change adds is another overtaking of
the same kind. In `reader`, 12 bytes are three of the
shortest u-law frames or two PCM16 frames, or fewer and a next one cut anywhere; sample counts are
below, at and above both limits (`MinSamples` 2, so that 0 and 1 are below). In
`ptt_page`, four messages are start, stop, start and an answer under way together. In
`reader`, three clients are the sender, one in its room and one elsewhere, and any of
them is in the hub or not when the message is relayed. In `db`, one connection is the pool
at its limit: two callers compete for it, and a callback waits for the one that its own
transaction holds, or for a transaction that waits for it. Two attempts are one that is
repeated and one that is the last; three calls are a transaction, a write in it and the
statement whose failure undoes it, a transaction, a failure that is ignored and a write
after it, or a transaction, one inside it and one more. Two callers overlap in
`recordMetrics`, and with durations up to 2 a larger maximum can be overwritten by a smaller
one. `CallsReturn` leaves out the behaviours in which a transaction that was begun in a
callback waits for ever (`NestedWaits`), which with one connection it does unless the pool
is closed. The proofs have no bounds.

Reductions. `hub_pair` and `hub_mic` explore all interleavings. The
larger instances use an action constraint of `MCHub`: under `Prompt`, a handler is
not interleaved with the steps of readers and ticker, and at most one reader waits
on the hub. A handler's steps neither read nor write what those steps change (the
readers' phases, free places in channels, the pending tick, `idle`, which only
`Elapse` ages and only when the floor is held), and a waiting reader does nothing
until it is received, so for properties of the states between handlers every
behaviour has an equivalent one under `Prompt`. `TalkOnly` moreover leaves out
ticks, chat and invalid frames, which the other runs have.

Fairness. `Hub!FairSpec`: the hub goroutine runs (`WF` of its calls), time passes
(`WF` of `Elapse`), and `select`, which picks among ready cases at random, takes
each case that is ready again and again (`SF` of `HubTick` and of `Serve(c)`; a
channel queues the goroutines blocked on it, so that no reader is passed over for
good). `Connection!FairSpec`: goroutines run; the hub serves its readers (what
`RequestServed` shows of `Hub`); every write ends, as it has a deadline
(`writeWait`); the writer's `select` takes its ready cases in the end and its ticker
fires on (`SF`); a read fails once nothing more can come, after what was buffered
has been read (`SF`). Neither assumes anything of the clients. `DeafPeerRemoved`
says nothing of how long it takes: until pings and broadcasts have filled the
network's buffers.

`PttPage!FairSpec`: messages arrive (`WF` of the server's handlers, which
`RequestServed` shows of `Hub`, and of `ReceiveAck`), a closing socket closes, the
connection of an evicted client is closed (`EvictedEnds` of `Connection`), and the interval
fires. It assumes nothing of the user.

`DbCalls!DbFairSpec`: goroutines run, the database answers or its connection fails,
callbacks end (`SF` of `Step`: a connection that is given back goes to any of those who
wait, so that one of them may be passed over, but not for ever), the warm-up's pings end
and deadlines pass (`WF`). No transaction is assumed to be short.

`connection` and `connection_reply` do not check for deadlock: a connection that has
ended takes no more steps; nor do `reader` (its one message has been dealt with),
`snapshots` (its changes are bounded) and `db` (its calls are).

## 4. What the checks found

* `hub_stale_roster`: `removeStaleClients` (`ws/hub.go:770-776`) tells nobody who has
  gone, and the unregister that follows returns early, so lists of users and the
  lobby's count stay wrong until the next change, against `src/README.md:8`.
* `segment_gaps`: `handleAudioFrame` overwrites `lastSeq` before `recordSeq` compares
  with it (`ws/hub.go:259, 313, 378`): every frame after the first counts as a gap.
* `connection_reply`: an answer of the reader between the hub's eviction and the end
  of the connection is a send on a closed channel (`ws/client.go:399`, also 188 and
  216). `net/http` recovers the panic and the deferred unregister still runs, so the
  connection ends properly (`EvictedEnds` holds), but not by the `default` branch.

Also seen while modelling, without a run of its own:

* A reader's answer may be queued after a newer broadcast (`ws/client.go:208-216`) and
  is then the last list the client gets, until the room changes again. By the
  revision a client can tell only when the answer was numbered before the
  broadcast (`LowerIsOlder`); the other way round the older list has the higher one.
  The page does not look at revisions.
* The `truncated` flag of a reader's answer may be wrong either way, as the users are
  counted after they were read (`ws/hub.go:558`); of a broadcast it is right
  (`BroadcastsExact`).
* A message that ends inside a payload, after a good header, is dropped with the empty
  reason of that header (`ws/client.go:236`); a message that ends inside a header gets
  `bad_batch_len`.
* After start (answered busy), stop and start again the page takes the first answer for
  that to the second request (`tools/intercom-listener.html:1284`), says that it failed
  and ignores the answer that grants it the floor: this is what `strayed` leaves out
  of `PageKnowsFloor`. The idle timeout then frees the floor.
* The "inactive" case of `releaseIdleSpeakers` (`ws/hub.go:689-693`) cannot happen
  (`SpeakersRegistered`); nor can the late report of a drop in `logAudioSegment`
  (422-425, `LastDropShown`).
* A frame that finds one queue full and reaches nobody counts as two drops
  (`ws/hub.go:317-322`).
* A request with a field of the wrong type, or with capitals in any type but that of a
  keepalive, is no request and is relayed to the room as chat (`WellFormed`).
* A blank room name is the sender's room in a request but the default room in chat
  (`ws/client.go:322` against 331 and 203).
* The text `null` gives `dataFor` no error and no map (`ws/hub.go:804-810`): the
  assignment ends the hub's goroutine, and with it the program. No other text does
  (`ChatDelivered`).
* `MaxQueryTime` is fed by writes too, not only by queries as `common/db/db.go:57` says,
  and a call that overlaps another may be forgotten.
* The texts that `isRetryableError` looks for are lower case; MySQL's own messages begin
  with capitals ("Deadlock found", "Too many connections"), so that most of what is
  meant is never repeated. The model lets any error be of either kind.
* Where a retry inside a transaction does follow the transaction's end in the database,
  the repeated statement and what comes after it commit at once, whatever `Rollback`
  says later (`common/db/db.go:454-466`): `TransactionsAtomic` leaves out just this
  (`repeated`).
* A write whose answer was lost and which is repeated is carried out more than once
  (`ReportedWrites` counts the lost answers); the back-off sleeps after the last attempt
  too (606).
* If opening the pool panics, `once` is spent and every later call meets a nil instance
  (62-95).
* A callback that ignores an error and returns nil has what is left of its transaction
  committed (512-525): after a deadlock, which rolled back what it had written, that is
  what came later, and the transaction reports success. `TransactionsAtomic` leaves this
  out too (`failure`).
* A transaction that a callback begins (`Tran` has no deadline, 483-499) may wait for ever
  when the pool is exhausted, since its own goroutine keeps a connection meanwhile, and with
  it whoever waits for that connection: `CallsReturn` holds but for this (`NestedWaits`).
* A page whose refusal was dropped because its queue was full stays pending until the user
  gives up (`ws/hub.go:763-767`; `unanswered` in `PendingEnds`). A page whose talk the
  timeout has ended goes on sending (`expired` in `PageKnowsFloor`); so it does every 5 to
  10 s if the room in its field is not the one it was connected in.
* The page plays frames that the server never relays, with a warning: of another sample
  rate or an unusual number of samples (`PageWarns`).

## 5. Proofs

Checked with `tlapm` 1.4.5 from the constants' assumptions (`HubAssumption`,
`SegmentAssumption`, `ConnectionAssumption` and the like: finitely many clients,
capacities at least 1, markers that are not clients), for every number of clients, rooms and
messages.

**Hub.** Most properties speak of the states between two handlers and are false
inside one, so the invariant has to say what repairs them. `HubInv` reads this off
the stack: `Doomed` (clients still to be evicted), `Ending` (rooms whose talk is over
and not yet announced), `Relisting` (rooms whose users are still to be sent),
`Beginning` (the talk about to be announced), `Leaving` (the client just removed).
`IInv` then says: only `Leaving` holds a floor without being registered
(`FloorInv`); statistics without a holder belong to a room in `Ending` (`StatsInv`);
a client that was told something wrong is in `Doomed`, or its room is in `Ending` or
`Beginning` (`HeardInv`, likewise `TalkerInv`); and the stack has its shape, with
removals and announcements only at its head (`StackInv`), without which the other
parts are not inductive. When the stack is empty those sets are, and the properties
follow. There is a lemma for what each kind of step does to the sets (`After...`) and
one for each step (`Inv...`).

| Theorem | Property |
|---|---|
| `TypeCorrect` | `TypeOK` |
| `HubInvariant` | `IInv` |
| `SpeakersStayRegistered` | `SpeakersRegistered` |
| `QueuesStayOpen` | `RegisteredQueuesOpen`: no send meets a closed queue, none is closed twice |
| `HubServesConnections` | `ConnectionsServed`: to every connection `Hub` is what `Membership` says |
| `SegmentsFollowFloor` | `StatsFollowFloor` |
| `ClientsHearTruth` | `HeardTruth` |
| `AudioStaysInTalk` | `AudioInTalk` |
| `RostersShowTalker` | `RosterTalkerTruth` |
| `FloorsStayKept` | `FloorsKept`, an action property: nobody loses the floor to somebody else's request |
| `TalksAlternate` | `TalkAlternates`, an action property |
| `HubImplementsFloor` | `FloorSpec`: `Hub` implements `Floor` |
| `ListsStayComplete` (`HubListsProofs`) | `ListsMissNobody` |

The refinement maps `present` to `clients` and the client just removed, since its
floors go in a critical section of their own, and `holder` to `speakers`; a
registration is a `Join`, a granted start a `Take`, stop and timeout a `Free`,
`DoRelease` a `Leave`; every other step stutters. For the lists, `ListsInv` adds to `IInv`
that a client which misses somebody is in `Doomed`, or has a broadcast of the list in
question on the stack; a handler that adds somebody pushes it in the same step, and an
eviction, which pushes none, only leaves names too many.

`HubServesConnections` maps the same state again, once for each connection. Any step of
the hub concerns at most one connection as more than a stutter, except a broadcast, which
may condemn several (`MembershipCondemns`). What makes `Receive` and `Unregister` map, which
ask that the connection be not condemned, is that the hub receives only with an empty
stack, where `Doomed` is empty; what makes an eviction of a client that has gone already
map to a stutter is that `Doomed` is looked at within `clients`.

**SegmentStats.** The handlers transform an entry in stages; `Sound` is what each
stage keeps (`EmitSound`, `DropSound`, `CountedSound`, `RecordSound`), the invariant
what remains at the end. It adds to the properties that the reason emitted last is
the reason of the last drop. `SegmentTypeCorrect`, `SegmentsCountOwnFrames`,
`FramesAreCounted`, `DropsAreShown`.

**Connection.** `TypeOK` and `MemberHasReader` are inductive together:
`ConnectionTypeCorrect`, `MembersHaveReaders`. With them every step is one of `Membership`
or leaves its variables, those of the queue, the writer and the network among the latter
(`HubAsMembership`, `ReaderAsMembership`): `ConnectionIsMember`. The two refinements
together justify looking at one connection alone: what `Connection` lets the hub do to it,
at every moment when something is done, is what `Hub` does to each of its connections, for
any number of them. They do not say when: that the hub serves its readers is
`RequestServed`, which TLC checks.

**Snapshots.** From `SnapshotsAssumption`: finitely many clients, the hub and
`Nobody` not among them, at least one user to a list. The properties are not
inductive: `Inv` adds that nothing has been read or numbered in the future
(`PastInv`), that lists are signed and short (`ListInv`), that the hub's own list is
the room as it is at each of its steps (`HubListInv`, which gives `BroadcastsExact`: while
the hub has a list in hand it changes nothing, and an eviction comes only after the list
has been queued), and that a client whose last list is the hub's and older than the last
announced change has a broadcast of users coming, or is about to be evicted (`LatestInv`,
which gives `OnlyAnswersStale`).
`LowerIsOlder` holds because a broadcast is as new as the room, so that whatever
was numbered before it was read before it; a list that was read before and
numbered after it is not covered.
`SnapshotsTypeCorrect`, `BroadcastsAreExact`, `LowerRevisionsAreOlder`,
`OnlyAnswersAreStale`.

**AudioBatch and Dispatch.** From `BatchAssumption`, for messages and headers of any
size. `BatchInv` says how far the frames reach (to `offset`, or to the end once the loop
has returned), that they lie one behind the other, that all but the last are frames the
page plays without a warning, and that what is left of a simulator's batch is a number of whole frames.
The two parsers are compared by what makes each reject (`FaultsFound`).
`FramesAlwaysTile`, `OnlyPlayableIsRelayed`. The audio branch of `Dispatch` is a
refinement of `AudioBatch`: `DispatchRelaysPlayable` has its properties from that alone.
`ChatIsDelivered` follows from `DispatchInv`: a message that has
come to a test has failed the earlier ones, and nobody has a copy of one that is not
chat. `DispatchTypesHold`: the reader's offset stays within the message and its frames are
frames, for every set of clients and rooms.

**DbMetrics and DbCalls.** `MaxLosesOnlyOverlapped` needs that whoever is about to store
has loaded no less than `sure`, and what is there if it is alone. Each step of `DbCalls`
is one of `DbMetrics` or leaves its variables (`CallsImplementMetrics`), which gives the
property for the whole layer. `WritesReportTruth` and `TransactionsStayAtomic` come from
`CallInv`, which holds for every caller by itself: a write has been carried out as often
as answers were lost, and once more when it succeeds (`WriteInv`). While a transaction goes
on, nothing of it is durable, what was told is pending, and after a failure, as when the
database has ended it, it is not committed (`OpenInv`, `EndedAt`); when it is over it has
been kept as it reports (`OverInv`); both unless a write was `repeated` or a `failure`
ignored. And only failures are slept on or rolled back (`PlaceInv`).

The pool's connections are counted, not summed: `Held` has the pair of a caller and a number
for every connection that the caller has, so that to take or give one back adds or removes one
element (`FS_AddElement`, `FS_RemoveElement`), which needs no induction over the callers.
`PoolInv` says that the free connections, those being warmed up and those of `Held` are
`MaxOpen` once the pool has been opened and none before. For that it must be known
where a caller may have one (`ConnInv`: one for its open transaction, one while the
database works for a call outside it), and that nobody is past the singleton before it is
there (`OnceInv`). `AttemptInv` bounds what a call has tried and what has been carried out
of it. With the earlier parts these make `DbInv`, which gives `DbTypesHold`
(`DbTypeOK`), `ConnectionsComeBack` (`ConnectionsReturned`) and
`OnlyNestingWaitsInCircles`: whoever waits without a deadline, in BEGIN or to warm the pool
up, has no connection in that call; the warm-up waits for its own goroutines alone; and when
nothing is free and no transaction begun in a callback waits, some connection is with a
call that does not wait so, and whose callback is not waiting for one that does. That is the
safety part of `CallsReturn`: a circle of waiting goes through a call with a deadline or
through such a transaction.

**PttPage.** From `PageAssumption`, for any rooms and any number of messages under way.
`PageKnowsFloor` speaks of the states in which nothing is under way, so `PageInv` has to
say what may be under way otherwise. While the user does as asked, that is one of the nine
forms of `Orderly`: silence; a request, alone or behind the stop of the talk before it; its
answer; a request whose answer was dropped; a talk; a stop; a request that has been
withdrawn, alone or behind an earlier stop. (Silence and a stop may be followed by the
answer of a withdrawn request.) Each form says which floors the page may have, and, as long
as the server has not ended a talk by itself (`Granted`), which it has; every step leads
from one form to another (`OrderlyStep`); that a request waits for the earlier one to be
received is why no fourth message comes. Without a connection nothing is under way and
the page has no floor (`Apart`). `TimerFollowsTalk`, `PageIsToldTheTruth`, and
`AnswersBelong`: the answer that a careful user's pending request finds is its own, though
answers do not say what they answer and may be dropped; the floor it speaks of may be gone
again when it comes.

Only model-checked: all liveness, which is out of TLAPS's reach (`RequestServed`,
`ForeignHolderReleased`, `MicNotHeldSilently`, `PumpsEndTogether`, `EvictedEnds`,
`DeafPeerRemoved`, `CallsReturn`, `PendingEnds`). Every safety property of the passing runs
is a theorem. `RosterTruth`, `NoFalseGaps` and `ReplyNeverPanics` are none: they are
false, which their runs show.

## 6. Plan

1. `PagePlayback`: frames are decoded asynchronously while text is handled at once:
   segments, play times and counters of the page; its gaps against the server's.
2. Compositions: the frames of `AudioBatch` are those that `SegmentStats` counts, in the
   order of the hub's channel.
3. `PttPage`'s server and `Floor`: no refinement as they stand, since the page's closing
   socket frees the floor and another client takes it in one step (`Closing`), where
   `Floor` has two.

## 7. Not modelled

`common/pub` (sequential conversions and reflection; its two hazards, a random generator
shared without a lock and structs told apart by their address, are listed in
`PROJECT.json`), `common/log`, `config`, the status API and `main.go` (I/O, constants and
wiring), `ws/message.go` (a type nobody uses), the page's playback and drawing. Of
`common/db`: parameters, rows, texts and logs, the counters of calls, the health check,
and the context given to `Tx`.
