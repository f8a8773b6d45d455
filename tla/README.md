# A specification of Zephyr

Zephyr (`src/README.md`) is an anonymous messaging system in C++.  A client
seals a message in one layer of public-key encryption per mixer and hands it to
a mixer; each mixer collects what arrives, shuffles it, peels a layer off each
message and passes it on; a mailbox keeps what comes out; clients poll the
mailbox and try to open what they find.  Mixers announce their keys through a
DHT, info nodes hand these out to the clients, and a key server gives a user
the identity-based keys for an email address after mailing a code to it.

This directory holds TLA+ models of these parts, TLC configurations that check
them on small instances, and TLAPS proofs for instances of every size.  All
paths below are relative to the repository's `src/src/`, unless they begin with
`src/`.

Contents: [Inventory](#inventory) · [Modules](#modules) · [Runs](#runs) ·
[Disagreements with the code](#disagreements-with-the-code) ·
[Fairness](#fairness) · [Proofs](#proofs) · [Not modelled](#what-is-not-modelled) ·
[Plan](#plan) · [Running it](#running-it)

## Inventory

| Component | State it keeps | Operations | What is hard | What makes it correct |
|---|---|---|---|---|
| Node queue: `utils/nodeserver.hpp`, main loops of `Mixer/Mixer.cpp`, `Mailbox/mailbox.cpp`, `Info/infonode.cpp` | global vector `msgtmp` | `PutMessages` in a gRPC thread per call; poll, copy, clear in the main thread | both sides use a `std::vector` without a lock; the answer `yes` comes before the message is read | an answered message is processed once, in order |
| Mailbox and polling clients: `Mailbox/mailbox.cpp`, `nodeserver.hpp`, `nodeclient.hpp`, `Network/Client/client.cpp` | global vector `outbox`, append-only; the client's `data` | append from `msgtmp`; `DumpMessages`, streaming `outbox`; the client's polling loop | `outbox` moves while another thread walks it; an empty mailbox answers `CANCELLED`; a broken call is only logged | a dump is a snapshot; each client ends up with mail |
| Shuffle: `utils/include/utils.hpp` | `vec`, the seed's random numbers | the constructor (`UnShuffle` has no caller) | index arithmetic at sizes 0 and 1; the range of each draw | a permutation; no order favoured over another |
| Mix network: client, mixers, mailbox | all of the above, key pairs, key lines, calls under way | seal and send; take, shuffle, peel, pass on; crash, restart | three kinds of node and blocking calls whose outcome is ignored; keys that no longer fit | nothing duplicated, misrouted or half opened; each message settles |
| Mixer start: `Mixer/Mixer.cpp` 53-227 | DHT values under `publickeys` and `ready`, `readymixers`, `ipspub` | put key, put ready, count until all are ready, get keys | a counter shared with a callback, `==` as the barrier's test, values that outlive the process that put them | nobody goes on before all are ready, and all go on |
| DHT wait: lambdas `wait` and `done_cb` in `Mixer.cpp` and `infonode.cpp` | `ready`, a mutex, a condition variable | issue an operation, `wait` for it; `done_cb` when it has ended | both sides sleep on one condition variable; one has no predicate | `wait` returns after the operation, and returns |
| Info nodes: `Info/infonode.cpp`, the end of `Mixer::Start`, `getkeysfrominfo` | `keys`/`outbox`, `havedata`, `pushed`; the DHT's `keys` | the first mixer's stream, serve, put, get, clients' dumps | keys arrive one by one while the loop runs, in a call that may be refused or break; a line between copy and clear is destroyed; `pushed` after the first batch; restarts | no node serves a key line twice; one line that arrives is enough for everybody to get some |
| Key server: `PKG/network/pkgserver.cpp`, `PKG/pkgc.cpp`, `PKG/network/pkgclient.cpp`, `PKG/email.cpp` | a thread per websocket session, global vector `global_vec` | ask with an address, mail a code, check it, send keys | mails of all sessions pass through one vector; turns on a connection that may break; any code may be pasted for any address | keys only for the session's own code, mailed where it should; both sides end |
| Packets as text: `utils.hpp` (`setupkey`, `getkeyfromtxt`, `parseciphertext`, `deserial_box_key`), `client.cpp`, the mixers' loop | - | write and parse key lines and layers | markers inside bytes that may contain them | parsing undoes writing |
| Configuration: `get_config_info`, random choice of nodes | the four lists of addresses | parse; `rand() % size - 1` | the index -1, an empty section | a node of the right section is chosen |
| Shutdown: `~Mixer`, `Mixer::CleanUp` | local `done`, a condition variable | shut the DHT node down and wait | a wait without testing `done`; a callback into locals of a function that may have returned | it ends, and not before the callback |
| Envelope: `PKG/pkg.cpp` | - | `pkg_encrypt`, `pkg_decrypt` | binary data in C strings | decrypting undoes encrypting |
| Email class: `PKG/email.cpp` | `attachments`, `email_contents` | `addAttachment`, `constructEmail`, `send`, clearing | base 64 by hand, chunk by chunk; lines through a buffer of `MAX_LEN`; a callback that ends at the first 0 | attachments decode; a mail is sent as it was meant |
| `NewRound`: `nodeserver.hpp`, `nodeclient.hpp` | none | answers yes | - | does what `utils/node.proto` says |
| Identity-based encryption: calls of `pkg.cpp` into libsibe, `pkgserial.cpp`, `base64.cpp` | library contexts | extract keys, serialise | - | - |
| Left over: `talktonode`, `Mixer/rpcserver.hpp`; trial programs in `test/`, `PKG/test/`, `utils/server.cpp`, `utils/client.cpp`, `src/main.cpp` | - | nothing calls them | - | - |
| Generated and vendored: `node.pb.h`, `node.grpc.pb.h`, `json.hpp`, `utf8/` | - | - | - | - |

How they interact:

* **calls** - `PutMessages` and `DumpMessages` are blocking gRPC calls without
  a deadline, made with a new channel each (`senddata`, `attachtomixer`,
  `getkeysfrominfo`); their failure is printed and ignored
  (`utils/nodeclient.hpp` 86-146).  A mixer is in one call at a time.
* **shared memory** - within a node, handler threads and the main loop share
  `msgtmp` and `outbox`, without locks; within the key server all sessions
  share `global_vec`.
* **callbacks** - the DHT library calls back in a thread of its own, for each
  batch of values found and once at the end of an operation.
* **nothing persists**: mailbox, mixer and info node hold all they have in
  memory, and a mixer makes itself a new key pair each time it is started
  (`Mixer/Mixer.hpp` 83-98).  What remains after a crash is in the DHT and in
  other nodes.

## Modules

| Module | Models |
|---|---|
| `StdVector` | `std::vector<std::string>` as the concurrent code uses it: cells, the finish pointer, the storage's generation |
| `NodeQueue`, `MCNodeQueue` | the node queue, access by access |
| `Mailbox`, `MailboxProofs`, `MCMailbox` | the whole mailbox: `NodeQueue` extended by `outbox` and the polling clients, and the proofs of both |
| `DhtWait`, `DhtWaitProofs` | the wait for a DHT operation, and `CleanUp`'s |
| `Shuffle`, `ShuffleProofs` | the constructor of the class template `Shuffle`, draw by draw and swap by swap |
| `Delivery` | what the network promises for a message: the abstract specification |
| `MixNet`, `MixNetProofs` | clients, mixers and the mailbox together; implements `Delivery` |
| `MixerStart`, `MixerStartProofs` | `Mixer::Start` up to its main loop |
| `InfoNodes`, `InfoNodesProofs`, `MCInfoNodes` | how the key lines reach the clients |
| `KeyServer`, `KeyServerProofs` | the key server, its mails and its clients |
| `PacketText` | key lines and packets as bytes, written and parsed |
| `Envelope` | `pkg_encrypt` and `pkg_decrypt` as conversions |
| `ConfigFile` | the configuration file and the draws from it |
| `EmailText` | the `Email` class: attachments, lines, upload |
| `MCTexts` | the last four for TLC, one at a time |
| `TextProofs` | the proofs of the four |

Which question belongs to which module:

```
           KeyServer (keys of a user)
   MixerStart --ipspub--> InfoNodes --key lines--> MixNet --implements--> Delivery
        |                     |                    /  |  \
        +------ DhtWait ------+        Mailbox  Shuffle  PacketText
                                          |
                                      NodeQueue -- StdVector

   ConfigFile (which node)     Envelope (what a message is sealed in)
   EmailText (what KeyServer mails)
```

The composing modules take from the detailed ones only what these show.
`MixNet` lets a message vanish when calls overlap (`Vanish`, from `NodeQueue`)
and takes any order for a shuffle (from `Shuffle`); `MixerStart` and
`InfoNodes` take a wait as a step that ends (`DhtWait` says when that is so).
`MixNet` and `InfoNodes` take a key line and a layer for what was put into it
(`PacketText` says when that is so).

### StdVector and NodeQueue

C++ leaves unsynchronised accesses to a vector undefined.  The module takes
the library's own three accesses apart - build the string where `finish`
points, move `finish`, replace the storage when it is full - and lets them
interleave.  `msgtmp` is a record `[cells, fin, gen]`: what the storage's cells
hold, how many count, and which storage it is; a thread that remembers a `gen`
other than the present one uses freed memory, which yields `Garbage` or
ends the process (`alive' \in BOOLEAN`).

| Code | Actions |
|---|---|
| `PutMessages`, `nodeserver.hpp` 80-91 | `Read` (the stream's next message), `Load`, then `Build` and `Bump` or `Grow` (push_back), `Answer` (`set_yes(true)`) |
| `Mixer.cpp` 270-274, `mailbox.cpp` 48-55, `infonode.cpp` 95-99 | `Poll` (`empty()`, `begin()`) and `PollEnd` (`end()`, perhaps of other storage), `Copy` for each string, `Clear` |

The history variables are `pushed`, the messages whose push_back has finished,
and `raced`, which records that a push overlapped another push or a drain.

### Mailbox

`Mailbox` extends `NodeQueue`: the same handlers and the same loop, whose `Copy`
of a string is joined, in `Store`, with the `push_back` into `outbox`
(`mailbox.cpp` 48-55), the only write to it; `Turn` is the loop's other steps
and `Handler` a handler's.  A client's call is `Call` (refused while `outbox` is
empty), `Begin` and `End` (the range-for reads them one after the other), `Walk`
for each string, and `Finish`, after which the client stops or calls again.
`spoiled[c]` records that the storage moved during a call of c, `atCall[c]` how
much was stored when the call began.

### DhtWait

The two threads and their places in the lambdas (`Mixer.cpp` 92-107,
`infonode.cpp` 70-85): `Issue`, `SetReady` (before the mutex is taken), `Sleep`
and `Return` in the node's thread; `Call` and `DoneCb` in the DHT's.  A section
under the mutex that ends in sleep is one step.  A condition variable may wake
without a notify, so `Return` and `DoneCb` may run from sleep; `spurred`
records it.  `early` records that `done_cb` got the mutex when `wait` was not
asleep.

`Shutdown`, `CleanUpSleep` and `CleanUpReturn` are `Mixer::CleanUp` (38-51) in
the node's thread, `ShutdownCb` is its lambda in the DHT's.  `cv.wait(lk)` looks
at `done` neither before nor after.  The destructor runs after the last
operation; in today's program `Mixer::Start` does not return, so nothing
reaches it.

### Shuffle

`Draw` and `SwapDrawn` are an iteration of the loop, `Shuffled` its end.  A
seed is nothing but the sequence of numbers `rand()` returns after it, so that
`rands` is chosen once, in `Init`.  The program's seeds are 1 to 10
(`Mixer.cpp:279`, `client.cpp:181`), so that it meets at most ten of the sequences
for each size; the model allows all of them, and no property says that some order
is reached.  `past[k]` is a history variable: the vector as it was when the
counter was k.

`UnShuffle` is not modelled.  Nothing calls it, and it keeps its indices in a
`vector<T>` (111) and makes ints of them again (120), so that the template cannot
be instantiated with it for the strings and pairs the program shuffles.

### MixNet and Delivery

A packet is a record `[msg, layers]`; a layer is the address it travels under
and the key that opens it, two fields because the code keeps them in two
places (the address in plain text behind the ciphertext).  A key is an address
and how often its mixer has been started.

| Code | Actions |
|---|---|
| `Mixer` constructor, `RunServer` | `Restart` (new key pair), `Listen` |
| `Mixer.cpp` 109-119 and the info nodes | `Publish` |
| `createciphertext`, `attachtomixer` in `client.cpp` | `Send`: the key lines there are, in any order, a layer for each |
| `senddata`, `NodeClient::PutMessages`, handler | `Land`, or `Vanish`: refused because the node does not listen, or destroyed by overlapping accesses after it was accepted |
| `Mixer.cpp` 270-287 | `Take`: copy, clear, shuffle |
| `Mixer.cpp` 291-308 | `Forward`: decrypt, parse, send; `DecryptThrows`: the exception nobody catches ends the mixer |
| `mailbox.cpp` 48-55 | `Collect` |
| a process dies | `Crash` |

`Delivery` has one variable, the status of each message (unsent, transit,
delivered, lost), and promises: submitted once; delivered only from transit;
never back from lost; and sooner or later out of transit.  `MixNet` maps a
message to its status (`Fate`) by where its packet is.  A message in an `outbox` that
dies with the mailbox goes from delivered to lost: the code promises no more.

### MixerStart

One action per DHT operation (`PutKey`, `PutReady`, `Pass` and `Again` for the
end of a counting get, `StartRoundAsMixer` for the end of the last get) and one
per callback with values (`Count`, `FindKeys`).  A put may fail, which
`done_cb` only prints; a get calls back with values in batches, including ones
put after it began; it may miss some; values may expire.  `lost` records any of
these.  A mixer started again (`Restart`) leaves its old values in the DHT.

### InfoNodes

`ChooseInfo`, `Write` and `Break` are the first mixer's stream (`Mixer.cpp`
204-226): refused by a node that does not listen yet (`Listen`), a line at a time,
and broken at any point, which `PutMessages` logs (`nodeclient.hpp` 142-146) and
nobody repeats; `failed` records both.  An info node's loop is `Copy` and `Clear`,
between which a line may arrive and be destroyed (`infonode.cpp` 98-99; `raced`);
`Idle`, which decides between put and get; `Put` for each key (`pushed` is set
after each); and `Found` and `Got` for the get.  `Num` keeps the code's
arithmetic: `rand() % size - 1` is -1 for one draw in size.  `GetKeys` is the
client's loop: `Ask` gets what a dump holds, or its beginning when the call
breaks, or nothing; `Nowhere` is the draw -1, which ends the client or gives no
address, so that it draws again.

### KeyServer

A session has a thread `sv[s]` and a client `cl[s]` and two queues of messages
in flight.  `ReadEmail`, `BeginAssign`, `EndAssign`, `PayloadSource`, `Prompt`
and `ReadCode` are `do_session` and the mail inside it; `ClientReads`, `Type`
and `ClientFails` are `getkeysfrompkg`.  A mail is two lines, its address
and its code, which libcurl reads from `global_vec`; an assignment to it takes
two steps, and a line read in between, or ever after two threads have used the
vector at once, may be any line.  `Type` is `std::cin >> code` (`pkgc.cpp` 83-86):
any code that was mailed to anybody, whichever address the session has claimed,
or none of them.  `Drop` breaks a connection, `Die` the server after a race.  The
verdict, the key and the parameters are messages of their own.

Both ends are taken to notice that a connection is down.  The code sets no
timeout, so that an end whose peer vanishes without a word waits for as long as
its operating system does; `EverySessionEnds` is about connections whose end is
noticed.

### PacketText

A symbol is one byte; only the marker `CUTHERE` is one symbol that counts for
seven.  What a ciphertext looks like is arbitrary, with or without the marker.
The history variable `peeled` has the mixers that have opened a layer.

| Code | Definitions |
|---|---|
| `setupkey`, `getkeyfromtxt`, `utils.hpp` 137-150 | the operators of that name; `find` is `Find`, the first match |
| `parseciphertext`, 165-200; the same text in `attachtomixer` | `Found`, `ToRead`, `Before`, `Split`, `Ip`, `Res`; `Parses`, where neither `exit(1)` nor `substr` ends the process; `Astray`, where `msg.erase` leaves the string |
| `createciphertext`, `client.cpp` 166-235 | `ReadLines`, `Seal` for each mixer, `AttachToMixer` |
| `Mixer.cpp` 291-309 | `Peel`: open what was sealed for this mixer, parse, send on |

### Envelope

Of a byte only whether it is zero matters.  `CString` is
`std::string(char*)`, which ends at a zero (an array without one runs into the
memory `behind` it); `Bitset` is the size's `std::bitset<8>`; `Bytes` is what
`pkg_decrypt` reads at `&s[0]`, past the string's end if it must.

### ConfigFile

`get_config_info` reads a word a step.  `AskPkg`, `AskInfo` and `DrawMailbox` are
the client's three uses of the lists; `Draw` keeps `rand() % size - 1`, and
`Use` the two outcomes of reading beside a list.

### EmailText

`addAttachment` with `base64_encode` per chunk; `constructEmail`, whose `snprintf`s
cut what does not fit a line of `MAX_LEN` (`Printed`); `send`, which fills
`global_vec`; `payload_source`, one call of the upload's callback, with
`lines_read`; `UploadFails`; `clearEmailContents` and `removeAllAttachments`.
`meant` and `asked` record the lines as they would be without the buffer's end.
`encodeblock` keeps the sign of `char`: a byte from 128 on leads before the
table, and what it finds there is one of two outcomes, a strange character or a
zero that ends the block.

## Runs

All runs of the expectation *pass* finish without error.  The number of
distinct states is given for each.

| Run | Instance | States | Shows |
|---|---|---|---|
| `queue_lost` | two handlers, streams of three messages and of one | | counterexample to `AnsweredIsKept` |
| `mailbox` | two handlers, streams of two messages and of one, a client | 306 873 | `FifoUnlessRaced`: without overlapping accesses the hand-off is an exact queue. `OneFeedInOrder`: while one handler alone runs, nothing is processed twice or out of order, however it overlaps the drain. `CleanDumpIsSnapshot`: a dump that `outbox` did not move under is a snapshot. `AnsweredIsStored`: an answered message ends up in `outbox` unless a race lost it. `EveryClientGetsMail` |
| `dht_wait` | eight operations | 1 039 | `PairedHandshake`: until a spurious wake-up, `wait` returns after its own `done_cb` and leaves no `ready` behind. `WaitReturnsUnlessEarly`. `CallbackFirst` and `CleanUpEnds`: the same two questions of `CleanUp` |
| `dht_wait_hang` | four operations | | counterexample to `WaitReturns` |
| `shuffle` | all vectors of up to 4 of 4 elements, all numbers | 160 384 | `SameElements`. `OrderTellsDraws`: two sequences of numbers that draw a different place somewhere lead to different orders, so that none is favoured |
| `mixnet` | 2 mixers, 2 clients, 1 crash | 115 324 | `NothingDuplicated`, `SealedForHolder`, `PeeledInOrder`, `ImplementsDelivery`, `CalmDelivers`. `LossHasCause`: what the mixers' own loops do loses nothing |
| `mixer_start` | 2 mixers, 1 restart | 415 694 | `BarrierHolds`, `KeysArePut`, `EveryoneStarts` |
| `mixer_start_stuck` | the same | | counterexample to `ReadyLeadsToRound` |
| `info` | 3 addresses, 2 info nodes, 2 keys, 1 client, 1 restart | 47 538 | `OncePerKey`. `TargetServesAll`: the stream's node ends up with the list, unless the call fails, a line is destroyed or a node is started again. `OthersServeSome`, `ClientServed`: one line that arrives is enough for every node to serve something and every client to get something, unless the DHT loses it or a node is started again |
| `info_partial` | 3 info nodes, 2 keys, no client | | counterexample to `AllServeAll` |
| `key_server` | 2 sessions, 2 users, 1 broken connection | 175 889 | `NoStaleMail`. `KeyEarned`: whatever code is pasted for whatever address, keys are sent only for the session's own, which without a race was mailed to its address or to one that was being mailed to at the same time. `RightCodeGetsKeys`, `EverySessionEnds` |
| `texts` | each conversion from all its small inputs | 292 283 | `LinesReadBack` and `ArrivesIffUnmarked`: exactly when a key line is read back and a packet reaches the mailbox. `OpensUnlessCut`: when an envelope opens. `RightSection`: a node that is used stands under its own header. `AttachmentsDecode`: when an attachment is right. `SentAsMeant`: exactly when curl is handed the mail that was meant |

Each passing run also checks its module's `TypeOK` (`MailboxTypeOK`), except
`dht_wait`, whose `TypeOK` is left to the theorem, `mixnet` and `texts`.

The bounds, and why they are enough:

* **`queue_lost`** - a handler's message is pushed while the loop drains
  another's; nothing smaller does.
* **`mailbox`** - `msgtmp` and `outbox` grow at their first and second string and
  are walked with and without a move; two handlers are what a race takes.  One
  client: clients do not disturb one another or anybody else.  The theorems
  remove these bounds.
* **`dht_wait`** - an operation's steps touch the next operation's at most; the
  others are repetitions, and the theorems remove the bound.
* **`shuffle`** - `RandMax = 3` gives every residue of the divisors 2 to 4;
  sizes 0 and 1 are the boundaries.  The theorems remove the bounds.
* **`mixnet`** - two mixers are the least for which an order matters and for
  which a message can reach a mixer that was restarted meanwhile; two clients
  share a batch and race.  Restarts share the bound `MaxCrashes`.  With a
  restart a client may find an old and a new key line of the same mixer and
  seal three layers.
* **`mixer_start`** - the least for which one mixer waits for another.
  One restart suffices for a value too many.  `BarrierHolds` is proved for any
  number of mixers.
* **`info`** - the third address is the last, which is never drawn, so that two
  nodes run: one has the stream, the other reads what it puts, and either is
  started again; two keys are a first batch and a later one, or one that a clear
  destroys.  The draw -1 is among the choices.  `info_partial` has three nodes.
* **`key_server`** - one session may assign while the other's mail is read.
  The two may be one user's or two users', who then has a code of
  either session, and each client pastes any code mailed so far.
* **`texts`** - the four modules run one at a time, the others idle, as they share
  nothing.  Keys are of two bytes, `_` or not, with a token of three; ciphertexts
  are a plain byte and three of plain, digit and marker; addresses have 9 and 10
  characters, sizes of one and two digits; two mixers.  An envelope has a nonce
  of 3 bytes, a tag of 1, a message of up to 4 and four sizes, so that sizes
  overflow.  A configuration has up to four words in any order, or is a full one.
  `MAX_LEN` is 12 (255 in the code).  Attachments have no, one, two, six, seven,
  eight and fourteen bytes, the last in two chunks, with bytes from 128 on in places
  that matter and in others; each field of a mail is as long as fits a line, or one
  longer.

Deadlock is not checked.  Each of these systems really stops when the bounded
input is used up (no more messages, operations or sessions), and where a stop
would be wrong a liveness property says so.

Where the code allows an accident that would falsify everything, the accident
is recorded in a history variable and the property says what holds in the
absence of it (`raced`, `spurred`, `early`, `lost`, `failed`, `spoiled`) - and the run
reaches states with the accident and without it.  The models thereby keep
spurious wake-ups, losing DHTs and racing threads in every run.

## Disagreements with the code

Four runs (the numbered ones) state something that a comment, a message or the protocol says, and
TLC finds how the code does otherwise.

1. **`queue_lost`** - `utils/nodeserver.hpp:86` pushes into `msgtmp` while the
   main thread may be between its copy and its `clear` (`Mixer/Mixer.cpp`
   273-274).  The message is destroyed unread although its sender is told
   `yes`, which the client takes for success (`utils/nodeclient.hpp` 138-139).
2. **`dht_wait_hang`** - `wait` (`Mixer/Mixer.cpp` 92-97) sets `*ready` without
   the mutex and sleeps without a predicate.  A `done_cb` that comes between
   the two notifies nobody; one that comes before them sleeps on the same
   condition variable.  The node hangs where line 118 says "block to see the
   result of the put".
3. **`mixer_start_stuck`** - the barrier tests `readymixers == mixers.size()`
   (`Mixer/Mixer.cpp:151`).  After one mixer was started again there is a value
   too many, and the mixers that still count print "Not everyone is ready
   yet" for ever.  An address listed twice in the configuration, as in
   `Mixer/zephyr.config` 4-5, changes the number in the same comparison.
4. **`info_partial`** - an info node sets `pushed` with its first put
   (`Info/infonode.cpp:135`).  Keys come half a second or more apart, so that
   often only the first is distributed, and a node that has found it does not
   look again; `Mixer/Mixer.cpp` 204-205 says the info node "will then
   distribute the message to all other infonodes".

Others are visible in the models and have no run of their own:

* a dump that walks `outbox` while its storage moves yields garbage or kills
  the mailbox (`spoiled` in `Mailbox`);
* a spurious wake-up ends a wait early and leaves a `done_cb` that pairs with a
  later wait (`spurred` in `DhtWait`);
* a mixer started again is counted twice, and the barrier can open before
  another mixer has put ready ("Wait for all the other nodes to be ready",
  `Mixer/Mixer.cpp:130`; `FirstStart` in `BarrierHolds`);
* `rand() % size - 1` (`Mixer/Mixer.cpp:208`, `Network/Client/client.cpp` 201
  and 298) never draws the last node and draws -1 instead;
* the stream of the key lines may be refused or break, which `PutMessages` prints
  (`utils/nodeclient.hpp` 142-146) and nobody repeats, and a line that arrives between
  `Info/infonode.cpp` 98 and 99 is destroyed: the info nodes then serve fewer keys
  than there are mixers (`failed`, `raced` in `TargetServesAll`);
* two sessions of the key server that mail at once can mail one another's
  codes (`PKG/email.cpp:310`), so that a code may reach an address its session
  was not asked with (`with` in `NoStaleMail` and `KeyEarned`);
* `CleanUp` (`Mixer/Mixer.cpp:49`) sleeps for ever when the callback has run
  already, where line 47 says "wait for shutdown" (`early` in `CleanUpEnds`);
* a serialised key whose last byte is an underscore, one in 256, is read one byte
  short (`utils/include/utils.hpp:144`), and each client that gets the line ends
  with an exception (`LinesReadBack`);
* a ciphertext that contains `CUTHERE` is cut there (`utils.hpp:169`;
  `ArrivesIffUnmarked`);
* a zero byte within an envelope's nonce or ciphertext cuts it
  (`PKG/pkg.cpp` 139-140), and a size is kept modulo 256 (137): some messages do
  not open (`OpensUnlessCut`);
* with no info node in the file, as in `Mixer/zephyr.config`, the client divides by
  zero (`client.cpp:298`); with the README's single mailbox the index is always -1
  (201; `RightSection` says what is used if anything is);
* in `PKG/email.cpp`: a byte from 128 on at the beginning of a block of three is
  encoded wrong (454), an attachment whose path has no slash takes the others with
  it (202), an address or a subject too long for `MAX_LEN` loses its line break
  (228; `SentAsMeant`), an empty body ends the upload (474; `SentAsMeant`);
* `NewRound` does nothing (`utils/nodeserver.hpp` 60-65), where
  `utils/node.proto` 9 says it restarts services and generates keys;
* the client sends a fixed sentence, not what was typed (`client.cpp:115`), polls a
  fixed mailbox whichever it drew (136), and stops at the first dump that holds
  anything, its own mail or not (159).

## Fairness

Every assumption is weak fairness of what a thread of the program does when
it is scheduled, or of an external service ending an operation:

* `NodeQueue`, `Mailbox`: handler threads run, the main loop and the clients'
  loops spin (`while(true)`).
* `DhtWait`: both threads run and the DHT ends each operation and its shutdown.
  No fairness on waking without a notify, so nothing relies on it.
* `MixNet`: calls end and loops spin.  No fairness on `Publish`, `Send`,
  `Listen`, `Restart` or `Crash`: nobody has to send, or start a node again.
* `MixerStart`: a mixer's thread runs and DHT operations end.  A get may end
  without having found a value, so that an unlucky DHT is only excluded by
  `lost`, not by fairness.
* `InfoNodes`: the stream and the loops go on, a node that is started
  comes to listen (nothing makes one start again), and DHT operations end.  A client goes on once every
  node it can draw listens and has something; it is not assumed to draw one that
  has, but neither to draw -1 nor to meet a call that breaks for ever.
* `KeyServer`: threads and clients run, a mail is sent or fails, and a user
  types something - anything.
* `Shuffle` and the modules of `texts` have no liveness property.

## Proofs

Each theorem is about the module's `Spec` with constants restricted by named
assumptions only.

| Theorem | For | Assumes |
|---|---|---|
| `MailboxProofs!TypeCorrect`, `FifoCorrect`, `OneFeedCorrect`, `KeptCorrect` | the node queue: any handlers, messages and streams | streams are finite sequences of messages; `Garbage` is not a message |
| `MailboxProofs!MailboxFifo`, `MailboxOneFeed`, `MailboxTypeCorrect`, `SnapshotCorrect`, `StoredCorrect` | the mailbox: any handlers, clients, messages and streams | as for the queue |
| `DhtWaitProofs!TypeCorrect`, `Paired`, `CleanUpWaits`, `WakeCorrect` | any number of operations | it is a natural number |
| `ShuffleProofs!TypeCorrect`, `OrderCorrect`, `DrawsCorrect` | any elements, size and numbers from `rand()` | `MaxSize`, `RandMax` are naturals |
| `MixerStartProofs!TypeCorrect`, `BarrierCorrect`, `KeysCorrect`, `LoopCorrect` | any finite set of mixers, any number of restarts, any losses (`KeysCorrect`, `LoopCorrect`: before the first of either) | the set is finite, the bound is a natural |
| `KeyServerProofs!TypeCorrect`, `EarnedCorrect`, `MailCorrect`, `TurnsCorrect` | any sessions, users and broken connections, mails however mixed up, any mailed code pasted for any address | `Garbage` is no session and no user; the bound is a natural |
| `MixNetProofs!SealedCorrect`, `OnceCorrect`, `PeeledCorrect`, `DeliveryCorrect`, `LossCorrect` | any mixers, clients, crashes, restarts and losses | the mailbox and the clients are not mixers; `None` is not a call; the bound is a natural |
| `InfoNodesProofs!TypeCorrect`, `OnceCorrect`, `KeptCorrect` | any info nodes, clients, key lines, restarts and losses, a stream that is refused or breaks (`KeptCorrect`: before the first restart) | the configuration's list is not empty; neither it nor the mixer's list of lines has an entry twice; `None` is no node |
| `TextProofs!LinesCorrect` | any bytes, key length, token and addresses | a key is not longer than the token (41 and 45), no address begins with `_` |
| `TextProofs!ArrivesCorrect` | as above, any number of mixers, any ciphertexts and addresses | as above; mixers and addresses are different; an address is shorter than 100 bytes (`ToText` writes two digits); a ciphertext has two bytes or more (a sealed one has 48), and the marker is not one byte |
| `TextProofs!EnvelopeCorrect` | any sizes of nonce, tag and message, any number of sizes that the size byte tells apart | the sizes are naturals, those of nonce and tag and the number not 0 |
| `TextProofs!ConfigCorrect` | any files, all draws | a file is a sequence of words, and no header has a digit |
| `TextProofs!UploadCorrect` | any files and mails, any calls, any length of a line | `MAX_LEN` is a positive multiple of three, a file is a sequence of bytes |
| `TextProofs!AttachmentsCorrect` | the same | the same |

The arguments:

* **FIFO.**  `FifoUnlessRaced` is not inductive: that `Bump` makes the pushed
  message the queue's last needs the cell it uncovers to hold that message.
  `Quiet` adds, under `~raced`, that at most one of the pushes and the drain is
  under way (`Exclusive`), that every position a thread remembers is the
  present one (`Current`), and that the pushed messages are the taken ones
  followed by the vector's cells (`Content`).  An action that would break
  `Exclusive` sets `raced`.
* **Answered messages.**  A message is answered only after the push of it
  (`Accounted`), and `Quiet` says where the pushed messages are: taken, or in one of
  the vector's cells (`TakenOrWaits`), and what was taken is in `outbox`
  (`OutboxIsTaken`).  So `queue_lost` has found the only way an answered message is
  lost.
* **One feed.**  `OneFeedInOrder` holds also when the one handler's pushes
  overlap the drain, so `raced` is of no help.  `FeedInv` says for each handler
  that alone has pushed so far: every live cell of `msgtmp` holds a message of its
  stream or garbage (`Cells`); where in the stream the messages are that are
  taken, copied or waiting, and that a push under way is behind them (`Position`);
  and that these positions increase (`Ordered`).  A clear in the middle of a push
  loses positions and repeats none.
* **Snapshot.**  `QueueStep`: every step of the mailbox is a step of the queue or
  leaves the queue alone, so that the queue's theorems hold inside it.  With
  them, `OutboxIsTaken` says `outbox` is what the loop has taken, string by string,
  and `Dump` says for each place of a call that a walk which was not spoiled is in
  the present storage and has read a prefix of it.
* **Handshake.**  `Turns` says, for each place of the node's thread, where its
  operation is: still queued, with its `done_cb` running, or already reported.
  In particular, when `wait` has been woken the operation is `Missed` (reported
  and not returned), and between operations the DHT thread is idle and `ready`
  is unset.  It holds until `spurred`, which is stable (`SpurredStays`).
* **Wake-ups.**  `Timely`: from `SetReady` to `Return` the flag is set, and no
  callback has come before the sleep it is to end.  With `Turns`, the operation
  a sleeper waits for is then still to call back.
* **Shuffle.**  `Counted` ties the loop counter to the number of calls of
  `rand()`, which puts every index in range.  `SwapKeeps` makes a swap compose
  with a bijection, hence `SameElements`.
* **Draws.**  `Traced` and `Placed` make the history `past` a chain of swaps from the
  vector's end to the vector there is.  There is only one such `Run` of given
  numbers (`RunUnique`), which is what unfolds `Result`.  A swap at a counter moves
  nothing above it (`RunKeeps`), so the final order tells, from its last place down,
  which place was drawn at each step (`SameDraws`).  `LeastNatural` does the
  inductions.
* **Barrier.**  `Tallied`: a mixer's count is the cardinality of what its get
  has found.  `Honest`: a value found or stored, of a first start, is of a mixer
  that has put it.  Then `FullCountIsAll`: as many distinct values as mixers,
  each by another mixer, are those of all of them - the one step that needs
  cardinalities.  Everything is conditional on `FirstStart`, which no step
  brings back (`FirstStartBefore`).
* **Keys put.**  `Keys`, as long as nothing is lost either: a mixer past its first
  put has its key in the DHT.  The get of the keys begins behind the barrier, when
  all have, so it asks for all of them, and it ends with all of them or has missed
  one.
* **The loop ends.**  It ends at `readymixers == mixers.size()`, not at `>=`, so a count
  too high would never end it.  The values found are of first starts (`Honest`), of which
  there are as many as mixers (`FirstKeysCount`), and once all have put, their values
  are all there (`PutsLast`).
* **Once per key.**  `OncePerKey` says nothing of where a line comes from.
  `Origin` does.  Either a node is the stream's (`Streamed`): it holds lines that
  were written, each once, and the DHT's values are those of them it has put.  Or it
  serves values of the DHT, no two of them equal (`Gathered`); this goes for the
  stream's node too once it was started again, as it then has no line to put.  The
  mixer's list has no line twice, so neither has the DHT.  Between its copy and its
  clear a node holds a beginning of `msgtmp` (`Copied`), so that the clear can
  destroy lines and repeat none; until `raced`, what the stream's node holds is all that
  was written, in order.  With `Complete` (a stream that is over and did not fail has
  sent the list) this is `KeepsAll`.
* **Keys of a user.**  `Talk` says what the two ends of a connection hold and
  what is in flight between them at each of their places: that one of them is
  to write, that nothing is typed before the prompt, that a code the user typed is
  in some mailbox, and that a key is sent only after the verdict, where
  `typed[s] = s`.  That one of them is to write makes `NeverBothWait`.  `Known` relates
  the sessions that mail at the same time: each knows of the other, so that a line
  read from `global_vec` without a race is the session's own or one of those; and
  the code in a mailbox (`Boxed`) is that of a session that was asked with its
  address, or of one that mailed while such a session did.
* **Layers.**  `Routed`: every packet is at its next hop or in a call to it, and
  its layers are sealed for key pairs that exist already and carry the address
  of the mixer that made them.  Peeling keeps this, and a restart only adds keys
  (`Older`).
* **Copies.**  A slot is a position of some `msgtmp`, some `reqtmp` or `outbox`, or a
  call.  `Single`: no two slots hold the same message, and none one that was not
  sent.  Each step fills every slot from one slot of its own (`MoveStep`); for the
  shuffle this is that a permutation is injective.
* **Order.**  `Opened`: a packet's layers are the first ones of its route and the
  keys that have opened it are those of the rest, backwards.  `Single` is needed
  here: the key a mixer opens one packet with must not be on account of another
  packet of the same message.
* **Delivery.**  A step that only moves or loses messages (`Kept`) is a `Lose` of
  those whose fate it changes, or a stutter; `Collect` is a `Deliver`; `Send` is a
  `Submit`, as a client that has not sent is in no call (`Waiting`).  That a
  message is not both delivered and under way is `Single`.
* **Losses.**  `Delivery` lets a message be lost at any step; `LossHasCause` names the
  causes.  `Keeps`, for each action: what is under way or delivered stays so, by the
  elements of the sequences that are copied, shuffled and cut.  A step that does not
  keep is a call that ends without effect or a process that dies.  The one that dies
  for a layer it cannot open needs `Undying`: before a process has died every
  mixer has its first key, so by `Routed` every layer opens (`ThrowsLater`).
* **Key lines.**  `LineBytes` says which byte of a line comes from where.  The
  token is found at its place (`AtUnderscores`); an earlier match would cover the
  key's last byte, as a key is no longer than the token, and is therefore possible
  only where that byte is an underscore.  `LeastNatural` gives the first match.
* **Packets.**  Layers are counted from the inside.  `PacketInv`: if the mixers that
  have opened a layer are the path's last ones in reverse (`Along`), the text is what
  was cut off the layer that is `Left`, and no ciphertext further out holds the marker;
  without a marker anywhere the packet is on this way.  The one half is `ParsesBack`:
  a text whose ciphertext has no marker is cut where it was put together, because
  what `ToText` writes `Number` reads (`ToTextIsRead`).  The other is `ParsesShort`:
  one with a marker is cut at or before it, so what is left is shorter than the
  ciphertext, and no mixer holds its key.  That the packet passed every mixer is
  needed in the property: a ciphertext that holds by accident what the next mixer but
  one was sent would skip a mixer and arrive.
* **Envelope.**  `WholeIsKept`: a string made of an array is the array when it has no
  zero, and ends before the first otherwise (`FirstZero`).  `DecryptOpens` adds that
  the size read back is the length modulo `Sizes`.
* **Configuration.**  `ConfigInv`: `arr` is the section of the words read so far,
  and each list enumerates the addresses under its headers in the order of the file
  (`Listed`), so that what an index within a list finds stands under its header, and
  the first PKG is the first there (`IndexIsProper`).  An empty list ends the client
  before it has passed the draw.
* **Mail.**  `PrintedAs`: `email_contents` is line by line what `snprintf` made of what
  was meant, whatever is attached, and so is `global_vec` of `asked`.  `Handed`: while
  curl reads, it has been handed a beginning of `global_vec` with no empty line in it,
  as far as `lines_read`; when it has stopped, this is all of it, or an empty line comes
  next.  It equals what was meant exactly when every line fit and none is empty.
* **Attachments.**  The definition takes a file bit by bit, the code block by block and
  chunk by chunk, and the two meet in one sequence of characters.  `QuadIsBase64`: four
  characters of a block are four of the definition's (`SextetsOfBlock`, from the bits of
  a byte); here a byte from 128 on would go wrong.  `EncodesRight`: the blocks of what
  `base64_encode` is given at once are its encoding.  `PartBase64`: the encoding of a
  part of a file is a part of the encoding, if it begins with a block and ends with one
  or with the file; `MaxLenAssumption` makes every chunk such a part (`ChunkOf`).
  `Pieces` puts both kinds of parts together again: `FlattenSeq` of adjacent pieces of a
  sequence is the sequence, for which `LeastNatural` does the induction.  `AttachInv`
  then adds files one at a time; it knows the lines' types only as long as all files
  can be encoded.

Only model-checked:

* the liveness properties and the fairness of `Delivery`, which are beyond the
  prover used here.  What some of them need beside fairness is proved:
  `StoredCorrect` for `AnsweredIsStored`, `WakeCorrect` for `WaitReturnsUnlessEarly` and
  `CleanUpEnds`, `LoopCorrect` for `EveryoneStarts`, `KeptCorrect` for
  `TargetServesAll`, `TurnsCorrect` for `EverySessionEnds`.

## What is not modelled

* **Most of the source's lines.**  Of the 25 719 lines, 20 406 are the vendored
  `json.hpp`, and the protobuf and UTF-8 headers are generated or vendored too.
  Some 3 000 lines are the project's own; the modules model about half of these.
  The others are declarations and includes, printing, trial programs, calls into
  libraries and functions nothing calls.
* **Cryptography.**  A layer is opened by the key it was sealed for and by no
  other.  The calls into libsibe and the serialisation of what it returns
  (`pkgserial.cpp`) keep no state and have no control of their own.  Identity-based
  keys are one message in `KeyServer`.
* **The memory of an envelope.**  `pkg_decrypt` frees a string's memory that the
  string frees again (`PKG/pkg.cpp:213`); what the allocator makes of it is not
  followed.
* **`Shuffle::UnShuffle`, `NewRound`, `talktonode`, `RpcServer`, the hex functions of `pkgserial.cpp`,
  `ConvertMapToString` and its inverse**: they change nothing or are not called.
* **Undefined behaviour beyond the vectors.**  The flags `havedata` and
  `pushed` and the counter `readymixers` are shared with the DHT's thread; they
  are read and written in single steps.  The byte that `gen_random` writes
  behind its array (`PKG/network/pkgserver.cpp:102`) is not there.
* **Time.**  Sleeps are steps; a gRPC call has no deadline in the code either.
* **A mailbox started again**, which would be an empty one.
* **Printing.**

## Plan

Written so far, in this order: `StdVector`, `NodeQueue`, `Mailbox`, `DhtWait`,
`Shuffle`, `Delivery` and `MixNet`, `MixerStart`, `InfoNodes`, `KeyServer`, the
proofs of `NodeQueue`, `DhtWait`, `Shuffle` and `MixerStart`, then `NodeQueue` and
`Mailbox` as one with its proofs, `CleanUp`, `PacketText` with its proof,
`Envelope`, `ConfigFile` and `EmailText`, the proofs of `KeyServer` and `MixNet`,
and those of `InfoNodes`, of `OneFeedInOrder`, of `OrderTellsDraws` and in `TextProofs`.

To extend the model:

1. `MixerStart` and `InfoNodes` composed, so that the key lines streamed are
   those a start can have found;
2. a client that reads its mail in `MixNet`, from `Collect` to `DumpMessages`, and
   a mailbox that is started again empty.

## Running it

In this directory, with the community modules on the path:

```
tlc -config MCMixNet.cfg MixNet.tla          # any run of PROJECT.json
tlapm MailboxProofs.tla                      # any *Proofs module
```

`PROJECT.json` lists the components, the runs with their properties, the lines
each definition models, the hazards in the code with the properties that cover
them, a mutant for each property (a plausible bug of the code that makes it
fail), and the theorems.
