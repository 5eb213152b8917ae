# qq_robot_go in TLA+

Specifications of qq_robot_go: a QQ bot built on
go-cqhttp (`coolq`, `server`, `modules`, `db`, `global`, `internal`) with a robot
of its own (`qqrobot`) that answers group messages by configurable rules.  TLC
checks the modules on small instances, TLAPS proves the theorems for all.

## Inventory

| component | state | operations | hard because | module |
|---|---|---|---|---|
| event bus (`coolq/bot.go`, `global/buffer.go`) | list of handlers, RWMutex, pooled buffers | `OnEventPush`, `dispatchEventMessage` | registrations and dispatches overlap; handlers block, panic, share one buffer | `EventBus` |
| long polling (`server/middlewares.go`) | queue, condition variable; per call a `once`, a channel, a fetcher | push, `get_updates` | wake-ups that go to abandoned calls, timer against batch, overflow | `LongPolling` |
| reverse WebSocket client (`server/websocket.go`) | `c.mu`, `c.event`, `c.universal`, listeners | connect, push, listen | two goroutines notice one lost link; reconnect recursion under the mutex | `WsClient` |
| forward WebSocket server (`server/websocket.go`) | `eventConn`, `s.mu` | accept, push, listen | in-place compaction, writes without deadline | `Servers` |
| HTTP POST reporter, HTTP API server (`server/http.go`) | one request per event | attempts, actions | a request is reused after its body was read; returns that are missing | `Servers` |
| filter (`modules/filter`) | the rules, replaced at run time | read a rule, judge an event | nested operators, files that are no rule | `Filter` |
| message database, messages (`db`, `coolq/api.go`, `coolq/event.go`) | several back ends in a random order | send, receive, recall, quote, history, quick operations | one of several writes fails; restarts reorder the back ends | `Messages` |
| API actions (`coolq/api.go`) | the client's lists of members, friends, channels | some seventy actions and the notices | lists that are fetched late, orders that succeed before their refresh fails | `Actions` |
| CQ codes (`coolq/cqcode.go`) | none | two formats, both directions | escaping, inverted tests, replies that lead | `CQCode`, `Echo` |
| message splitting (`coolq/util.go`, `qqrobot`) | none | split, merge | characters of several bytes, parts that never fit | `Splitting`, `Echo` |
| downloads (`global/net.go`, `global/fs.go`) | files, blocks | in a stream, in blocks, through memory | tiling, lost errors, calls that share a path | `Downloads` |
| rule engine (`qqrobot/qq_robot.go`, `command.go`) | rules with a lock each; maps of counts, triggers and CD stamps shared by all | `OnGroupMessage`, `applyGroupRule`, `AddWhiteList` | the maps have no lock; calls fail half-way; the lock is held over network calls | `RuleEngine` |
| media cache (`internal/btree`, `internal/cache`) | B-tree file, allocator tree, slot cache | insert, get, delete | shape of the tree, key order, order of writes, shared file position | `BTree` |
| robot services (`food.go`, `check_update.go`, `check_settlements.go`, `mute.go`) | dishes and pages, last versions, last notices | tickers and rule actions | retries, clocks, pages that run out | |
| connection (`main.go`, `login.go`) | number of attempts, `cli.Online` | `OnDisconnected` | retries and a lock held over them | |

The client library (MiraiGo) calls the event handlers in goroutines of its own,
one per event, and recovers their panics.  `coolq/event.go` turns an event into
JSON and gives it to the bus; the bus calls every server.  The robot registers
with the client directly, beside the bus.  Servers call `coolq/api.go` through
the API caller.

What makes the parts correct: an event reaches every server registered when it
came, once, if the filter lets it; `get_updates` loses nothing it need not lose
and nobody sleeps beside a full queue; a remote has one link per role and gets it
back; an id that was handed out names its message for ever; an action that failed
has changed nothing, unless all that failed was a refresh after its order; a message
that is sent back says what was received; a file fetched without an error noticed
lacks only what was left out unnoticed; a rule answers a message within the
configured limits but for what a replaced map has lost, never mutes whom it must
not, and no message is stuck; what was put in the cache is found with its own data.
`PROJECT.json` lists the parts with their state of
work, and every hazard with the line where it bites and the properties that watch
it.

## Modules

`UpdateFeed` is the abstract feed that `LongPolling` implements, `KeyStore` the
abstract store that `BTree` implements, `Broadcast` what the forward server of
`Servers` implements for its clients.  `Servers` composes the three servers, with the
rules of the filter as a parameter (`Readable`, `Lets`), and `MCServers` puts the
filter of `Filter` there; `Echo` composes `CQCode`, `Splitting` and the recorded
messages. `X.cfg` checks module `X`; where an instance needs definitions of its own
they are in `MCX`, and its `.cfg` files are named after that.  Proofs about `X` are in
`XProofs`; those about `EventBus` and `LongPolling`, the way of an event to a caller
of `get_updates`, are together in `EventProofs`, for which the specification of
`EventBus` has names that begin with `Bus`.  Definitions whose comment begins with "A
slip of" are plausible bugs: putting one in place of the definition it varies makes
the property named with it fail (`mutants` in `PROJECT.json`).

### LongPolling, UpdateFeed

`pushed`, `queue` and `waiters` are the shared list and the condition variable;
`handler[r]`, `fetcher[r]`, `once[r]`, `ch[r]` and `closed[r]` belong to one call
of `get_updates`.  A critical section of the mutex is one step, as it makes no
blocking call besides `cond.Wait`.  `Push` is the bus handler with its trimming
and its `Signal`; `FetchFirst` and `FetchWoken` are the fetcher before and after
the wait; `Expire`, `GiveUp` and `Receive` are the arms of the `select`.  In
`UpdateFeed` events leave the feed in order and a call is answered with a run of
them or with nothing; `Feed` in `LongPolling` is the refinement mapping (the
cursor is what was pushed less what is queued).

### RuleEngine

One handler per message goes through the rules.  Its program counter `pc[m]`
stops where another handler can tell: at the rule's lock, at a call that blocks,
and between the read and the write of a shared map (`LookupCounts`/`MakeCounts`,
`ReadTriggers`/`WriteTriggers`, `LookupStamps`/`MakeStamps`/`WriteStamp`).  A map
that a late handler replaces is a new owner in `countsOf` and `trigOf`, so writes
into the old one are lost as in Go; `uncounted` and `unstamped` are the answers and
the triggers that were kept in such a map, and exist for the properties only.  The
maps are empty at the start, as in `NewQQRobot`; `WarmTypes` and `WarmGroups` name
those an instance begins with.  `FatalAccess` is the Go runtime's detection
of two accesses of one map at once, which kills the process, and of a torn copy
of `ExcludeQQs`: after it nothing moves.  Which keywords, people, robots and times
of day a rule matches is data (`Msg[m].hits`, and `editedHits` once the repeater
rewrote the text).  A panic in `createFoodMessage` unlocks the rule and ends the
message: the client library recovers it.

### EventBus

`Dispatch` takes the read lock at once or behind a waiting writer; `Register` is
the end of `OnEventPush`, which lets in all waiting readers; `AskForJSON` is the
`once` that fills a pooled buffer; `Leave` is a handler that returns, filters or
panics; `Return` is `wg.Wait`, `PutBuffer` and `RUnlock`.  `PutBuffer` leaves a
buffer that has grown to 64 KB to the garbage collector (`dropped`); which events
make one so large is the constant `Large`.

### WsClient

One entry of `ws-reverse`: its setup of roles and whether it reconnects are drawn
in `Init`.  Connections are numbered; `link[c]` says what became of one,
`reader[c]` is its `listenAPI`.  `StartUp` is `runWSClient`; `Acquire`, `Written`,
`Failed` and `Redial` are `onBotPushEvent` under `c.mu`; `HangUp` and `Reopen` the
end of a listener and its `go c.connect`.  Sleeping for the reconnect interval and
dialling again is one state, since time is not modelled.  The remote and the
network (`Break`, `RemoteDown`, `RemoteUp`) are external; a push that runs into its
15 seconds may or may not have arrived.

### BTree, KeyStore

`db` is the database as the process sees it: tables and data by offset, the two
roots, the allocation pointer.  The functions of `btree.go` and `chunk.go` are
operators of the same names that take a `db` and give the next one with a `log` of
the writes and syncs in the order of the code.  `InsertKey` and `DeleteKey` compute
an operation under the lock of `Cache`; `Write` and `SyncFile` then do its log one
entry at a time, `pending` being what is written and not synced.  `Restart` ends
the process and opens what the page cache holds; `PowerLoss` keeps any subset of
`pending`.  Offsets are the numbers of chunks; the data of a key is the key.  A
failed assertion sets `ok` to `FALSE` and the rest of the operation does nothing.

Two things of the code need words.  `allocChunk` tests `inAllocator` the wrong way
round for its purpose: it looks for free chunks only while one is being entered
into the tree of free chunks, and then, if it finds one that is large enough, its
assertion about the buddy fails, as nobody enters buddies.  So no chunk is reused
and no chunk is queued, and the model needs neither the queue nor the removal of
a chunk.  And a power loss can cost keys: a table is cut before the table above
it has the pivot, so `Stop` of `KeyStore` may lose any key; what it may not do is
invent one, and neither may a restart between operations lose one.  `KeyStore`
counts its stops, and they are those of `BTree`: where the machine has not stopped,
an insert or a delete changes what is found by its own key only.

### Filter, Servers, Broadcast

`Generate` turns a filter file into a rule as `Generate` of `filter.go` does, or into
`Broken` where the Go code panics (`FilterOf` keeps the rule there was); `Eval` judges
an event.  Payloads, rules and their arguments are values with their JSON type; a
regular expression is a text to be found.  In `Servers`, `Add` and `Find` are the
shared rules, `Filtered` is the middleware, `Lock`, `WriteNext` and `Unlock` are
`onBotPushEvent` of the forward server: one write at a time under `s.mu`, and the list
is compacted by `Unlock` as by the loop's end.  A client may stop reading, which holds
a write up, may read on, or go; its `listenAPI` closes the connection and leaves it in
the list until the next push.  `Attempt` and `ReadAnswer` are one try of the HTTP
reporter: `report[e].read` says that the request's only body has been read, so a later
try finds it empty and fails before it is sent.  `ServeHTTP` has the 400 that is not
followed by a return.  The one action that matters here is the one that reads the
filter file anew.  `Broadcast` knows no list, mutex, loop or filter: members join
and leave, messages are published in one order, once every member has heard the one
before, and heard one by one.  `Hearers` in `Servers` is the refinement mapping:
the members are the clients that are open, which are those in the list.

### Messages

The server keeps the messages it took; the bot's `store` has what each back end of
the database recorded.  An insert writes to the back ends in turn and stops at the
first that fails (`Inserted(m, n)`: the first `n` have it); reading asks the first
of `order` only, which a restart draws anew, as the order comes from a Go map.  A
store is a set of records: leveldb replaces the record of an id, mongodb keeps every
document, looks among those of groups first, and may answer with any that fits
(`Found` is the set of these).
Every action that sends, forwards, recalls, marks or reads messages is a step;
only a quick operation is several, because other calls may come between its reply
and its recall.  Long messages go in parts, of which the first is recorded and its id is
the answer; whether the others arrive is not looked at (`answer.sent` is what the
server took).  `send_group_forward_msg`, events and histories hand out -1 (`NoId`)
for a message that a back end refused; the other actions that send fail then.

### Actions

A call is one step where it makes one request or none.  `set_group_admin`, requests to
join and the guild actions look, order and fetch in steps of their own, between which
other calls and the notices of the server come.  `group` is the group at the server
with the number of changes it has seen, `list` the client's copy with the number of
the state it is of.  Actions about cards, titles, files and other data that no
variable holds keep their guards and outcomes (`Orders`, `OrdersBlindly`).

### CQCode, Splitting, Echo

A text is a sequence of tokens: the characters that escaping and parsing tell
apart, the two halves of a word that a fixed link is cut into (`ho`, `st`), a
character of three bytes (`han`), and plain letters.  Escaping is modelled by what
it does to the tokens, so a text that looks like an escape (`&`, `amp;`) is one.
`ConvertStringMessage` is the scanner with its unfinished codes; `ToElement` has
every element type with the fields it needs and the errors it meets.  In an array the path
`data.[user_id,qq]` gives a list, so the sender of a reply is never read
(`WithoutSender`).  `Echo`
follows one message through the bot: received, written for the log, recorded,
reported, sent back by an application in one of three ways (or composed by it),
read, uploaded, split, sent or forwarded by the robot.  The slice of elements is
shared by those steps as in Go.  The loops of the code (the scanner, the cutting of
texts and links, the grouping of elements) are functions of the number of rounds, and
the text of a reply, which is itself read, is a function of the text.

### Downloads

Names lead to inodes, so a file that is removed, made anew or truncated while
another call writes it is what it is on Linux.  A call is a `request` of one of five
kinds; its steps are the system calls whose order matters: looking for the file,
removing it, opening it, each unit read and written, the end.  With several threads
`Blocks` cuts the file, and each thread opens the name once more.  A size of blocks
that is not positive adds blocks for ever (`MoreBlocks`).  What the code does not
look at is a step of the model: an answer that ends too soon (`EndBlock`, `Copy`), one
that is not the part or the file that was asked for (`Receive`), a last write that is
not flushed, a `WriteFile` whose error is dropped.  The units lost so are kept in
`missed`, so that the property can tell them from those a race loses.

## Runs

| run | instance | what it shows |
|---|---|---|
| `polling` | 3 calls, queue of 2, limits 0 and 1, 3 events, with and without timeout | at-most-once, no send on a closed channel, loss only by timeout, refinement of `UpdateFeed`; where nobody sets a timeout no wake-up is lost |
| `rules` | 2 messages of one admin, 3 rules of 2 types, one with CD 2, limit 1 for one type, white list, abuse limit, clock 2..4, no maps yet | limits and CD hold but for what was in a replaced map; trigger lists are sorted; admins keep their voice |
| `rules_cold` | 2 messages of two senders, food, repeat and CD-reply rules, no maps yet | one handler per rule; every message ends |
| `rules_cd` | 3 messages, no stamp map yet | violated: see below |
| `bus` | 3 events, one of them large, 2 handlers (one raw), 3 buffers | buffers are never shared, go back unless too large, no handler is skipped, readers and writers all get through |
| `ws_client` | 2 events, 3 faults, all setups | one link per role, handshake first, live links are listened to, no duplicate; handlers return, every role is connected again |
| `btree` | 14 keys within half the range of a word, tables of 5 items, 6 files of one to three levels, 2 operations, 1 stop | nothing dangles, what is reachable is found with its own data, no chunk is used twice or freed while used, restarts keep all, refinement of `KeyStore` |
| `messages` | one group, one user and the bot, 2 messages, both kinds of back end | ids handed out stay good, and -1 finds nothing; an answer with an id stands for the message or its first part, one without for nothing that all back ends have; only what is meant is recalled |
| `actions` | 2 calls at a time, one user and the bot, 2 changes of the group, a request, a friend | a request is answered as often as calls overlap, at most; what failed did nothing, but for a late refresh; a list fetched after an order is not older than it |
| `text` | all texts of up to 3 of 10 tokens, 20 mixed messages, some 1,600 composed ones, 5 configurations, parts of 4 bytes | what is sent back is what was received; a reply leads; a split loses nothing |
| `downloads` | 2 calls of 11 sorts, files of 2, 4 and 5 units, blocks of 2 units and of none, 2 units missed | no block past the end; where none failed the file lacks only what was left out unnoticed |
| `servers` | 2 clients, 2 events, one of them reported with 2 attempts, 11 filter files, 2 reloads | the list keeps who lives, in the order of events; refinement of `Broadcast`; a report is handled once; the filter means its rule; pushes end |

`rules_cd` is the one run that ends in a violation.  Two first messages of a group
can make two stamp maps, since the map of a group is made by whoever finds it nil,
under the lock of some other rule: the later map replaces the one in which a rule
has just been stamped, and that rule fires again inside its CD, which
`qqrobot/config.go:123` excludes.  `rules`, from empty maps too, shows that nothing
else breaks the CD (`CdUnlessLost`).

### Disagreements that are not runs

These were met while modelling; the models follow the code.

* `qq_robot.go:407`: the limit per type is passed when two first messages make two
  count maps (`config.go:72` states the limit): the race of `rules_cd` in another map.
* `qq_robot.go:450`: a reply inside the CD starts the CD anew, although
  `config.go:123` counts it as no trigger.
* `qq_robot.go:427`, `450`: stamps are kept by the name of a rule, and `Config.check`
  (`config.go:302`) lets two rules have one name: a reply by one of them then replaces
  the stamp of the other, or judges its CD.  The proof of `CdUnlessLost` needs the
  names to differ.
* `api.go:819`: `send_group_forward_msg` answers OK with the id -1 when a back end
  refuses the record, where `send_group_msg` fails (`api.go:631`).
* `qq_robot.go:258`: an admin whose member info could not be had counts as a member.
  `command.go:28`: `AddWhiteList` changes rules whose lock it does not hold.
* `helper.go:29`: `cmp` is no order when keys (MD5 sums) are more than half the range
  of a word apart, so that an insert can make older keys unfindable; hence
  the keys of `btree`.
* `btree.go:257`: deleting a key with two children stores a data offset as a child,
  against what 247 means; no caller in the bot deletes.  `DeleteInner` is
  `FALSE` in `btree`.
* `btree.go:329`: a stop after the write that fills a table and before its split
  leaves a table at which all later inserts fail the assertion of 275.
* `cqcode.go:524`: the tests for `qq`, `time` and `seq` of a reply are inverted, so a
  reply with text and id names nobody; `docs/cqhttp.md:123` says the id comes first.
* `api.go:1508`: history with a message whose sender has left panics at a nil map.
* `http.go:105`: a form that does not parse is answered with 400, and the action is
  called all the same.
* `net.go:158`: with `thread_count` not below a tenth of the length the list of blocks
  grows for ever.  `net.go:205`: a block whose answer ends too soon counts as fetched
  (`DownloadedSize` is never compared), `net.go:199` takes a whole file for a part of
  it, and `net.go:184` drops the error of `Flush`; `fs.go:94` that of `WriteFile`: the
  call ends well and the file has a hole.
* `fs.go:94`, `api.go:1353`: what a failed fetch left behind is later
  used as the file.  A file that `download_file` answers with may be
  removed or not finished, where another call for the address is under way.

### Bounds

Calls, messages, events: two or three, because every hazard here is a race of two
(three where a third waits behind them: an abandoned fetcher, a live one and the
push; a reader, a writer and the next reader).  The polling queue is shorter
than the number of events, so it overflows.  The clock of `rules` passes the CD of 2
once.  Buffers are as many as events: `sync.Pool` never runs out.  `MaxFaults` 3
lets a reconnect fail again; one fault costs at most one link per role, and
`MaxConns` is 2 + 2 * `MaxFaults`, so no dial is ever refused for want of a number.

In `btree` the operations before the start (`Preloads`) bring the file to where the
next two operations split the root, split a leaf below it, add a third level,
collapse a leaf, or split the tree of free chunks; a stop may come after any
single write, so `MaxStops` 1 with an operation before and after it covers every
place of a split.  `TableSize` 5 is the smallest for which both halves of a split
have an item (31 in the code).  `Word` is 64 there, so that no two keys are half
the range apart; `DataChunk` is smaller than a table, as media records are.

`messages`: two messages are one that is quoted or recalled and one that does it, and
give the back ends two orders to disagree in.  `actions`: `MaxChanges` 2 lets the group
change before and after a fetch; `MaxAnswers` 3 is more than the calls that
overlap.  `text`: no escape is longer than two tokens, so three hold one and its
neighbour; `MaxMessageSize` 4 holds one character of three bytes and a letter, so
texts are cut inside and between elements.  `downloads`: the lengths 2, 4 and 5
give one block, equal blocks and a rest (`Large` 3, `Slack` 0), 6 threads are too many
for them, `Limit` 4 refuses the longest as a picture, `MaxMissed` 2 leaves out a whole
block or parts of two, and two calls meet at every pair of steps.  `servers`: two
attempts show the second request with its body gone (6 in the code; all later ones are
like it); one action is one reload between two events.

### Fairness

`LongPolling`: goroutines that can run are run, timers fire; nobody has to call
or push.  `RuleEngine`: requests to the server come back, with an answer or an
error (the client has timeouts); a free lock goes to one of those that wait.
`EventBus`: a handler that was called returns, and the lock admits a waiting
writer when the readers are gone (`sync.RWMutex` promises that).  That handlers
return is an assumption there; `HandlersReturn` of `WsClient` shows it for the
reverse client as long as its remote comes back, and only then: with a remote
that stays away the read lock is kept, and a registration that then comes in
stops all events.  `WsClient`: the remote comes back (`RemoteUp`), faults are
bounded, the heartbeat keeps calling `Begin`, and the mutex is not unfair for
ever to one waiter (Go's starvation mode hands it over after a millisecond), hence
strong fairness of `Acquire`.  `Reattached` needs the heartbeat: a universal or
event link that broke is noticed by a push only.

`Servers`: strong fairness of a push, for the same mutex and because a write that
is held up goes on whenever its client reads.  `PushesReturn` assumes of every
client that it does not stay connected without reading: the code has no deadline, so
one that does keeps `s.mu`, all later events and all new clients.  The other
modules claim safety only.

## Proofs

By an inductive invariant for each question, from the modules' `ASSUME`s alone; only
`CdKept` has a hypothesis of its own.  The `ASSUME`s say that
bounds are numbers, that values which stand for "none" or "free" are none of the
others, that group codes and user numbers are apart (a global ID does not tell them),
that a message id is not -1 by chance, and that the callers of actions are finitely
many.  In `Splitting` a character has up to four bytes, as in UTF-8, and a message has
room for one (5,000 bytes in the code); in `Echo` what the server sends is made of the
elements that the code has cases for, whose texts, data and addresses are sequences
(`WellFormed`), with no mention longer than a message, and what applications write
are sequences of any tokens.

* `EventProofs`, on `LongPolling`: `TypeCorrect`, `NewestQueued`, `DeliveredOnce`,
  `SendsFindChannelOpen`, `LossNeedsTimeout`, `FeedImplemented`.  The invariant
  adds to the properties what ties `once`, `handler` and `fetcher` together
  (who used the `once`, who may still send, what the channel holds): without it
  a step of the fetcher is not known to find its channel open.  The refinement
  is proved step by step: `Push` is `Publish`, the fetcher's batch is `Hand`,
  `GiveUp` and `Receive` are `Answer`, the rest stutters.
* `RuleEngineProofs`: `TypeCorrect`, `RuleExclusion`, `AdminsKeepTheirVoice`,
  `SearchFindsSorted`, `CdKept`, `ApplyBounded`.  The invariant says that a handler
  inside a rule holds its lock and, for each place, what it has looked up; for the
  sorted lists, that what a handler is about to write is sorted and not later than the
  clock. `CdKept` adds that every trigger of a rule that passed is in the stamp of
  that rule, or its handler is between the gate and the stamp (`Recorded`): so a stamp
  is never older than a trigger, though the time is read before a call and written
  after it.  It starts from empty maps and leaves out the triggers whose stamp was in
  a replaced map (`rules_cd` shows one), and holds where the rules' names differ
  (`NamesDiffer`; TLC refutes it for two rules of one name with a CD of 3 and of 0).
  `ApplyBounded` ties the count of a message to the rules applied to it (`Budget`),
  from empty maps on and but for the answers counted in a replaced one.
* `EventProofs`, on `EventBus`: `BusTypeCorrect`, `JSONBelongs`, `PoolBalanced`,
  `AllHandlersRan`.  The invariant adds that a running event's buffer holds its
  own JSON, so that no two running events have one buffer, that none has one of the
  `dropped`, and that an event that waits has seen no handler that is not in the list.
* `DownloadsProofs`: `BlocksTile`, `TypeCorrect`, `WholeInTheEnd`, for any number of
  calls and threads and any length.  `BlocksTile` is arithmetic.  `DInv` adds to the
  types that an open block has a file and at least one unit left, that a call is to
  write its first unit until it has copied, and that `get_image` has a file of its
  own. `CoverInv` is the argument for the last: if none is to fail, there is, once one
  call has begun, always a call whose outstanding units together with what is in the
  file of the name, and what was missed, make the whole file.  A call that removes, truncates or makes that
  file becomes this call; every other step keeps the one there was, as it takes
  nothing out of the file and writes what it no longer owes.  Without `CoverInv`
  nothing is known of a file that changed under the calls that write it.

* `WsClientProofs`: `TypeCorrect`, `HeardOnce`, `SoundLinks`.  `Pushing` ties each
  push to the mutex and to whether its event was heard, `Linked` each connection to
  its role, handshake and listener, and `OneListener` is why the API role is not
  dialled twice: at most one of its listeners lives or dials.  That the role which is
  pushed to is not dialled twice follows from `Linked`: whatever of it is not `conn`
  is closed.
* `MessagesProofs`: `TypeCorrect`, `IdsHold`, `AnswersHold`, `RecallIsMeant`.
  The server counts each series of messages up (`Numbered`), so no two messages it
  took share an id; whatever a store, an inbox or a quick operation holds is a message
  the server took (`AllTaken`); so a record is only ever replaced by itself, and
  an id that was handed out is in every back end (`HandedOut`), whichever is asked.
* `ActionsProofs`: `TypeCorrect`, `AnswersAreBounded`, `FailuresDidNothing`,
  `AdminListIsFresh`.  `Shares`: the answers a request has had and the calls that are
  still going to answer it are together no more than the callers.  `Sound` carries the
  version of the group from the order to the list that is fetched after it.
* `ServersProofs`: `TypeCorrect`, `EachIsHeard`, `ReportedOnce`,
  `BroadcastImplemented`, for any clients, events, filters and attempts. Under `s.mu`
  the loop writes to `eventConn[i]` and moves the client to place `j`: the places
  before `j` have the event (`Done`), those from `i` on wait for it (`Todo`), what
  lies between is left over. `ListedOnce` says that `Done` and `Todo` together hold
  every open client, each once; `UpToDate` that who is in `Done` has heard all of
  `order`, and who is in `Todo` all but the last; `InOrder` that what was written to a
  client is a piece of `order` from where the client came. `BodyOnce`: a report whose
  body was not read has not been handled. The refinement needs besides that an event
  enters `order` once (`OrderKnown`) and that a client has no place in it before it is
  listed (`Fresh`): `Lock` is `Publish`, a write is `Hear` or, if it fails, `Leave`,
  `List` is `Join`, and the compaction stutters.
* `EchoProofs`, on the splitters: `SplitLongMessageIsExact` and
  `RobotLongMessageIsExact` hold for every message.  Each round of a loop keeps that
  what has been made says what has been read (`Say` takes texts apart into their
  characters, so it does not see where they are cut) and that each piece or part
  fits.  The robot translates elements after it has merged texts: as translating a
  text says the text, it translates a message and what the message says alike
  (`RobotThroughSay`), and merging changes nothing of that.
* `EchoProofs`, on what is written and read: `GoesOn`, the inductive invariant
  `Going`, with `RepliesLead` and `SplitsAreExact`.  `RepliesLead` alone is not
  inductive: what is read comes from a body written stages earlier, so `Going` says of
  each stage that it holds what the next one can work on, down to the scanner's buffer
  (`Scanning`).
* `EchoProofs`, on escaping: `TextComesBack`, `ValueComesBack`, `TextIsNoCode`.  An
  escaped text is made of blocks, a character or an entity each, that do not end in
  `&`; so a replacement finds the entities of single blocks only, and the replacements
  undo the blocks one kind after the other, `&amp;` last.  An escaped text has no `[`,
  so the scanner collects it to its end, where it is taken back.

Induction needs no theorem with an operator parameter: the lemma `Induction` gets it
for sets from the pigeonhole principle of finite sets, and the existence of each
recursive function is proved with it.

Only model-checked: all liveness (`WaitingServed`, `MessageHandled`, `Dispatched`,
`HandlersReturn`, `Reattached`, `PushesReturn`), which is out of the prover's reach;
`EchoSays` for messages of more than text, which needs the scanner's way through every
code (for texts `TextIsNoCode` proves it); the filter (`FilterMeans`) and the B-tree
(`NoDangling`, `FileIsSound`, `RestartKeepsAll`, `ImplementsStore`), whose operators
are `RECURSIVE` ones over rules and trees: the prover loses its arithmetic in modules
that reach one.

## Not modelled, and the plan

Not modelled: wording and formatting, web services, codecs, generated dispatch,
self-update, configuration files, the cloud-function loop.  The robot's
services (`food.go`, `check_update.go`, `check_settlements.go`, `mute.go`) and the
tickers around them are sequential code over answers of web services; their
outcomes are data of `RuleEngine`.  `main.go` and `login.go` are a dialogue over the
terminal and the client library.  `cache.go`'s readers share a file position and the
slots of the tree's cache, both of which `BTree` abstracts.  Left out of
modelled parts: what a wrong answer has beyond the length of a file, `onMemberJoin`
and private messages of the robot, the token and the
address `/api` of the forward server, where a parameter of an HTTP call comes from,
and notices that are formatting.

Done: all modules above, a theorem for every safety property of `LongPolling`,
`RuleEngine`, `EventBus`, `WsClient`, `Messages`, `Actions`, `Downloads` and `Servers`,
and for two of the three of `Echo`.  Who goes on would write the operators of `BTree`
and `Filter` as recursive functions over the depth of a tree or a rule, as `CQCode`
and `Splitting` have them over rounds, so that `FileIsSound` and `FilterMeans` come
into the prover's reach, and prove `EchoSays` code by code.
