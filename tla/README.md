# Verification of the WeChat hub

The program is a hub between a WeChat account (driven by the library openwechat) and
clients that connect over websocket or MQTT.  It forwards the messages of group chats to
the clients, takes commands from them to send messages, keeps a table of who is in which
group, and announces departures.  This directory holds TLA+ models of it, the TLC
configurations that check them and TLAPS proofs about them.

Paths below are relative to `src/`.

## The system

| Component | State | Operations | Module |
|---|---|---|---|
| Group members (`hub/member_manager.go`, `hub.go`) | table `group_user`, cron | `RefreshGroupMember`, `GetGroupUsers`, `Add/Update/reAdd/LeaveGroupUser`, `watchMembersAndNotify` | `GroupMembers` |
| Member identity (`hub/member_manager.go`) | table `member`, `idUserMap`, `uidUserMap` | `GetID`, `compareAndUpdateMember`, `GetName`, `GetByID` | `MemberDirectory` |
| Message pipeline (`hub.go`, `hub/message_manager.go`) | table `message`, `existIdCache` | `messageFilter`, `Exist`, `Save`, the handlers, `dispatch` | `MessagePipeline` |
| Websocket connection (`redirect/websocket_conn.go`) | pool, exit channel, context, socket | `Serve`, `Close`, `SendMessage`, `readMessage`, `sendMessage` | `WSConnection`, `Outbound` |
| Websocket server (`redirect/websocket_server.go`) | clients map, channels messages, register, unregister | `serve`, `sendMessage`, `SendMessage`, `ServeHTTP` | `WSServer` |
| LRU cache (`pkg/lru/lru.go`) | map and list | `Put`, `Exist`, `Get` | inside `MessagePipeline` |
| Websocket client (`redirect/websocket_client.go`) | the connection, channel messages | `serve`, `sendMessage`, `SendMessage` | `WSClient` |
| Sender (`sender.go`) and commands (`hub.go` receive, `api.go` sendMsg) | rate limiter, prompts, readers | `SendMsg`, `SendGroupTextMsg`, `SendGroupMediaMsg`, `prepareFile` | `Sender` |
| File storage (`storage/storage.go`, `api.go` upload, `hub.go` onMedia) | files, by day and name | `Writer`, `Reader` | `Sender` |
| Content (`functions.go`, `hub.go` onText) | none | `getQuote`, `getUserFromContent`, the mention | `Content` |
| MQTT, the rest of the HTTP API, accounts, message types | a broker, a table | thin layers | - |

How they meet.  openwechat starts a goroutine for every message (`main.go:86`).  It runs
`messageFilter`, then the handler of the message's kind, which asks member identity for ids
and calls `dispatch`; `dispatch` saves the message and starts a goroutine per redirect.
The websocket redirect puts the bytes into a channel, from which one goroutine broadcasts
to the connections.  Each connection has three goroutines.  Cron starts a refresh of the
group members every few minutes, and so do a rename of a group and the start of the
program; what the cron jobs find goes to `dispatch`.  A command that comes in over a
connection is executed in that connection's reading goroutine, which asks member identity
for the uid behind an id.

What is hard.  There is hardly a lock in the program: the tables, the two sync.Maps, the
LRU cache, the clients map and the stored files are read and written in steps by any number
of goroutines.
Calls to WeChat and to the database fail and are mostly just logged.  The process is
restarted, with a new login that changes all uids.  Peers stop reading.  Channels are
bounded, one of them unbuffered.  `PROJECT.json` lists the hazards one by one, each at its
line and with the properties that watch it.

What makes each component correct: nobody who is present is taken for gone, a departure is
reported once, and the table comes to agree with WeChat (group members); an account keeps
its id, shares it with nobody, and the id leads back to it (identity); a message is
forwarded once, and reaches every redirect (pipeline); messages are written in order and
nobody is blocked for good (connection); every client gets every message since it came,
whatever the others do (server); whoever is connected is sent to and reconnecting loses
little (client); a file that is sent or announced is whole, a command leaves nothing behind
and ends (sender); no part of a text is lost and a mention is marked where it is (content).

## Modules

One action stands for one call that can fail, block or be overtaken; the local computation
after it belongs to it.  Counters of the environment are bounded by constants named Max...

**GroupMembers.** A refresh per thread: main (once, before cron starts), the rename
handlers, and the cron goroutines, which overlap since both specs fire at 6:00 and 6:30.
`FetchMembers`/`SkipGroup`, `LoadRows`/`LoadFails`, `ScanMember`/`MemberLookupFails`,
`PassOver`/`ReportExit`, `EndGroup`, `Return` and `Notify` follow the loops of
`RefreshGroupMember` and `watchMembersAndNotify` in their order; a write that fails is a
disjunct of the action that attempts it.  `members` and `gm` are the thread's own
snapshots.  `seen`, `blamed` and `armed` are history.  A row's LeaveTime is kept as
whether it is set.  The id of an account is the constant `IdOf`.  The rename handler and
main drop the result of their refresh, as the code does: departures they are first to see
are marked and never announced.

**MemberDirectory.** Every query, insert, update and map store of `GetID`, `GetName` and
`GetByID` is a step of the calling goroutine: cache, then uid, then name and attribute,
then for groups the name alone, then the insert; `Update`, `KeepId`, `KeepUid` are the
tail of `compareAndUpdateMember`.  An update whose call fails is cached all the same, an
insert is refused when the id exists, and an empty name or attribute is not written (gorm's
Updates leaves out zero values).  A uid is an account and a login; `Restart` empties the
caches and may bring a new login.  `generateID` is the constant function `IdOfUid`; the
runs give every uid a hash of its own.  `GetName` reads and stores as `GetByID` does and
differs only in the field it returns.

**MessagePipeline.** `pc` says where the goroutine of each delivery stands.  The kinds of
message are those that take different ways: the bot's own and notifications (aborted by
the filter, but only after Exist has run), chat (text, media, recall), rename, and the departure
events, which have no id.  `existIdCache` is a set with an arbitrary victim; since no
lock guards it, a `Put` that meets another access may end the process (`MapFatal`), and
two that meet may leave any of their entries (`RacyPut`).  `NilMessage` is the nil that
`prepareSystemMessage` returns and `onSystemMessage` uses; that such a panic in a handler
goroutine ends the process is an assumption about openwechat.  `overlapped` and `faulted`
are history.  Marshalling a message cannot fail and is left out.

**Outbound** is the abstract promise of a connection: a bounded queue that writes in order
until a write fails.  **WSConnection** is the code: `Serve`, its two goroutines, the
callers of `SendMessage`, the pool, the unbuffered `exit`, the context, and a peer
that is up, stalled or gone.  `Locked` is the write lock the ping shares with a
pending write.  `writeErr` is the error gorilla keeps once a ping or a message could not be
written, or a close frame was: no write succeeds after it.  `CloseFrame` ends the reader of a
connection whose peer closes it, or sends what the library refuses, such as a frame over
the limit of line 28.  A heartbeat of 0 is not possible through the options of either
redirector (they raise it to 5 s) and is left out.

**WSServer** is `serve`, `sendMessage` of the server, and the HTTP handlers, over
one queue per client: `Offer`, `Write`, `Break` and `Shut` restate the steps of Outbound for
each, by construction and not as a result of any run; what entitles a caller to them is what
`WSConnection` shows.  A range over the map comes to the entries that stay in it from beginning
to end, and to those added meanwhile or not.
`MapFatal` is Go's check for a map that is written while it is ranged over: `serve` deletes
an ended connection just when `sendMessage` goes on with its range, so that every
departure of a client can end the process.  After the context is done the process ends
(main waits for the same context); the panics on closed channels on the way there are part
of that end.

**WSClient** is `serve` (dial, serve, sleep, dial again) and the `sendMessage` goroutines, of
which `Connect` starts one per connection.  One ends only when a message cannot be handed
over, so that several may read the channel at once; `h.server` is read once per message, in
`Call`.  `Disconnect` stands for `Serve` of the connection returning an error and `Stop` for
its returning nil.  Connections are queues, as in `WSServer`.  `crowded` is history.

**Sender.** A goroutine per command, upload or media message, since each comes through the
reader of a connection, an HTTP request, a broker client or a message handler.  `Wait`,
`SendPrompt`, `Download`, `Create`, `WriteFront`, `WriteBack`, `Open`, `PrepareReturns` and
`SendFile` follow `prepareFile` and `SendGroupMediaMsg`, with the deferred functions inside
the action that returns.  A file has two chunks, so that another goroutine may truncate or
read it between them.  The limiter is what golang.org/x/time/rate does for
`rate.Every(time.Second)`: `full` is when all tokens are back, `DueFor` when n more will be.
`Endings` is the nil of `prepareMessage`.  What a job is comes from `Plans`.  A URL whose
server answers with an error page is stored like any other body, as resty reports no error.

**Content.** The steps of `onText`: `Receive`, `TakeQuote` or `NoQuote`, `TakeMention` or
`NoMention`.  A text is a sequence over a small alphabet; newline, dashes and newline are one
character `line`, the Chinese separator is `zh:`, the Chinese brackets are `[` and `]`, the
English quotation mark is `q`; `Chars` is the alphabet.  That names are
trimmed and have no newline is an assumption about WeChat.  `Limit` is the 16 of line 17.  A lookup of a member's id may fail (`failed`).  `Panic` is the slice of an empty English quote.  `IsAt` is openwechat's.

MC modules hold only constants.  Definitions marked "Mutant" are faulty variants of the
definition that follows them; nothing uses them.

## Runs

| Run | Question | Bounds |
|---|---|---|
| `refresh` | Who is taken for gone, how often is a departure reported, and does the table agree with WeChat in the end? | 1 user, 2 names, main, cron, rename handler, 3 changes, 1 failing call, 1 restart |
| `remainder` | Is everyone who remains in groupMembers gone? (violated) | 1 change, 1 failing call |
| `serve` | Does a connection keep its promise, and does everything in it come to an end? | 2 callers, 2 messages each, pool of 2, one stall, 1 empty frame |
| `empty_frame` | Is every frame written one that was buffered? (violated) | 1 caller |
| `forward` | Is a message forwarded once, and does it get to the redirects? | one message of each kind, 3 deliveries in all, 2 redirects, one stuck, 1 failing call, 1 restart |
| `ids` | Are ids mixed up, lost or stale? | group and user of one name, 2 goroutines, 1 restart, 2 logins, 1 change, 1 failing call |
| `stale` | Does an id lead back to the uid of this login? (violated) | 1 group, 2 goroutines, 1 restart |
| `broadcast` | Does every client get every message? | 2 clients, 3 messages, room for 1 in a client, channel of 2 |
| `send` | Are files whole, commands cleaned up, paced, and done? | three plans of up to 4 commands, 1 file name, 2 bodies, burst 1 |
| `unpaced` | Is a file sent after its wait? (violated) | the same |
| `reconnect` | Who sends, what is lost, and in which order? | 3 connections, 4 messages, room for 1 in a connection, channel of 2 |
| `parse` | Is a text taken apart correctly? | 17 412 texts, 4 names of up to 4 characters, Limit 4 |

Why these are enough.  Two refreshes already interleave every read of the one with every
write of the other, and three changes let somebody leave, return and leave.  A pool of 2
in place of 5 is full, half full and empty; two callers meet when it is full.  Three
deliveries of a message let one overlap with the next while another is repeated later; that
a full cache loses an entry needs four and is left to the proofs, which hold for any size.
Two goroutines are enough for a lookup to be overtaken.  `ids` has one restart; with two,
the second of which may resume the login of the first, it takes 4.6 million states and passes
as well, but too slowly to be repeated, and the theorems hold for any number.  Two clients are the one that stalls and
the one that waits; three messages make a gap visible.  Three connections let a sender outlive
two of them.  The plans of `send` are: two commands and a media message that share a
file name, with prompts; an upload that is sent while another of its name comes; and four texts at
once, of which the limiter lets three wait (MaxWait 2 in place of 3 seconds for one command
less).  In `parse` the names have a space inside, are prefixes of one another, and have
every length up to the limit; the texts are all of up to five characters over two small
alphabets and the composed ones a member would write.  The theorems below remove the bounds
for what they cover.

`CHECK_DEADLOCK FALSE` stands where the system really may stop: after its last bounded call
or message, or when the process has ended.  `ids` takes the two callers as symmetric (its
properties are invariants and do not tell them apart).

### What the runs show

- `RemainderHasLeftOrFault`, `ReportedOncePerStay`: nobody present is reported as gone
  unless `group.Members()` or the member's own `GetID` failed in that pass; a cron goroutine
  reports a departure once per stay unless marking it failed.  Two goroutines that overlap may
  each report it.
- `Converges`: stale snapshots only delay the table.  This takes accounts with ids of
  their own: two that share an id (same nickname and status) and carry different group
  names make every refresh rename the row again, and a marked one is never taken back.
- `OwnId`, `ReachesOwner`, `SteadyId`: an account that the rules of `GetID` cannot mistake
  for another (`Unmistakable`) never shares its id, a command for it reaches no one
  else, and if its key does not change (`Steady`: a group's name, a user's name and status)
  the id survives restarts, logins, concurrent calls and failing calls.
  `CurrentUnlessLost`: the id leads to the uid of this login, and there are two ways of
  losing it: the race below, or an update of the row that failed and was only logged (88-91),
  so that after a restart within the same login the old uid is read back from the table.
- `ForwardedOnce`, `CacheIsSound`, `SavedBeforeSent`, `ReachesRedirects`: see the theorems;
  a stuck redirect does not keep a message from the others.
- `KeepsPromise`, `CallersReturn`, `BufferedIsWritten`, `EndsWhenDead`: a connection is the
  queue it promises to be, and the heartbeat frees those blocked on a peer that does not read.
  `LeaksOne`: each connection that ends leaves one goroutine blocked on `exit` for good.
- `NoGap`, `MissesNothing`, `Broadcasts`, `EndedAreDropped`: every
  working client takes every message broadcast since it came, once, in one order; a client
  that does not read delays the others until its heartbeat fails; an ended one stays in the map
  until the next broadcast.
- `SomeoneSends`, `LosesOnePerConnection`, `InOrderAlone`, `OneFate`, `Drains`: the sender a reconnection
  adds is needed, since the old one may be about to end; each connection that ends costs at
  most one message that was taken from the channel (and what the connection itself
  had buffered); an old sender that had nothing to send stays, and from then on messages may
  overtake each other, but each is in one place: waiting, held by one sender, taken
  once, or dropped with an error; it is in none of these only after a write failed.
- `FilesIntact`: nothing that failed half way is sent or announced; only another command,
  upload or message with the same name on the same day changes a file under its owner's
  hands.  `CleansUp`: a prompt is left standing when the file cannot be loaded (the deferred
  `Revoke` gets a nil and panics; the callers recover), a reader is left open when the prompt
  could not be sent.  `Paced`: the waits that are granted keep the pace; a text that would wait
  longer than three seconds does not wait at all.  `CommandsReturn`: only a download that
  hangs keeps a command; until it ends, nothing more is read from its connection.
- `NothingLost`, `AuthorsFound`, `MentionsFound`, `MentionsMarked`: what `onText` takes apart
  can be put together again.  The exceptions are in the formulas: a quote whose author is
  unknown is dropped; of an English quote by a member whose name has 14 or 15 characters the author is
  not found, because the 16 characters looked at end inside the separator and are
  trimmed; a text that starts with an empty English quote panics; the offset is -1 when the
  bot is mentioned only inside the quote, when its own name contains the special space, which
  is taken out of the text before the name is looked for, or when a space follows the @.

### Disagreements found

- `remainder`: `member_manager.go:305` says that what remains are those who left.  After a
  failed `group.Members()` (error dropped at 268) or `GetID` (passed over at 275-279) people
  who are present remain, are marked and announced as gone.
- `empty_frame`: `websocket_conn.go:123` says that sendMessage forwards what is in the
  buffer.  Between closing the pool (50) and the socket (51) it writes empty
  frames, as long as no write has failed: the run cancels an idle connection whose peer is up.
- `stale`: `member_manager.go:189` says that GetByID gets the temporary uid.  A lookup that
  overlaps the first `GetID` after a login puts the old uid back, and nothing rewrites it
  until the profile changes or the process is restarted: commands to that group fail.
- `unpaced`: `sender.go:253` and 255 speak of a wait for the limiter before a file.  `WaitN`
  for 5 on a burst of 1 (46) is refused at once and its error dropped: no file ever waits.

### Fairness

Weak fairness throughout, per goroutine: Go's scheduler runs what can run, cron keeps
firing and main starts.  Nobody is obliged to rename a group, to call `SendMessage` or
`Close`, to connect or to crash, and a peer need not read or resume.  In `WSConnection` the
ticker fires and a failed socket is noticed by whoever uses it; the callback of the reader
returns.  In `MessagePipeline` a redirect in `Stuck` need not return.  In `WSServer` a
connection that has something to write writes it or is shut, which is what
`BufferedIsWritten` and `CallersReturn` say of `WSConnection`.  `WSClient` assumes the same,
and strong fairness of `Connect`: if dialling is tried for ever it succeeds.  In `Sender`
time passes, WeChat answers, and goroutines run, but neither a download nor a media message
(whose body comes as it is written) need end.  The callback of a connection's reader, which
`WSConnection` takes to return, is such a command: `CommandsReturn` says when it does.

## Proofs

For every value of the constants, under their named assumptions:

- `GroupMembersProofs`: `TypeCorrect`; `RemainderCorrect` (`RemainderHasLeftOrFault`);
  `ReportedOnce` (`ReportedOncePerStay`).
  The first safety property speaks only of a finished scan; the inductive invariant
  `Accounted` says of every scan under way that each id seen is still to be scanned, deleted
  from the map, or behind a failed lookup.  For the second, `ArmedInv` relates
  history to table and snapshot: a row the goroutine has reported is marked
  (`MarkedOnceReported`), so a row that is unmarked in the snapshot (`UnmarkedInSnapshot`) is
  either not reported since it became current or was made current after the snapshot.
- `WSConnectionProofs`: `TypeCorrect`, and `KeepsItsPromise`: the connection implements
  `Outbound` for any capacity and number of callers.  `RefinementStep` maps each step to a
  step of the queue or to a stutter; the lemmas before it say how taking and buffering
  change the mapped queue (the frame in hand, then the pool; empty once the writer failed).
  `OneStays` and `LateIsStuck` are the safety half of `LeaksOne`: `readMessage` and
  `sendMessage` never both end, and one that comes to `exit` after the select stays there.
- `MessagePipelineProofs`: `TypeCorrect`, `CacheSound`, `SavedFirst` and `Once`
  (`ForwardedOnce`) for any number of deliveries, restarts and races in the cache.
  `ForwardedOnce` speaks of what was sent; it rests on the stages before.  For a message
  without overlap and failure, one delivery at most has not passed Save (`OneUnsaved`), none is behind a row
  that is there (`NoneBehind`), what was emitted has its row (`EmittedIsSaved`), hence one
  delivery at most emits (`OneEmitted`).  `InOrder` is what makes the history variable see
  every overlap.  All steps up to dispatch are instances of one lemma, `Moves`.
- `MemberDirectoryProofs`: `DirectoryTypeCorrect`, `OwnIdHolds` (`OwnId`) and
  `ReachesOwnerHolds` (`ReachesOwner`), for any accounts, goroutines and any `IdOfUid`, so
  colliding hashes are covered.  Both properties speak of answers; the inductive `Sided(a)`
  speaks of every row in the table, in a cache or in a goroutine's hand (`Held`): for an
  unmistakable `a`, a row either carries a uid of `a` and what `a` is looked for by, or
  neither (`Fits`), and agrees on that with the stored row of its id (`Agree`).  `FoundFits`
  is the heart: whatever query of `GetID` finds a row, it is of the asking account's side.
  `SteadyIdHolds` (`SteadyId`) rests on `OneRowEach`: a steady account has one row at most, which
  every later `GetID` finds by the key that does not change; what has been answered is that
  row's id.  `CurrentUnlessLostHolds` (`CurrentUnlessLost`) rests on `Lasts`: of an id that was
  answered in this login, and is not `lost`, the row in the table, in both caches and in the hands
  of those about to store it carries the uid of this login.  The attempt to prove this for any
  number of restarts is what showed the second way of losing a uid.
- `WSClientProofs`: `TypeCorrect`, `SomeoneAlwaysSends` (`SomeoneSends`), `LosesFew`
  (`LosesOnePerConnection`) and `AloneIsInOrder` (`InOrderAlone`), for any number of
  connections and messages and any sizes.  All rest on the inductive `Served` (the connections
  before the current one are shut) and `Onward` (a sender offers to its own connection or a
  later one, so it ends only after its own has): the sender of an open connection lives.
  Losses are counted by `OneByEach`: a sender that drops a message is one more that has ended.
  For the order, `ChannelInOrder` says that whatever left the channel was posted before all
  that is in it, and `AloneInOrder` that the senders before an uncrowded connection have ended,
  so that its own is the only one to append to it.
  `EachHasOneFate` (`OneFate`) holds crowded or not.  A message in the channel is newer than all
  that left it; what a sender holds it holds alone, and what was dropped was never taken
  (`HeldOnce`); two connections, or two places in one, never hold the same message
  (`TakenOnce`).  That none vanishes (`NoneVanishes`) follows step by step: each step that takes a
  message from one place puts it into the next, but for buffering it behind a write that failed.
- `WSServerProofs`: `ServerTypeCorrect`, `ServerLeavesNoGap` (`NoGap`), `ServerMissesNothing`
  (`MissesNothing`) and `ServerDropsTheEnded` (`EndedAreDropped`), for any number of clients and
  messages.  `Runs` says that what a client took is an unbroken run that starts when it came;
  `Level` that a working client in the map has taken everything up to the last message the
  range can have offered it; `Dropping` that one that had ended is still to be visited, or is
  just being unregistered.
- `SenderProofs`: `SenderTypeCorrect`, `FilesStayIntact` (`FilesIntact`), `CommandsCleanUp`
  (`CleansUp`) and `WaitsPaced` (`Paced`), for any number of jobs, names, bodies, any burst and
  longest wait.  `FilesKept` says what an undisturbed job has written so far, step by step, and
  what is on its path; `Granted` gives every wait granted a slot of its own (`Slots`), so that
  counting waits is counting slots.
- `ContentProofs`: `MessageKeptWhole` (`NothingLost`), `AuthorsAreFound` (`AuthorsFound`),
  `MentionsAreFound` (`MentionsFound`) and `MentionsAreMarked` (`MentionsMarked`), for texts and
  names of any length over any alphabet, and any limit.  The string operators are defined by a
  search; the lemmas restate them character by character (`Stands`, `Trims`, `CutOff`).  That a
  search finds a first place, and that names have a longest, would be an induction; `Least` takes
  its place: the intervals `0..m` are well-founded by inclusion.  Three arguments carry the
  rest: a name in front is neither trimmed nor cut off (`TrimKeeps`, `CutKeeps`), the separator
  stays behind it (`AuthorTried`), and what has no special space in it is kept when the first
  one is taken out (`SpaceKeeps`).  The assumptions are on the data: names are not empty, are
  trimmed and have no newline.

Only model-checked: the liveness properties (`Converges`, `CallersReturn`, `BufferedIsWritten`,
`EndsWhenDead`, `LeaksOne`, `ReachesRedirects`, `Broadcasts`, `CommandsReturn`, `Drains`), since
fairness is about ENABLED, which the prover does not reason about.

## Not modelled

The MQTT redirector, the handlers of the HTTP API that only read, and accounts are thin
layers over a broker, a router and single statements.  `isRenameGroup` is two regular
expressions.  The recency order of the LRU cache, and what interleaved Puts leave of its list
and map, matter only through what `MessagePipeline` allows of them.
Message types are records with JSON tags.
Read receipts (`AsRead` behind a limiter) change nothing here.  Authentication is outside.
`NewHub` and the options only set fields.  In `main.go`, `DB=sqlite` takes the empty case
at 155 and leaves the dialector nil.

## Plan

Modelled in this order, because each leans on the ones before: group members, connection,
pipeline, identity, server; then client, sender with storage, content.  Next:

1. `LRU`: list and map step by step, one thread refining the recency list, two threads
   showing what `RacyPut` allows.
2. The safety half of the other liveness properties, as far as it says more than their guards.
