# A verification of the KTLT banking terminal

KTLT is a small bank: a server that keeps accounts in memory and in flat files,
and a terminal client. This directory holds TLA+ models of the parts that carry
its logic, the TLC configurations that check them on small instances and proofs
that TLAPS checks for every instance.

## The system

```
 pages (FTXUI thread) -> Client (its io thread) ==TCP==> Session (server io thread)
                                                            | enqueue, notify
 pages <- screen.Post <- _pending FIFO <= TCP <= doWrite <- completion <- worker -> files
```

| Part | State | Operations | Talks to |
|---|---|---|---|
| Accounts (`DbManager::processItem`) | `_data`, `_dirty` | nine operations on accounts and histories | called by the worker, answers through a posted callback |
| Database engine (`DbManager`) | `_queue`, `_running`, worker thread, save timer, `data.db`, `data/*.txn` | enqueue, notify, dequeue, save, load, shutdown | network thread (mutex, condition variable, `asio::post`), files |
| Sessions (`server/Server.cpp`) | one request in flight per connection | accept, `doRead`, route, `doWrite` | DbManager, socket |
| Packet layer (`libs/network`) | frames in a byte stream | `asyncSend`, `asyncRecv`, `send`, `recv` | sockets |
| Client (`app/client`) | `_connected`, `_pending`, `_disconnectHandler` | connect, sendRequest, recvLoop, stop | socket, pages |
| App shell and pages (`app/`) | `appUsername`, tab indices, input fields, `_loading`, `_status`, histories shown | login, signup, refresh, history, deposit, withdraw, transfer, change password, lock, logout | Client callbacks re-posted to the FTXUI thread |
| Payloads | none: texts | put together by Client and the database, taken apart by Session and the pages | fields of `data.db` and of records |
| Base library (`libs/base`) | nodes, buckets, cells | Vector, String, lists, red-black tree, hash table, sort, SHA-256 | used by pages and server (Vector, String, sort, SHA-256 only) |
| Test data generator (`tests/`) | writes `data.db`, `.txn`, `.log` | run once, offline | files |

### What is hard here

* Three threads share the database engine; shutdown must drain the queue and
  not sleep through the last notification.
* Nothing is written at once: an operation is answered long before it is saved,
  and `save()` rewrites many files in place.
* Arithmetic is 64 bits wide and the two updates of a transfer may hit the same
  account.
* Replies carry no identifier: every layer matches them with requests by order.
* Pages read their fields when a reply arrives, not when the request was made.
* Nothing in a payload is escaped: names, numbers and separators share one text.
* The containers are written by hand, links, sentinels and raw cells included,
  and what breaks them is a sequence of calls, not one call.

## Modules

| Module | Models | Built on | Its code |
|---|---|---|---|
| `Ledger` | `_data` and every operation of `processItem` | | `server/Database.cpp` 245-460 |
| `LedgerProofs` | theorems about `Ledger` | `Ledger` | |
| `Database` | `DbManager`: queue, worker, timer, files, shutdown, crash, start | `Ledger` | `server/Database.cpp`, `server/main.cpp` |
| `DatabaseProofs` | theorems about `Database` | `Database`, `LedgerProofs` | |
| `DurableLedger` | abstract: what outlives a restart | implemented by `Database` | |
| `Service` | abstract: what a connection promises its client | implemented by `Server`, assumed and met by the server in `Client` | |
| `Server` | sessions in front of the engine | `Database` | `server/Server.cpp` |
| `ServerProofs` | theorems about `Server` | `Server`, `DatabaseProofs` | |
| `Client` | the terminal's end of a connection | | `app/client/Client.cpp`, `libs/network/Packet.cpp` |
| `ClientProofs` | theorems about `Client` | `Client` | |
| `Terminal` | shell, login, sign-up, dashboard, history, settings | `Client`, `Ledger` | `app/App.cpp`, `app/pages/` |
| `Payments` | deposit, withdraw, transfer pages | `Terminal` | `app/pages/` |
| `TerminalProofs` | theorems about the pages | `Payments` | |
| `PaymentsProofs` | theorems about pages, client and accounts together | `TerminalProofs`, `ClientProofs`, `LedgerProofs` | |
| `BalanceProofs` | theorems about what the terminal does to the accounts and shows of them | `PaymentsProofs` | |
| `Payload` | the texts of requests, replies and records | | `Client.cpp`, `Server.cpp`, `Database.cpp`, pages |
| `Collections` | abstract: the maps and sequences the containers stand for | implemented by the next six | |
| `HashTable`, `RBTree` | tables and trees, node by node | `Collections` | `libs/base/hash_table.hpp`, `hash_map.hpp`, `hash_set.hpp`, `rbtree.hpp`, `map.hpp`, `set.hpp` |
| `List`, `ForwardList` | rings and chains of nodes | `Collections` | `libs/base/list.hpp`, `forward_list.hpp` |
| `Vector`, `Text` | cells, copies that throw; the short and the long form | `Collections` | `libs/base/vector.hpp`, `string.hpp` |
| `Sha256` | the blocks SHA-256 hashes | | `libs/base/sha256.hpp` |
| `Algorithms` | `base::sort`; a range is sorted or a message hashed | `Sha256` | `libs/base/algorithm.hpp` |
| `DataProofs` | theorems about texts of requests, vectors, strings, digests and hash tables | `Payload`, `Vector`, `Text`, `Sha256`, `HashTable` | |
| `Sequential` | the eight above, one at a time | all of them | |
| `LedgerMC`, `DatabaseMC`, `ServerMC`, `PaymentsMC`, `SequentialMC` | constants for TLC | | |

Two compositions meet in the middle. `Server` puts sessions on the whole
engine, with threads, files and crashes, and is shown to implement `Service`.
`Terminal` and `Payments` put the pages on `Client`, whose server is checked to
be one `Service` allows, and let that server execute each request on `Ledger`
when it serves it, and requests of other sessions in between. What justifies
this is that `Server` answers every packet in order (`SessionsServe`) and that
`Database` executes every request once and answers in order (`AnswersInOrder`). The parts that run in one thread on data
of their own are put side by side in `Sequential`.

Definitions named in a comment `\* mutant` are faulty variants of the one that
follows them. Nothing uses them: they are there to be put in its place, to see
that the properties notice.

### Ledger

`data` is `_data`, `dirty` is `_dirty`, `reply` what the callback of the
operation just executed is given. One action per `WorkItem`, with every early
return; a payload is the operation it parses to. `Limit` stands for 2^64:
unsigned arithmetic is `% Limit`, and `i64(balance) + change` wraps as it does
in the builds the project makes, although the language leaves it undefined.
Hashing keeps passwords apart and is otherwise a name. `MaxTxns` bounds a
history. `Seed` is what `load()` found; `SafeUsers` are the names
`isSafePathComponent` accepts.

### Database

A thread is a program counter (`worker`, `notifier`, `saver`) and an action is a
critical section, a handler, an operation or one file written. `phase` is the
process: "up" while `io_context::run` runs, "stopping" from the signal to the
end of the destructor, "down". `Crash` is the death of the process at any
moment, whatever the reason: a kill, or an exception that leaves a handler. An
open file that is being written when the process dies keeps any prefix of its
records. `Destroy`, `Joined` and `FinalSave` follow `~DbManager`: clear
`_running` under the lock, notify, join, save. A second signal during the
shutdown is not modelled.

### Server

A session is "listening" (not accepted), "reading" (an `asyncRecv` is pending),
"waiting" (its request is in the engine), "writing", or "closed". A packet is a
type and the request it parses to, or `Malformed`. An unknown packet type
leaves `doRead` without another read and the session dies with the last
reference to it (`Ignore`); malformed packets are answered on the spot.

### Client

`posts` are functions posted by `sendRequest`, `pending` is `_pending`,
`writes` the `async_write`s under way and `stream` the bytes on the wire, two
chunks to a packet (header, payload). With `PartialWrites` a write may be taken
in part and then queues again for the rest, as asio's composed operations do;
the class starts one write without waiting for another. `events` is everything
the io thread tells the FTXUI thread, in order.

### Terminal and Payments

`events[seen + 1]` is the next function `screen.Post` will run, `asked[id]` the
request a handler belongs to. One action per user input and one per reply
handler; a handler reads the fields as they are when it runs, which is where
the stale reads come from. `section`, `appUsername` and the records `login`,
`signup`, `settings`, `dash`, `history`, `deposit`, `withdraw`, `transfer` are
the fields of the same names. The history page refreshes when its tab is chosen
(`DoHistory`), unless it is loading, and shows what comes back to whoever is
logged in then (`HistoryReplied`). With `Patient` the user does not touch the
login and sign-up forms, nor the buttons of the settings page (change the
password, lock, log out), while a spinner turns there: the code does not enforce
it, so it is a hypothesis of the runs that pass and of the theorems, and
`TerminalEdited` shows what it costs. `Forms` and `Pays` say which parts of the
screen a run uses.

The server accepts any number of sessions (`Server.cpp:240`), whose users may own
the same accounts, pay into them, or be logged in to them at another terminal.
`ServedElsewhere` is a request of one of them that changes an account, any
operation of `Ledger`, `MaxOthers` of them at most, served at any moment between
two requests of this terminal. `elsewhere` remembers what a property has to make
an exception of, because nobody tells the terminal: whose history other sessions
have added to since this one was last given it (`paid`), and whose lock they have
turned since this one was last admitted under that name (`turned`).

### Collections and the containers

Every container is driven through two objects, `"a"` and `"b"`, which copy,
move, swap, splice and merge with each other by every call in any order. `dict`
and `items` are the maps and sequences the calls should have left in them; each
module keeps what is really there: `table` (buckets with their chains, size and
hash), `tree` (nodes with colours and links around a header), `heap` and
`chains` (nodes of both lists in one memory), `vec` (cells that are free, hold an
element or were moved from), `text` and `blocks` (characters, terminator,
allocations). An invariant reads the structure the way the class does, through
links, buckets and iterators, and compares what it finds. `Risky` names the
calls that the code gets wrong; the passing run makes each only where it comes
out right, and the list below says what each breaks. So the properties of that
run are not about every call: `TreesBalanced` leaves out moving a tree with nodes
into a new one (`rbtree.hpp:524`), `VectorsHold` every insert with capacity to
spare (`vector.hpp:364`) and every copy that throws when others of its call are
done (`vector.hpp:149`, `:350`; an assign of a range apart), `ListsHold` merges
whose other elements come last (`list.hpp:831`), `TablesHold` writing through
`operator[]` to an entry that is not first in its chain.

`Algorithms` sorts ranges of every order up to `MaxSorted` elements, with the
insertion limit lowered to `Insertion` so that both halves of the code are met;
`Sha256` follows which bytes reach which block of the hash, through the loop by
which `ingest` copies as much as its buffer has room for; `MCTreeSeeds` starts some
trees with eight keys so that erasing meets every case of `erase_fixup`.

### Payload

A text is a sequence of characters of which the separators and digits are
distinguished, and a request is what `Session::doRead` cuts out of the text
`Client` wrote. Names come from a sign-up that went through the same text, so
one with a `:` in it becomes the name before the `:` and the rest goes to the
password. No name typed holds a `|` or an end of line. `meant` is what the user
asked for, `booked` what the database wrote down, `shown` what the history page
made of the reply.

### Sequential

A behaviour of `Sequential` drives one of the eight modules, its `subject`, and
leaves the others as they were made: they share nothing, and interleaving them
would only multiply states.

## Runs

Passing runs:

| Run | Properties | Bounds | States |
|---|---|---|---|
| `LedgerMC` | type, balances agree with histories, histories chain, no overdraft, transfers leave both records, locked accounts frozen, money conserved | 2 valid names and an unsafe one, words of 3 bits, 3 records a history | 31 000 |
| `Database` | a clean flag means saved, a stop loses nothing, implements `DurableLedger` | 3 requests of 9 kinds, 2 stops or crashes | 960 000 |
| `DatabaseFaulty` | answers in order, requests answered, stops end, every change comes to a save | 2 requests, 2 stops, opens fail, crashes inside `save` | 116 000 |
| `Server` | type, one request in the engine per session, sessions implement `Service` | 2 sessions (symmetric), 2 packets each, 1 stop or crash | 1.3 million |
| `ServerLive` | packets are taken and sessions answered | 2 sessions, 1 packet each, 1 stop or crash | 87 000 |
| `Client` | each handler called once and with its own reply, `Service`, calls return | 4 requests, refusal, loss | 2 600 |
| `Payments` | type, the history shown is the user's own, the dashboard shows the current balance, passwords are changed after verification, withdrawals take money, nobody is let in to a locked account | 2 users (symmetric), log in, refresh, history, withdraw, change password, log out; 4 requests of the user and the refreshes and changes they lead to, 1 request of another session | 4.5 million |
| `PaymentsLive` | spinners stop | 2 users, log in, sign-up, lock, history, deposit, withdraw, transfer; 2 requests of the user | 460 000 |
| `Sequential` | tables, trees, lists, vectors and texts hold what they should, trees are red-black, erasing loops go on, ranges are sorted, the digest is the message's, requests are read as written, the history tells what was paid | 5 keys, 2 values, 4 elements in two objects; 2 buckets, 1 character in place, insertion up to 2, blocks of 5; names of 2 characters, 2 transfers | 247 000 |

Why the bounds are enough to be interesting: with 3-bit words every sum the
server makes can wrap, in either direction; two accounts are what a transfer
relates, and a self-transfer needs one. Two requests in the engine are what it
takes to sleep through a notification or to answer out of order, and three let
a request follow a save that follows a request. Two stops give two restarts.
Two sessions compete for one worker; two packets each let one arrive while
another is served. Three requests of a user are a login, the refresh it leads
to, and one more while that refresh is still under way; the refresh or the
change of password that follows is made beyond the bound, as is a second login
and its refresh. A fourth looks at the history, or asks for a change, while an
earlier user's reply is on its way. One request of another session, a deposit
or one that locks or unlocks either account, falls between any two of these: it
makes the dashboard stale, and a login or a verification is refused. After a
sign-up, which refreshes nothing, two are enough; two also make each of the eight
spinners turn, that of the settings page for a lock (a change of password, which
turns it twice, is not in the live run). Two buckets and four entries
make a table rehash twice; one character in place and four in all take a text
across the border in either direction, and let a long one be copied; a block of
five bytes with two for the length has messages that end in every place of the
padding.

Runs that find what the code does against what it says:

| Run | What happens | Where | What it says |
|---|---|---|---|
| `DatabaseTorn` | a death inside `save` leaves half a transfer | `Database.cpp:148` | `docs/README.md:272` |
| `TerminalEdited` | the name typed last is logged in, not the name verified | `LoginPage.cpp:41` | `docs/README.md:378` |
| `DashboardOther` | after a sign-up the dashboard of the user who logged out before is shown | `SignupPage.cpp:95`, `App.cpp:55` | `docs/README.md:326` |

Hypotheses of the passing runs, and what is lost without them. Each can be
reproduced by changing the constant named, or by stating the property:

* A write is taken whole (`PartialWrites = FALSE` in `Client`). `sendRequest`
  starts an `async_write` while another may be under way, which asio forbids;
  with `TRUE`, `RepliesMatch` fails (`Client.cpp:62`).
* Amounts typed are below half the range. The run types 1 only; the theorem is
  about all that `SmallAmounts` allows. With `Limit = 8` and `Typed = {5}` a
  withdrawal becomes a deposit and `WithdrawalsTakeMoney` fails
  (`WithdrawPage.cpp:38`).
* Other sessions (`Server.cpp:240`) are excepted where this terminal cannot know
  of them. `ShownBalanceCurrent` says nothing of the balance shown when one of
  them has paid from or to the account after the last refresh was served: the
  dashboard then is stale, with every request answered, until the user asks for
  a refresh. `LockedStayOut` says nothing of a user whose lock one of them has
  turned between the server's answer to his login and the page's handling of it:
  he is let in to an account that is locked. Without the exception each of the
  two fails as soon as `MaxOthers` is 1.
* The user waits for the reply to a login, and for that of the settings page
  before using its buttons (`Patient = TRUE`); see `TerminalEdited` for the
  first. With `FALSE`, `PasswordsVerified` fails within the bounds of `Payments`
  (TLC is there soonest with `Forms = {"login", "password", "logout"}`,
  `Pays = {}` and `MaxOthers = 0`) and `HistoryOwn` with two requests more: whoever logs in twice before the first
  reply comes and logs out again is logged in once more by the second reply,
  under the name that stands in the login form by then. A verification that is
  under way is then taken for one of the new user's password
  (`SettingPage.cpp:64-73`). Waiting at the login form alone is not enough:
  the reply to a request to lock the account logs out, and so clears the login
  form (`SettingPage.cpp:95-100`, `App.cpp:48-52`), whenever it comes.
* The client is connected (`LockedStayOut`, which is proved for a patient user).
  Without that it fails for him, too: a write that fails reports the loss, which
  clears the forms, but replies that have arrived are still handed out, and the
  one to a login then logs in whoever the empty form names (`Client.cpp:66`,
  `LoginPage.cpp:41`). It takes a payment made before logging out whose reply asks
  for a refresh after the server has closed: `Forms = {"login", "logout"}`,
  `Pays = {"deposit"}`, five requests.
* Nobody signs up in the run that checks histories and balances (`Forms` of
  `Payments` without `"signup"`); see `DashboardOther`.
* Files can be opened (`OpenMayFail = FALSE` in `Database`). With `TRUE`,
  `CleanMeansSaved` fails: a `save()` that could not open a file returns and the
  flag is cleared all the same (`Database.cpp:149`, `:464`; `docs/README.md:280`
  speaks of a save every 30 seconds, which this one then is not).
* No container is called in the ways `Risky` names. Each of these makes the
  property fail:

| In `Risky` | The call | Fails | Where |
|---|---|---|---|
| `"index"` | `m[k] = v` of a key that is there but not first in its chain: `emplace` returns an iterator to the first | `TablesHold` | `hash_map.hpp` `operator[]`, `hash_table.hpp:280` |
| `"copy"` | assignment to a table that holds entries: its size is added to | `TablesHold` | `hash_table.hpp:191` |
| `"erase range"` | erasing a range up to `end()`: the loop ends with the chain it started in, since `erase` of the last node of a chain returns an iterator that equals `end()` | `TablesHold` | `hash_map.hpp:156` |
| `"move tree"` | moving a tree with nodes: the header of the new one stays red, and end() and the fix-ups tell it by its colour | `TreesBalanced` | `rbtree.hpp:524` (`docs/README.md:210` promises `O(log n)`) |
| `"merge"` | `list::merge` of elements that come last: their chain ends at the other sentinel | `ListsHold` | `list.hpp:831` |
| `"splice"` | `list::splice` of an element before itself | `ListsHold` | `list.hpp:889` |
| `"merge itself"` | `forward_list::merge` with itself: every node is lost | `ListsHold` | `forward_list.hpp:535` |
| `"push own"` | `push_back(v[i])` of a full vector: the reference is freed first | `VectorsHold` | `vector.hpp:412` |
| `"insert"` | inserting with capacity to spare: the last element is lost | `VectorsHold` | `vector.hpp:364` |
| `"insert throws"`, `"copy throws"` | an element's copy throws in the middle of a call | `VectorsHold` | `vector.hpp:350`, `:149` |

Short of running out of memory, the program as it stands makes none of these
calls; they are what its
containers do not keep of the promises of the standard ones they are modelled
on.

Not stated as properties because the models show they do not hold:

* that a credit never lowers a balance: it wraps (`Database.cpp:352`, `:391`);
* that a second request to lock an account leaves it locked: it toggles
  (`SettingPage.cpp:95`; the text at `:301` speaks of locking only);
* that the dashboard is the user's own at every moment: the reply to a payment
  made before logging out refreshes it for whoever is logged in then, and until
  that refresh's reply the one before stays (`DepositPage.cpp:44`).
  `ShownBalanceCurrent` is about what remains when nothing is on its way;
* that a new password has passed the checks of `doChangePassword`: the field is
  read again after the confirmation and may have been edited since, or erased
  (`SettingPage.cpp:73`). In the runs it may be another one then; that it may be
  none is covered where `Empty` is one of the `Passwords`, which the theorems
  allow;
* that every loss of the connection is noticed: the handler is installed after
  the thread that calls it has started (`App.cpp:57`), and an exit posted before
  the loop runs may be dropped (`App.cpp:28`);
* that the notice stays: handlers that were waiting run after it and a failed
  login's writes over it (`Client.cpp:78`);
* that a transfer reported as failed has not been made: its reply may have been
  lost (`TransferPage.cpp:68`);
* that no user transfers to himself: names are read again when the dialog is
  confirmed (`TransferPage.cpp:59`);
* that the directory is ever complete: it is marked loaded even when fetching it
  failed (`TransferPage.cpp:92`);
* that a user gets the account name that was typed: the first `:` ends it, so
  `a:5` signs up as `a` (`Server.cpp:41`). `RequestsRead` says that no account's
  name can therefore hold one.

Where the docs and the code differ without a state to violate: texts of 15
characters are kept in place, not 23 (`docs/README.md:192`); the history page
asks for the latest 100 records, not the full history (`docs/README.md:327`).

`CHECK_DEADLOCK FALSE` stands where the system may stop: the user leaves, every
connection has closed, or the requests the bound allows have been made.

## Fairness

* `Database`: the worker, the thread inside `save()` and a thread that is about
  to notify go on (weak). The io_context runs ready handlers in the order they
  became ready, on one thread: a completion or the timer that is ready again
  and again is run (strong), although others run in between.
* `Server`: the same, and every session's ready handler gets its turn. Clients
  owe nothing: they may stop sending and hang up.
* `Client`: both threads run what is ready and the network delivers while the
  connection is up (weak). The user owes nothing, nor is the connection ever
  obliged to break: a server that is up serves.
* `Payments`: the same in three conditions, each weak: the FTXUI thread runs the
  handler posted first, the io thread what is ready, and the server serves and
  answers. Each is a loop that does nothing else.

## Theorems

Each is proved for every value of the constants that their assumptions allow:
any names, passwords and word size, any number of requests, sessions, stops and
crashes. No bound of the runs is left but `MaxTxns`, the length of a history.

`LedgerProofs`:

* `TypeCorrect`, `Soundness`, `Covered`, `LockedFrozen`, `AppendOnly`: balances
  and amounts stay words; balances agree with histories, which chain; no record
  takes out more than the one before it left; no operation moves the money or
  the history of a locked account, or rewrites or drops a record.
* `TransfersInBoth`: `TransfersPaired`, from a seed that is `Linked`.
* `MoneyStays`: `MoneyConserved`, if the seed has finitely many accounts.

The inductive invariant of the first is `IInv == TypeOK /\ IsSound(data)`: every
account's history chains, covers what it pays, and ends in the balance of the
account. Chaining alone is not inductive: the record an operation appends is
computed from the balance, so one has to know that the newest record agrees with
it. The case that needs care is a transfer to oneself, where the code debits and
credits one account through two iterators: `WrapBack` shows the balance comes
back, and `TransferToSelf` that the two records chain all the same. Pairing is
not inductive either: an account opened under a name that some history mentions
already would owe that history a record. `Linked` adds that transfers mention
only accounts that exist.

`MoneyConserved` compares sums over all accounts and over all new records.
`TotalBalance` takes the balances in an order nobody chose, so what has to be
shown is about sums: one over a finite set exists (`SumsExist`), depends on the
numbers alone (`SumsAgree`) and may begin with any element (`SumWithout`). Each
would be an induction over the set, which the provers cannot take from the
library; instead each is shown of the smallest subset it could fail for, by
`LeastNat`. Then accounts that differ in one balance have totals that differ by
as much (`TotalsDiffer`), and each operation is a matter of the one balance it
changes, or of the two (`TransferConserves`, the transfer to oneself apart: it
changes none); what wraps is off by a multiple of 2^64 (`WrapOff`). The
invariant this needs is that there are finitely many accounts.

Assumed: a word size above 1 (`LimitAssumption`), that
the seed is sound (`SeedAssumption`) and, for pairs, linked and, for sums,
finite; an empty data directory is all three, and so is what the test data
generator writes.

`DatabaseProofs`:

* `DbTypeCorrect`: types, and at most one thread inside `save()`, through
  crashes and restarts.
* `AnswersOrdered`: `AnswersInOrder`, files that cannot be opened and crashes
  inside `save()` included.
* `CleanSaved`, `ShutdownSaves`: `CleanMeansSaved` and `StopLosesNothing`, if
  files can be opened (`~OpenMayFail`; without it `CleanMeansSaved` is false, see
  above).
* `DurableImplemented`: the engine implements `DurableLedger`, if no crash falls
  into a save either (`~CrashDuringSave`; `DatabaseTorn` shows what does happen
  then). `SoundThroughRestarts` and `PairedThroughRestarts` carry the results on
  accounts over to the whole life of the server along it.

`DbInv` says what each thread may hold where it is, and which of them is inside
`save()`. `OrderInv` adds that the numbers of requests ascend along answered,
posted, current and queued ones, and from part to part. `SavedInv` adds what
`save()` has written so far: the accounts it has left behind are on disk, which
only holds because no operation is executed meanwhile. That the files of a save
are the accounts again when loaded is an argument by least elements
(`LeastNat`), not by induction over an operator. Assumed of the constants:
requests are of the operations the engine knows and well-formed
(`RequestsAssumption`).

`ServerProofs`:

* `ServerRunsDatabase`: `ServerSpec => DbSpec`, so what is proved of the engine
  holds of the server.
* `ServiceImplemented`: sessions on the whole engine implement `Service`.
* `ServerTypeCorrect`, `RequestsStayOwned`: every request in the engine is waited
  for by one session, and every session that waits has one.

`SessionInv` says what a session holds in each of its states. `Owned`, which
matches requests and sessions, needs `OrderInv` too: that a completion about to
be run is the last trace of its request follows only from the order of numbers.

`ClientProofs`:

* `ClientTypeCorrect`, `HandlersCalledOnce`: each handler waits in one place until
  it is called, once, through failed writes, refusals and disconnections.
* `HandlersGetTheirReply`: `RepliesMatch`, if a write is taken whole
  (`~PartialWrites`).
* `ServerAllowed`: the server the client was checked against is one `Service`
  allows.

`OnceInv` counts places. `MatchInv` lines `_pending` up with what is on its way,
in this order: replies not read, the packet being served, packets on the wire,
writes that wait.

`TerminalProofs`, for a patient user (`Patient`), writes taken whole or not:

* `ChangesVerified`: `PasswordsVerified`.
* `HistoryShownOwn`: `HistoryOwn`.

A reply handler reads `appUsername` when it runs. So it matters which requests
may still be answered, and which of them can change that name. `LineInv` is
about the line of handlers: events not yet run, `_pending`, posted functions. It
says that they stand in the order of their requests as long as they can still be
given a reply, that who has been called is called no more, and that the notice
of a loss comes when the connection is gone. `PagesInv` then says: at most one
request that could log somebody in can still succeed, and only while the login
page is shown (`EntryInv`); the settings page waits for one reply, for the user
logged in, and for none while such a request is there (`SettingsInv`); what the
history page waits for is for that user too, and older than any such request
(`HistoryInv`). None of these is inductive without the others: a second login
is harmless only if the client is off and it is bound to fail, which is why
`Hopeful` leaves such requests out, and a lock reply logs out, which is harmless
only because the settings page waits for nothing else.

`PaymentsProofs`, the whole terminal, for a patient user and writes taken whole
(`Patient`, `~PartialWrites`):

* `TerminalTypeCorrect`: `TerminalTypeOK`.
* `PagesGetTheirReplies`, `AccountsServe`: what `ClientProofs` shows of the client
  alone, `RepliesMatch`, `CalledOnce` and `ServerIsService`, holds of it between
  the pages and the accounts.
* `PagesKeepAccountsSound`: so does what `LedgerProofs` shows of the accounts alone,
  `BalancesAgree`, `HistoryChains` and `NoOverdraft`.
* `WithdrawalsDebit`: `WithdrawalsTakeMoney`, if no amount typed is 2^63 or more
  (`SmallAmounts`; such an amount becomes negative as an i64 and the withdrawal of
  it a deposit).

The invariants of the parts carry over because their steps are lemmas about any
texts (`ClientProofs`) and any arguments (`LedgerProofs`). What is added,
`JoinInv`, is what one part owes the next. The pages ask only for what the
accounts can do (`AskedInv`: names, passwords and amounts are of the right kinds
when the request is made, and it stays as it was made). The server serves
requests that were made (`ServedInv`, from `MatchInv`: the packet it took is the
oldest handler's). The reply a handler runs with is of the kind it reads
(`RepliesInv`: a dashboard is told a history, because the reply it gets answers
its own request). `NewPasswordKept` is the delicate one: the password sent after
the confirmation is read from the field then, and the reply to another change,
had it arrived in between, would have cleared it; that the settings page waits
for one reply at a time (`SettingsInv`) rules this out for a patient user.

`BalanceProofs`, under the same two hypotheses:

* `PagesFreezeLocked`, `PagesAppendOnly`, `PagesPairTransfers`,
  `PagesConserveMoney`: what `LedgerProofs` shows of single operations on the
  accounts, `LockedAccountsFrozen`, `HistoryOnlyGrows` and,
  from a `Linked` seed, `TransfersPaired`, from a finite one, `MoneyConserved`,
  holds below the pages (`LedgerSteps`: every step of the
  terminal is an operation the server may carry out, or leaves accounts alone).
* `LockedAccountsTurnedAway`: `LockedStayOut`, whatever requests other sessions
  make and whenever. `TerminalEdited` shows it broken by a user who is not
  patient.
* `DashboardCurrent`: `ShownBalanceCurrent`, with any number of payments and locks
  of other sessions, if nobody signs up (`"signup" \notin Forms`;
  `DashboardOther` shows why) and the accounts found at the start can be shown
  (`SeedTells`: the newest record of an account has its balance. An account found
  locked need not, if no other session could unlock it, `MaxOthers = 0`: nobody
  sees it then). The accounts that the server opens have an opening record, and
  so do those of the test data generator, except `locked`
  (`tests/generate_test_data.cpp:299`): that one has a balance and no record, so
  a user who comes to see it after it was unlocked elsewhere is shown 0, and the
  theorem does not speak of such a seed.

That the balance shown is the current one is an argument about order: the
refresh that wrote it has to be the last one, and no payment may have been
served after it. The pages only see the reply of a payment and ask for a refresh
then, so it has to be shown that a refresh asked for later is also served later.
`ScreenInv` collects what that takes, each part inductive with the ones before
it. `OutboxInv`: replies are in the order of the requests they answer, and
whoever waits for one is younger than all of them (from `MatchInv`). `KindsInv`:
each page asks only for its own kinds of requests, and handlers of pages past
the entry never run before the connection is up. `EntryNamed`: a login or a
sign-up under way is for the name that stands in its form. `LoginsInv`: between
the reply that admits a user and the handler that lets him in, his account stays
open or is in `turned`, because the only request of this terminal that can lock
it is his own and was answered before (`NoToggleMeanwhile`); so whoever is logged
in has an account that the server can show. `RefreshInv`: the last refresh is for
the user logged in, and a payment that a page has heard of is followed by a
refresh. `HistoryTrue`: what a refresh was told still ends in the newest record
of its account, unless a payment was served since, or the account is in `paid`.
`DashTrue`: the dashboard shows what the last refresh heard of was told. When
every request has been answered and heard of, these leave no room for another
balance, unless another session paid.

`DataProofs`, for names and passwords of any length, any number of accounts and
of payments, if what users type is text and no name typed holds a `|` or an end
of line (`PlainTexts`):

* `RequestsComeThrough`: `RequestsRead`.
* `HistoryComesThrough`: `HistoryTells`.

`PlainTexts` is a hypothesis about users: nothing in sign-up forbids a `|`, and
the account `a|b` would be two names to the directory and shift the fields of
the lines it stands in. A `:` needs no hypothesis: whatever was typed, the name
that reaches the database ends before the first one (`NameCreated`), which is
the reason why every request is cut where it was put together.

What is proved by induction here is about texts, which are built and parsed by
folds. That a fold begins with its base and goes on with the last element is not
its definition in the library, where it ranges over the finite sets of indices,
but follows from it (`FoldsExist`, `FoldsGoOn`), and induction on the length of
a text is stated about a set of numbers (`NatSteps`), from `LeastNat`. Then
splitting continues the last part until a separator comes (`SplitGlues`,
`SplitParts`), the directory is read as it was joined (`NamesParsed`), and each
line of a history is read as the entry it was written for, one more entry after
those before (`LineRead`, `HistoryRead`). `PayloadInv` says besides that
accounts have names that fit in a field, so that writing and reading the files
returns them (`FieldKeeps`), that the records are the payments asked for, and
that the page shows what a user's records were after some number of them.

Also in `DataProofs`, of each module by itself (`VectorSpec`, `TextSpec`,
`Sha256Spec`, `TableSpec`), for any number of elements, any capacity and any calls in any
order:

* `VectorsKeepElements`: `VectorsHold`, if the calls the code gets wrong are only
  made where they come out right (`Risky = {}`): no insert with capacity to spare,
  and no copy that throws once others of the same call are done.
* `TextsKeepCharacters`: `TextsHold`, for any `SsoCapacity`.
* `DigestsOfMessages`: `DigestOfMessage`, for blocks of any size that holds the
  length and one byte more.
* `TablesKeepEntries`: `TablesHold`, for any keys, values and number of buckets,
  if the calls the code gets wrong are only made where they come out right
  (`Risky = {}`).
* `TableErasesGoOn`: `EraseLoopsContinue`, under the same hypothesis.

`VectorInv` says of each vector that it is `WholeVec`: cells up to its size hold
the elements that it should, whole, and cells behind it are raw; both need to be
known of the old cells for an erase or an insert that shifts them, for a growth
that moves them, and for a copy that throws and leaves what was there. `TextInv`
says the same of a string (`TextWhole`) with its terminator one cell behind the
last character, and that a block is owned by the string that is long, by one
only. `ShaInv` says what has been read (`ReadBy`): the blocks processed, taken
together, followed by what is buffered, are the bytes up to `count`, and the
blocks processed are whole. One call takes as many turns as its bytes need, of
lengths that depend on what is buffered: each turn reads the next span of the
message (`PieceRead`), and after as many turns as there are bytes all of them are
read (`AllRead`). When
the object is finalized, the padding is of the one length that fills a block
(`DigestsOfMessages` rests on there being one number of zeros only), whether or
not the length fits behind the last byte.

`TablesHold` does not say where the nodes of a table stand, and is not
inductive: `TableInv` says of each table that it is `Sound`. The nodes in its
buckets, taken one after the other, are the entries that the calls should have
left, each once (`Lists`), each in the bucket its key is looked up in
(`InPlace`), and `_size` is their number. A rehash and a copy are folds over
nodes, of which `LinkSteps`, `InsertSteps` and `EraseSteps` say what is true
after each: a copy goes through every size on the way, so it rests on what one
insertion does, rehash included. An insertion and an erase change one bucket,
and `FlattenAround` says what that does to the nodes taken one after the other.
For `TableErasesGoOn` the same lemma cuts the nodes at the one erased
(`EraseGoesOn`): what follows it is the rest of its chain and then the buckets
behind, which is where the iterator that `erase` returns goes.

Proved and not checked by a run: `HistoryOnlyGrows`, which is about one step at a
time, and the type invariants of the engine and the client.

Only model-checked: all liveness; trees, lists and `base::sort`, what these
compute being defined by walks over links and by `RECURSIVE` operators, which
the provers cannot follow by induction.

## Not modelled, and why

* The ping after each refresh (sets the latency shown), the recipient
  suggestions, focus, wording, rendering, colours.
* `data/*.log` and stdout logs: nothing is read back from them into the state.
* `packet::send`, `packet::recv`, `AccountsettingsPage`: no callers.
* The compression function of SHA-256 (`processBlock`) and `hash.hpp`: bit
  arithmetic without state. Which blocks are hashed is in `Sha256`.
* The searches of `String`, which only read; `Array`, which has no state but its
  elements; allocators; iterators' arithmetic.
* The filter and the order of columns of the history page: they change nothing
  but what is drawn.
* Times, latencies and the lines of `.log` files within payloads.
* FTXUI and asio: their queues and callbacks as this code uses them.

## What is left

No safety property of accounts, engine, sessions, client, pages, payloads,
vectors, strings, digests and hash tables is without a theorem. What remains is
out of the provers' reach, as said above, or needs a change of the program:
`SmallAmounts`, `PlainTexts`, `~PartialWrites`, `~OpenMayFail`,
`~CrashDuringSave`, `Patient` and `Risky = {}` are each what the code would have
to guarantee for the theorem that assumes it to hold of every use of the program.
