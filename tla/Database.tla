------------------------------ MODULE Database ------------------------------
(***************************************************************************)
(* DbManager (server/Database.{hpp,cpp}) around the ledger: the work queue *)
(* that the network thread fills and the worker thread empties, the        *)
(* completions posted back, the 30-second save, the files, and how the     *)
(* server stops, crashes and starts again.                                 *)
(*                                                                         *)
(* Threads: the network thread (Server::run, one io_context thread), the   *)
(* worker (DbManager::dbLoop) and main, which runs the destructor after    *)
(* the io_context has stopped.  An action is one critical section, one     *)
(* handler, one operation of the ledger, or one file written by save().    *)
(*                                                                         *)
(* Files: load() reads whole records and ignores a torn tail, and nobody   *)
(* reads a file while the server is up, so what an open file holds matters *)
(* only when the process dies.  Crash then leaves any prefix of the        *)
(* records written to it: the stream buffer may have been pushed out at    *)
(* any point.                                                              *)
(***************************************************************************)
EXTENDS Ledger

CONSTANTS
    Requests,         \* the operations clients may ask for
    Rank,             \* where a name comes in the order of std::map
    CrashDuringSave,  \* can the process die while save() runs?
    OpenMayFail,      \* can a file fail to open for writing?
    MaxSubmitted,     \* bound: how many requests are ever submitted
    MaxStops          \* bound: how often the server stops or crashes

\* What Session can have parsed from a packet.
WellFormed(r) ==
    \/ /\ r.op \in {"AuthOp", "ChangePasswordOp", "CreateAccountOp"}
       /\ r.username \in Users /\ r.password \in Passwords
    \/ r.op \in {"ToggleAccountOp", "GetBalanceOp"} /\ r.username \in Users
    \/ r.op = "ChangeBalanceOp" /\ r.username \in Users /\ r.change \in Changes
    \/ /\ r.op = "TransferBalanceOp"
       /\ r.sender \in Users /\ r.recipient \in Users /\ r.amount \in Amounts
    \/ r.op = "GetTxnHistoryOp" /\ r.username \in Users /\ r.count \in Counts
    \/ r.op = "SearchUsersOp" /\ r.prefix \in Prefixes

ASSUME RequestsAssumption == \A r \in Requests : WellFormed(r)
ASSUME RankAssumption ==
    /\ Rank \in [Users -> Nat]
    /\ \A u, v \in Users : Rank[u] = Rank[v] => u = v
ASSUME FaultsAssumption == CrashDuringSave \in BOOLEAN /\ OpenMayFail \in BOOLEAN
ASSUME BoundsAssumption == MaxSubmitted \in Nat /\ MaxStops \in Nat

VARIABLES
    queue,      \* _queue: work items not yet taken by the worker
    current,    \* the item processItem is working on
    worker,     \* where dbLoop is
    running,    \* _running
    notifier,   \* the thread that has left its lock and not yet notified
    phase,      \* "up", "stopping" (io_context stopped) or "down"
    posted,     \* completions posted to the io_context and not yet run
    answered,   \* completions whose callback has run, oldest first
    submitted,  \* how many requests have been submitted
    disk,       \* data.db and the .txn files
    todo,       \* accounts whose .txn file save() has still to write
    saver,      \* the thread that is inside save()
    stops       \* how often the server has stopped or crashed

threads == <<queue, current, worker, running, notifier>>
network == <<phase, posted, answered, submitted>>
files == <<disk, todo, saver>>
vars == <<ledger, threads, network, files, stops>>

-----------------------------------------------------------------------------
(* Files.                                                                  *)

\* data.db holds Records, one for each account; a history is a file apart.
\* An account without a .txn file loads as one with an empty file.
Records(d) ==
    [u \in DOMAIN d |-> [password |-> d[u].password, balance |-> d[u].balance,
                         isLocked |-> d[u].isLocked]]

Histories(d) == [u \in Users |-> IF u \in DOMAIN d THEN d[u].txns ELSE <<>>]

Files(d) == [db |-> Records(d), txn |-> Histories(d)]

\* load(): histories are read only for the accounts that data.db names.
Load(f) ==
    [u \in DOMAIN f.db |->
        [password |-> f.db[u].password, balance |-> f.db[u].balance,
         isLocked |-> f.db[u].isLocked, txns |-> f.txn[u]]]

NoAccounts == [u \in {} |-> {}]

\* The account whose file save() writes next: std::map iterates by name.
First(S) == CHOOSE u \in S : \A v \in S : Rank[u] <= Rank[v]

\* What a crash can leave of data.db while save() has it open, and of the
\* .txn file being written.
TornRecords(d) ==
    { [u \in S |-> Records(d)[u]] :
        S \in { S \in SUBSET DOMAIN d :
                  \A u \in S, v \in DOMAIN d \ S : Rank[u] < Rank[v] } }

TornFiles ==
    IF saver = "none" THEN {disk}
    ELSE { [db |-> db, txn |-> disk.txn] : db \in TornRecords(data) }
           \cup
         { [db |-> db,
            txn |-> [disk.txn EXCEPT ![First(todo)] =
                        SubSeq(data[First(todo)].txns, 1, n)]] :
             db \in IF todo = {} THEN {} ELSE TornRecords(data),
             n \in IF todo = {} THEN {} ELSE 0 .. Len(data[First(todo)].txns) }

-----------------------------------------------------------------------------
(* The network thread.                                                     *)

NoItem == [op |-> "none"]
SaveOp == [op |-> "SaveOp"]
Item(request, id) == [op |-> "request", request |-> request, cb |-> id]

DbInit ==
    /\ Init
    /\ queue = <<>> /\ current = NoItem
    /\ worker = "checking" /\ running = TRUE /\ notifier = "none"
    /\ phase = "up" /\ posted = <<>> /\ answered = <<>> /\ submitted = 0
    /\ disk = Files(Seed) /\ todo = {} /\ saver = "none"
    /\ stops = 0

\* _cv.notify_one(): the worker checks its condition again.
NoWake == UNCHANGED worker                                              \* mutant
Wake == worker' = IF worker = "asleep" THEN "checking" ELSE worker

\* The network thread is between two handlers.
NetworkIdle == phase = "up" /\ notifier # "network"

\* A session hands a request to DbManager: lock, emplace, notify, unlock.
Submit(request) ==
    /\ NetworkIdle /\ submitted < MaxSubmitted
    /\ submitted' = submitted + 1
    /\ queue' = Append(queue, Item(request, submitted'))
    /\ Wake
    /\ UNCHANGED <<ledger, current, running, notifier, phase, posted, answered,
                   files, stops>>

\* onSaveTimer enqueues under the lock and notifies after releasing it; the
\* timer is armed again at once.  Bound: one SaveOp is in the queue at a time.
SaveTimer ==
    /\ NetworkIdle
    /\ \A k \in 1 .. Len(queue) : queue[k] # SaveOp
    /\ queue' = Append(queue, SaveOp)
    /\ notifier' = "network"
    /\ UNCHANGED <<ledger, current, worker, running, network, files, stops>>

NotifyOne ==
    /\ notifier # "none"
    /\ Wake
    /\ notifier' = "none"
    /\ UNCHANGED <<ledger, queue, current, running, network, files, stops>>

\* The io_context runs the oldest posted completion: its callback is called.
RunPosted ==
    /\ NetworkIdle /\ posted # <<>>
    /\ answered' = Append(answered, Head(posted))
    /\ posted' = Tail(posted)
    /\ UNCHANGED <<ledger, threads, phase, submitted, files, stops>>

-----------------------------------------------------------------------------
(* The worker thread.                                                      *)

MayExitEarly == ~running                                                \* mutant
MayExit == ~running /\ queue = <<>>

NotPopped == queue                                                      \* mutant
Popped == Tail(queue)

CheckQueue ==
    /\ worker = "checking"
    /\ \/ /\ MayExit
          /\ worker' = "exited"
          /\ UNCHANGED <<queue, current>>
       \/ /\ ~MayExit /\ queue # <<>>
          /\ current' = Head(queue)
          /\ queue' = Popped
          /\ worker' = "busy"
       \/ /\ ~MayExit /\ queue = <<>>
          /\ worker' = "asleep"
          /\ UNCHANGED <<queue, current>>
    /\ UNCHANGED <<ledger, running, notifier, network, files, stops>>

Execute(r) ==
    \/ r.op = "AuthOp" /\ Authenticate(r.username, r.password)
    \/ r.op = "ChangePasswordOp" /\ ChangePassword(r.username, r.password)
    \/ r.op = "CreateAccountOp" /\ CreateAccount(r.username, r.password)
    \/ r.op = "ToggleAccountOp" /\ ToggleAccount(r.username)
    \/ r.op = "GetBalanceOp" /\ GetBalance(r.username)
    \/ r.op = "ChangeBalanceOp" /\ ChangeBalance(r.username, r.change)
    \/ r.op = "TransferBalanceOp" /\ TransferBalance(r.sender, r.recipient, r.amount)
    \/ r.op = "GetTxnHistoryOp" /\ GetTransactions(r.username, r.count)
    \/ r.op = "SearchUsersOp" /\ SearchUsers(r.prefix)

Busy == worker = "busy" /\ saver # "worker"
Done == worker' = "checking" /\ current' = NoItem

ProcessRequest ==
    /\ Busy /\ current # SaveOp
    /\ Execute(current.request)
    /\ posted' = Append(posted, [cb |-> current.cb, reply |-> reply'])
    /\ Done
    /\ UNCHANGED <<queue, running, notifier, phase, answered, submitted, files, stops>>

\* save() has opened and truncated data.db and written every record to it.
OpenWithoutHistories(thread) ==                                         \* mutant
    /\ disk' = [disk EXCEPT !.db = NoAccounts]
    /\ todo' = {}
    /\ saver' = thread
OpenDatabase(thread) ==
    /\ disk' = [disk EXCEPT !.db = NoAccounts]
    /\ todo' = DOMAIN data
    /\ saver' = thread

ProcessSave ==
    /\ Busy /\ current = SaveOp
    /\ \/ /\ ~dirty /\ Done
          /\ UNCHANGED <<ledger, files>>
       \/ /\ dirty
          /\ OpenDatabase("worker")
          /\ UNCHANGED <<ledger, worker, current>>
       \/ /\ dirty /\ OpenMayFail                \* save() returns at once
          /\ dirty' = FALSE /\ Done
          /\ UNCHANGED <<data, reply, files>>
    /\ UNCHANGED <<queue, running, notifier, network, stops>>

-----------------------------------------------------------------------------
(* save(), on the worker or on main.                                       *)

SaveHistory ==
    /\ saver # "none" /\ todo # {}
    /\ LET u == First(todo)
       IN /\ todo' = todo \ {u}
          /\ \/ disk' = [disk EXCEPT !.txn[u] = data[u].txns]
             \/ OpenMayFail /\ UNCHANGED disk
    /\ UNCHANGED <<ledger, threads, network, saver, stops>>

\* The stream of data.db is closed last, when save() returns.
CloseDatabase(thread) ==
    /\ saver = thread /\ todo = {}
    /\ disk' = [disk EXCEPT !.db = Records(data)]
    /\ saver' = "none"
    /\ UNCHANGED todo

WorkerSavedStillDirty ==                                                \* mutant
    /\ CloseDatabase("worker")
    /\ Done
    /\ UNCHANGED <<ledger, queue, running, notifier, network, stops>>
WorkerSaved ==
    /\ CloseDatabase("worker")
    /\ dirty' = FALSE
    /\ Done
    /\ UNCHANGED <<data, reply, queue, running, notifier, network, stops>>

-----------------------------------------------------------------------------
(* Stopping, crashing and starting.                                        *)

\* SIGINT or SIGTERM: Server::stop() stops the io_context.  Completions that
\* are still posted never run and the timer never fires again.
Stop ==
    /\ NetworkIdle /\ stops < MaxStops
    /\ phase' = "stopping"
    /\ stops' = stops + 1
    /\ UNCHANGED <<ledger, threads, posted, answered, submitted, files>>

\* ~DbManager clears _running under the lock and notifies after it.
DestroySilently ==                                                      \* mutant
    /\ phase = "stopping" /\ running
    /\ running' = FALSE
    /\ UNCHANGED <<ledger, queue, current, worker, notifier, network, files, stops>>
Destroy ==
    /\ phase = "stopping" /\ running
    /\ running' = FALSE
    /\ notifier' = "main"
    /\ UNCHANGED <<ledger, queue, current, worker, network, files, stops>>

\* _worker.join() returned: save(), whether dirty or not.
Joined == phase = "stopping" /\ ~running /\ notifier = "none" /\ worker = "exited"

FinalSaveUnjoined ==                                                    \* mutant
    /\ phase = "stopping" /\ ~running /\ saver = "none"
    /\ OpenDatabase("main")
    /\ UNCHANGED <<ledger, threads, network, stops>>
FinalSave ==
    /\ Joined /\ saver = "none"
    /\ OpenDatabase("main")
    /\ UNCHANGED <<ledger, threads, network, stops>>

\* The process is gone, and with it everything that was in memory.
Gone ==
    /\ phase' = "down"
    /\ data' = NoAccounts /\ dirty' = FALSE /\ reply' = NoReply
    /\ queue' = <<>> /\ current' = NoItem /\ posted' = <<>>
    /\ worker' = "exited" /\ running' = FALSE /\ notifier' = "none"
    /\ todo' = {} /\ saver' = "none"
    /\ UNCHANGED <<answered, submitted>>

FinalSaved ==
    /\ \/ saver = "main" /\ todo = {} /\ disk' = [disk EXCEPT !.db = Records(data)]
       \/ Joined /\ saver = "none" /\ OpenMayFail /\ UNCHANGED disk
    /\ Gone
    /\ UNCHANGED stops

Crash ==
    /\ phase # "down" /\ stops < MaxStops
    /\ saver = "none" \/ CrashDuringSave
    /\ disk' \in TornFiles
    /\ stops' = stops + 1
    /\ Gone

Start ==
    /\ phase = "down"
    /\ data' = Load(disk) /\ dirty' = FALSE
    /\ running' = TRUE /\ worker' = "checking"
    /\ phase' = "up"
    /\ UNCHANGED <<reply, queue, current, notifier, posted, answered, submitted,
                   files, stops>>

-----------------------------------------------------------------------------

WorkerStep == CheckQueue \/ ProcessRequest \/ ProcessSave \/ WorkerSaved
MainStep == Destroy \/ FinalSave \/ FinalSaved

DbNext ==
    \/ \E r \in Requests : Submit(r)
    \/ SaveTimer \/ NotifyOne \/ RunPosted
    \/ WorkerStep \/ SaveHistory
    \/ Stop \/ MainStep
    \/ Crash \/ Start

DbSpec == DbInit /\ [][DbNext]_vars

\* Threads keep running.  The io_context runs ready handlers first come first
\* served, so a posted completion and an expired timer get their turn although
\* other handlers keep the thread busy in between.  Nothing obliges clients to
\* submit, or the server to stop, crash or be started.
Fairness ==
    /\ WF_vars(WorkerStep) /\ WF_vars(SaveHistory) /\ WF_vars(MainStep)
    /\ WF_vars(NotifyOne) /\ SF_vars(RunPosted) /\ SF_vars(SaveTimer)

FairSpec == DbSpec /\ Fairness

-----------------------------------------------------------------------------
(* Properties.                                                             *)

\* The queue and the completions hold well-formed items, the files hold what
\* load() reads back as accounts, and only a running thread is inside save().
DbTypeOK ==
    /\ TypeOK
    /\ \A k \in 1 .. Len(queue) :
           queue[k] = SaveOp \/ queue[k] \in [op : {"request"}, request : Requests, cb : Nat]
    /\ \A k \in 1 .. Len(posted) : posted[k] \in [cb : Nat, reply : Replies]
    /\ worker \in {"checking", "asleep", "busy", "exited"}
    /\ phase \in {"up", "stopping", "down"}
    /\ notifier \in {"none", "network", "main"}
    /\ saver = "worker" => worker = "busy" /\ current = SaveOp
    /\ saver = "main" => Joined
    /\ todo \subseteq DOMAIN data
    /\ IsAccounts(Load(disk))

\* What holds a request's number, and in a sequence they come in ascending order.
Numbered(x) == "cb" \in DOMAIN x
Ascending(line) ==
    \A i, j \in 1 .. Len(line) :
        i < j /\ Numbered(line[i]) /\ Numbered(line[j]) => line[i].cb < line[j].cb

\* Requests are answered in the order they were submitted and none is answered
\* twice, whatever the threads do and through crashes: Session and Client both
\* rely on it to match replies with requests.
AnswersInOrder == Ascending(answered \o posted \o <<current>> \o queue)

\* SaveOp skips save() when nothing is dirty, so whenever the flag is down the files must load as
\* the accounts in memory.
CleanMeansSaved ==
    phase = "up" /\ ~dirty /\ saver = "none" => Load(disk) = data

\* A graceful shutdown (README: "SIGINT/SIGTERM handler for graceful
\* shutdown") executes every operation still queued and saves all accounts.
StopLosesNothing ==
    [][phase = "stopping" /\ phase' = "down" /\ stops' = stops
         => /\ queue = <<>> /\ current = NoItem
            /\ Load(disk') = data]_vars

Waiting(id) ==
    \/ \E k \in 1 .. Len(posted) : posted[k].cb = id
    \/ \E k \in 1 .. Len(queue) : queue[k].op = "request" /\ queue[k].cb = id
    \/ current.op = "request" /\ current.cb = id

\* Every request in the system is answered unless the server goes down: the
\* worker never sleeps through a notification and never stops early.
RequestsAnswered ==
    \A id \in 1 .. MaxSubmitted :
        Waiting(id) ~> (~Waiting(id) /\ (\E k \in 1 .. Len(answered) : answered[k].cb = id))
                       \/ phase # "up"

\* README, Persistence: "Auto-save every 30 seconds".  The dirty flag comes
\* down sooner or later: the worker comes to every change with a save.  What
\* the files then hold is up to CleanMeansSaved.
ChangesSaved == dirty ~> ~dirty \/ phase # "up"

\* A stop that has begun ends: main never waits for a worker that sleeps.
StopEnds == phase = "stopping" ~> phase = "down"

\* DurableLedger is implemented: a save in progress counts as made, which is
\* right as long as the process does not die inside save().
CanFollow(d, e) == Extends(d, e) /\ Freezes(d, e)

Durable ==
    INSTANCE DurableLedger WITH
        Start <- Seed,
        MayFollow <- CanFollow,
        accounts <- IF phase = "down" THEN Load(disk) ELSE data,
        saved <- IF saver = "none" THEN Load(disk) ELSE data

DurableSpec == Durable!Spec

=============================================================================
