--------------------------- MODULE DatabaseProofs ---------------------------
(***************************************************************************)
(* What holds of the database engine for every set of requests, any number *)
(* of them and any number of stops and crashes.                            *)
(*                                                                         *)
(* DbInv is the inductive type invariant: where each thread can be and     *)
(* what it then holds.  OrderInv, in the second half, adds to it where the *)
(* requests are, SavedInv what the files hold.                             *)
(***************************************************************************)
EXTENDS Database, LedgerProofs

-----------------------------------------------------------------------------
(* Numbers and files.                                                      *)

\* save() always finds a next account among those it has still to write.
LEMMA FirstIn ==
    ASSUME NEW S \in SUBSET Users, S # {}
    PROVE  First(S) \in S
<1> DEFINE T == {Rank[u] : u \in S}
<1>1. T \in SUBSET Nat /\ T # {}
  BY RankAssumption
<1>2. PICK x \in T : \A y \in T : x <= y
  BY <1>1, LeastNat
<1>3. PICK u \in S : \A v \in S : Rank[u] <= Rank[v]
  BY <1>2
<1> QED
  BY <1>3 DEF First

Stored == [password : Passwords, balance : U64, isLocked : BOOLEAN]

FilesOK(f) ==
    /\ f = [db |-> f.db, txn |-> f.txn]
    /\ DOMAIN f.db \subseteq SafeUsers
    /\ f.db = [u \in DOMAIN f.db |-> f.db[u]]
    /\ \A u \in DOMAIN f.db : f.db[u] \in Stored
    /\ f.txn \in [Users -> Seq(TransactionRecord)]

LEMMA FilesLoad ==
    ASSUME NEW f, FilesOK(f)
    PROVE  IsAccounts(Load(f))
BY NamesAssumption DEF FilesOK, Load, IsAccounts, UserState, Stored

LEMMA RecordsStored ==
    ASSUME NEW d, IsAccounts(d)
    PROVE  /\ DOMAIN Records(d) = DOMAIN d
           /\ Records(d) = [u \in DOMAIN Records(d) |-> Records(d)[u]]
           /\ \A u \in DOMAIN d : Records(d)[u] \in Stored
BY DEF IsAccounts, Records, UserState, Stored

LEMMA HistoriesStored ==
    ASSUME NEW d, IsAccounts(d)
    PROVE  Histories(d) \in [Users -> Seq(TransactionRecord)]
BY EmptySeq DEF IsAccounts, Histories, UserState

\* What save() has written when it is done is what load() would read.
LEMMA SavedLoads ==
    ASSUME NEW d, IsAccounts(d), NEW f, f.db = Records(d),
           \A u \in DOMAIN d : f.txn[u] = d[u].txns
    PROVE  Load(f) = d
<1>1. \A u \in DOMAIN d :
         d[u] = [password |-> d[u].password, balance |-> d[u].balance,
                 isLocked |-> d[u].isLocked, txns |-> d[u].txns]
  BY DEF IsAccounts, UserState
<1>2. Load(f) = [u \in DOMAIN d |->
                    [password |-> d[u].password, balance |-> d[u].balance,
                     isLocked |-> d[u].isLocked, txns |-> d[u].txns]]
  BY DEF Load, Records
<1> QED
  BY <1>1, <1>2 DEF IsAccounts

LEMMA FilesOfAccounts ==
    ASSUME NEW d, IsAccounts(d)
    PROVE  FilesOK(Files(d)) /\ Load(Files(d)) = d
<1>1. FilesOK(Files(d))
  BY RecordsStored, HistoriesStored DEF Files, FilesOK, IsAccounts
<1>2. \A u \in DOMAIN d : Files(d).txn[u] = d[u].txns
  BY NamesAssumption DEF Files, Histories, IsAccounts
<1> QED
  BY <1>1, <1>2, SavedLoads DEF Files

-----------------------------------------------------------------------------
(* The engine's types.                                                     *)

RequestItems == [op : {"request"}, request : Requests, cb : Nat]
Items == {SaveOp} \cup RequestItems
Completions == [cb : Nat, reply : Replies]

Lines ==
    /\ queue \in Seq(Items) /\ posted \in Seq(Completions) /\ answered \in Seq(Completions)
    /\ submitted \in Nat

Threads ==
    /\ worker \in {"checking", "asleep", "busy", "exited"}
    /\ phase \in {"up", "stopping", "down"}
    /\ notifier \in {"none", "network", "main"}
    /\ running \in BOOLEAN /\ (phase = "up" => running) /\ (phase = "down" => ~running)
    /\ worker = "busy" => current \in Items
    /\ worker # "busy" => current = NoItem
    /\ worker = "exited" => ~running /\ queue = <<>>
    /\ phase = "down" => worker = "exited"

Saving ==
    /\ saver \in {"none", "worker", "main"}
    /\ saver = "worker" => worker = "busy" /\ current = SaveOp /\ phase # "down"
    /\ saver = "main" => Joined
    /\ saver = "none" => todo = {}
    /\ todo \subseteq DOMAIN data
    /\ FilesOK(disk)

DbInv == TypeOK /\ Lines /\ Threads /\ Saving

LEMMA ExecuteSteps ==
    ASSUME NEW r \in Requests, Execute(r)
    PROVE  Next
BY RequestsAssumption DEF Execute, WellFormed, Next

LEMMA DbInitInv == DbInit => DbInv
<1> SUFFICES ASSUME DbInit PROVE DbInv
  OBVIOUS
<1>1. TypeOK
  BY InitInv DEF DbInit, IInv
<1>2. Lines
  BY EmptySeq DEF DbInit, Lines
<1>3. Threads
  BY DEF DbInit, Threads
<1>4. Saving
  BY SeedAssumption, FilesOfAccounts DEF DbInit, Saving
<1> QED
  BY <1>1, <1>2, <1>3, <1>4 DEF DbInv


-----------------------------------------------------------------------------
(* One lemma per step of a thread.                                         *)

\* What a step that leaves a part alone keeps of the invariant.
LEMMA KeepsTypes ==
    ASSUME TypeOK, UNCHANGED ledger
    PROVE  TypeOK'
BY DEF TypeOK, IsAccounts, ledger

LEMMA KeepsSaving ==
    ASSUME Saving, UNCHANGED <<data, disk, todo>>,
           UNCHANGED saver, saver = "main" => Joined',
           saver = "worker" => UNCHANGED <<worker, current>> /\ phase' # "down"
    PROVE  Saving'
BY DEF Saving, FilesOK

LEMMA NetworkInv ==
    ASSUME DbInv,
           (\E r \in Requests : Submit(r)) \/ SaveTimer \/ NotifyOne \/ RunPosted \/ Stop \/ Destroy
    PROVE  DbInv'
<1> USE DEF DbInv
<1>1. TypeOK'
  BY KeepsTypes DEF Submit, SaveTimer, NotifyOne, RunPosted, Stop, Destroy
<1>2. Saving'
  <2>1. UNCHANGED <<data, disk, todo, saver, current>>
    BY DEF Submit, SaveTimer, NotifyOne, RunPosted, Stop, Destroy, ledger, threads, files
  <2>2. saver = "worker" => UNCHANGED worker /\ phase' # "down"
    BY DEF Submit, SaveTimer, NotifyOne, RunPosted, Stop, Destroy, Wake, threads, network, Saving
  <2>3. saver = "main" => Joined'
    BY DEF Submit, SaveTimer, NotifyOne, RunPosted, Stop, Destroy, Wake, threads, network,
           Saving, Joined, NetworkIdle
  <2> QED
    BY <2>1, <2>2, <2>3, KeepsSaving
<1>3. Lines'
  <2>1. CASE \E r \in Requests : Submit(r)
    <3>1. PICK r \in Requests : Submit(r)
      BY <2>1
    <3>2. submitted' \in Nat /\ Item(r, submitted') \in Items
      BY <3>1 DEF Submit, Lines, Item, Items, RequestItems
    <3> QED
      BY <3>1, <3>2, AppendProperties DEF Submit, Lines
  <2>2. CASE SaveTimer
    <3>1. SaveOp \in Items
      BY DEF Items
    <3> QED
      BY <2>2, <3>1, AppendProperties DEF SaveTimer, Lines, network
  <2>3. CASE RunPosted
    <3>1. Head(posted) \in Completions /\ Tail(posted) \in Seq(Completions)
      BY <2>3, HeadTailProperties DEF RunPosted, Lines
    <3> QED
      BY <2>3, <3>1, AppendProperties DEF RunPosted, Lines, threads
  <2>4. CASE NotifyOne \/ Stop \/ Destroy
    BY <2>4 DEF NotifyOne, Stop, Destroy, Lines, network, threads
  <2> QED
    BY <2>1, <2>2, <2>3, <2>4
<1>4. Threads'
  <2>1. CASE (\E r \in Requests : Submit(r)) \/ SaveTimer
    BY <2>1 DEF Submit, SaveTimer, Wake, network, NetworkIdle, Threads
  <2>2. CASE NotifyOne
    BY <2>2 DEF NotifyOne, Wake, network, Threads
  <2>3. CASE RunPosted \/ Stop \/ Destroy
    BY <2>3 DEF RunPosted, Stop, Destroy, threads, network, NetworkIdle, Threads
  <2> QED
    BY <2>1, <2>2, <2>3
<1> QED
  BY <1>1, <1>2, <1>3, <1>4

LEMMA CheckQueueInv ==
    ASSUME DbInv, CheckQueue
    PROVE  DbInv'
<1> USE DEF DbInv
<1>1. TypeOK'
  BY KeepsTypes DEF CheckQueue
<1>2. Saving'
  <2>1. UNCHANGED <<data, disk, todo, saver, phase>> /\ saver = "none"
    BY DEF CheckQueue, ledger, files, network, Saving, Threads, Joined
  <2> QED
    BY <2>1, KeepsSaving
<1>3. Lines'
  BY HeadTailProperties DEF CheckQueue, Lines, network, Popped
<1>4. Threads'
  BY HeadTailProperties DEF CheckQueue, Threads, network, MayExit, Lines
<1> QED
  BY <1>1, <1>2, <1>3, <1>4

LEMMA ProcessRequestInv ==
    ASSUME DbInv, ProcessRequest
    PROVE  DbInv'
<1> USE DEF DbInv
<1>1. current \in RequestItems
  BY DEF ProcessRequest, Busy, Threads, Items
<1>2. current.request \in Requests /\ current.cb \in Nat
  BY <1>1 DEF RequestItems
<1>3. TypeOK'
  BY <1>2, ExecuteSteps, StepTypes DEF ProcessRequest
<1>4. saver = "none"
  BY DEF ProcessRequest, Busy, Saving, Joined
<1>5. Saving'
  BY <1>4 DEF ProcessRequest, Saving, FilesOK, files, Joined
<1>6. Lines'
  <2>1. [cb |-> current.cb, reply |-> reply'] \in Completions
    BY <1>2, <1>3 DEF TypeOK, Completions
  <2> QED
    BY <2>1, AppendProperties DEF ProcessRequest, Lines
<1>7. Threads'
  BY DEF ProcessRequest, Done, Threads, Busy
<1> QED
  BY <1>3, <1>5, <1>6, <1>7


LEMMA EmptiedDatabase ==
    ASSUME NEW f, FilesOK(f), NEW g, g = [f EXCEPT !.db = NoAccounts]
    PROVE  FilesOK(g) /\ g.txn = f.txn
<1>1. g = [db |-> NoAccounts, txn |-> f.txn]
  BY DEF FilesOK
<1>2. DOMAIN NoAccounts = {} /\ NoAccounts = [u \in DOMAIN NoAccounts |-> NoAccounts[u]]
  BY DEF NoAccounts
<1> QED
  BY <1>1, <1>2 DEF FilesOK

LEMMA WrittenDatabase ==
    ASSUME NEW f, FilesOK(f), NEW d, IsAccounts(d), NEW g, g = [f EXCEPT !.db = Records(d)]
    PROVE  FilesOK(g) /\ g.txn = f.txn /\ g.db = Records(d)
<1>1. g = [db |-> Records(d), txn |-> f.txn]
  BY DEF FilesOK
<1> QED
  BY <1>1, RecordsStored DEF FilesOK, IsAccounts

LEMMA WrittenHistory ==
    ASSUME NEW f, FilesOK(f), NEW u \in Users, NEW h \in Seq(TransactionRecord),
           NEW g, g = [f EXCEPT !.txn[u] = h]
    PROVE  /\ FilesOK(g)
           /\ g.db = f.db
           /\ g.txn[u] = h /\ \A v \in Users : v # u => g.txn[v] = f.txn[v]
<1>1. f.txn \in [Users -> Seq(TransactionRecord)]
  BY DEF FilesOK
<1>2. g = [db |-> f.db, txn |-> [f.txn EXCEPT ![u] = h]]
  BY DEF FilesOK
<1>3. g.db = f.db /\ g.txn = [f.txn EXCEPT ![u] = h] /\ g = [db |-> g.db, txn |-> g.txn]
  BY <1>2
<1>4. g.txn \in [Users -> Seq(TransactionRecord)]
  BY <1>1, <1>3
<1>5. g.txn[u] = h /\ \A v \in Users : v # u => g.txn[v] = f.txn[v]
  BY <1>1, <1>3
<1> QED
  BY <1>3, <1>4, <1>5 DEF FilesOK

LEMMA OpenDatabaseInv ==
    ASSUME DbInv, saver = "none", NEW t \in {"worker", "main"}, OpenDatabase(t),
           UNCHANGED <<ledger, threads, network>>,
           t = "worker" => worker = "busy" /\ current = SaveOp,
           t = "main" => Joined
    PROVE  DbInv'
<1> USE DEF DbInv
<1>1. TypeOK'
  BY KeepsTypes
<1>2. Lines' /\ Threads'
  BY DEF Lines, Threads, threads, network
<1>3. FilesOK(disk')
  BY EmptiedDatabase DEF OpenDatabase, Saving
<1>4. saver' = t /\ todo' = DOMAIN data /\ data' = data
  BY DEF OpenDatabase, ledger
<1>5. t = "worker" => phase # "down"
  BY DEF Threads
<1>6. Saving'
  BY <1>3, <1>4, <1>5 DEF Saving, FilesOK, threads, network, Joined
<1> QED
  BY <1>1, <1>2, <1>6

LEMMA ProcessSaveInv ==
    ASSUME DbInv, ProcessSave
    PROVE  DbInv'
<1> USE DEF DbInv
<1>1. saver = "none" /\ worker = "busy" /\ current = SaveOp
  BY DEF ProcessSave, Busy, Saving, Joined
<1>2. CASE OpenDatabase("worker") /\ UNCHANGED <<ledger, worker, current>>
  <2>1. UNCHANGED <<ledger, threads, network>>
    BY <1>2 DEF ProcessSave, threads
  <2> QED
    BY <1>1, <1>2, <2>1, OpenDatabaseInv
<1>3. CASE Done /\ UNCHANGED <<data, reply, files>> /\ dirty' \in BOOLEAN
  <2>1. TypeOK'
    BY <1>3 DEF TypeOK, IsAccounts
  <2>2. Saving'
    BY <1>1, <1>3 DEF Saving, files, FilesOK
  <2>3. Lines' /\ Threads'
    BY <1>1, <1>3 DEF ProcessSave, Lines, Threads, Done, network
  <2> QED
    BY <2>1, <2>2, <2>3
<1> QED
  BY <1>2, <1>3 DEF ProcessSave, ledger, TypeOK

LEMMA SaveHistoryInv ==
    ASSUME DbInv, SaveHistory
    PROVE  DbInv'
<1> USE DEF DbInv
<1> DEFINE u == First(todo)
<1>1. u \in DOMAIN data /\ u \in Users /\ data[u].txns \in Seq(TransactionRecord)
  BY FirstIn, NamesAssumption DEF SaveHistory, Saving, TypeOK, IsAccounts, UserState
<1>2. FilesOK(disk')
  BY <1>1, WrittenHistory DEF SaveHistory, Saving
<1>3. TypeOK'
  BY KeepsTypes DEF SaveHistory
<1>4. Lines' /\ Threads'
  BY DEF SaveHistory, Lines, Threads, threads, network
<1>5. Saving'
  BY <1>2 DEF SaveHistory, Saving, FilesOK, threads, network, ledger, Joined
<1> QED
  BY <1>3, <1>4, <1>5

LEMMA WorkerSavedInv ==
    ASSUME DbInv, WorkerSaved
    PROVE  DbInv'
<1> USE DEF DbInv
<1>1. TypeOK'
  BY DEF WorkerSaved, TypeOK, IsAccounts
<1>2. worker = "busy"
  BY DEF WorkerSaved, CloseDatabase, Saving
<1>3. FilesOK(disk')
  BY WrittenDatabase DEF WorkerSaved, CloseDatabase, Saving, TypeOK
<1>4. Saving'
  BY <1>3 DEF WorkerSaved, CloseDatabase, Saving, FilesOK
<1>5. Lines' /\ Threads'
  BY <1>2 DEF WorkerSaved, Done, Lines, Threads, network
<1> QED
  BY <1>1, <1>4, <1>5

LEMMA FinalSaveInv ==
    ASSUME DbInv, FinalSave
    PROVE  DbInv'
BY OpenDatabaseInv DEF FinalSave

\* Whatever is left on disk, the process is gone.
LEMMA GoneInv ==
    ASSUME DbInv, Gone, FilesOK(disk')
    PROVE  DbInv'
<1> USE DEF DbInv
<1>1. TypeOK'
  BY DEF Gone, TypeOK, IsAccounts, NoAccounts, Replies
<1>2. Lines' /\ Threads'
  BY EmptySeq DEF Gone, Lines, Threads
<1>3. Saving'
  BY DEF Gone, Saving, FilesOK
<1> QED
  BY <1>1, <1>2, <1>3

LEMMA FinalSavedInv ==
    ASSUME DbInv, FinalSaved
    PROVE  DbInv'
<1>1. FilesOK(disk')
  <2>1. CASE disk' = [disk EXCEPT !.db = Records(data)]
    BY <2>1, WrittenDatabase DEF DbInv, Saving, TypeOK
  <2>2. CASE UNCHANGED disk
    BY <2>2 DEF DbInv, Saving
  <2> QED
    BY <2>1, <2>2 DEF FinalSaved
<1> QED
  BY <1>1, GoneInv DEF FinalSaved

\* A crash leaves files that load as accounts, whatever save() was writing.
LEMMA TornFilesLoad ==
    ASSUME DbInv, NEW f \in TornFiles
    PROVE  FilesOK(f)
<1> USE DEF DbInv
<1>1. \A db \in TornRecords(data) :
          /\ DOMAIN db \subseteq SafeUsers /\ db = [v \in DOMAIN db |-> db[v]]
          /\ \A v \in DOMAIN db : db[v] \in Stored
  BY RecordsStored DEF TornRecords, TypeOK, IsAccounts
<1>2. CASE f = disk
  BY <1>2 DEF Saving
<1>3. ASSUME NEW db \in TornRecords(data), f = [db |-> db, txn |-> disk.txn]
      PROVE  FilesOK(f)
  BY <1>1, <1>3 DEF Saving, FilesOK
<1>4. ASSUME NEW db \in TornRecords(data), todo # {},
             NEW n \in 0 .. Len(data[First(todo)].txns),
             f = [db |-> db,
                  txn |-> [disk.txn EXCEPT ![First(todo)] =
                              SubSeq(data[First(todo)].txns, 1, n)]]
      PROVE  FilesOK(f)
  <2>1. First(todo) \in DOMAIN data /\ First(todo) \in Users
    BY <1>4, FirstIn, NamesAssumption DEF Saving, TypeOK, IsAccounts
  <2> DEFINE h == data[First(todo)].txns
  <2>2. h \in Seq(TransactionRecord)
    BY <2>1 DEF TypeOK, IsAccounts, UserState
  <2>3. SubSeq(h, 1, n) \in Seq(TransactionRecord)
    <3> HIDE DEF h
    <3>1. Len(h) \in Nat /\ \A k \in 1 .. n : h[k] \in TransactionRecord
      BY <1>4, <2>2, LenProperties, ElementOfSeq DEF h
    <3> QED
      BY <1>4, <2>2, <3>1, SubSeqProperties DEF h
  <2> QED
    BY <1>1, <1>4, <2>1, <2>3 DEF Saving, FilesOK
<1> QED
  BY <1>2, <1>3, <1>4 DEF TornFiles

LEMMA CrashInv ==
    ASSUME DbInv, Crash
    PROVE  DbInv'
BY TornFilesLoad, GoneInv DEF Crash

LEMMA StartInv ==
    ASSUME DbInv, Start
    PROVE  DbInv'
<1> USE DEF DbInv
<1>1. TypeOK'
  BY FilesLoad DEF Start, Saving, TypeOK, IsAccounts
<1>2. saver = "none" /\ current = NoItem
  BY DEF Start, Saving, Joined, Threads
<1>3. Saving'
  BY <1>2 DEF Start, Saving, files, FilesOK
<1>4. Lines' /\ Threads'
  BY <1>2 DEF Start, Lines, Threads
<1> QED
  BY <1>1, <1>3, <1>4

LEMMA DbStepInv ==
    ASSUME DbInv, [DbNext]_vars
    PROVE  DbInv'
<1>1. CASE UNCHANGED vars
  <2>1. TypeOK'
    BY <1>1, KeepsTypes DEF vars, DbInv
  <2>2. Lines' /\ Threads' /\ Saving'
    BY <1>1 DEF vars, ledger, threads, network, files, DbInv, Lines, Threads, Saving,
                FilesOK, Joined
  <2> QED
    BY <2>1, <2>2 DEF DbInv
<1>2. CASE (\E r \in Requests : Submit(r)) \/ SaveTimer \/ NotifyOne \/ RunPosted \/ Stop
  BY <1>2, NetworkInv
<1>3. CASE WorkerStep \/ SaveHistory
  BY <1>3, CheckQueueInv, ProcessRequestInv, ProcessSaveInv, WorkerSavedInv, SaveHistoryInv
     DEF WorkerStep
<1>4. CASE MainStep \/ Crash \/ Start
  BY <1>4, NetworkInv, FinalSaveInv, FinalSavedInv, CrashInv, StartInv DEF MainStep
<1> QED
  BY <1>1, <1>2, <1>3, <1>4 DEF DbNext

\* Through any requests, saves, stops, crashes in the middle of a save and
\* restarts: the queue holds well-formed items, one thread at most is inside
\* save(), and the files load as well-formed accounts.
THEOREM DbInvariance == DbSpec => []DbInv
<1>1. DbInv /\ [DbNext]_vars => DbInv'
  BY DbStepInv
<1> QED
  BY <1>1, DbInitInv, PTL DEF DbSpec

LEMMA DbInvTypes == DbInv => DbTypeOK
<1> SUFFICES ASSUME DbInv PROVE DbTypeOK
  OBVIOUS
<1>1. \A k \in 1 .. Len(queue) : queue[k] \in Items
  BY ElementOfSeq DEF DbInv, Lines
<1>2. \A k \in 1 .. Len(posted) : posted[k] \in Completions
  BY ElementOfSeq DEF DbInv, Lines
<1>3. IsAccounts(Load(disk))
  BY FilesLoad DEF DbInv, Saving
<1> QED
  BY <1>1, <1>2, <1>3 DEF DbTypeOK, DbInv, Threads, Saving, Items, RequestItems, Completions

\* The state of the database engine keeps its types, through crashes and
\* restarts as well: what is read back from torn files is still accounts.
THEOREM DbTypeCorrect == DbSpec => []DbTypeOK
  BY DbInvTypes, DbInvariance, PTL

-----------------------------------------------------------------------------
(* AnswersInOrder for every set of requests and any number of them, with   *)
(* stops, crashes and files that cannot be opened: no request is answered  *)
(* twice and none before an older one.                                     *)
(*                                                                         *)
(* The line a request walks along is answered \o posted \o <<current>> \o  *)
(* queue, from the right end to the left.  OrderInv says that the numbers  *)
(* ascend within each part and from each part to the parts on its right,   *)
(* and that none of them is still to be given out.                         *)

Things == Items \cup Completions \cup {NoItem}

Before(s, t) ==
    \A i \in 1 .. Len(s), j \in 1 .. Len(t) :
        Numbered(s[i]) /\ Numbered(t[j]) => s[i].cb < t[j].cb

GivenOut(s, n) == \A i \in 1 .. Len(s) : Numbered(s[i]) => s[i].cb \in 1 .. n

-----------------------------------------------------------------------------
(* Order and concatenation.                                                *)

LEMMA AscendingConcat ==
    ASSUME NEW S, NEW s \in Seq(S), NEW t \in Seq(S)
    PROVE  Ascending(s \o t) <=> Ascending(s) /\ Ascending(t) /\ Before(s, t)
<1> DEFINE l == s \o t
<1>1. /\ Len(s) \in Nat /\ Len(t) \in Nat /\ Len(l) = Len(s) + Len(t)
      /\ \A i \in 1 .. Len(s) : l[i] = s[i]
      /\ \A j \in 1 .. Len(t) : l[Len(s) + j] = t[j]
  BY ConcatProperties, LenProperties
<1> HIDE DEF l
<1>2. ASSUME Ascending(l)
      PROVE  Ascending(s) /\ Ascending(t) /\ Before(s, t)
  <2>1. Ascending(s)
    BY <1>1, <1>2 DEF Ascending
  <2>2. Ascending(t)
    <3> SUFFICES ASSUME NEW i \in 1 .. Len(t), NEW j \in 1 .. Len(t), i < j,
                        Numbered(t[i]), Numbered(t[j])
                 PROVE  t[i].cb < t[j].cb
      BY DEF Ascending
    <3>1. /\ Len(s) + i \in 1 .. Len(l) /\ Len(s) + j \in 1 .. Len(l)
          /\ Len(s) + i < Len(s) + j
      BY <1>1
    <3>2. l[Len(s) + i] = t[i] /\ l[Len(s) + j] = t[j]
      BY <1>1
    <3> QED
      BY <1>2, <3>1, <3>2 DEF Ascending
  <2>3. Before(s, t)
    <3> SUFFICES ASSUME NEW i \in 1 .. Len(s), NEW j \in 1 .. Len(t),
                        Numbered(s[i]), Numbered(t[j])
                 PROVE  s[i].cb < t[j].cb
      BY DEF Before
    <3>1. i \in 1 .. Len(l) /\ Len(s) + j \in 1 .. Len(l) /\ i < Len(s) + j
      BY <1>1
    <3>2. l[i] = s[i] /\ l[Len(s) + j] = t[j]
      BY <1>1
    <3> QED
      BY <1>2, <3>1, <3>2 DEF Ascending
  <2> QED
    BY <2>1, <2>2, <2>3
<1>3. ASSUME Ascending(s), Ascending(t), Before(s, t)
      PROVE  Ascending(l)
  <2> SUFFICES ASSUME NEW i \in 1 .. Len(l), NEW j \in 1 .. Len(l), i < j,
                      Numbered(l[i]), Numbered(l[j])
               PROVE  l[i].cb < l[j].cb
    BY DEF Ascending
  <2>1. CASE j <= Len(s)
    BY <1>1, <1>3, <2>1 DEF Ascending
  <2>2. CASE Len(s) < i
    <3>1. /\ i - Len(s) \in 1 .. Len(t) /\ j - Len(s) \in 1 .. Len(t)
          /\ i - Len(s) < j - Len(s)
      BY <1>1, <2>2
    <3>2. l[i] = t[i - Len(s)] /\ l[j] = t[j - Len(s)]
      <4>1. l[Len(s) + (i - Len(s))] = t[i - Len(s)] /\ l[Len(s) + (j - Len(s))] = t[j - Len(s)]
        BY <1>1, <3>1
      <4> QED
        BY <1>1, <4>1
    <3> QED
      BY <1>3, <3>1, <3>2 DEF Ascending
  <2>3. CASE i <= Len(s) /\ Len(s) < j
    <3>1. i \in 1 .. Len(s) /\ j - Len(s) \in 1 .. Len(t)
      BY <1>1, <2>3
    <3>2. l[i] = s[i] /\ l[j] = t[j - Len(s)]
      <4>1. l[Len(s) + (j - Len(s))] = t[j - Len(s)]
        BY <1>1, <3>1
      <4> QED
        BY <1>1, <3>1, <4>1
    <3> QED
      BY <1>3, <3>1, <3>2 DEF Before
  <2> QED
    BY <1>1, <2>1, <2>2, <2>3
<1> QED
  BY <1>2, <1>3 DEF l

LEMMA BeforeConcat ==
    ASSUME NEW S, NEW s \in Seq(S), NEW t \in Seq(S), NEW u \in Seq(S)
    PROVE  /\ Before(s \o t, u) <=> Before(s, u) /\ Before(t, u)
           /\ Before(u, s \o t) <=> Before(u, s) /\ Before(u, t)
<1> DEFINE l == s \o t
<1>1. /\ Len(s) \in Nat /\ Len(t) \in Nat /\ Len(l) = Len(s) + Len(t)
      /\ \A i \in 1 .. Len(s) : i \in 1 .. Len(l) /\ l[i] = s[i]
      /\ \A j \in 1 .. Len(t) : Len(s) + j \in 1 .. Len(l) /\ l[Len(s) + j] = t[j]
  BY ConcatProperties, LenProperties
<1> HIDE DEF l
<1>2. \A i \in 1 .. Len(l) :
         \/ i \in 1 .. Len(s) /\ l[i] = s[i]
         \/ i - Len(s) \in 1 .. Len(t) /\ l[i] = t[i - Len(s)]
  <2> SUFFICES ASSUME NEW i \in 1 .. Len(l), ~ (i \in 1 .. Len(s))
               PROVE  i - Len(s) \in 1 .. Len(t) /\ l[i] = t[i - Len(s)]
    BY <1>1
  <2>1. i - Len(s) \in 1 .. Len(t) /\ Len(s) + (i - Len(s)) = i
    BY <1>1
  <2> QED
    BY <1>1, <2>1
<1>3. Before(l, u) <=> Before(s, u) /\ Before(t, u)
  <2>1. Before(l, u) => Before(s, u) /\ Before(t, u)
    BY <1>1, Zenon DEF Before
  <2>2. Before(s, u) /\ Before(t, u) => Before(l, u)
    BY <1>2, Zenon DEF Before
  <2> QED
    BY <2>1, <2>2
<1>4. Before(u, l) <=> Before(u, s) /\ Before(u, t)
  <2>1. Before(u, l) => Before(u, s) /\ Before(u, t)
    BY <1>1, Zenon DEF Before
  <2>2. Before(u, s) /\ Before(u, t) => Before(u, l)
    BY <1>2, Zenon DEF Before
  <2> QED
    BY <2>1, <2>2
<1> QED
  BY <1>3, <1>4 DEF l

LEMMA WithinConcat ==
    ASSUME NEW S, NEW s \in Seq(S), NEW t \in Seq(S), NEW n
    PROVE  GivenOut(s \o t, n) <=> GivenOut(s, n) /\ GivenOut(t, n)
<1> DEFINE l == s \o t
<1>1. /\ Len(s) \in Nat /\ Len(t) \in Nat /\ Len(l) = Len(s) + Len(t)
      /\ \A i \in 1 .. Len(s) : i \in 1 .. Len(l) /\ l[i] = s[i]
      /\ \A j \in 1 .. Len(t) : Len(s) + j \in 1 .. Len(l) /\ l[Len(s) + j] = t[j]
  BY ConcatProperties, LenProperties
<1> HIDE DEF l
<1>2. \A i \in 1 .. Len(l) :
         \/ i \in 1 .. Len(s) /\ l[i] = s[i]
         \/ i - Len(s) \in 1 .. Len(t) /\ l[i] = t[i - Len(s)]
  <2> SUFFICES ASSUME NEW i \in 1 .. Len(l), ~ (i \in 1 .. Len(s))
               PROVE  i - Len(s) \in 1 .. Len(t) /\ l[i] = t[i - Len(s)]
    BY <1>1
  <2>1. i - Len(s) \in 1 .. Len(t) /\ Len(s) + (i - Len(s)) = i
    BY <1>1
  <2> QED
    BY <1>1, <2>1
<1>3. GivenOut(l, n) => GivenOut(s, n) /\ GivenOut(t, n)
  BY <1>1, Zenon DEF GivenOut
<1>4. GivenOut(s, n) /\ GivenOut(t, n) => GivenOut(l, n)
  BY <1>2, Zenon DEF GivenOut
<1> QED
  BY <1>3, <1>4 DEF l

LEMMA One ==
    ASSUME NEW x
    PROVE  /\ Len(<<x>>) = 1 /\ <<x>>[1] = x
           /\ Ascending(<<x>>)
           /\ \A n : GivenOut(<<x>>, n) <=> (Numbered(x) => x.cb \in 1 .. n)
BY DEF Ascending, GivenOut

\* Only the number counts: a thing may stand where another of its number stood.
LEMMA SameNumber ==
    ASSUME NEW s, NEW x, NEW y, Numbered(y) => Numbered(x) /\ y.cb = x.cb
    PROVE  /\ Before(s, <<x>>) => Before(s, <<y>>)
           /\ Before(<<x>>, s) => Before(<<y>>, s)
           /\ \A n : GivenOut(<<x>>, n) => GivenOut(<<y>>, n)
BY DEF Before, GivenOut

\* A number not given out yet comes after all those that are.
LEMMA NextNumber ==
    ASSUME NEW s, NEW n \in Nat, GivenOut(s, n), NEW x, x.cb = n + 1
    PROVE  /\ Before(s, <<x>>)
           /\ GivenOut(s, n + 1) /\ GivenOut(<<x>>, n + 1)
BY DEF Before, GivenOut

LEMMA NothingBefore ==
    ASSUME NEW s
    PROVE  /\ Before(s, <<>>) /\ Before(<<>>, s)
           /\ Ascending(<<>>) /\ \A n : GivenOut(<<>>, n)
BY DEF Before, GivenOut, Ascending

LEMMA Unnumbered ==
    ASSUME NEW s, NEW x, ~Numbered(x)
    PROVE  /\ Before(s, <<x>>) /\ Before(<<x>>, s)
           /\ \A n : GivenOut(<<x>>, n)
BY DEF Before, GivenOut

LEMMA HeadThenTail ==
    ASSUME NEW S, NEW s \in Seq(S), s # <<>>
    PROVE  <<Head(s)>> \in Seq(S) /\ Tail(s) \in Seq(S) /\ s = <<Head(s)>> \o Tail(s)
<1>1. Head(s) \in S /\ Tail(s) \in Seq(S)
  BY HeadTailProperties
<1>2. <<Head(s)>> \in Seq(S)
  BY <1>1
<1>3. Len(s) = Len(<<Head(s)>> \o Tail(s))
  BY <1>1, <1>2, HeadTailProperties, ConcatProperties, LenProperties
<1>4. \A i \in 1 .. Len(s) : s[i] = (<<Head(s)>> \o Tail(s))[i]
  BY <1>1, <1>2, HeadTailProperties, ConcatProperties, LenProperties
<1> QED
  BY <1>1, <1>2, <1>3, <1>4, SeqEqual, ConcatProperties

-----------------------------------------------------------------------------
(* The line.                                                               *)

InLine(a, p, c, q, n) ==
    /\ Ascending(a) /\ Ascending(p) /\ Ascending(q)
    /\ Before(a, p) /\ Before(a, c) /\ Before(a, q)
    /\ Before(p, c) /\ Before(p, q) /\ Before(c, q)
    /\ GivenOut(a, n) /\ GivenOut(p, n) /\ GivenOut(c, n) /\ GivenOut(q, n)

Ordered == InLine(answered, posted, <<current>>, queue, submitted)

OrderInv == DbInv /\ Ordered

LEMMA LineParts ==
    ASSUME DbInv
    PROVE  /\ answered \in Seq(Things) /\ posted \in Seq(Things)
           /\ <<current>> \in Seq(Things) /\ queue \in Seq(Things)
<1>1. answered \in Seq(Things) /\ posted \in Seq(Things)
  BY SeqMonotonic DEF DbInv, Lines, Things
<1>2. queue \in Seq(Things)
  BY SeqMonotonic DEF DbInv, Lines, Things
<1>3. current \in Things
  BY DEF DbInv, Threads, Things
<1> QED
  BY <1>1, <1>2, <1>3

LEMMA OrderedAnswers == OrderInv => AnswersInOrder
<1> SUFFICES ASSUME OrderInv PROVE AnswersInOrder
  OBVIOUS
<1> DEFINE a == answered   p == posted   c == <<current>>   q == queue
<1>1. /\ a \in Seq(Things) /\ p \in Seq(Things) /\ c \in Seq(Things) /\ q \in Seq(Things)
      /\ Ascending(c)
  BY LineParts, One DEF OrderInv
<1>2. InLine(a, p, c, q, submitted)
  BY DEF OrderInv, Ordered
<1> HIDE DEF a, p, c, q
<1>3. a \o p \in Seq(Things) /\ (a \o p) \o c \in Seq(Things)
  BY <1>1, ConcatProperties
<1>4. Ascending(a \o p) /\ Before(a \o p, c) /\ Before(a \o p, q)
  BY <1>1, <1>2, AscendingConcat, BeforeConcat DEF InLine
<1>5. Ascending((a \o p) \o c) /\ Before((a \o p) \o c, q)
  BY <1>1, <1>2, <1>3, <1>4, AscendingConcat, BeforeConcat DEF InLine
<1>6. Ascending(((a \o p) \o c) \o q)
  BY <1>1, <1>2, <1>3, <1>5, AscendingConcat DEF InLine
<1> QED
  BY <1>6 DEF AnswersInOrder, a, p, c, q

LEMMA OrderInit == DbInit => OrderInv
<1> SUFFICES ASSUME DbInit PROVE OrderInv
  OBVIOUS
<1>1. ~Numbered(NoItem)
  BY DEF Numbered, NoItem
<1>2. Ordered
  BY <1>1, Unnumbered, NothingBefore DEF DbInit, Ordered, InLine
<1> QED
  BY <1>2, DbInitInv DEF OrderInv

LEMMA SubmitOrder ==
    ASSUME OrderInv, NEW r \in Requests, Submit(r)
    PROVE  Ordered'
<1> DEFINE x == Item(r, submitted')
           y == <<x>>
<1>1. submitted \in Nat /\ submitted' = submitted + 1 /\ x.cb = submitted + 1
  BY DEF OrderInv, DbInv, Lines, Submit, Item
<1>2. x \in Things
  BY <1>1 DEF Item, Items, RequestItems, Things
<1>3. queue \in Seq(Things) /\ y \in Seq(Things) /\ queue' = queue \o y
  BY <1>2, LineParts, AppendIsConcat DEF OrderInv, Submit
<1>4. UNCHANGED <<answered, posted, current>>
  BY DEF Submit
<1> HIDE DEF x
<1>5. \A s : GivenOut(s, submitted)
                 => Before(s, y) /\ GivenOut(s, submitted') /\ GivenOut(y, submitted')
  BY <1>1, NextNumber
<1>6. Ascending(y)
  BY One
<1> HIDE DEF y
<1>7. \A s \in Seq(Things) : Before(s, queue') <=> Before(s, queue) /\ Before(s, y)
  BY <1>3, BeforeConcat
<1>8. /\ Ascending(queue') <=> Ascending(queue) /\ Ascending(y) /\ Before(queue, y)
      /\ GivenOut(queue', submitted') <=> GivenOut(queue, submitted') /\ GivenOut(y, submitted')
  BY <1>3, AscendingConcat, WithinConcat
<1>9. /\ answered \in Seq(Things) /\ posted \in Seq(Things) /\ <<current>> \in Seq(Things)
  BY LineParts DEF OrderInv
<1> QED
  BY <1>4, <1>5, <1>6, <1>7, <1>8, <1>9 DEF OrderInv, Ordered, InLine

LEMMA SaveTimerOrder ==
    ASSUME OrderInv, SaveTimer
    PROVE  Ordered'
<1> DEFINE y == <<SaveOp>>
<1>1. SaveOp \in Things
  BY DEF Items, Things
<1>2. queue \in Seq(Things) /\ y \in Seq(Things) /\ queue' = queue \o y
  BY <1>1, LineParts, AppendIsConcat DEF OrderInv, SaveTimer
<1>3. UNCHANGED <<answered, posted, current, submitted>>
  BY DEF SaveTimer, network
<1>4. ~Numbered(SaveOp)
  BY DEF Numbered, SaveOp
<1>5. \A s : Before(s, y) /\ GivenOut(y, submitted)
  BY <1>4, Unnumbered
<1>6. Ascending(y)
  BY One
<1> HIDE DEF y
<1>7. \A s \in Seq(Things) : Before(s, queue') <=> Before(s, queue) /\ Before(s, y)
  BY <1>2, BeforeConcat
<1>8. /\ Ascending(queue') <=> Ascending(queue) /\ Ascending(y) /\ Before(queue, y)
      /\ GivenOut(queue', submitted) <=> GivenOut(queue, submitted) /\ GivenOut(y, submitted)
  BY <1>2, AscendingConcat, WithinConcat
<1>9. /\ answered \in Seq(Things) /\ posted \in Seq(Things) /\ <<current>> \in Seq(Things)
  BY LineParts DEF OrderInv
<1> QED
  BY <1>3, <1>5, <1>6, <1>7, <1>8, <1>9 DEF OrderInv, Ordered, InLine

LEMMA RunPostedOrder ==
    ASSUME OrderInv, RunPosted
    PROVE  Ordered'
<1> DEFINE y == <<Head(posted)>>
<1>1. /\ answered \in Seq(Things) /\ posted \in Seq(Things)
      /\ <<current>> \in Seq(Things) /\ queue \in Seq(Things)
  BY LineParts DEF OrderInv
<1>2. y \in Seq(Things) /\ posted' \in Seq(Things) /\ posted = y \o posted'
  BY <1>1, HeadThenTail DEF RunPosted
<1>3. answered' = answered \o y
  BY <1>1, AppendIsConcat, HeadTailProperties DEF RunPosted
<1>4. UNCHANGED <<current, queue, submitted>>
  BY DEF RunPosted, threads
<1> HIDE DEF y
<1>5. \A s \in Seq(Things) :
          /\ Before(s, posted) <=> Before(s, y) /\ Before(s, posted')
          /\ Before(posted, s) <=> Before(y, s) /\ Before(posted', s)
          /\ Before(answered', s) <=> Before(answered, s) /\ Before(y, s)
  BY <1>1, <1>2, <1>3, BeforeConcat
<1>6. /\ Ascending(posted) <=> Ascending(y) /\ Ascending(posted') /\ Before(y, posted')
      /\ Ascending(answered') <=> Ascending(answered) /\ Ascending(y) /\ Before(answered, y)
      /\ GivenOut(posted, submitted) <=> GivenOut(y, submitted) /\ GivenOut(posted', submitted)
      /\ GivenOut(answered', submitted) <=> GivenOut(answered, submitted) /\ GivenOut(y, submitted)
  BY <1>1, <1>2, <1>3, AscendingConcat, WithinConcat
<1> QED
  BY <1>1, <1>2, <1>4, <1>5, <1>6 DEF OrderInv, Ordered, InLine

LEMMA CheckQueueOrder ==
    ASSUME OrderInv, CheckQueue
    PROVE  Ordered'
<1>1. /\ answered \in Seq(Things) /\ posted \in Seq(Things)
      /\ <<current>> \in Seq(Things) /\ queue \in Seq(Things)
  BY LineParts DEF OrderInv
<1>2. UNCHANGED <<answered, posted, submitted>>
  BY DEF CheckQueue, network
<1>3. CASE UNCHANGED <<queue, current>>
  BY <1>2, <1>3 DEF OrderInv, Ordered
<1>4. CASE queue # <<>> /\ current' = Head(queue) /\ queue' = Tail(queue)
  <2>1. /\ <<current'>> \in Seq(Things) /\ queue' \in Seq(Things)
        /\ queue = <<current'>> \o queue'
    BY <1>1, <1>4, HeadThenTail
  <2> DEFINE y == <<current'>>
  <2> HIDE DEF y
  <2>2. \A s \in Seq(Things) :
            Before(s, queue) <=> Before(s, y) /\ Before(s, queue')
    BY <2>1, BeforeConcat DEF y
  <2>3. /\ Ascending(queue) <=> Ascending(y) /\ Ascending(queue') /\ Before(y, queue')
        /\ GivenOut(queue, submitted) <=> GivenOut(y, submitted) /\ GivenOut(queue', submitted)
    BY <2>1, AscendingConcat, WithinConcat DEF y
  <2>4. InLine(answered, posted, y, queue', submitted)
    BY <1>1, <2>2, <2>3 DEF OrderInv, Ordered, InLine
  <2> QED
    BY <1>2, <2>4 DEF Ordered, y
<1> QED
  BY <1>3, <1>4 DEF CheckQueue, Popped

LEMMA ProcessRequestOrder ==
    ASSUME OrderInv, ProcessRequest
    PROVE  Ordered'
<1> DEFINE x == [cb |-> current.cb, reply |-> reply']
           y == <<x>>   c == <<current>>   e == <<current'>>
<1>1. /\ answered \in Seq(Things) /\ posted \in Seq(Things)
      /\ c \in Seq(Things) /\ queue \in Seq(Things)
  BY LineParts DEF OrderInv
<1>2. current \in RequestItems /\ current.cb \in Nat
  BY DEF OrderInv, DbInv, Threads, ProcessRequest, Busy, Items, RequestItems
<1>3. x \in Things
  <2>1. TypeOK'
    BY ProcessRequestInv DEF OrderInv, DbInv
  <2> QED
    BY <1>2, <2>1 DEF TypeOK, Completions, Things
<1>4. y \in Seq(Things) /\ posted' = posted \o y
  BY <1>1, <1>3, AppendIsConcat DEF ProcessRequest
<1>5. Numbered(current) /\ x.cb = current.cb
  BY <1>2 DEF Numbered, RequestItems
<1>6. ~Numbered(current')
  BY DEF ProcessRequest, Done, Numbered, NoItem
<1>7. UNCHANGED <<answered, queue, submitted>>
  BY DEF ProcessRequest
<1> HIDE DEF x
<1>8. \A s : /\ Before(s, c) => Before(s, y)
             /\ Before(c, s) => Before(y, s)
             /\ GivenOut(c, submitted) => GivenOut(y, submitted)
  BY <1>5, SameNumber
<1>9. \A s : Before(s, e) /\ Before(e, s) /\ GivenOut(e, submitted)
  BY <1>6, Unnumbered
<1>10. Ascending(y)
  BY One
<1> HIDE DEF y, c, e
<1>11. \A s \in Seq(Things) :
           /\ Before(s, posted') <=> Before(s, posted) /\ Before(s, y)
           /\ Before(posted', s) <=> Before(posted, s) /\ Before(y, s)
  BY <1>1, <1>4, BeforeConcat
<1>12. /\ Ascending(posted') <=> Ascending(posted) /\ Ascending(y) /\ Before(posted, y)
       /\ GivenOut(posted', submitted) <=> GivenOut(posted, submitted) /\ GivenOut(y, submitted)
  BY <1>1, <1>4, AscendingConcat, WithinConcat
<1>13. InLine(answered, posted, c, queue, submitted)
  BY DEF OrderInv, Ordered, c
<1>14. InLine(answered, posted', e, queue, submitted)
  BY <1>1, <1>8, <1>9, <1>10, <1>11, <1>12, <1>13 DEF InLine
<1> QED
  BY <1>7, <1>14 DEF Ordered, e

\* Whatever becomes of a SaveOp: nothing in the line has its number.
LEMMA SaveOrder ==
    ASSUME OrderInv, ProcessSave \/ WorkerSaved
    PROVE  Ordered'
<1>1. UNCHANGED <<answered, posted, queue, submitted>>
  BY DEF ProcessSave, WorkerSaved, network
<1>2. current' = current \/ current' = NoItem
  BY DEF ProcessSave, WorkerSaved, Done
<1>3. ~Numbered(NoItem)
  BY DEF Numbered, NoItem
<1>4. \A s : Before(s, <<NoItem>>) /\ Before(<<NoItem>>, s) /\ GivenOut(<<NoItem>>, submitted)
  BY <1>3, Unnumbered
<1> QED
  BY <1>1, <1>2, <1>4 DEF OrderInv, Ordered, InLine

\* What was queued or posted is lost with the process, but never answered.
LEMMA GoneOrder ==
    ASSUME OrderInv, Gone
    PROVE  Ordered'
<1>1. ~Numbered(NoItem)
  BY DEF Numbered, NoItem
<1>2. \A s : Before(s, <<NoItem>>) /\ Before(<<NoItem>>, s) /\ GivenOut(<<NoItem>>, submitted)
  BY <1>1, Unnumbered
<1>3. \A s : Before(s, <<>>) /\ Before(<<>>, s) /\ Ascending(<<>>) /\ GivenOut(<<>>, submitted)
  BY NothingBefore
<1> QED
  BY <1>2, <1>3 DEF Gone, OrderInv, Ordered, InLine

LEMMA OrderStep ==
    ASSUME OrderInv, [DbNext]_vars
    PROVE  OrderInv'
<1>1. DbInv'
  BY DbStepInv DEF OrderInv
<1>2. CASE UNCHANGED <<answered, posted, current, queue, submitted>>
  BY <1>1, <1>2 DEF OrderInv, Ordered
<1>3. CASE (\E r \in Requests : Submit(r)) \/ SaveTimer \/ RunPosted
  BY <1>1, <1>3, SubmitOrder, SaveTimerOrder, RunPostedOrder DEF OrderInv
<1>4. CASE WorkerStep
  BY <1>1, <1>4, CheckQueueOrder, ProcessRequestOrder, SaveOrder DEF OrderInv, WorkerStep
<1>5. CASE Gone
  BY <1>1, <1>5, GoneOrder DEF OrderInv
<1>6. CASE UNCHANGED vars \/ NotifyOne \/ SaveHistory \/ Stop \/ Destroy \/ FinalSave \/ Start
  <2>1. UNCHANGED <<answered, posted, current, queue, submitted>>
    BY <1>6 DEF vars, threads, network, NotifyOne, SaveHistory, Stop, Destroy, FinalSave, Start
  <2> QED
    BY <1>2, <2>1
<1> QED
  BY <1>3, <1>4, <1>5, <1>6 DEF DbNext, MainStep, FinalSaved, Crash

\* However the two threads interleave, and through saves, stops and crashes:
\* requests are answered in the order they were submitted, none of them twice.
THEOREM OrderInvariance == DbSpec => []OrderInv
<1>1. OrderInv /\ [DbNext]_vars => OrderInv'
  BY OrderStep
<1> QED
  BY OrderInit, <1>1, PTL DEF DbSpec

\* What has been answered since the server started was answered in the order
\* in which it was submitted: no answer is repeated or overtaken.
THEOREM AnswersOrdered == DbSpec => []AnswersInOrder
  BY OrderedAnswers, OrderInvariance, PTL

-----------------------------------------------------------------------------
(* What the files hold, as long as files can be opened for writing.        *)
(*                                                                         *)
(* SavedInv adds to DbInv what save() has written so far: while it runs,   *)
(* the histories of the accounts it has left behind; when it is not        *)
(* running and nothing is dirty, everything.  Threads enters through       *)
(* Saving: it is because only one thread can be inside save(), and the     *)
(* worker only while it handles a SaveOp, that no operation changes an     *)
(* account that save() has already written.                                *)
(*                                                                         *)
(* SoundInv and LinkedInv carry the results on accounts over to the whole  *)
(* life of the server: StoreStep sorts its steps into operations, saves    *)
(* and restarts, and what holds in memory then holds of the files.         *)

SavedInv ==
    /\ DbInv
    /\ saver # "none" => \A u \in DOMAIN data \ todo : disk.txn[u] = data[u].txns
    /\ phase # "down" /\ saver = "none" /\ ~dirty => Load(disk) = data
    /\ stops \in Nat

\* Every operation that changes an account leaves the flag up.
LEMMA ChangesAreDirty ==
    ASSUME NEW r \in Requests, Execute(r)
    PROVE  dirty' = TRUE \/ UNCHANGED <<data, dirty>>
BY DEF Execute, Authenticate, ChangePassword, CreateAccount, ToggleAccount, GetBalance,
       ChangeBalance, TransferBalance, GetTransactions, SearchUsers, Commit, Refuse, Answer

LEMMA SavedInit == DbInit => SavedInv
<1> SUFFICES ASSUME DbInit PROVE SavedInv
  OBVIOUS
<1>1. Load(disk) = data
  BY SeedAssumption, FilesOfAccounts DEF DbInit, Init
<1> QED
  BY <1>1, DbInitInv DEF DbInit, SavedInv

\* A save that comes to its end has written what is in memory.
LEMMA SaveComplete ==
    ASSUME SavedInv, saver # "none", todo = {}, disk' = [disk EXCEPT !.db = Records(data)]
    PROVE  Load(disk') = data
<1>1. IsAccounts(data) /\ FilesOK(disk)
  BY DEF SavedInv, DbInv, TypeOK, Saving
<1>2. disk'.db = Records(data) /\ disk'.txn = disk.txn
  BY <1>1, WrittenDatabase
<1>3. \A u \in DOMAIN data : disk'.txn[u] = data[u].txns
  BY <1>2 DEF SavedInv
<1> QED
  BY <1>1, <1>2, <1>3, SavedLoads

LEMMA SaveHistorySaved ==
    ASSUME SavedInv, ~OpenMayFail, SaveHistory
    PROVE  \A u \in DOMAIN data' \ todo' : disk'.txn[u] = data'[u].txns
<1> DEFINE w == First(todo)
<1>1. w \in todo /\ w \in DOMAIN data
  BY FirstIn, NamesAssumption DEF SaveHistory, SavedInv, DbInv, Saving, TypeOK, IsAccounts
<1>2. \A u \in DOMAIN data : u \in Users /\ data[u].txns \in Seq(TransactionRecord)
  BY NamesAssumption DEF SavedInv, DbInv, TypeOK, IsAccounts, UserState
<1>3. /\ disk' = [disk EXCEPT !.txn[w] = data[w].txns]
      /\ todo' = todo \ {w} /\ data' = data
  BY DEF SaveHistory, ledger
<1>4. FilesOK(disk)
  BY DEF SavedInv, DbInv, Saving
<1> HIDE DEF w
<1>5. /\ disk'.txn[w] = data[w].txns
      /\ \A v \in Users : v # w => disk'.txn[v] = disk.txn[v]
  <2>1. w \in Users /\ data[w].txns \in Seq(TransactionRecord)
    BY <1>1, <1>2
  <2>2. disk'.txn = [disk.txn EXCEPT ![w] = data[w].txns]
    BY <1>3, <1>4 DEF FilesOK
  <2> QED
    BY <1>4, <2>1, <2>2 DEF FilesOK
<1> QED
  BY <1>2, <1>3, <1>5 DEF SavedInv, SaveHistory

LEMMA SavedStep ==
    ASSUME SavedInv, ~OpenMayFail, [DbNext]_vars
    PROVE  SavedInv'
<1>1. DbInv' /\ DbInv
  BY DbStepInv DEF SavedInv
<1>2. CASE UNCHANGED <<data, dirty, disk, todo, saver, phase, stops>>
  BY <1>1, <1>2 DEF SavedInv
<1>3. CASE \/ \E r \in Requests : Submit(r)
           \/ SaveTimer \/ NotifyOne \/ RunPosted \/ CheckQueue \/ Destroy \/ UNCHANGED vars
  <2>1. UNCHANGED <<data, dirty, disk, todo, saver, phase, stops>>
    BY <1>3 DEF Submit, SaveTimer, NotifyOne, RunPosted, CheckQueue, Destroy, vars, ledger,
                files, network
  <2> QED
    BY <1>2, <2>1
<1>4. CASE Stop
  BY <1>1, <1>4 DEF Stop, ledger, files, SavedInv, NetworkIdle
<1>5. CASE ProcessRequest
  <2>1. saver = "none" /\ current.request \in Requests /\ phase # "down"
    BY <1>1, <1>5 DEF ProcessRequest, Busy, DbInv, Saving, Joined, Threads, Items, RequestItems
  <2>2. dirty' = TRUE \/ UNCHANGED <<data, dirty>>
    BY <1>5, <2>1, ChangesAreDirty DEF ProcessRequest
  <2> QED
    BY <1>1, <1>5, <2>1, <2>2 DEF ProcessRequest, files, SavedInv
<1>6. CASE ProcessSave
  <2>1. CASE UNCHANGED <<ledger, files>>
    BY <1>1, <1>6, <2>1 DEF ProcessSave, SavedInv, ledger, files, network
  <2>2. CASE OpenDatabase("worker") /\ UNCHANGED ledger
    BY <1>1, <1>6, <2>2 DEF ProcessSave, OpenDatabase, SavedInv, ledger
  <2> QED
    BY <1>6, <2>1, <2>2 DEF ProcessSave
<1>7. CASE WorkerSaved
  <2>1. Load(disk') = data
    BY <1>7, SaveComplete DEF WorkerSaved, CloseDatabase
  <2> QED
    BY <1>1, <1>7, <2>1 DEF WorkerSaved, CloseDatabase, SavedInv
<1>8. CASE SaveHistory
  BY <1>1, <1>8, SaveHistorySaved DEF SaveHistory, SavedInv
<1>9. CASE FinalSave
  BY <1>1, <1>9 DEF FinalSave, OpenDatabase, SavedInv, ledger
<1>10. CASE FinalSaved \/ Crash
  BY <1>1, <1>10 DEF FinalSaved, Crash, Gone, SavedInv
<1>11. CASE Start
  <2>1. saver = "none"
    BY <1>1, <1>11 DEF Start, DbInv, Saving, Joined
  <2> QED
    BY <1>1, <1>11, <2>1 DEF Start, files, SavedInv
<1> QED
  BY <1>3, <1>4, <1>5, <1>6, <1>7, <1>8, <1>9, <1>10, <1>11 DEF DbNext, WorkerStep, MainStep

\* As long as files can be opened: what save() has left behind is on disk, and
\* when it is not at work a flag that is down means that everything is.
THEOREM SavedInvariance ==
    ASSUME ~OpenMayFail
    PROVE  DbSpec => []SavedInv
<1>1. SavedInv /\ [DbNext]_vars => SavedInv'
  BY SavedStep
<1> QED
  BY SavedInit, <1>1, PTL DEF DbSpec

\* While the flag is down a SaveOp may skip save(): the files are up to date,
\* and a crash loses nothing.
THEOREM CleanSaved ==
    ASSUME ~OpenMayFail
    PROVE  DbSpec => []CleanMeansSaved
<1>1. SavedInv => CleanMeansSaved
  BY DEF SavedInv, CleanMeansSaved
<1> QED
  BY <1>1, SavedInvariance, PTL

-----------------------------------------------------------------------------
(* The end of the process.                                                 *)

LEMMA StopStep ==
    ASSUME SavedInv, ~OpenMayFail, [DbNext]_vars,
           phase = "stopping", phase' = "down", stops' = stops
    PROVE  queue = <<>> /\ current = NoItem /\ Load(disk') = data
<1>1. FinalSaved
  <2>1. ~Crash
    BY DEF Crash, SavedInv
  <2>2. phase' = phase \/ phase' # "down" \/ FinalSaved \/ Crash
    BY DEF DbNext, WorkerStep, MainStep, Submit, SaveTimer, NotifyOne, RunPosted, CheckQueue,
           ProcessRequest, ProcessSave, WorkerSaved, SaveHistory, Stop, Destroy, FinalSave,
           Start, vars, network
  <2> QED
    BY <2>1, <2>2
<1>2. saver = "main" /\ todo = {} /\ disk' = [disk EXCEPT !.db = Records(data)]
  BY <1>1 DEF FinalSaved
<1>3. queue = <<>> /\ current = NoItem
  BY <1>2 DEF SavedInv, DbInv, Saving, Joined, Threads
<1> QED
  BY <1>2, <1>3, SaveComplete

\* README, Key Features: a graceful shutdown executes every operation that is
\* still queued and saves what they made of the accounts.
THEOREM ShutdownSaves ==
    ASSUME ~OpenMayFail
    PROVE  DbSpec => StopLosesNothing
<1>1. SavedInv /\ [DbNext]_vars
        => [phase = "stopping" /\ phase' = "down" /\ stops' = stops
              => /\ queue = <<>> /\ current = NoItem
                 /\ Load(disk') = data]_vars
  BY StopStep
<1> QED
  BY <1>1, SavedInvariance, PTL DEF DbSpec, StopLosesNothing

-----------------------------------------------------------------------------
(* DurableLedger, step by step.  An operation is Operate, the opening of   *)
(* data.db is Checkpoint (a save in progress counts as made) and a crash   *)
(* is Lose; every other step leaves what DurableLedger shows alone.        *)

Accounts == IF phase = "down" THEN Load(disk) ELSE data
Saved == IF saver = "none" THEN Load(disk) ELSE data

Operates == Freezes(Accounts, Accounts') /\ Extends(Accounts, Accounts') /\ UNCHANGED Saved
Checkpoints == Saved' = Accounts /\ UNCHANGED Accounts
Loses == Accounts' = Saved /\ UNCHANGED Saved
Stutters == UNCHANGED Accounts /\ UNCHANGED Saved

\* Where the process is gone nobody is inside save().
LEMMA DownIdle ==
    ASSUME DbInv
    PROVE  /\ phase = "down" => saver = "none"
           /\ worker = "busy" \/ worker = "checking" => phase # "down"
BY DEF DbInv, Saving, Joined, Threads

LEMMA RequestOperates ==
    ASSUME SavedInv, ProcessRequest
    PROVE  Operates
<1>1. /\ saver = "none" /\ phase # "down" /\ saver' = saver /\ phase' = phase /\ disk' = disk
      /\ current.request \in Requests
  BY DEF SavedInv, ProcessRequest, Busy, DbInv, Saving, Joined, Threads, Items, RequestItems,
         files
<1>2. Freezes(data, data') /\ Extends(data, data')
  BY <1>1, ExecuteSteps, NextOperates, StepKeepsOrAppends DEF ProcessRequest, SavedInv, DbInv
<1>3. Accounts = data /\ Accounts' = data' /\ UNCHANGED Saved
  BY <1>1 DEF Accounts, Saved
<1> QED
  BY <1>2, <1>3 DEF Operates

LEMMA OpenCheckpoints ==
    ASSUME SavedInv, NEW t \in {"worker", "main"}, OpenDatabase(t), UNCHANGED <<data, phase>>,
           phase # "down"
    PROVE  Checkpoints
BY DEF OpenDatabase, Checkpoints, Accounts, Saved

LEMMA CrashLoses ==
    ASSUME SavedInv, ~CrashDuringSave, Crash
    PROVE  Loses
<1>1. saver = "none" /\ disk' = disk /\ phase' = "down" /\ saver' = "none"
  BY DEF Crash, TornFiles, Gone
<1> QED
  BY <1>1 DEF Loses, Accounts, Saved

LEMMA StopStutters ==
    ASSUME SavedInv, ~OpenMayFail, FinalSaved
    PROVE  Stutters
<1>1. /\ saver = "main" /\ todo = {} /\ disk' = [disk EXCEPT !.db = Records(data)]
      /\ phase' = "down" /\ saver' = "none"
  BY DEF FinalSaved, Gone
<1>2. Load(disk') = data /\ phase # "down"
  BY <1>1, SaveComplete, DownIdle DEF SavedInv
<1> QED
  BY <1>1, <1>2 DEF Stutters, Accounts, Saved

LEMMA SavedStutters ==
    ASSUME SavedInv, WorkerSaved
    PROVE  Stutters
<1>1. /\ saver = "worker" /\ todo = {} /\ disk' = [disk EXCEPT !.db = Records(data)]
      /\ UNCHANGED <<data, phase>> /\ saver' = "none"
  BY DEF WorkerSaved, CloseDatabase, network
<1>2. Load(disk') = data /\ phase # "down"
  BY <1>1, SaveComplete, DownIdle DEF SavedInv
<1> QED
  BY <1>1, <1>2 DEF Stutters, Accounts, Saved

LEMMA OthersStutter ==
    ASSUME SavedInv,
           \/ \E r \in Requests : Submit(r)
           \/ SaveTimer \/ NotifyOne \/ RunPosted \/ CheckQueue \/ Destroy \/ UNCHANGED vars
           \/ SaveHistory \/ Stop \/ Start
    PROVE  Stutters
<1>1. CASE Start
  <2>1. saver = "none" /\ saver' = "none"
    BY <1>1, DownIdle DEF Start, files, SavedInv
  <2> QED
    BY <1>1, <2>1 DEF Start, files, Stutters, Accounts, Saved
<1>2. CASE SaveHistory
  <2>1. phase # "down" /\ phase' = phase /\ saver # "none" /\ saver' = saver /\ data' = data
    BY <1>2, DownIdle DEF SaveHistory, ledger, network, SavedInv
  <2> QED
    BY <2>1 DEF Stutters, Accounts, Saved
<1>3. CASE Stop
  BY <1>3 DEF Stop, NetworkIdle, ledger, files, Stutters, Accounts, Saved
<1>4. CASE ~Start /\ ~SaveHistory /\ ~Stop
  <2>1. UNCHANGED <<data, disk, saver, phase>>
    BY <1>4 DEF Submit, SaveTimer, NotifyOne, RunPosted, CheckQueue, Destroy, vars, ledger,
                files, network
  <2> QED
    BY <2>1 DEF Stutters, Accounts, Saved
<1> QED
  BY <1>1, <1>2, <1>3, <1>4

LEMMA DurableStep ==
    ASSUME SavedInv, ~OpenMayFail, ~CrashDuringSave, [DbNext]_vars
    PROVE  Operates \/ Checkpoints \/ Loses \/ Stutters
<1>1. CASE ProcessSave
  <2>1. CASE UNCHANGED <<ledger, files>>
    BY <1>1, <2>1 DEF ProcessSave, ledger, files, network, Stutters, Accounts, Saved
  <2>2. CASE OpenDatabase("worker") /\ UNCHANGED ledger
    BY <1>1, <2>2, OpenCheckpoints, DownIdle DEF ProcessSave, Busy, ledger, network, SavedInv
  <2> QED
    BY <1>1, <2>1, <2>2 DEF ProcessSave
<1>2. CASE FinalSave
  BY <1>2, OpenCheckpoints DEF FinalSave, Joined, ledger, network
<1> QED
  BY <1>1, <1>2, RequestOperates, CrashLoses, StopStutters, SavedStutters, OthersStutter
     DEF DbNext, WorkerStep, MainStep

\* The server as a store: whatever the threads do, clients see accounts that
\* only operations change, and after a crash those of the last save, whole.
THEOREM DurableImplemented ==
    ASSUME ~OpenMayFail, ~CrashDuringSave
    PROVE  DbSpec => DurableSpec
<1>1. DbInit => Durable!Init
  BY SeedAssumption, FilesOfAccounts DEF DbInit, Init, Durable!Init
<1>2. SavedInv /\ [DbNext]_vars => [Durable!Next]_<<Accounts, Saved>>
  BY DurableStep DEF Operates, Checkpoints, Loses, Stutters, Durable!Next, Durable!Operate,
     Durable!Checkpoint, Durable!Lose, Accounts, Saved, CanFollow
<1> QED
  BY <1>1, <1>2, SavedInvariance, PTL DEF DbSpec, DurableSpec, Durable!Spec, Accounts, Saved

-----------------------------------------------------------------------------
(* What LedgerProofs says of the accounts of one run of the server holds   *)
(* of the accounts of all runs: they are written whole and read back whole.*)

\* What one step does to the accounts in memory and to those in the files.
LEMMA StoreStep ==
    ASSUME SavedInv, ~OpenMayFail, ~CrashDuringSave, [DbNext]_vars
    PROVE  \/ UNCHANGED <<data, disk, saver>>
           \/ [Next]_ledger /\ UNCHANGED <<disk, saver>>
           \/ data' = data /\ saver' # "none"
           \/ data' = data /\ Load(disk') = data
           \/ data' = NoAccounts /\ Load(disk') = data
           \/ data' = NoAccounts /\ saver = "none" /\ disk' = disk
           \/ data' = Load(disk) /\ saver = "none" /\ UNCHANGED <<disk, saver>>
<1>1. CASE \/ \E r \in Requests : Submit(r)
           \/ SaveTimer \/ NotifyOne \/ RunPosted \/ CheckQueue \/ Destroy \/ Stop
           \/ UNCHANGED vars
  BY <1>1 DEF Submit, SaveTimer, NotifyOne, RunPosted, CheckQueue, Destroy, Stop, vars,
              ledger, files, network
<1>2. CASE ProcessRequest
  <2>1. UNCHANGED <<disk, saver>> /\ current.request \in Requests
    BY <1>2 DEF ProcessRequest, Busy, SavedInv, DbInv, Threads, Items, RequestItems, files
  <2> QED
    BY <1>2, <2>1, ExecuteSteps DEF ProcessRequest
<1>3. CASE ProcessSave \/ SaveHistory \/ FinalSave
  BY <1>3 DEF ProcessSave, SaveHistory, FinalSave, OpenDatabase, ledger, files
<1>4. CASE WorkerSaved
  BY <1>4, SaveComplete DEF WorkerSaved, CloseDatabase
<1>5. CASE FinalSaved
  BY <1>5, SaveComplete DEF FinalSaved, Gone
<1>6. CASE Crash
  BY <1>6 DEF Crash, TornFiles, Gone
<1>7. CASE Start
  BY <1>7, DownIdle DEF Start, SavedInv, files
<1> QED
  BY <1>1, <1>2, <1>3, <1>4, <1>5, <1>6, <1>7 DEF DbNext, WorkerStep, MainStep

SoundInv ==
    /\ SavedInv
    /\ IsSound(data)
    /\ saver = "none" => IsSound(Load(disk))

LEMMA SoundStep ==
    ASSUME SoundInv, ~OpenMayFail, ~CrashDuringSave, [DbNext]_vars
    PROVE  SoundInv'
<1>1. SavedInv' /\ SavedInv
  BY SavedStep DEF SoundInv
<1>2. [Next]_ledger => IsSound(data')
  BY <1>1, StepInv DEF SoundInv, SavedInv, DbInv, IInv
<1>3. IsSound(NoAccounts)
  BY DEF NoAccounts, IsSound
<1> QED
  BY <1>1, <1>2, <1>3, StoreStep DEF SoundInv

\* Balances and histories agree through saves, stops, crashes and restarts,
\* not only while the accounts stay in memory.
THEOREM SoundThroughRestarts ==
    ASSUME ~OpenMayFail, ~CrashDuringSave
    PROVE  DbSpec => [](BalancesAgree /\ HistoryChains /\ NoOverdraft)
<1>1. DbInit => SoundInv
  BY SeedAssumption, FilesOfAccounts, SavedInit DEF DbInit, Init, SoundInv
<1>2. SoundInv /\ [DbNext]_vars => SoundInv'
  BY SoundStep
<1>3. SoundInv => BalancesAgree /\ HistoryChains /\ NoOverdraft
  BY DEF SoundInv, IsSound, IsSoundAccount, BalancesAgree, HistoryChains, NoOverdraft
<1> QED
  BY <1>1, <1>2, <1>3, PTL DEF DbSpec

LinkedInv ==
    /\ SavedInv
    /\ Linked(data)
    /\ saver = "none" => Linked(Load(disk))

LEMMA LinkedInvStep ==
    ASSUME LinkedInv, ~OpenMayFail, ~CrashDuringSave, [DbNext]_vars
    PROVE  LinkedInv'
<1>1. SavedInv' /\ SavedInv
  BY SavedStep DEF LinkedInv
<1>2. [Next]_ledger => Linked(data')
  BY <1>1, NextOperates, LinkedStep DEF LinkedInv, SavedInv, DbInv
<1>3. Linked(NoAccounts)
  BY DEF NoAccounts, Linked, IsPaired, KnowsParties
<1> QED
  BY <1>1, <1>2, <1>3, StoreStep DEF LinkedInv

\* Both records of every transfer survive saves, stops, crashes and restarts.
\* That no crash falls into save() is needed: one that does leaves one of them.
THEOREM PairedThroughRestarts ==
    ASSUME ~OpenMayFail, ~CrashDuringSave, Linked(Seed)
    PROVE  DbSpec => []TransfersPaired
<1>1. DbInit => LinkedInv
  BY SeedAssumption, FilesOfAccounts, SavedInit DEF DbInit, Init, LinkedInv
<1>2. LinkedInv /\ [DbNext]_vars => LinkedInv'
  BY LinkedInvStep
<1>3. LinkedInv => TransfersPaired
  BY DEF LinkedInv, Linked, TransfersPaired
<1> QED
  BY <1>1, <1>2, <1>3, PTL DEF DbSpec

=============================================================================
