---------------------------- MODULE LedgerProofs ----------------------------
(***************************************************************************)
(* What holds of Ledger for every set of names, every word size, every     *)
(* input and every sound data directory to start from.                     *)
(*                                                                         *)
(* The inductive invariant is TypeOK together with IsSound(data): that a   *)
(* history chains is not inductive without knowing that its last record    *)
(* agrees with the balance the next operation starts from.                 *)
(*                                                                         *)
(* TransfersPaired is not inductive: an account that is opened under a     *)
(* name an old transfer mentions would owe that transfer's other record.   *)
(* Linked adds that transfers only ever mention accounts that exist, which *)
(* CanTransfer sees to and no operation undoes.                            *)
(*                                                                         *)
(* MoneyConserved compares two sums.  A sum over a finite set (Adds)       *)
(* exists, depends on the numbers alone and may begin with any element;    *)
(* so accounts that differ in one balance have totals that differ by as    *)
(* much (TotalsDiffer), and an operation touches one balance or two.  It   *)
(* needs an invariant of its own: there are finitely many accounts.        *)
(***************************************************************************)
EXTENDS Ledger, TLAPS, SequenceTheorems, WellFoundedInduction, FiniteSetTheorems

LEMMA WrapInRange ==
    ASSUME NEW n \in Int, -Limit <= n, n < 2 * Limit
    PROVE  Wrap(n) \in U64
BY LimitAssumption DEF Wrap, U64

LEMMA WrapId == \A n \in U64 : Wrap(n) = n
BY LimitAssumption DEF Wrap, U64

\* Debit then credit of the same account gives the balance back.
LEMMA WrapBack ==
    ASSUME NEW b \in U64, NEW a \in U64, a <= b
    PROVE  /\ Wrap(b - a) = b - a
           /\ Wrap(Wrap(b - a) + a) = b
BY LimitAssumption DEF Wrap, U64

\* A record that continues the newest one extends a sound history.
LEMMA AppendSound ==
    ASSUME NEW u, NEW txns \in Seq(TransactionRecord), NEW t \in TransactionRecord,
           ChainsFor(u, txns), CoveredFor(txns),
           txns # <<>> =>
               LET last == txns[Len(txns)].balanceAfter
               IN /\ t.balanceAfter = Wrap(last + Net(u, t))
                  /\ t.type \in {"withdraw", "transfer_out"} => t.amount <= last
    PROVE  /\ ChainsFor(u, Append(txns, t))
           /\ CoveredFor(Append(txns, t))
<1> DEFINE new == Append(txns, t)
<1>1. /\ new \in Seq(TransactionRecord)
      /\ Len(new) = Len(txns) + 1
      /\ \A k \in 1 .. Len(txns) : new[k] = txns[k]
      /\ new[Len(txns) + 1] = t
  BY AppendProperties
<1>2. Len(txns) \in Nat
  BY LenProperties
<1> HIDE DEF new
<1>3. ASSUME NEW k \in 2 .. Len(new)
      PROVE  /\ new[k].balanceAfter = Wrap(new[k - 1].balanceAfter + Net(u, new[k]))
             /\ new[k].type \in {"withdraw", "transfer_out"}
                    => new[k].amount <= new[k - 1].balanceAfter
  <2>1. CASE k \in 2 .. Len(txns)
    <3>1. k - 1 \in 1 .. Len(txns) /\ k \in 1 .. Len(txns)
      BY <2>1, <1>2
    <3> QED
      BY <2>1, <3>1, <1>1 DEF ChainsFor, CoveredFor
  <2>2. CASE k = Len(txns) + 1
    <3>1. k - 1 = Len(txns) /\ Len(txns) \in 1 .. Len(txns) /\ txns # <<>>
      BY <2>2, <1>2
    <3> QED
      BY <2>2, <3>1, <1>1
  <2> QED
    BY <1>1, <1>2, <2>1, <2>2
<1> QED
  BY <1>3 DEF ChainsFor, CoveredFor, new

-----------------------------------------------------------------------------
(* The invariant, one lemma for each way an operation changes the map.     *)

IInv == TypeOK /\ IsSound(data)

LEMMA Known ==
    ASSUME NEW d, IsAccounts(d), NEW u \in DOMAIN d
    PROVE  u \in Users
BY NamesAssumption DEF IsAccounts

\* Replacing one account by a sound one keeps the map well-formed and sound.
LEMMA UpdateAccount ==
    ASSUME NEW d, IsAccounts(d), IsSound(d), NEW u \in DOMAIN d,
           NEW a \in UserState, IsSoundAccount(u, a),
           NEW e, e = [d EXCEPT ![u] = a]
    PROVE  IsAccounts(e) /\ IsSound(e) /\ DOMAIN e = DOMAIN d
<1>1. DOMAIN e = DOMAIN d /\ e = [v \in DOMAIN e |-> e[v]]
  BY DEF IsAccounts
<1>2. \A v \in DOMAIN d : e[v] = IF v = u THEN a ELSE d[v]
  BY DEF IsAccounts
<1> QED
  BY <1>1, <1>2 DEF IsAccounts, IsSound

\* A new lock bit or password leaves an account sound.
LEMMA SameMoney ==
    ASSUME NEW u, NEW a, IsSoundAccount(u, a), NEW b,
           b.balance = a.balance, b.txns = a.txns
    PROVE  IsSoundAccount(u, b)
BY DEF IsSoundAccount, AgreesWithBalance

\* An account that takes a record continuing its balance stays sound.
LEMMA RecordedMove ==
    ASSUME NEW u, NEW a \in UserState, IsSoundAccount(u, a),
           NEW t \in TransactionRecord,
           t.balanceAfter = Wrap(a.balance + Net(u, t)),
           t.type \in {"withdraw", "transfer_out"} => t.amount <= a.balance,
           NEW b, b = [a EXCEPT !.balance = t.balanceAfter,
                                !.txns = Append(a.txns, t)]
    PROVE  b \in UserState /\ IsSoundAccount(u, b)
<1>1. a.txns \in Seq(TransactionRecord) /\ a.balance \in U64
  BY DEF UserState
<1>2. /\ Append(a.txns, t) \in Seq(TransactionRecord)
      /\ Len(Append(a.txns, t)) = Len(a.txns) + 1
      /\ Append(a.txns, t)[Len(a.txns) + 1] = t
  BY <1>1, AppendProperties
<1>3. /\ b.balance = t.balanceAfter
      /\ b.txns = Append(a.txns, t)
      /\ b \in UserState
  BY <1>2 DEF UserState, TransactionRecord
<1>4. AgreesWithBalance(b)
  BY <1>2, <1>3 DEF AgreesWithBalance
<1>5. a.txns # <<>> => a.txns[Len(a.txns)].balanceAfter = a.balance
  BY DEF IsSoundAccount, AgreesWithBalance
<1>6. ChainsFor(u, Append(a.txns, t)) /\ CoveredFor(Append(a.txns, t))
  BY <1>1, <1>5, AppendSound DEF IsSoundAccount
<1> QED
  BY <1>3, <1>4, <1>6 DEF IsSoundAccount

-----------------------------------------------------------------------------
(* The steps.                                                              *)

LEMMA CommitInv ==
    ASSUME NEW d, IsAccounts(d), IsSound(d), Commit(d)
    PROVE  IInv'
BY DEF Commit, IInv, TypeOK, IsAccounts, IsSound, IsSoundAccount, ChainsFor,
       CoveredFor, AgreesWithBalance, Replies, Bool

LEMMA UnchangedInv ==
    ASSUME IInv, UNCHANGED <<data, dirty>>, reply' \in Replies
    PROVE  IInv'
BY DEF IInv, TypeOK, IsAccounts, IsSound, IsSoundAccount, ChainsFor,
       CoveredFor, AgreesWithBalance

LEMMA RefuseInv ==
    ASSUME IInv, Refuse
    PROVE  IInv'
BY UnchangedInv DEF Refuse, Replies, Bool

LEMMA InitInv == Init => IInv
BY SeedAssumption DEF Init, IInv, TypeOK, Replies

LEMMA AuthenticateInv ==
    ASSUME IInv, NEW u, NEW p, Authenticate(u, p)
    PROVE  IInv'
<1>1. reply' \in Replies /\ UNCHANGED <<data, dirty>>
  BY DEF Authenticate, Answer, Replies, MayEnter, Open, Exists
<1> QED
  BY <1>1, UnchangedInv

LEMMA GetBalanceInv ==
    ASSUME IInv, NEW u, GetBalance(u)
    PROVE  IInv'
<1>1. Exists(u) => data[u].balance \in U64
  BY DEF IInv, TypeOK, IsAccounts, Exists, UserState
<1>2. 0 \in U64
  BY LimitAssumption DEF U64
<1> QED
  BY <1>1, <1>2, UnchangedInv DEF GetBalance, Answer, Replies

LEMMA GetTransactionsInv ==
    ASSUME IInv, NEW u, NEW n \in Nat, GetTransactions(u, n)
    PROVE  IInv'
<1> DEFINE txns == IF Exists(u) THEN data[u].txns ELSE <<>>
           start == IF Len(txns) > n THEN Len(txns) - n ELSE 0
           last == SubSeq(txns, start + 1, Len(txns))
<1>1. txns \in Seq(TransactionRecord)
  BY DEF IInv, TypeOK, IsAccounts, Exists, UserState
<1>2. n \in Nat /\ Len(txns) \in Nat
  BY <1>1, LenProperties, InputsAssumption
<1>3. start + 1 \in Int /\ start + 1 >= 1
  BY <1>2
<1> HIDE DEF start, txns
<1>4. last \in Seq(TransactionRecord)
  BY <1>1, <1>2, <1>3, SubSeqProperties
<1>5. [kind |-> "txns", value |-> last] \in Replies
  BY <1>4 DEF Replies
<1>6. reply' = [kind |-> "txns", value |-> last] /\ UNCHANGED <<data, dirty>>
  BY DEF GetTransactions, Answer, txns, start
<1> QED
  BY <1>5, <1>6, UnchangedInv

LEMMA SearchUsersInv ==
    ASSUME IInv, NEW names \in Prefixes, SearchUsers(names)
    PROVE  IInv'
<1>1. DOMAIN data \cap names \in SUBSET Users
  BY InputsAssumption
<1> QED
  BY <1>1, UnchangedInv DEF SearchUsers, Answer, Replies

LEMMA ChangePasswordInv ==
    ASSUME IInv, NEW u, NEW p \in Passwords, ChangePassword(u, p)
    PROVE  IInv'
<1>1. CASE ~Exists(u)
  BY <1>1, RefuseInv DEF ChangePassword
<1>2. CASE Exists(u)
  <2> DEFINE b == [data[u] EXCEPT !.password = p]
             e == [data EXCEPT ![u].password = p]
  <2>1. /\ u \in DOMAIN data /\ data[u] \in UserState /\ IsSoundAccount(u, data[u])
        /\ IsAccounts(data) /\ IsSound(data)
    BY <1>2 DEF IInv, TypeOK, IsAccounts, IsSound, Exists
  <2>2. b \in UserState /\ b.balance = data[u].balance /\ b.txns = data[u].txns
    BY <2>1 DEF UserState
  <2>3. IsSoundAccount(u, b)
    BY <2>1, <2>2, SameMoney
  <2>4. e = [data EXCEPT ![u] = b]
    OBVIOUS
  <2>5. IsAccounts(e) /\ IsSound(e)
    BY <2>1, <2>2, <2>3, <2>4, UpdateAccount
  <2> QED
    BY <1>2, <2>5, CommitInv DEF Hashed, ChangePassword
<1> QED
  BY <1>1, <1>2

LEMMA ToggleAccountInv ==
    ASSUME IInv, NEW u, ToggleAccount(u)
    PROVE  IInv'
<1>1. CASE ~Exists(u)
  BY <1>1, RefuseInv DEF ToggleAccount
<1>2. CASE Exists(u)
  <2> DEFINE b == [data[u] EXCEPT !.isLocked = ~@]
             e == [data EXCEPT ![u].isLocked = ~@]
  <2>1. /\ u \in DOMAIN data /\ data[u] \in UserState /\ IsSoundAccount(u, data[u])
        /\ IsAccounts(data) /\ IsSound(data)
    BY <1>2 DEF IInv, TypeOK, IsAccounts, IsSound, Exists
  <2>2. b \in UserState /\ b.balance = data[u].balance /\ b.txns = data[u].txns
    BY <2>1 DEF UserState
  <2>3. IsSoundAccount(u, b)
    BY <2>1, <2>2, SameMoney
  <2>4. e = [data EXCEPT ![u] = b]
    OBVIOUS
  <2>5. IsAccounts(e) /\ IsSound(e)
    BY <2>1, <2>2, <2>3, <2>4, UpdateAccount
  <2> QED
    BY <1>2, <2>5, CommitInv DEF ToggleAccount
<1> QED
  BY <1>1, <1>2

LEMMA CreateAccountInv ==
    ASSUME IInv, NEW u, NEW p \in Passwords, CreateAccount(u, p)
    PROVE  IInv'
<1>1. CASE ~CanCreate(u)
  BY <1>1, RefuseInv DEF CreateAccount
<1>2. CASE CanCreate(u)
  <2> DEFINE t == Txn("deposit", NoOne, DefaultBalance, DefaultBalance)
             a == [password |-> p, balance |-> DefaultBalance,
                   isLocked |-> FALSE, txns |-> <<t>>]
             e == [v \in DOMAIN data \cup {u} |-> IF v = u THEN a ELSE data[v]]
  <2>1. t \in TransactionRecord /\ t.balanceAfter = DefaultBalance
    BY InputsAssumption DEF Txn, TransactionRecord, TxnTypes
  <2> HIDE DEF t
  <2>2. /\ <<t>> \in Seq(TransactionRecord)
        /\ Len(<<t>>) = 1 /\ <<t>>[1] = t
    BY <2>1
  <2>3. a \in UserState
    BY <2>2, InputsAssumption DEF UserState
  <2>4. IsSoundAccount(u, a)
    BY <2>1, <2>2 DEF IsSoundAccount, AgreesWithBalance, ChainsFor, CoveredFor
  <2>5. IsAccounts(e)
    BY <1>2, <2>3 DEF IInv, TypeOK, IsAccounts, CanCreate, IsSafe
  <2>6. IsSound(e)
    BY <2>4 DEF IInv, IsSound
  <2>7. Commit(e)
    BY <1>2 DEF CreateAccount, Hashed, t
  <2> QED
    BY <2>5, <2>6, <2>7, CommitInv
<1> QED
  BY <1>1, <1>2

LEMMA ChangeBalanceInv ==
    ASSUME IInv, NEW u, NEW c \in I64, ChangeBalance(u, c)
    PROVE  IInv'
<1>1. CASE ~CanChange(u, c)
  BY <1>1, RefuseInv DEF ChangeBalance
<1>2. CASE CanChange(u, c)
  <2> DEFINE a == data[u]
             newBal == Wrap(a.balance + c)
             type == IF c >= 0 THEN "deposit" ELSE "withdraw"
             amount == IF c < 0 THEN -c ELSE c
             t == Txn(type, NoOne, amount, newBal)
             b == [a EXCEPT !.balance = t.balanceAfter, !.txns = Append(a.txns, t)]
             changed == [data EXCEPT ![u].balance = newBal]
             e == AppendTxn(changed, u, t)
  <2>1. /\ u \in DOMAIN data /\ a \in UserState /\ IsSoundAccount(u, a)
        /\ IsAccounts(data) /\ IsSound(data)
    BY <1>2 DEF IInv, TypeOK, IsAccounts, IsSound, CanChange, Open, Exists
  <2>2. /\ c \in Int /\ -Limit <= 2 * c /\ 2 * c < Limit
        /\ a.balance \in U64
        /\ c < 0 => -c <= a.balance
    BY <2>1, <1>2, InputsAssumption DEF I64, UserState, CanChange
  <2>3. newBal \in U64 /\ amount \in U64
    BY <2>2, LimitAssumption DEF U64, Wrap
  <2>4. /\ t \in TransactionRecord
        /\ t.balanceAfter = newBal /\ t.type = type /\ t.amount = amount
        /\ t.counterparty = NoOne
    BY <2>3 DEF Txn, TransactionRecord, TxnTypes
  <2>5. Net(u, t) = c
    <3>1. u # NoOne
      BY <2>1, Known, NamesAssumption
    <3> QED
      BY <2>2, <2>4, <3>1 DEF Net
  <2>6. t.type \in {"withdraw", "transfer_out"} => t.amount <= a.balance
    BY <2>2, <2>4
  <2>7. e = [data EXCEPT ![u] = b]
    BY <2>1, <2>4 DEF AppendTxn, IsAccounts, UserState
  <2>8. Commit(e)
    BY <1>2 DEF ChangeBalance
  <2> HIDE DEF a, newBal, type, amount, t, b, e
  <2>9. b \in UserState /\ IsSoundAccount(u, b)
    <3>1. t.balanceAfter = Wrap(a.balance + Net(u, t))
      BY <2>4, <2>5 DEF newBal
    <3> QED
      BY <2>1, <2>4, <2>6, <3>1, RecordedMove DEF b
  <2>10. IsAccounts(e) /\ IsSound(e)
    BY <2>1, <2>7, <2>9, UpdateAccount
  <2> QED
    BY <2>8, <2>10, CommitInv
<1> QED
  BY <1>1, <1>2

\* A transfer between two accounts is two recorded moves.
LEMMA TransferToAnother ==
    ASSUME IInv, NEW s, NEW r, NEW m \in U64,
           s # r, CanTransfer(s, r, m),
           NEW e, e = LogTransfer(MoveMoney(data, s, r, m), s, r, m)
    PROVE  IsAccounts(e) /\ IsSound(e)
<1> DEFINE bs == Wrap(data[s].balance - m)
           br == Wrap(data[r].balance + m)
           out == Txn("transfer_out", r, m, bs)
           in == Txn("transfer_in", s, m, br)
           as == [data[s] EXCEPT !.balance = out.balanceAfter,
                                 !.txns = Append(data[s].txns, out)]
           ar == [data[r] EXCEPT !.balance = in.balanceAfter,
                                 !.txns = Append(data[r].txns, in)]
           mid == [data EXCEPT ![s] = as]
<1>1. /\ s \in DOMAIN data /\ data[s] \in UserState /\ IsSoundAccount(s, data[s])
      /\ r \in DOMAIN data /\ data[r] \in UserState /\ IsSoundAccount(r, data[r])
      /\ IsAccounts(data) /\ IsSound(data)
  BY DEF IInv, TypeOK, IsAccounts, IsSound, CanTransfer, Open, Exists
<1>2. /\ m \in U64 /\ data[s].balance \in U64 /\ data[r].balance \in U64
      /\ m <= data[s].balance
  BY <1>1, InputsAssumption DEF UserState, CanTransfer
<1>3. bs \in U64 /\ br \in U64
  BY <1>2, LimitAssumption DEF U64, Wrap
<1>4. /\ out \in TransactionRecord /\ out.balanceAfter = bs
      /\ out.type = "transfer_out" /\ out.amount = m /\ out.counterparty = r
      /\ in \in TransactionRecord /\ in.balanceAfter = br
      /\ in.type = "transfer_in" /\ in.amount = m /\ in.counterparty = s
  BY <1>1, <1>2, <1>3, Known DEF Txn, TransactionRecord, TxnTypes
<1>5. out.balanceAfter = Wrap(data[s].balance + Net(s, out))
  <2>1. Net(s, out) = -m
    BY <1>4 DEF Net
  <2>2. data[s].balance + (-m) = data[s].balance - m
    BY <1>2 DEF U64
  <2> QED
    BY <1>4, <2>1, <2>2
<1>6. in.balanceAfter = Wrap(data[r].balance + Net(r, in))
  BY <1>4 DEF Net
<1>7. e = [mid EXCEPT ![r] = ar]
  <2>1. s \in DOMAIN data /\ r \in DOMAIN data
    BY <1>1
  <2> DEFINE mv == MoveMoney(data, s, r, m)
  <2>2. /\ DOMAIN mv = DOMAIN data
        /\ mv = [v \in DOMAIN data |->
                   IF v = s THEN [data[s] EXCEPT !.balance = bs]
                   ELSE IF v = r THEN [data[r] EXCEPT !.balance = br]
                   ELSE data[v]]
    BY <1>1 DEF MoveMoney, IsAccounts
  <2>3. mv[s].balance = bs /\ mv[r].balance = br
    BY <2>1, <2>2, <1>1 DEF UserState
  <2>4. e = AppendTxn(AppendTxn(mv, s, out), r, in)
    BY <2>3 DEF LogTransfer
  <2>5. [mid EXCEPT ![r] = ar] =
          [v \in DOMAIN data |-> IF v = s THEN as ELSE IF v = r THEN ar ELSE data[v]]
    BY <1>1 DEF IsAccounts
  <2> HIDE DEF mv
  <2>6. e = [v \in DOMAIN data |->
               IF v = s THEN [mv[s] EXCEPT !.txns = Append(mv[s].txns, out)]
               ELSE IF v = r THEN [mv[r] EXCEPT !.txns = Append(mv[r].txns, in)]
               ELSE mv[v]]
    BY <2>1, <2>2, <2>4 DEF AppendTxn
  <2>7. /\ [mv[s] EXCEPT !.txns = Append(mv[s].txns, out)] = as
        /\ [mv[r] EXCEPT !.txns = Append(mv[r].txns, in)] = ar
    BY <2>1, <2>2, <1>1, <1>4 DEF UserState
  <2>8. e = [v \in DOMAIN data |-> IF v = s THEN as ELSE IF v = r THEN ar ELSE mv[v]]
    BY <2>6, <2>7
  <2>9. \A v \in DOMAIN data \ {s, r} : mv[v] = data[v]
    BY <2>2
  <2> HIDE DEF as, ar, mid
  <2> QED
    BY <2>5, <2>8, <2>9
<1> HIDE DEF bs, br, out, in, as, ar, mid
<1>8. as \in UserState /\ IsSoundAccount(s, as)
  BY <1>1, <1>2, <1>4, <1>5, RecordedMove DEF as
<1>9. ar \in UserState /\ IsSoundAccount(r, ar)
  BY <1>1, <1>2, <1>4, <1>6, RecordedMove DEF ar
<1>10. IsAccounts(mid) /\ IsSound(mid) /\ DOMAIN mid = DOMAIN data
  BY <1>1, <1>8, UpdateAccount DEF mid
<1> QED
  BY <1>1, <1>7, <1>9, <1>10, UpdateAccount

\* A transfer to oneself writes two records that both keep the balance.
LEMMA TransferToSelf ==
    ASSUME IInv, NEW s, NEW m \in U64, CanTransfer(s, s, m),
           NEW e, e = LogTransfer(MoveMoney(data, s, s, m), s, s, m)
    PROVE  IsAccounts(e) /\ IsSound(e)
<1> DEFINE a == data[s]
           out == Txn("transfer_out", s, m, a.balance)
           in == Txn("transfer_in", s, m, a.balance)
           b == [a EXCEPT !.balance = out.balanceAfter, !.txns = Append(a.txns, out)]
           c == [b EXCEPT !.balance = in.balanceAfter, !.txns = Append(b.txns, in)]
<1>1. /\ s \in DOMAIN data /\ a \in UserState /\ IsSoundAccount(s, a)
      /\ IsAccounts(data) /\ IsSound(data)
  BY DEF IInv, TypeOK, IsAccounts, IsSound, CanTransfer, Open, Exists
<1>2. /\ m \in U64 /\ a.balance \in U64 /\ m <= a.balance
  BY <1>1, InputsAssumption DEF UserState, CanTransfer
<1>3. /\ out \in TransactionRecord /\ out.balanceAfter = a.balance
      /\ out.type = "transfer_out" /\ out.amount = m /\ out.counterparty = s
      /\ in \in TransactionRecord /\ in.balanceAfter = a.balance
      /\ in.type = "transfer_in" /\ in.amount = m /\ in.counterparty = s
  BY <1>1, <1>2, Known DEF Txn, TransactionRecord, TxnTypes
<1>4. Net(s, out) = 0 /\ Net(s, in) = 0
  BY <1>3 DEF Net
<1>5. Wrap(a.balance + 0) = a.balance
  BY <1>2, WrapId DEF U64
<1>6. MoveMoney(data, s, s, m) = data
  <2>1. Wrap(Wrap(a.balance - m) + m) = a.balance
    BY <1>2, WrapBack
  <2>2. MoveMoney(data, s, s, m)
          = [data EXCEPT ![s] = [a EXCEPT !.balance = Wrap(Wrap(a.balance - m) + m)]]
    BY <1>1 DEF MoveMoney, IsAccounts, UserState
  <2>3. [a EXCEPT !.balance = a.balance] = a
    BY <1>1 DEF UserState
  <2> QED
    BY <2>1, <2>2, <2>3, <1>1 DEF IsAccounts
<1>7. e = AppendTxn(AppendTxn(data, s, out), s, in)
  BY <1>6 DEF LogTransfer
<1>8. e = [data EXCEPT ![s] = c]
  <2>1. c = [a EXCEPT !.txns = Append(Append(a.txns, out), in)]
    BY <1>1, <1>3 DEF UserState
  <2>2. AppendTxn(AppendTxn(data, s, out), s, in)
          = [data EXCEPT ![s] = [a EXCEPT !.txns = Append(Append(a.txns, out), in)]]
    BY <1>1 DEF AppendTxn, IsAccounts, UserState
  <2> QED
    BY <1>7, <2>1, <2>2
<1>9. b \in UserState /\ IsSoundAccount(s, b)
  <2> HIDE DEF a, out
  <2>1. out.balanceAfter = Wrap(a.balance + Net(s, out))
    BY <1>3, <1>4, <1>5
  <2> QED
    BY <1>1, <1>2, <1>3, <2>1, RecordedMove
<1>10. b.balance = a.balance
  BY <1>1, <1>3 DEF UserState
<1>11. c \in UserState /\ IsSoundAccount(s, c)
  <2> HIDE DEF a, in, b
  <2>1. in.balanceAfter = Wrap(b.balance + Net(s, in))
    BY <1>3, <1>4, <1>5, <1>10
  <2> QED
    BY <1>3, <1>9, <2>1, RecordedMove
<1> HIDE DEF c
<1> QED
  BY <1>1, <1>8, <1>11, UpdateAccount

LEMMA TransferBalanceInv ==
    ASSUME IInv, NEW s, NEW r, NEW m \in U64,
           TransferBalance(s, r, m)
    PROVE  IInv'
<1>1. CASE ~CanTransfer(s, r, m)
  BY <1>1, RefuseInv DEF TransferBalance
<1>2. CASE CanTransfer(s, r, m)
  <2> DEFINE e == LogTransfer(MoveMoney(data, s, r, m), s, r, m)
  <2>1. Commit(e)
    BY <1>2 DEF TransferBalance
  <2>2. IsAccounts(e) /\ IsSound(e)
    <3> HIDE DEF e
    <3>1. e = LogTransfer(MoveMoney(data, s, r, m), s, r, m)
      BY DEF e
    <3> QED
      BY <1>2, <3>1, TransferToAnother, TransferToSelf
  <2> QED
    BY <2>1, <2>2, CommitInv
<1> QED
  BY <1>1, <1>2

LEMMA StepInv ==
    ASSUME IInv, [Next]_ledger
    PROVE  IInv'
<1>1. CASE UNCHANGED ledger
  BY <1>1, UnchangedInv DEF ledger, IInv, TypeOK
<1>2. ASSUME NEW u \in Users, NEW p \in Passwords,
             Authenticate(u, p) \/ ChangePassword(u, p) \/ CreateAccount(u, p)
      PROVE  IInv'
  BY <1>2, AuthenticateInv, ChangePasswordInv, CreateAccountInv
<1>3. ASSUME NEW u \in Users, ToggleAccount(u) \/ GetBalance(u)
      PROVE  IInv'
  BY <1>3, ToggleAccountInv, GetBalanceInv
<1>4. ASSUME NEW u \in Users, NEW c \in Changes, ChangeBalance(u, c)
      PROVE  IInv'
  BY <1>4, ChangeBalanceInv, InputsAssumption
<1>5. ASSUME NEW s \in Users, NEW r \in Users, NEW m \in Amounts, TransferBalance(s, r, m)
      PROVE  IInv'
  BY <1>5, TransferBalanceInv, InputsAssumption
<1>6. ASSUME NEW u \in Users, NEW n \in Counts, GetTransactions(u, n)
      PROVE  IInv'
  BY <1>6, GetTransactionsInv, InputsAssumption
<1>7. ASSUME NEW names \in Prefixes, SearchUsers(names)
      PROVE  IInv'
  BY <1>7, SearchUsersInv
<1> QED
  BY <1>1, <1>2, <1>3, <1>4, <1>5, <1>6, <1>7 DEF Next

-----------------------------------------------------------------------------
(* Types alone: what a step keeps of accounts that need not be sound, such  *)
(* as those read from files of two moments.                                *)

LEMMA UpdateTypes ==
    ASSUME NEW d, IsAccounts(d), NEW u \in DOMAIN d, NEW a \in UserState,
           NEW e, e = [d EXCEPT ![u] = a]
    PROVE  IsAccounts(e) /\ DOMAIN e = DOMAIN d
<1>1. DOMAIN e = DOMAIN d /\ e = [v \in DOMAIN e |-> e[v]]
  BY DEF IsAccounts
<1>2. \A v \in DOMAIN d : e[v] = IF v = u THEN a ELSE d[v]
  BY DEF IsAccounts
<1> QED
  BY <1>1, <1>2 DEF IsAccounts

LEMMA CommitTypes ==
    ASSUME NEW d, IsAccounts(d), Commit(d)
    PROVE  TypeOK'
BY DEF Commit, TypeOK, IsAccounts, Replies, Bool

LEMMA AnswerTypes ==
    ASSUME TypeOK, UNCHANGED <<data, dirty>>, reply' \in Replies
    PROVE  TypeOK'
BY DEF TypeOK, IsAccounts

LEMMA RefuseTypes ==
    ASSUME TypeOK, Refuse
    PROVE  TypeOK'
BY AnswerTypes DEF Refuse, Replies, Bool

LEMMA GetBalanceTypes ==
    ASSUME TypeOK, NEW u, GetBalance(u)
    PROVE  TypeOK'
<1>1. 0 \in U64 /\ (Exists(u) => data[u].balance \in U64)
  BY LimitAssumption DEF U64, TypeOK, IsAccounts, Exists, UserState
<1> QED
  BY <1>1, AnswerTypes DEF GetBalance, Answer, Replies

LEMMA GetTransactionsTypes ==
    ASSUME TypeOK, NEW u, NEW n \in Nat, GetTransactions(u, n)
    PROVE  TypeOK'
<1> DEFINE txns == IF Exists(u) THEN data[u].txns ELSE <<>>
           start == IF Len(txns) > n THEN Len(txns) - n ELSE 0
           last == SubSeq(txns, start + 1, Len(txns))
<1>1. txns \in Seq(TransactionRecord)
  BY DEF TypeOK, IsAccounts, Exists, UserState
<1>2. n \in Nat /\ Len(txns) \in Nat
  BY <1>1, LenProperties, InputsAssumption
<1>3. start + 1 \in Int /\ start + 1 >= 1
  BY <1>2
<1>4. reply' = [kind |-> "txns", value |-> last] /\ UNCHANGED <<data, dirty>>
  BY DEF GetTransactions, Answer
<1> HIDE DEF start, txns
<1>5. last \in Seq(TransactionRecord)
  BY <1>1, <1>2, <1>3, SubSeqProperties
<1> QED
  BY <1>4, <1>5, AnswerTypes DEF Replies

LEMMA SearchUsersTypes ==
    ASSUME TypeOK, NEW names \in Prefixes, SearchUsers(names)
    PROVE  TypeOK'
<1>1. DOMAIN data \cap names \in SUBSET Users
  BY InputsAssumption
<1> QED
  BY <1>1, AnswerTypes DEF SearchUsers, Answer, Replies

LEMMA SetBalanceTypes ==
    ASSUME NEW d, IsAccounts(d), NEW u \in DOMAIN d, NEW n \in U64,
           NEW e, e = [d EXCEPT ![u].balance = n]
    PROVE  IsAccounts(e) /\ DOMAIN e = DOMAIN d
<1> DEFINE a == [d[u] EXCEPT !.balance = n]
<1>1. a \in UserState /\ e = [d EXCEPT ![u] = a]
  BY DEF IsAccounts, UserState
<1> QED
  BY <1>1, UpdateTypes

LEMMA AppendTxnTypes ==
    ASSUME NEW d, IsAccounts(d), NEW u \in DOMAIN d, NEW t \in TransactionRecord,
           NEW e, e = AppendTxn(d, u, t)
    PROVE  IsAccounts(e) /\ DOMAIN e = DOMAIN d
<1> DEFINE a == [d[u] EXCEPT !.txns = Append(d[u].txns, t)]
<1>1. d[u] \in UserState
  BY DEF IsAccounts
<1>2. Append(d[u].txns, t) \in Seq(TransactionRecord)
  BY <1>1, AppendProperties DEF UserState
<1>3. a \in UserState /\ e = [d EXCEPT ![u] = a]
  BY <1>1, <1>2 DEF AppendTxn, UserState
<1> QED
  BY <1>3, UpdateTypes

LEMMA TransferTypes ==
    ASSUME TypeOK, NEW s, NEW r, NEW m \in U64,
           TransferBalance(s, r, m)
    PROVE  TypeOK'
<1>1. CASE ~CanTransfer(s, r, m)
  BY <1>1, RefuseTypes DEF TransferBalance
<1>2. CASE CanTransfer(s, r, m)
  <2> DEFINE debited == [data EXCEPT ![s].balance = Wrap(@ - m)]
             moved == MoveMoney(data, s, r, m)
             out == Txn("transfer_out", r, m, moved[s].balance)
             in == Txn("transfer_in", s, m, moved[r].balance)
             sent == AppendTxn(moved, s, out)
  <2>1. /\ s \in DOMAIN data /\ r \in DOMAIN data /\ IsAccounts(data) /\ m \in U64
        /\ m <= data[s].balance
    BY <1>2, InputsAssumption DEF TypeOK, CanTransfer, Open, Exists
  <2>2. IsAccounts(debited) /\ DOMAIN debited = DOMAIN data
    <3>1. Wrap(data[s].balance - m) \in U64
      BY <2>1, LimitAssumption DEF IsAccounts, UserState, U64, Wrap
    <3> QED
      BY <2>1, <3>1, SetBalanceTypes
  <2>3. IsAccounts(moved) /\ DOMAIN moved = DOMAIN data
    <3> HIDE DEF debited
    <3>1. Wrap(debited[r].balance + m) \in U64
      BY <2>1, <2>2, LimitAssumption DEF IsAccounts, UserState, U64, Wrap
    <3>2. moved = [debited EXCEPT ![r].balance = Wrap(debited[r].balance + m)]
      BY DEF MoveMoney, debited
    <3> HIDE DEF moved
    <3> QED
      BY <2>1, <2>2, <3>1, <3>2, SetBalanceTypes
  <2> HIDE DEF moved
  <2>4. out \in TransactionRecord /\ in \in TransactionRecord
    BY <2>1, <2>3, Known DEF IsAccounts, UserState, Txn, TransactionRecord, TxnTypes
  <2>5. Commit(AppendTxn(sent, r, in))
    BY <1>2 DEF TransferBalance, LogTransfer, moved
  <2> HIDE DEF out, in
  <2>6. IsAccounts(sent) /\ DOMAIN sent = DOMAIN data
    BY <2>1, <2>3, <2>4, AppendTxnTypes
  <2> HIDE DEF sent
  <2>7. IsAccounts(AppendTxn(sent, r, in))
    BY <2>1, <2>4, <2>6, AppendTxnTypes
  <2> QED
    BY <2>5, <2>7, CommitTypes
<1> QED
  BY <1>1, <1>2

LEMMA ChangeBalanceTypes ==
    ASSUME TypeOK, NEW u, NEW c \in I64, ChangeBalance(u, c)
    PROVE  TypeOK'
<1>1. CASE ~CanChange(u, c)
  BY <1>1, RefuseTypes DEF ChangeBalance
<1>2. CASE CanChange(u, c)
  <2> DEFINE newBal == Wrap(data[u].balance + c)
             type == IF c >= 0 THEN "deposit" ELSE "withdraw"
             amount == IF c < 0 THEN -c ELSE c
             t == Txn(type, NoOne, amount, newBal)
             changed == [data EXCEPT ![u].balance = newBal]
  <2>1. /\ u \in DOMAIN data /\ IsAccounts(data) /\ data[u].balance \in U64
        /\ c \in Int /\ -Limit <= 2 * c /\ 2 * c < Limit
        /\ c < 0 => -c <= data[u].balance
    BY <1>2, InputsAssumption DEF TypeOK, CanChange, Open, Exists, IsAccounts, UserState, I64
  <2>2. newBal \in U64 /\ amount \in U64
    BY <2>1, LimitAssumption DEF U64, Wrap
  <2>3. t \in TransactionRecord
    BY <2>2 DEF Txn, TransactionRecord, TxnTypes
  <2>4. Commit(AppendTxn(changed, u, t))
    BY <1>2 DEF ChangeBalance
  <2> HIDE DEF newBal, t
  <2>5. IsAccounts(changed) /\ DOMAIN changed = DOMAIN data
    BY <2>1, <2>2, SetBalanceTypes
  <2> HIDE DEF changed
  <2>6. IsAccounts(AppendTxn(changed, u, t))
    BY <2>1, <2>3, <2>5, AppendTxnTypes
  <2> QED
    BY <2>4, <2>6, CommitTypes
<1> QED
  BY <1>1, <1>2

LEMMA PasswordTypes ==
    ASSUME TypeOK, NEW u, NEW p \in Passwords,
           ChangePassword(u, p) \/ CreateAccount(u, p)
    PROVE  TypeOK'
<1>1. CASE Refuse
  BY <1>1, RefuseTypes
<1>2. CASE ChangePassword(u, p) /\ ~Refuse
  <2> DEFINE b == [data[u] EXCEPT !.password = p]
  <2>1. u \in DOMAIN data /\ IsAccounts(data) /\ b \in UserState
    BY <1>2 DEF TypeOK, ChangePassword, Exists, IsAccounts, UserState
  <2>2. Commit([data EXCEPT ![u] = b])
    BY <1>2 DEF ChangePassword, Hashed
  <2> HIDE DEF b
  <2> QED
    BY <2>1, <2>2, UpdateTypes, CommitTypes
<1>3. CASE CreateAccount(u, p) /\ ~Refuse
  <2> DEFINE t == Txn("deposit", NoOne, DefaultBalance, DefaultBalance)
             a == [password |-> p, balance |-> DefaultBalance,
                   isLocked |-> FALSE, txns |-> <<t>>]
             e == [v \in DOMAIN data \cup {u} |-> IF v = u THEN a ELSE data[v]]
  <2>1. t \in TransactionRecord
    BY InputsAssumption DEF Txn, TransactionRecord, TxnTypes
  <2>2. Commit(e) /\ u \in SafeUsers /\ IsAccounts(data)
    BY <1>3 DEF CreateAccount, CanCreate, IsSafe, Hashed, TypeOK
  <2> HIDE DEF t
  <2>3. a \in UserState
    BY <2>1, InputsAssumption DEF UserState
  <2>4. IsAccounts(e)
    BY <2>2, <2>3 DEF IsAccounts
  <2> QED
    BY <2>2, <2>4, CommitTypes
<1> QED
  BY <1>1, <1>2, <1>3

LEMMA ToggleTypes ==
    ASSUME TypeOK, NEW u, ToggleAccount(u)
    PROVE  TypeOK'
<1>1. CASE Refuse
  BY <1>1, RefuseTypes
<1>2. CASE ~Refuse
  <2> DEFINE b == [data[u] EXCEPT !.isLocked = ~@]
  <2>1. u \in DOMAIN data /\ IsAccounts(data) /\ b \in UserState
    BY <1>2 DEF TypeOK, ToggleAccount, Exists, IsAccounts, UserState
  <2>2. Commit([data EXCEPT ![u] = b])
    BY <1>2 DEF ToggleAccount
  <2> HIDE DEF b
  <2> QED
    BY <2>1, <2>2, UpdateTypes, CommitTypes
<1> QED
  BY <1>1, <1>2

\* Every operation, whatever the accounts it starts from, leaves well-formed ones.
LEMMA StepTypes ==
    ASSUME TypeOK, Next
    PROVE  TypeOK'
<1>1. ASSUME NEW u \in Users, NEW p \in Passwords,
             Authenticate(u, p) \/ ChangePassword(u, p) \/ CreateAccount(u, p)
      PROVE  TypeOK'
  <2>1. CASE Authenticate(u, p)
    BY <2>1, AnswerTypes DEF Authenticate, Answer, Replies, MayEnter, Open, Exists
  <2> QED
    BY <1>1, <2>1, PasswordTypes
<1>2. ASSUME NEW u \in Users, ToggleAccount(u) \/ GetBalance(u)
      PROVE  TypeOK'
  BY <1>2, ToggleTypes, GetBalanceTypes
<1>3. ASSUME NEW u \in Users, NEW c \in Changes, ChangeBalance(u, c)
      PROVE  TypeOK'
  BY <1>3, ChangeBalanceTypes, InputsAssumption
<1>4. ASSUME NEW s \in Users, NEW r \in Users, NEW m \in Amounts, TransferBalance(s, r, m)
      PROVE  TypeOK'
  BY <1>4, TransferTypes, InputsAssumption
<1>5. ASSUME NEW u \in Users, NEW n \in Counts, GetTransactions(u, n)
      PROVE  TypeOK'
  BY <1>5, GetTransactionsTypes, InputsAssumption
<1>6. ASSUME NEW names \in Prefixes, SearchUsers(names)
      PROVE  TypeOK'
  BY <1>6, SearchUsersTypes
<1> QED
  BY <1>1, <1>2, <1>3, <1>4, <1>5, <1>6 DEF Next

\* The inductive invariant: types, and accounts whose balance, history and
\* newest record agree.
THEOREM Invariance == Spec => []IInv
<1>1. IInv /\ [Next]_ledger => IInv'
  BY StepInv
<1> QED
  BY InitInv, <1>1, PTL DEF Spec

\* Every balance and amount stays a 64-bit number and only well-formed
\* accounts with acceptable names are ever in the map.
THEOREM TypeCorrect == Spec => []TypeOK
<1>1. IInv => TypeOK
  BY DEF IInv
<1> QED
  BY <1>1, Invariance, PTL

\* Balance and history stay consistent under any sequence of operations of
\* DbManager::processItem, 64-bit wrap-around included.
THEOREM Soundness == Spec => [](BalancesAgree /\ HistoryChains)
<1>1. IInv => BalancesAgree /\ HistoryChains
  BY DEF IInv, IsSound, IsSoundAccount, BalancesAgree, HistoryChains
<1> QED
  BY <1>1, Invariance, PTL

\* No withdrawal and no transfer (processItem, ChangeBalanceOp and
\* TransferBalanceOp) takes out more than the record before it left, also when
\* an account pays itself or a credit has wrapped around.
THEOREM Covered == Spec => []NoOverdraft
<1>1. IInv => NoOverdraft
  BY DEF IInv, IsSound, IsSoundAccount, NoOverdraft
<1> QED
  BY <1>1, Invariance, PTL

-----------------------------------------------------------------------------
(* Action properties.                                                      *)

\* What a step may do to one account: nothing to its money and its history,
\* or, if it is open, append to its history.
Kept(a, b) == b.balance = a.balance /\ b.txns = a.txns
Appended(a, b) ==
    /\ ~a.isLocked
    /\ Len(a.txns) <= Len(b.txns)
    /\ \A k \in 1 .. Len(a.txns) : b.txns[k] = a.txns[k]

LEMMA KeptOrAppended ==
    ASSUME NEW d, NEW e, IsAccounts(d),
           \A u \in DOMAIN d : u \in DOMAIN e /\ (Kept(d[u], e[u]) \/ Appended(d[u], e[u]))
    PROVE  Freezes(d, e) /\ Extends(d, e)
<1>1. \A u \in DOMAIN d : d[u].txns \in Seq(TransactionRecord)
  BY DEF IsAccounts, UserState
<1>2. \A u \in DOMAIN d : Len(d[u].txns) \in Nat
  BY <1>1, LenProperties
<1>3. \A u \in DOMAIN d : Len(d[u].txns) <= Len(d[u].txns)
  BY <1>2
<1> QED
  BY <1>3 DEF Freezes, Extends, Kept, Appended

LEMMA AppendKeepsPrefix ==
    ASSUME NEW S, NEW s \in Seq(S), NEW t \in S
    PROVE  /\ Append(s, t) \in Seq(S)
           /\ Len(s) <= Len(Append(s, t))
           /\ \A k \in 1 .. Len(s) : Append(s, t)[k] = s[k]
BY AppendProperties, LenProperties

\* The record a deposit or a withdrawal leaves.
LEMMA ChangeHistories ==
    ASSUME TypeOK, NEW u, NEW c \in I64, ChangeBalance(u, c), CanChange(u, c)
    PROVE  \E t \in TransactionRecord :
               /\ t.type \in {"deposit", "withdraw"} /\ DOMAIN data' = DOMAIN data
               /\ data'[u].txns = Append(data[u].txns, t)
               /\ \A v \in DOMAIN data \ {u} : data'[v] = data[v]
<1> DEFINE newBal == Wrap(data[u].balance + c)
           t == Txn(IF c >= 0 THEN "deposit" ELSE "withdraw", NoOne,
                    IF c < 0 THEN -c ELSE c, newBal)
<1>1. /\ u \in DOMAIN data /\ data[u].balance \in U64 /\ IsAccounts(data)
  BY DEF TypeOK, CanChange, Open, Exists, IsAccounts, UserState
<1>2. c \in Int /\ -Limit <= 2 * c /\ 2 * c < Limit /\ (c < 0 => -c <= data[u].balance)
  BY InputsAssumption DEF I64, CanChange
<1>3. t \in TransactionRecord
  <2>1. newBal \in U64 /\ (IF c < 0 THEN -c ELSE c) \in U64
    BY <1>1, <1>2, LimitAssumption DEF U64, Wrap
  <2> QED
    BY <2>1 DEF Txn, TransactionRecord, TxnTypes
<1>4. t.type \in {"deposit", "withdraw"}
  BY DEF Txn
<1>5. data' = AppendTxn([data EXCEPT ![u].balance = newBal], u, t)
  BY DEF ChangeBalance, Commit
<1> HIDE DEF newBal, t
<1>6. /\ DOMAIN data' = DOMAIN data
      /\ data'[u].txns = Append(data[u].txns, t)
      /\ \A v \in DOMAIN data \ {u} : data'[v] = data[v]
  BY <1>1, <1>5 DEF AppendTxn, IsAccounts, UserState
<1> QED
  BY <1>3, <1>4, <1>6

\* The two records a transfer leaves, in two histories or one after the other.
LEMMA TransferHistories ==
    ASSUME TypeOK, NEW s, NEW r, NEW m \in U64,
           CanTransfer(s, r, m),
           NEW e, e = LogTransfer(MoveMoney(data, s, r, m), s, r, m)
    PROVE  /\ DOMAIN e = DOMAIN data /\ s \in DOMAIN data /\ r \in DOMAIN data
           /\ \A u \in DOMAIN data : u \notin {s, r} => e[u] = data[u]
           /\ \E out, in \in TransactionRecord :
                  /\ out.type = "transfer_out" /\ out.counterparty = r /\ out.amount = m
                  /\ in.type = "transfer_in" /\ in.counterparty = s /\ in.amount = m
                  /\ s # r => /\ e[s].txns = Append(data[s].txns, out)
                              /\ e[r].txns = Append(data[r].txns, in)
                  /\ s = r => e[s].txns = Append(Append(data[s].txns, out), in)
<1> DEFINE mv == MoveMoney(data, s, r, m)
           out == Txn("transfer_out", r, m, mv[s].balance)
           in == Txn("transfer_in", s, m, mv[r].balance)
           sent == AppendTxn(mv, s, out)
<1>1. /\ s \in DOMAIN data /\ r \in DOMAIN data
      /\ ~data[s].isLocked /\ ~data[r].isLocked
      /\ IsAccounts(data)
  BY DEF TypeOK, CanTransfer, Open, Exists
<1>2. m \in U64 /\ \A u \in DOMAIN data : data[u].balance \in U64
  BY <1>1, InputsAssumption DEF IsAccounts, UserState
<1>3. \A u \in DOMAIN data : data[u].txns \in Seq(TransactionRecord)
  BY <1>1 DEF IsAccounts, UserState
<1>4. /\ DOMAIN mv = DOMAIN data
      /\ \A u \in DOMAIN data :
            /\ mv[u].txns = data[u].txns
            /\ u \notin {s, r} => mv[u] = data[u]
            /\ mv[u].balance \in U64
  <2> DEFINE debited == [data EXCEPT ![s].balance = Wrap(@ - m)]
  <2>1. mv = [debited EXCEPT ![r].balance = Wrap(@ + m)]
    BY DEF MoveMoney
  <2>2. /\ DOMAIN debited = DOMAIN data
        /\ debited[s] = [data[s] EXCEPT !.balance = Wrap(data[s].balance - m)]
        /\ \A u \in DOMAIN data \ {s} : debited[u] = data[u]
    BY <1>1 DEF IsAccounts
  <2>3. Wrap(data[s].balance - m) \in U64
    BY <1>1, <1>2, LimitAssumption DEF U64, Wrap
  <2>4. \A u \in DOMAIN data : debited[u] \in UserState /\ debited[u].txns = data[u].txns
    BY <1>1, <2>2, <2>3 DEF IsAccounts, UserState
  <2>5. \A u \in DOMAIN data : debited[u].balance \in U64
    BY <2>4 DEF UserState
  <2>6. Wrap(debited[r].balance + m) \in U64
    BY <1>1, <1>2, <2>5, LimitAssumption DEF U64, Wrap
  <2> HIDE DEF debited, mv
  <2>7. /\ DOMAIN mv = DOMAIN data
        /\ mv[r] = [debited[r] EXCEPT !.balance = Wrap(debited[r].balance + m)]
        /\ \A u \in DOMAIN data \ {r} : mv[u] = debited[u]
    BY <1>1, <2>1, <2>2 DEF IsAccounts
  <2>8. mv[r].txns = data[r].txns /\ mv[r].balance \in U64
    BY <1>1, <2>4, <2>6, <2>7 DEF UserState
  <2> QED
    BY <1>1, <2>2, <2>4, <2>5, <2>7, <2>8
<1>5. out \in TransactionRecord /\ in \in TransactionRecord
  BY <1>1, <1>2, <1>4, Known DEF Txn, TransactionRecord, TxnTypes
<1>6. e = AppendTxn(sent, r, in)
  BY DEF LogTransfer
<1>7. /\ out.type = "transfer_out" /\ out.counterparty = r /\ out.amount = m
      /\ in.type = "transfer_in" /\ in.counterparty = s /\ in.amount = m
  BY DEF Txn
<1> HIDE DEF mv, out, in
<1>8. /\ DOMAIN sent = DOMAIN data
      /\ sent[s].txns = Append(data[s].txns, out)
      /\ \A u \in DOMAIN data \ {s} : sent[u] = mv[u]
  BY <1>1, <1>4 DEF AppendTxn
<1> HIDE DEF sent
<1>9. /\ DOMAIN e = DOMAIN data
      /\ e[r].txns = Append(sent[r].txns, in)
      /\ \A u \in DOMAIN data \ {r} : e[u] = sent[u]
  BY <1>1, <1>6, <1>8 DEF AppendTxn
<1>10. s # r => /\ e[s].txns = Append(data[s].txns, out)
                /\ e[r].txns = Append(data[r].txns, in)
  BY <1>1, <1>4, <1>8, <1>9
<1>11. s = r => e[s].txns = Append(Append(data[s].txns, out), in)
  BY <1>8, <1>9
<1>12. \A u \in DOMAIN data : u \notin {s, r} => e[u] = data[u]
  BY <1>4, <1>8, <1>9
<1> QED
  BY <1>1, <1>5, <1>7, <1>9, <1>10, <1>11, <1>12

LEMMA LogTransferAppends ==
    ASSUME TypeOK, NEW s, NEW r, NEW m \in U64,
           CanTransfer(s, r, m),
           NEW e, e = LogTransfer(MoveMoney(data, s, r, m), s, r, m)
    PROVE  \A u \in DOMAIN data :
               u \in DOMAIN e /\ (Kept(data[u], e[u]) \/ Appended(data[u], e[u]))
<1>1. /\ DOMAIN e = DOMAIN data /\ s \in DOMAIN data /\ r \in DOMAIN data
      /\ \A u \in DOMAIN data : u \notin {s, r} => e[u] = data[u]
  BY TransferHistories
<1>2. PICK out, in \in TransactionRecord :
          /\ s # r => /\ e[s].txns = Append(data[s].txns, out)
                      /\ e[r].txns = Append(data[r].txns, in)
          /\ s = r => e[s].txns = Append(Append(data[s].txns, out), in)
  BY TransferHistories
<1>3. ~data[s].isLocked /\ ~data[r].isLocked
  BY DEF CanTransfer, Open
<1>4. \A u \in DOMAIN data : data[u].txns \in Seq(TransactionRecord)
  BY DEF TypeOK, IsAccounts, UserState
<1>5. CASE s # r
  <2>1. e[s].txns = Append(data[s].txns, out) /\ e[r].txns = Append(data[r].txns, in)
    BY <1>2, <1>5
  <2>2. Appended(data[s], e[s])
    BY <1>1, <1>2, <1>3, <1>4, <2>1, AppendKeepsPrefix DEF Appended
  <2>3. Appended(data[r], e[r])
    BY <1>1, <1>2, <1>3, <1>4, <2>1, AppendKeepsPrefix DEF Appended
  <2> QED
    BY <1>1, <2>2, <2>3 DEF Kept
<1>6. CASE s = r
  <2> DEFINE once == Append(data[s].txns, out)
  <2>1. /\ once \in Seq(TransactionRecord) /\ Len(data[s].txns) <= Len(once)
        /\ \A k \in 1 .. Len(data[s].txns) : once[k] = data[s].txns[k]
    BY <1>1, <1>2, <1>4, AppendKeepsPrefix
  <2> HIDE DEF once
  <2>2. /\ Append(once, in) \in Seq(TransactionRecord) /\ Len(once) <= Len(Append(once, in))
        /\ \A k \in 1 .. Len(once) : Append(once, in)[k] = once[k]
    BY <1>2, <2>1, AppendKeepsPrefix
  <2>3. e[s].txns = Append(once, in)
    BY <1>2, <1>6 DEF once
  <2>4. /\ Len(data[s].txns) \in Nat /\ Len(once) \in Nat /\ Len(Append(once, in)) \in Nat
    BY <1>1, <1>4, <2>1, <2>2, LenProperties
  <2>5. Appended(data[s], e[s])
    BY <1>3, <2>1, <2>2, <2>3, <2>4 DEF Appended
  <2> QED
    BY <1>1, <1>6, <2>5 DEF Kept
<1> QED
  BY <1>5, <1>6

\* An operation with whatever names, passwords and amounts a packet carries.
AnyOperation ==
    \/ \E u, p : Authenticate(u, p) \/ ChangePassword(u, p) \/ CreateAccount(u, p)
    \/ \E u : ToggleAccount(u) \/ GetBalance(u)
    \/ \E u : \E c \in I64 : ChangeBalance(u, c)
    \/ \E s, r : \E m \in U64 : TransferBalance(s, r, m)
    \/ \E u, n : GetTransactions(u, n)
    \/ \E names : SearchUsers(names)

LEMMA NextOperates ==
    ASSUME [Next]_ledger
    PROVE  [AnyOperation]_ledger
BY InputsAssumption DEF Next, AnyOperation

LEMMA StepKeepsOrAppends ==
    ASSUME TypeOK, [AnyOperation]_ledger
    PROVE  Freezes(data, data') /\ Extends(data, data')
<1> DEFINE Fine(a, b) == Kept(a, b) \/ Appended(a, b)
           Goal == \A u \in DOMAIN data : u \in DOMAIN data' /\ Fine(data[u], data'[u])
<1>1. IsAccounts(data)
  BY DEF TypeOK
<1>2. (UNCHANGED data) => Goal
  BY DEF Kept
<1>3. Refuse => Goal
  BY <1>2 DEF Refuse
<1>4. (UNCHANGED ledger) => Goal
  BY <1>2 DEF ledger
<1>5. ASSUME NEW u, NEW p,
             Authenticate(u, p) \/ ChangePassword(u, p) \/ CreateAccount(u, p)
      PROVE  Goal
  <2>1. CASE Authenticate(u, p)
    BY <2>1, <1>2 DEF Authenticate, Answer
  <2>2. CASE ChangePassword(u, p) /\ ~Refuse
    <3>1. u \in DOMAIN data /\ data[u] \in UserState
      BY <2>2, <1>1 DEF ChangePassword, Exists, IsAccounts
    <3>2. data' = [data EXCEPT ![u].password = p]
      BY <2>2 DEF Hashed, ChangePassword, Commit
    <3>3. /\ DOMAIN data' = DOMAIN data
          /\ data'[u] = [data[u] EXCEPT !.password = p]
          /\ \A v \in DOMAIN data \ {u} : data'[v] = data[v]
      BY <3>1, <3>2, <1>1 DEF IsAccounts
    <3>4. Kept(data[u], data'[u])
      BY <3>1, <3>3 DEF Kept, UserState
    <3> QED
      BY <3>3, <3>4 DEF Kept
  <2>3. CASE CreateAccount(u, p) /\ ~Refuse
    BY <2>3 DEF CreateAccount, CanCreate, Commit, Kept, Exists
  <2> QED
    BY <1>3, <1>5, <2>1, <2>2, <2>3
<1>6. ASSUME NEW u, ToggleAccount(u) \/ GetBalance(u)
      PROVE  Goal
  <2>1. CASE ToggleAccount(u) /\ ~Refuse
    <3>1. u \in DOMAIN data /\ data[u] \in UserState
      BY <2>1, <1>1 DEF ToggleAccount, Exists, IsAccounts
    <3>2. data' = [data EXCEPT ![u].isLocked = ~@]
      BY <2>1 DEF ToggleAccount, Commit
    <3>3. /\ DOMAIN data' = DOMAIN data
          /\ data'[u] = [data[u] EXCEPT !.isLocked = ~@]
          /\ \A v \in DOMAIN data \ {u} : data'[v] = data[v]
      BY <3>1, <3>2, <1>1 DEF IsAccounts
    <3>4. Kept(data[u], data'[u])
      BY <3>1, <3>3 DEF Kept, UserState
    <3> QED
      BY <3>3, <3>4 DEF Kept
  <2>2. CASE GetBalance(u)
    BY <2>2, <1>2 DEF GetBalance, Answer
  <2> QED
    BY <1>3, <1>6, <2>1, <2>2
<1>7. ASSUME NEW u, NEW c \in I64, ChangeBalance(u, c)
      PROVE  Goal
  <2>1. CASE ~CanChange(u, c)
    BY <2>1, <1>3, <1>7 DEF ChangeBalance
  <2>2. CASE CanChange(u, c)
    <3>1. /\ u \in DOMAIN data /\ ~data[u].isLocked
          /\ data[u].txns \in Seq(TransactionRecord)
      BY <2>2, <1>1 DEF CanChange, Open, Exists, IsAccounts, UserState
    <3>2. PICK t \in TransactionRecord :
              /\ DOMAIN data' = DOMAIN data
              /\ data'[u].txns = Append(data[u].txns, t)
              /\ \A v \in DOMAIN data \ {u} : data'[v] = data[v]
      BY <1>7, <2>2, ChangeHistories
    <3>3. Appended(data[u], data'[u])
      BY <3>1, <3>2, AppendKeepsPrefix DEF Appended
    <3> QED
      BY <3>2, <3>3 DEF Kept
  <2> QED
    BY <2>1, <2>2
<1>8. ASSUME NEW s, NEW r, NEW m \in U64, TransferBalance(s, r, m)
      PROVE  Goal
  <2>1. CASE ~CanTransfer(s, r, m)
    BY <2>1, <1>3, <1>8 DEF TransferBalance
  <2>2. CASE CanTransfer(s, r, m)
    <3>1. data' = LogTransfer(MoveMoney(data, s, r, m), s, r, m)
      BY <2>2, <1>8 DEF TransferBalance, Commit
    <3> QED
      BY <2>2, <3>1, LogTransferAppends
  <2> QED
    BY <2>1, <2>2
<1>9. ASSUME NEW u, NEW n, GetTransactions(u, n)
      PROVE  Goal
  BY <1>9, <1>2 DEF GetTransactions, Answer
<1>10. ASSUME NEW names, SearchUsers(names)
       PROVE  Goal
  BY <1>10, <1>2 DEF SearchUsers, Answer
<1>11. Goal
  <2> HIDE DEF Goal
  <2> QED
    BY <1>4, <1>5, <1>6, <1>7, <1>8, <1>9, <1>10 DEF AnyOperation
<1> HIDE DEF Fine
<1> QED
  BY <1>1, <1>11, KeptOrAppended DEF Fine

\* README, Security Notes: a locked account cannot change balance or take part
\* in a transfer, at either end.
THEOREM LockedFrozen == Spec => LockedAccountsFrozen
<1>1. TypeOK /\ [Next]_ledger => [Freezes(data, data')]_ledger
  BY NextOperates, StepKeepsOrAppends
<1> QED
  BY <1>1, TypeCorrect, PTL DEF Spec, LockedAccountsFrozen

\* No operation rewrites, reorders or drops a record or an account.
THEOREM AppendOnly == Spec => HistoryOnlyGrows
<1>1. TypeOK /\ [Next]_ledger => [Extends(data, data')]_ledger
  BY NextOperates, StepKeepsOrAppends
<1> QED
  BY <1>1, TypeCorrect, PTL DEF Spec, HistoryOnlyGrows

-----------------------------------------------------------------------------
(* Both ends of every transfer.                                            *)

Transfers == {"transfer_out", "transfer_in"}

\* A history whose transfers are with some of `names` only.
Within(txns, names) ==
    \A k \in 1 .. Len(txns) : txns[k].type \in Transfers => txns[k].counterparty \in names

KnowsParties(d) == \A u \in DOMAIN d : Within(d[u].txns, DOMAIN d)

Linked(d) == IsPaired(d) /\ KnowsParties(d)

-----------------------------------------------------------------------------
(* Two histories.                                                          *)

\* What a record adds to the positions of the transfers sent and received.
LEMMA Appending ==
    ASSUME NEW S, NEW s \in Seq(S), NEW x \in S, NEW u
    PROVE  /\ Len(s) \in Nat /\ DOMAIN s = 1 .. Len(s)
           /\ \A k \in DOMAIN s : Append(s, x)[k] = s[k]
           /\ Append(s, x)[Len(s) + 1] = x
           /\ Sent(Append(s, x), u)
                  = Sent(s, u) \cup (IF x.type = "transfer_out" /\ x.counterparty = u
                                     THEN {Len(s) + 1} ELSE {})
           /\ Received(Append(s, x), u)
                  = Received(s, u) \cup (IF x.type = "transfer_in" /\ x.counterparty = u
                                         THEN {Len(s) + 1} ELSE {})
<1> DEFINE l == Append(s, x)
           n == Len(s) + 1
<1>1. /\ Len(s) \in Nat /\ DOMAIN s = 1 .. Len(s) /\ DOMAIN l = 1 .. n
      /\ \A k \in DOMAIN s : l[k] = s[k]
      /\ l[n] = x
  BY AppendProperties, LenProperties
<1>2. DOMAIN l = (DOMAIN s) \cup {n} /\ n \notin DOMAIN s
  BY <1>1
<1> HIDE DEF l, n
<1>3. Sent(l, u) = Sent(s, u) \cup (IF x.type = "transfer_out" /\ x.counterparty = u
                                   THEN {n} ELSE {})
  BY <1>1, <1>2 DEF Sent
<1>4. Received(l, u) = Received(s, u) \cup (IF x.type = "transfer_in" /\ x.counterparty = u
                                           THEN {n} ELSE {})
  BY <1>1, <1>2 DEF Received
<1> QED
  BY <1>1, <1>3, <1>4 DEF l, n

LEMMA WithinAppend ==
    ASSUME NEW S, NEW s \in Seq(S), NEW x \in S, NEW names, Within(s, names),
           x.type \in Transfers => x.counterparty \in names
    PROVE  Within(Append(s, x), names)
<1> DEFINE l == Append(s, x)
<1>1. /\ Len(s) \in Nat /\ Len(l) = Len(s) + 1
      /\ \A k \in 1 .. Len(s) : l[k] = s[k]
      /\ l[Len(s) + 1] = x
  BY AppendProperties, LenProperties
<1>2. \A k \in 1 .. Len(s) + 1 : k \in 1 .. Len(s) \/ k = Len(s) + 1
  BY <1>1
<1> QED
  BY <1>1, <1>2 DEF Within

\* A record that is not of a transfer to b.
LEMMA SenderAppends ==
    ASSUME NEW S, NEW s \in Seq(S), NEW x \in S, NEW t, NEW a, NEW b, InStep(s, t, a, b),
           ~ (x.type = "transfer_out" /\ x.counterparty = b)
    PROVE  InStep(Append(s, x), t, a, b)
<1> DEFINE l == Append(s, x)
<1>1. /\ Sent(l, b) = Sent(s, b) \cup (IF x.type = "transfer_out" /\ x.counterparty = b
                                     THEN {Len(s) + 1} ELSE {})
      /\ \A k \in DOMAIN s : l[k] = s[k]
  BY Appending
<1> HIDE DEF l
<1>2. Sent(l, b) = Sent(s, b) /\ \A k \in Sent(s, b) : l[k] = s[k]
  BY <1>1 DEF Sent
<1>3. InStep(l, t, a, b)
  BY <1>2 DEF InStep
<1> QED
  BY <1>3 DEF l

\* A record that is not of a transfer from a.
LEMMA RecipientAppends ==
    ASSUME NEW S, NEW s, NEW t \in Seq(S), NEW y \in S, NEW a, NEW b, InStep(s, t, a, b),
           ~ (y.type = "transfer_in" /\ y.counterparty = a)
    PROVE  InStep(s, Append(t, y), a, b)
<1> DEFINE l == Append(t, y)
<1>1. /\ Received(l, a)
             = Received(t, a) \cup (IF y.type = "transfer_in" /\ y.counterparty = a
                                    THEN {Len(t) + 1} ELSE {})
      /\ \A k \in DOMAIN t : l[k] = t[k]
  BY Appending
<1> HIDE DEF l
<1>2. Received(l, a) = Received(t, a) /\ \A k \in Received(t, a) : l[k] = t[k]
  BY <1>1 DEF Received
<1>3. PICK pair \in [Sent(s, b) -> Received(t, a)] :
          /\ \A k \in Received(t, a) : \E j \in Sent(s, b) : pair[j] = k
          /\ \A j, k \in Sent(s, b) : j < k => pair[j] < pair[k]
          /\ \A k \in Sent(s, b) : s[k].amount = t[pair[k]].amount
  BY DEF InStep
<1>4. \A k \in Sent(s, b) : s[k].amount = l[pair[k]].amount
  BY <1>2, <1>3
<1>5. InStep(s, l, a, b)
  BY <1>2, <1>3, <1>4 DEF InStep
<1> QED
  BY <1>5 DEF l

\* The two records of one transfer from a to b.
LEMMA BothAppend ==
    ASSUME NEW S, NEW s \in Seq(S), NEW t \in Seq(S), NEW x \in S, NEW y \in S, NEW a, NEW b,
           InStep(s, t, a, b),
           x.type = "transfer_out", x.counterparty = b,
           y.type = "transfer_in", y.counterparty = a, x.amount = y.amount
    PROVE  InStep(Append(s, x), Append(t, y), a, b)
<1> DEFINE l == Append(s, x)
           r == Append(t, y)
           n == Len(s) + 1
           m == Len(t) + 1
<1>1. /\ n \in Nat /\ Sent(l, b) = Sent(s, b) \cup {n} /\ l[n] = x
      /\ \A k \in Sent(s, b) : l[k] = s[k] /\ k \in Nat /\ k < n
  BY Appending DEF Sent
<1>2. /\ m \in Nat /\ Received(r, a) = Received(t, a) \cup {m} /\ r[m] = y
      /\ \A k \in Received(t, a) : r[k] = t[k] /\ k \in Nat /\ k < m
  BY Appending DEF Received
<1> HIDE DEF l, r, n, m
<1>3. PICK pair \in [Sent(s, b) -> Received(t, a)] :
          /\ \A k \in Received(t, a) : \E j \in Sent(s, b) : pair[j] = k
          /\ \A j, k \in Sent(s, b) : j < k => pair[j] < pair[k]
          /\ \A k \in Sent(s, b) : s[k].amount = t[pair[k]].amount
  BY DEF InStep
<1> DEFINE p == [k \in Sent(l, b) |-> IF k = n THEN m ELSE pair[k]]
<1>4. /\ p[n] = m
      /\ \A k \in Sent(s, b) : p[k] = pair[k] /\ pair[k] \in Received(t, a)
  BY <1>1, <1>3
<1>5. p \in [Sent(l, b) -> Received(r, a)]
  BY <1>1, <1>2, <1>3
<1> HIDE DEF p
<1>6. ASSUME NEW k \in Received(r, a)
      PROVE  \E j \in Sent(l, b) : p[j] = k
  <2>1. CASE k = m
    BY <1>1, <1>4, <2>1
  <2>2. CASE k \in Received(t, a)
    <3>1. PICK j \in Sent(s, b) : pair[j] = k
      BY <1>3, <2>2
    <3> QED
      BY <1>1, <1>4, <3>1
  <2> QED
    BY <1>2, <2>1, <2>2
<1>7. ASSUME NEW j \in Sent(l, b), NEW k \in Sent(l, b), j < k
      PROVE  p[j] < p[k]
  <2>1. j \in Sent(s, b)
    BY <1>1, <1>7
  <2>2. CASE k \in Sent(s, b)
    BY <1>3, <1>4, <1>7, <2>1, <2>2
  <2>3. CASE k = n
    BY <1>2, <1>4, <2>1, <2>3
  <2> QED
    BY <1>1, <2>2, <2>3
<1>8. \A k \in Sent(l, b) : l[k].amount = r[p[k]].amount
  BY <1>1, <1>2, <1>3, <1>4
<1>9. InStep(l, r, a, b)
  BY <1>5, <1>6, <1>7, <1>8 DEF InStep
<1> QED
  BY <1>9 DEF l, r

-----------------------------------------------------------------------------
(* All histories.                                                          *)

Grown(s, t) == s = t \/ \E x \in TransactionRecord : x.type \notin Transfers /\ t = Append(s, x)

\* Deposits and withdrawals have no other end.
LEMMA LinkedGrown ==
    ASSUME NEW d, NEW e, IsAccounts(d), Linked(d), DOMAIN e = DOMAIN d,
           \A u \in DOMAIN d : Grown(d[u].txns, e[u].txns)
    PROVE  Linked(e)
<1>1. \A u \in DOMAIN d : d[u].txns \in Seq(TransactionRecord)
  BY DEF IsAccounts, UserState
<1>2. ASSUME NEW a \in DOMAIN d, NEW b \in DOMAIN d
      PROVE  InStep(e[a].txns, e[b].txns, a, b)
  <2>1. InStep(d[a].txns, d[b].txns, a, b)
    BY DEF Linked, IsPaired
  <2>2. InStep(e[a].txns, d[b].txns, a, b)
    <3>1. CASE e[a].txns = d[a].txns
      BY <2>1, <3>1
    <3>2. ASSUME NEW x \in TransactionRecord, x.type \notin Transfers,
                 e[a].txns = Append(d[a].txns, x)
          PROVE  InStep(e[a].txns, d[b].txns, a, b)
      BY <1>1, <2>1, <3>2, SenderAppends DEF Transfers
    <3> QED
      BY <3>1, <3>2 DEF Grown
  <2>3. CASE e[b].txns = d[b].txns
    BY <2>2, <2>3
  <2>4. ASSUME NEW y \in TransactionRecord, y.type \notin Transfers,
               e[b].txns = Append(d[b].txns, y)
        PROVE  InStep(e[a].txns, e[b].txns, a, b)
    BY <1>1, <2>2, <2>4, RecipientAppends DEF Transfers
  <2> QED
    BY <2>3, <2>4 DEF Grown
<1>3. ASSUME NEW u \in DOMAIN d
      PROVE  Within(e[u].txns, DOMAIN d)
  <2>1. Within(d[u].txns, DOMAIN d)
    BY DEF Linked, KnowsParties
  <2> QED
    BY <1>1, <2>1, WithinAppend DEF Grown
<1> QED
  BY <1>2, <1>3 DEF Linked, IsPaired, KnowsParties

\* Nobody has sent anything to an account that did not exist.
LEMMA LinkedOpened ==
    ASSUME NEW d, NEW e, IsAccounts(d), Linked(d), NEW u, u \notin DOMAIN d,
           DOMAIN e = DOMAIN d \cup {u}, \A v \in DOMAIN d : e[v].txns = d[v].txns,
           NEW t, t.type \notin Transfers, e[u].txns = <<t>>
    PROVE  Linked(e)
<1>1. \A v \in DOMAIN d : d[v].txns \in Seq(TransactionRecord)
  BY DEF IsAccounts, UserState
<1>2. \A v : Sent(<<t>>, v) = {} /\ Received(<<t>>, v) = {}
  BY DEF Sent, Received, Transfers
<1>3. \A v \in DOMAIN d : DOMAIN d[v].txns = 1 .. Len(d[v].txns)
  BY <1>1, LenProperties
<1>4. \A v \in DOMAIN d : Sent(d[v].txns, u) = {} /\ Received(d[v].txns, u) = {}
  BY <1>3 DEF Sent, Received, Linked, KnowsParties, Within, Transfers
<1>5. \A s, r, a, b : Sent(s, b) = {} /\ Received(r, a) = {} => InStep(s, r, a, b)
  <2> SUFFICES ASSUME NEW s, NEW r, NEW a, NEW b, Sent(s, b) = {}, Received(r, a) = {}
               PROVE  InStep(s, r, a, b)
    OBVIOUS
  <2>1. [k \in {} |-> k] \in [Sent(s, b) -> Received(r, a)]
    OBVIOUS
  <2> QED
    BY <2>1 DEF InStep
<1>6. ASSUME NEW a \in DOMAIN e, NEW b \in DOMAIN e
      PROVE  InStep(e[a].txns, e[b].txns, a, b)
  <2>1. CASE a \in DOMAIN d /\ b \in DOMAIN d
    BY <2>1 DEF Linked, IsPaired
  <2>2. CASE a = u \/ b = u
    <3>1. Sent(e[a].txns, b) = {} /\ Received(e[b].txns, a) = {}
      BY <1>2, <1>4, <2>2
    <3> QED
      BY <1>5, <3>1
  <2> QED
    BY <2>1, <2>2
<1>7. KnowsParties(e)
  <2>1. Len(<<t>>) = 1 /\ <<t>>[1] = t
    OBVIOUS
  <2> QED
    BY <2>1 DEF Linked, KnowsParties, Within
<1> QED
  BY <1>6, <1>7 DEF Linked, IsPaired

\* A transfer, whoever its two ends are.
LEMMA LinkedTransfer ==
    ASSUME NEW d, NEW e, IsAccounts(d), Linked(d), DOMAIN e = DOMAIN d,
           NEW s \in DOMAIN d, NEW r \in DOMAIN d,
           \A u \in DOMAIN d : u \notin {s, r} => e[u] = d[u],
           NEW out \in TransactionRecord, NEW in \in TransactionRecord,
           out.type = "transfer_out", out.counterparty = r,
           in.type = "transfer_in", in.counterparty = s, out.amount = in.amount,
           s # r => /\ e[s].txns = Append(d[s].txns, out)
                    /\ e[r].txns = Append(d[r].txns, in),
           s = r => e[s].txns = Append(Append(d[s].txns, out), in)
    PROVE  Linked(e)
<1> DEFINE S == TransactionRecord
<1>1. \A u \in DOMAIN d : d[u].txns \in Seq(S)
  BY DEF IsAccounts, UserState
<1>2. \A a, b \in DOMAIN d : InStep(d[a].txns, d[b].txns, a, b)
  BY DEF Linked, IsPaired
<1>3. out \in S /\ in \in S
  OBVIOUS
<1> HIDE DEF S
<1>4. \A a, b : \A t : InStep(d[s].txns, t, a, b) /\ b # r
                  => InStep(Append(d[s].txns, out), t, a, b)
  BY <1>1, <1>3, SenderAppends
<1>5. \A a, b : \A q \in Seq(S) : \A t : InStep(q, t, a, b) => InStep(Append(q, in), t, a, b)
  BY <1>3, SenderAppends
<1>6. \A a, b : \A q \in Seq(S) : \A t : InStep(t, q, a, b) => InStep(t, Append(q, out), a, b)
  BY <1>3, RecipientAppends
<1>7. \A a, b : \A q \in Seq(S) : \A t : InStep(t, q, a, b) /\ a # s
                                     => InStep(t, Append(q, in), a, b)
  BY <1>3, RecipientAppends
<1>8. \A q \in Seq(S) : InStep(d[s].txns, q, s, r)
                   => InStep(Append(d[s].txns, out), Append(q, in), s, r)
  BY <1>1, <1>3, BothAppend
<1>9. \A a, b \in DOMAIN d : InStep(e[a].txns, e[b].txns, a, b)
  <2>1. CASE s # r
    <3>1. ASSUME NEW a \in DOMAIN d, NEW b \in DOMAIN d, a # s \/ b # r
          PROVE  InStep(e[a].txns, e[b].txns, a, b)
      <4>1. InStep(e[a].txns, d[b].txns, a, b)
        <5>1. CASE a = s
          BY <1>2, <1>4, <2>1, <3>1, <5>1
        <5>2. CASE a = r
          BY <1>1, <1>2, <1>5, <2>1, <5>2
        <5> QED
          BY <1>2, <5>1, <5>2
      <4>2. CASE b = s
        BY <1>1, <1>6, <2>1, <4>1, <4>2
      <4>3. CASE b = r
        BY <1>1, <1>7, <2>1, <3>1, <4>1, <4>3
      <4> QED
        BY <4>1, <4>2, <4>3
    <3>2. InStep(e[s].txns, e[r].txns, s, r)
      BY <1>1, <1>2, <1>8, <2>1
    <3> QED
      BY <3>1, <3>2
  <2>2. CASE s = r
    <3> DEFINE once == Append(d[s].txns, out)
               twice == Append(once, in)
    <3>1. once \in Seq(S) /\ e[s].txns = twice
      BY <1>1, <1>3, <2>2, AppendProperties
    <3>2. ASSUME NEW a \in DOMAIN d, NEW b \in DOMAIN d, a # s \/ b # s
          PROVE  InStep(e[a].txns, e[b].txns, a, b)
      <4>1. InStep(e[a].txns, d[b].txns, a, b)
        <5>1. CASE a = s
          <6>1. InStep(once, d[b].txns, a, b)
            BY <1>2, <1>4, <2>2, <3>2, <5>1
          <6> QED
            BY <1>5, <3>1, <5>1, <6>1
        <5> QED
          BY <1>2, <2>2, <5>1
      <4>2. CASE b = s
        <5>1. InStep(e[a].txns, once, a, b)
          BY <1>1, <1>6, <4>1, <4>2
        <5> QED
          BY <1>7, <3>1, <3>2, <4>2, <5>1
      <4> QED
        BY <2>2, <4>1, <4>2
    <3>3. InStep(e[s].txns, e[s].txns, s, s)
      <4>1. InStep(d[s].txns, once, s, s)
        BY <1>1, <1>2, <1>6
      <4>2. InStep(once, twice, s, s)
        BY <1>8, <2>2, <3>1, <4>1
      <4> QED
        BY <1>5, <3>1, <4>2
    <3> QED
      BY <2>2, <3>2, <3>3
  <2> QED
    BY <2>1, <2>2
<1>10. KnowsParties(e)
  <2>1. \A u \in DOMAIN d : Within(d[u].txns, DOMAIN d)
    BY DEF Linked, KnowsParties
  <2>2. /\ Within(Append(d[s].txns, out), DOMAIN d) /\ Within(Append(d[r].txns, in), DOMAIN d)
        /\ Append(d[s].txns, out) \in Seq(S)
    BY <1>1, <1>3, <2>1, WithinAppend, AppendProperties
  <2>3. Within(Append(Append(d[s].txns, out), in), DOMAIN d)
    BY <1>3, <2>2, WithinAppend
  <2>4. Within(e[s].txns, DOMAIN d) /\ Within(e[r].txns, DOMAIN d)
    BY <2>2, <2>3
  <2> QED
    BY <2>1, <2>4 DEF KnowsParties
<1> QED
  BY <1>9, <1>10 DEF Linked, IsPaired

-----------------------------------------------------------------------------
(* Every operation.                                                        *)

LEMMA LinkedStep ==
    ASSUME TypeOK, Linked(data), [AnyOperation]_ledger
    PROVE  Linked(data')
<1>1. IsAccounts(data) /\ \A u \in DOMAIN data : data[u] \in UserState
  BY DEF TypeOK, IsAccounts
<1>2. CASE UNCHANGED data
  BY <1>2
<1>3. ASSUME NEW u, NEW p, ChangePassword(u, p), data' # data
      PROVE  Linked(data')
  <2>1. u \in DOMAIN data /\ data' = [data EXCEPT ![u].password = p]
    BY <1>3 DEF ChangePassword, Refuse, Exists, Commit, Hashed
  <2>2. DOMAIN data' = DOMAIN data /\ \A v \in DOMAIN data : data'[v].txns = data[v].txns
    BY <1>1, <2>1 DEF IsAccounts, UserState
  <2> QED
    BY <1>1, <2>2, LinkedGrown DEF Grown
<1>4. ASSUME NEW u, ToggleAccount(u), data' # data
      PROVE  Linked(data')
  <2>1. u \in DOMAIN data /\ data' = [data EXCEPT ![u].isLocked = ~@]
    BY <1>4 DEF ToggleAccount, Refuse, Exists, Commit
  <2>2. DOMAIN data' = DOMAIN data /\ \A v \in DOMAIN data : data'[v].txns = data[v].txns
    BY <1>1, <2>1 DEF IsAccounts, UserState
  <2> QED
    BY <1>1, <2>2, LinkedGrown DEF Grown
<1>5. ASSUME NEW u, NEW p, CreateAccount(u, p), data' # data
      PROVE  Linked(data')
  <2> DEFINE t == Txn("deposit", NoOne, DefaultBalance, DefaultBalance)
  <2>1. /\ u \notin DOMAIN data /\ DOMAIN data' = DOMAIN data \cup {u}
        /\ data'[u].txns = <<t>> /\ \A v \in DOMAIN data : data'[v] = data[v]
    <3> DEFINE opened == [password |-> Hashed(p), balance |-> DefaultBalance,
                          isLocked |-> FALSE, txns |-> <<t>>]
    <3>1. /\ u \notin DOMAIN data
          /\ data' = [v \in DOMAIN data \cup {u} |-> IF v = u THEN opened ELSE data[v]]
      BY <1>5 DEF CreateAccount, CanCreate, Refuse, Exists, Commit
    <3>2. opened.txns = <<t>>
      OBVIOUS
    <3> HIDE DEF opened, t
    <3> QED
      BY <3>1, <3>2
  <2>2. t.type \notin Transfers
    BY DEF Txn, Transfers
  <2> HIDE DEF t
  <2> QED
    BY <1>1, <2>1, <2>2, LinkedOpened
<1>6. ASSUME NEW u, NEW c \in I64, ChangeBalance(u, c), data' # data
      PROVE  Linked(data')
  <2>1. CanChange(u, c)
    BY <1>6 DEF ChangeBalance, Refuse
  <2>2. PICK t \in TransactionRecord :
            /\ t.type \notin Transfers /\ DOMAIN data' = DOMAIN data
            /\ data'[u].txns = Append(data[u].txns, t)
            /\ \A v \in DOMAIN data \ {u} : data'[v] = data[v]
    BY <1>6, <2>1, ChangeHistories DEF Transfers
  <2> QED
    BY <1>1, <2>2, LinkedGrown DEF Grown
<1>7. ASSUME NEW s, NEW r, NEW m \in U64, TransferBalance(s, r, m),
             data' # data
      PROVE  Linked(data')
  <2>1. CanTransfer(s, r, m) /\ data' = LogTransfer(MoveMoney(data, s, r, m), s, r, m)
    BY <1>7 DEF TransferBalance, Refuse, Commit
  <2> DEFINE e == data'
  <2>2. /\ DOMAIN e = DOMAIN data /\ s \in DOMAIN data /\ r \in DOMAIN data
        /\ \A u \in DOMAIN data : u \notin {s, r} => e[u] = data[u]
    BY <2>1, TransferHistories
  <2>3. PICK out, in \in TransactionRecord :
            /\ out.type = "transfer_out" /\ out.counterparty = r /\ out.amount = m
            /\ in.type = "transfer_in" /\ in.counterparty = s /\ in.amount = m
            /\ s # r => /\ e[s].txns = Append(data[s].txns, out)
                        /\ e[r].txns = Append(data[r].txns, in)
            /\ s = r => e[s].txns = Append(Append(data[s].txns, out), in)
    BY <2>1, TransferHistories
  <2> HIDE DEF e
  <2>4. out.amount = in.amount
    BY <2>3
  <2>5. Linked(e)
    <3>1. IsAccounts(data) /\ Linked(data) /\ DOMAIN e = DOMAIN data
      BY <1>1, <2>2
    <3>2. s \in DOMAIN data /\ r \in DOMAIN data
      BY <2>2
    <3>3. \A u \in DOMAIN data : u \notin {s, r} => e[u] = data[u]
      BY <2>2
    <3>4. /\ out.type = "transfer_out" /\ out.counterparty = r
          /\ in.type = "transfer_in" /\ in.counterparty = s
      BY <2>3
    <3> QED
      BY <2>3, <2>4, <3>1, <3>2, <3>3, <3>4, LinkedTransfer
  <2> QED
    BY <2>5 DEF e
<1>8. data' = data \/ \/ \E u, p : ChangePassword(u, p) \/ CreateAccount(u, p)
                      \/ \E u : ToggleAccount(u)
                      \/ \E u : \E c \in I64 : ChangeBalance(u, c)
                      \/ \E s, r : \E m \in U64 : TransferBalance(s, r, m)
  BY DEF AnyOperation, Authenticate, GetBalance, GetTransactions, SearchUsers, Answer, ledger
<1> QED
  BY <1>2, <1>3, <1>4, <1>5, <1>6, <1>7, <1>8

\* Every transfer is in both histories, in order and amount by amount, as long
\* as it was in the accounts the server started from.
THEOREM TransfersInBoth ==
    ASSUME Linked(Seed)
    PROVE  Spec => []TransfersPaired
<1>1. Init => Linked(data)
  BY DEF Init
<1>2. TypeOK /\ Linked(data) /\ [Next]_ledger => Linked(data)'
  BY NextOperates, LinkedStep
<1>3. Linked(data) => TransfersPaired
  BY DEF Linked, TransfersPaired
<1> QED
  BY <1>1, <1>2, <1>3, TypeCorrect, PTL DEF Spec

-----------------------------------------------------------------------------
LEMMA LeastNat ==
    ASSUME NEW T \in SUBSET Nat, T # {}
    PROVE  \E x \in T : \A y \in T : x <= y
<1> DEFINE R == OpToRel(<, Nat)
<1>1. IsWellFoundedOn(R, Nat)
  BY NatLessThanWellFounded
<1>2. \A x, y \in Nat : x < y => <<x, y>> \in R
  BY Zenon DEF OpToRel
<1> HIDE DEF R
<1>3. PICK x \in T : \A y \in T : ~ (<<y, x>> \in R)
  BY <1>1, WFMin
<1>4. \A y \in T : ~ (y < x)
  BY <1>2, <1>3
<1>5. \A y \in T : x <= y
  BY <1>4
<1> QED
  BY <1>5

-----------------------------------------------------------------------------
(* Sums over finite sets, as MapThenSumSet takes them.  The library's        *)
(* induction theorems cannot be used for them, so each fact is about the   *)
(* smallest subset it could fail for.                                      *)

\* The element a sum takes out of a set next.
Taken(s) == CHOOSE x \in s : TRUE

\* `g` is the sum of `f` over each subset of `S`.
Adds(g, f, S) ==
    g = [s \in SUBSET S |-> IF s = {} THEN 0 ELSE f[Taken(s)] + g[s \ {Taken(s)}]]

LEMMA SomeElement ==
    ASSUME NEW s, s # {}
    PROVE  Taken(s) \in s
BY DEF Taken

\* A family of subsets that is not empty has a smallest one.
LEMMA SmallestSubset ==
    ASSUME NEW S, IsFiniteSet(S), NEW F \in SUBSET SUBSET S, F # {}
    PROVE  \E s \in F : /\ IsFiniteSet(s)
                        /\ \A t \in F : Cardinality(s) <= Cardinality(t)
<1> DEFINE T == {n \in Nat : \E s \in F : Cardinality(s) = n}
<1>1. \A s \in F : IsFiniteSet(s) /\ Cardinality(s) \in Nat
  BY FS_Subset, FS_CardinalityType
<1>2. T \in SUBSET Nat /\ T # {}
  BY <1>1
<1>3. PICK n \in T : \A k \in T : n <= k
  BY <1>2, LeastNat
<1>4. PICK s \in F : Cardinality(s) = n
  BY <1>3
<1> QED
  BY <1>1, <1>3, <1>4

LEMMA Smaller ==
    ASSUME NEW s, IsFiniteSet(s), NEW x \in s
    PROVE  /\ IsFiniteSet(s \ {x}) /\ Cardinality(s) \in Nat /\ Cardinality(s \ {x}) \in Nat
           /\ Cardinality(s \ {x}) < Cardinality(s)
           /\ Cardinality(s \ {x}) = Cardinality(s) - 1
BY FS_RemoveElement, FS_CardinalityType

LEMMA SumsExist ==
    ASSUME NEW f, NEW S, IsFiniteSet(S)
    PROVE  \E g : Adds(g, f, S)
<1> DEFINE Small(n) == {s \in SUBSET S : Cardinality(s) <= n}
           Partial(g, n) == g = [s \in Small(n) |->
                                   IF s = {} THEN 0 ELSE f[Taken(s)] + g[s \ {Taken(s)}]]
           Missing == {n \in Nat : ~\E g : Partial(g, n)}
<1>1. \A s \in SUBSET S : IsFiniteSet(s) /\ Cardinality(s) \in Nat
  BY FS_Subset, FS_CardinalityType
<1>2. Missing = {}
  <2> SUFFICES ASSUME Missing # {} PROVE FALSE
    OBVIOUS
  <2>1. PICK n \in Missing : \A k \in Missing : n <= k
    BY LeastNat
  <2>2. CASE n = 0
    <3>1. Small(0) = {{}}
      BY <1>1, FS_EmptySet
    <3>2. Partial([s \in Small(0) |-> 0], 0)
      BY <3>1
    <3> QED
      BY <2>1, <2>2, <3>2
  <2>3. CASE n # 0
    <3>1. n - 1 \in Nat /\ n - 1 \notin Missing
      <4>1. n \in Nat
        OBVIOUS
      <4> HIDE DEF Missing
      <4> QED
        BY <2>1, <2>3, <4>1
    <3>2. PICK g : Partial(g, n - 1)
      <4>1. \A k \in Nat : k \notin Missing => \E g : Partial(g, k)
        <5> HIDE DEF Partial, Small
        <5> QED
          OBVIOUS
      <4> HIDE DEF Missing
      <4> QED
        BY <3>1, <4>1
    <3> DEFINE h == [s \in Small(n) |->
                       IF s = {} THEN 0 ELSE f[Taken(s)] + g[s \ {Taken(s)}]]
    <3>3. \A s \in Small(n - 1) : s \in Small(n) /\ h[s] = g[s]
      <4>1. \A s \in Small(n - 1) : s \in Small(n)
        BY <1>1, <3>1
      <4>2. \A s \in Small(n - 1) :
               g[s] = IF s = {} THEN 0 ELSE f[Taken(s)] + g[s \ {Taken(s)}]
        BY <3>2
      <4> QED
        BY <4>1, <4>2
    <3>4. \A s \in Small(n) : s # {} => s \ {Taken(s)} \in Small(n - 1)
      BY <1>1, <3>1, SomeElement, Smaller
    <3>5. \A s \in Small(n) :
             (IF s = {} THEN 0 ELSE f[Taken(s)] + g[s \ {Taken(s)}])
               = (IF s = {} THEN 0 ELSE f[Taken(s)] + h[s \ {Taken(s)}])
      BY <3>3, <3>4
    <3>6. Partial(h, n)
      BY <3>5
    <3> QED
      BY <2>1, <3>6
  <2> QED
    BY <2>1, <2>2, <2>3
<1>3. PICK g : Partial(g, Cardinality(S))
  BY <1>1, <1>2
<1>4. Small(Cardinality(S)) = SUBSET S
  BY <1>1, FS_Subset
<1> QED
  BY <1>3, <1>4 DEF Adds

\* Sums of the same numbers are the same.
LEMMA SumsAgree ==
    ASSUME NEW S, IsFiniteSet(S), NEW R \in SUBSET S,
           NEW g, NEW f, Adds(g, f, S), NEW h, NEW e, Adds(h, e, R),
           \A x \in R : f[x] = e[x]
    PROVE  g[R] = h[R]
<1> DEFINE F == {s \in SUBSET R : g[s] # h[s]}
<1> SUFFICES ASSUME F # {} PROVE FALSE
  OBVIOUS
<1>1. PICK s \in F : IsFiniteSet(s) /\ \A t \in F : Cardinality(s) <= Cardinality(t)
  <2>1. F \in SUBSET SUBSET R /\ IsFiniteSet(R)
    BY FS_Subset
  <2> HIDE DEF F
  <2> QED
    BY <2>1, SmallestSubset
<1>2. /\ g[s] = IF s = {} THEN 0 ELSE f[Taken(s)] + g[s \ {Taken(s)}]
      /\ h[s] = IF s = {} THEN 0 ELSE e[Taken(s)] + h[s \ {Taken(s)}]
  BY <1>1 DEF Adds
<1>3. s # {} /\ Taken(s) \in s
  BY <1>1, <1>2, SomeElement
<1>4. s \ {Taken(s)} \notin F
  BY <1>1, <1>3, Smaller
<1> QED
  BY <1>1, <1>2, <1>3, <1>4

LEMMA SumsAreNumbers ==
    ASSUME NEW S, IsFiniteSet(S), NEW g, NEW f, Adds(g, f, S), \A x \in S : f[x] \in Int
    PROVE  \A s \in SUBSET S : g[s] \in Int
<1> DEFINE F == {s \in SUBSET S : g[s] \notin Int}
<1> SUFFICES ASSUME F # {} PROVE FALSE
  OBVIOUS
<1>1. PICK s \in F : IsFiniteSet(s) /\ \A t \in F : Cardinality(s) <= Cardinality(t)
  BY SmallestSubset
<1>2. g[s] = IF s = {} THEN 0 ELSE f[Taken(s)] + g[s \ {Taken(s)}]
  BY <1>1 DEF Adds
<1>3. s # {} /\ Taken(s) \in s
  BY <1>1, <1>2, SomeElement
<1>4. /\ Cardinality(s \ {Taken(s)}) < Cardinality(s)
      /\ Cardinality(s \ {Taken(s)}) \in Nat /\ Cardinality(s) \in Nat
  BY <1>1, <1>3, Smaller
<1>5. s \ {Taken(s)} \notin F
  BY <1>1, <1>4
<1> QED
  BY <1>1, <1>2, <1>3, <1>5

\* Whatever element a sum takes first, any other could have been.
LEMMA SumWithout ==
    ASSUME NEW S, IsFiniteSet(S), NEW g, NEW f, Adds(g, f, S), \A x \in S : f[x] \in Int,
           NEW a \in S
    PROVE  g[S] = f[a] + g[S \ {a}]
<1> DEFINE F == {s \in SUBSET S : \E b \in s : g[s] # f[b] + g[s \ {b}]}
<1>1. \A s \in SUBSET S : g[s] \in Int
  BY SumsAreNumbers
<1>2. SUFFICES ASSUME F # {} PROVE FALSE
  OBVIOUS
<1>3. PICK s \in F : IsFiniteSet(s) /\ \A t \in F : Cardinality(s) <= Cardinality(t)
  <2>1. F \in SUBSET SUBSET S
    OBVIOUS
  <2> HIDE DEF F
  <2> QED
    BY <1>2, <2>1, SmallestSubset
<1>4. PICK b \in s : g[s] # f[b] + g[s \ {b}]
  OBVIOUS
<1>5. PICK x : x = Taken(s)
  OBVIOUS
<1>6. s \in SUBSET S /\ x \in s
  BY <1>4, <1>5, SomeElement
<1>7. g[s] = f[x] + g[s \ {x}]
  BY <1>5, <1>6 DEF Adds
<1>8. x # b
  BY <1>4, <1>7
<1>9. ASSUME NEW y \in s
      PROVE  s \ {y} \in SUBSET S /\ \A z \in s \ {y} : g[s \ {y}] = f[z] + g[(s \ {y}) \ {z}]
  <2>1. Cardinality(s \ {y}) < Cardinality(s) /\ Cardinality(s \ {y}) \in Nat
        /\ Cardinality(s) \in Nat
    BY <1>3, Smaller
  <2>2. s \ {y} \notin F
    BY <1>3, <2>1
  <2> QED
    BY <1>6, <2>2
<1>10. /\ g[s \ {x}] = f[b] + g[(s \ {x}) \ {b}]
       /\ g[s \ {b}] = f[x] + g[(s \ {b}) \ {x}]
  BY <1>4, <1>6, <1>8, <1>9
<1>11. (s \ {x}) \ {b} = (s \ {b}) \ {x}
  OBVIOUS
<1>12. f[x] \in Int /\ f[b] \in Int /\ g[(s \ {b}) \ {x}] \in Int
  BY <1>1, <1>4, <1>6
<1>13. f[x] + (f[b] + g[(s \ {b}) \ {x}]) = f[b] + (f[x] + g[(s \ {b}) \ {x}])
  BY <1>12
<1> HIDE DEF F
<1> QED
  BY <1>4, <1>7, <1>10, <1>11, <1>13

-----------------------------------------------------------------------------
(* The money of all accounts.                                              *)

Balances(d) == [u \in DOMAIN d |-> d[u].balance]

LEMMA TotalIsSum ==
    ASSUME NEW d, IsFiniteSet(DOMAIN d)
    PROVE  \E g : Adds(g, Balances(d), DOMAIN d) /\ TotalBalance(d) = g[DOMAIN d]
<1> DEFINE Sums(h) ==
              h = [s \in SUBSET DOMAIN d |->
                     IF s = {} THEN 0
                     ELSE d[CHOOSE x \in s : TRUE].balance + h[s \ {CHOOSE x \in s : TRUE}]]
           iter == CHOOSE h : Sums(h)
<1>1. \A h : Sums(h) <=> Adds(h, Balances(d), DOMAIN d)
  BY DEF Adds, Taken, Balances
<1>2. PICK g : Adds(g, Balances(d), DOMAIN d)
  BY SumsExist
<1>3. Sums(iter)
  <2> HIDE DEF Sums
  <2>1. Sums(g)
    BY <1>1, <1>2
  <2> QED
    BY <2>1
<1>4. TotalBalance(d) = iter[DOMAIN d]
  BY DEF TotalBalance, MapThenSumSet, MapThenFoldSet
<1> QED
  BY <1>1, <1>3, <1>4

\* Accounts that differ in the balance of `a` only, who may be a new customer.
DifferAt(d, e, a) ==
    /\ a \in DOMAIN e /\ DOMAIN e = DOMAIN d \cup {a}
    /\ \A u \in DOMAIN d : d[u].balance \in Int
    /\ \A u \in DOMAIN e : e[u].balance \in Int
    /\ \A u \in DOMAIN d \ {a} : e[u].balance = d[u].balance

LEMMA TotalsDiffer ==
    ASSUME NEW d, NEW e, NEW a, IsFiniteSet(DOMAIN d), DifferAt(d, e, a)
    PROVE  /\ TotalBalance(d) \in Int /\ TotalBalance(e) \in Int
           /\ TotalBalance(e) = TotalBalance(d) + e[a].balance
                                  - (IF a \in DOMAIN d THEN d[a].balance ELSE 0)
<1> USE DEF DifferAt
<1> DEFINE R == DOMAIN e \ {a}
<1>1. IsFiniteSet(DOMAIN e) /\ IsFiniteSet(R)
  BY FS_AddElement, FS_RemoveElement
<1>2. PICK g : Adds(g, Balances(d), DOMAIN d) /\ TotalBalance(d) = g[DOMAIN d]
  BY TotalIsSum
<1>3. PICK h : Adds(h, Balances(e), DOMAIN e) /\ TotalBalance(e) = h[DOMAIN e]
  BY <1>1, TotalIsSum
<1>4. PICK k : Adds(k, Balances(d), R)
  BY <1>1, SumsExist
<1>5. /\ \A u \in DOMAIN d : Balances(d)[u] = d[u].balance /\ Balances(d)[u] \in Int
      /\ \A u \in DOMAIN e : Balances(e)[u] = e[u].balance /\ Balances(e)[u] \in Int
  BY DEF Balances
<1>6. R \in SUBSET DOMAIN d /\ R \in SUBSET DOMAIN e
  OBVIOUS
<1>7. g[R] = k[R]
  BY <1>2, <1>4, <1>6, SumsAgree
<1>8. h[R] = k[R]
  <2>1. \A u \in R : Balances(e)[u] = Balances(d)[u]
    BY <1>5
  <2> QED
    BY <1>1, <1>3, <1>4, <1>6, <2>1, SumsAgree
<1>9. /\ \A s \in SUBSET DOMAIN d : g[s] \in Int
      /\ \A s \in SUBSET DOMAIN e : h[s] \in Int
  BY <1>1, <1>2, <1>3, <1>5, SumsAreNumbers
<1>10. h[DOMAIN e] = e[a].balance + h[R]
  <2>1. \A x \in DOMAIN e : Balances(e)[x] \in Int
    BY <1>5
  <2>2. IsFiniteSet(DOMAIN e) /\ Adds(h, Balances(e), DOMAIN e)
    BY <1>1, <1>3
  <2>3. h[DOMAIN e] = Balances(e)[a] + h[DOMAIN e \ {a}]
    BY <2>1, <2>2, SumWithout
  <2> QED
    BY <1>5, <2>3
<1>11. g[DOMAIN d] = (IF a \in DOMAIN d THEN d[a].balance ELSE 0) + g[R]
  <2>1. CASE a \in DOMAIN d
    <3>1. R = DOMAIN d \ {a}
      BY <2>1
    <3> QED
      <4>1. \A x \in DOMAIN d : Balances(d)[x] \in Int
        BY <1>5
      <4>2. g[DOMAIN d] = Balances(d)[a] + g[DOMAIN d \ {a}]
        BY <1>2, <2>1, <4>1, SumWithout
      <4> QED
        BY <1>5, <2>1, <3>1, <4>2
  <2>2. CASE a \notin DOMAIN d
    <3>1. R = DOMAIN d
      BY <2>2
    <3>2. g[R] \in Int
      BY <1>6, <1>9
    <3> QED
      BY <2>2, <3>1, <3>2
  <2> QED
    BY <2>1, <2>2
<1>12. g[R] \in Int /\ e[a].balance \in Int /\ (a \in DOMAIN d => d[a].balance \in Int)
       /\ g[DOMAIN d] \in Int /\ h[DOMAIN e] \in Int
  BY <1>6, <1>9
<1> QED
  BY <1>2, <1>3, <1>7, <1>8, <1>10, <1>11, <1>12

\* The deposits and withdrawals among the new records, and what they come to.
Cash == {"deposit", "withdraw"}
FirstNew(d, u) == IF u \in DOMAIN d THEN Len(d[u].txns) + 1 ELSE 1
NewCash(d, e) == {r \in NewTxns(d, e) : e[r[1]].txns[r[2]].type \in Cash}
Nets(d, e) == [r \in NewCash(d, e) |-> Net(r[1], e[r[1]].txns[r[2]])]

LEMMA CashIsSum ==
    ASSUME NEW d, NEW e, IsFiniteSet(NewCash(d, e))
    PROVE  \E g : Adds(g, Nets(d, e), NewCash(d, e)) /\ CashFlow(d, e) = g[NewCash(d, e)]
<1> DEFINE Sums(h) ==
              h = [s \in SUBSET NewCash(d, e) |->
                     IF s = {} THEN 0
                     ELSE Net((CHOOSE x \in s : TRUE)[1],
                              e[(CHOOSE x \in s : TRUE)[1]].txns[(CHOOSE x \in s : TRUE)[2]])
                          + h[s \ {CHOOSE x \in s : TRUE}]]
           iter == CHOOSE h : Sums(h)
<1>1. \A h : Sums(h) <=> Adds(h, Nets(d, e), NewCash(d, e))
  BY DEF Adds, Taken, Nets
<1>2. PICK g : Adds(g, Nets(d, e), NewCash(d, e))
  BY SumsExist
<1>3. Sums(iter)
  <2> HIDE DEF Sums
  <2>1. Sums(g)
    BY <1>1, <1>2
  <2> QED
    BY <2>1
<1>4. CashFlow(d, e) = iter[NewCash(d, e)]
  BY DEF CashFlow, MapThenSumSet, MapThenFoldSet, NewCash, Cash
<1> QED
  BY <1>1, <1>3, <1>4

LEMMA NewOnes ==
    ASSUME NEW d, NEW e, NEW r
    PROVE  r \in NewTxns(d, e) <=>
              \E u \in DOMAIN e : \E k \in FirstNew(d, u) .. Len(e[u].txns) : r = <<u, k>>
BY DEF NewTxns, FirstNew

LEMMA NoCash ==
    ASSUME NEW d, NEW e,
           \A u \in DOMAIN e : \A k \in FirstNew(d, u) .. Len(e[u].txns) :
               e[u].txns[k].type \notin Cash
    PROVE  CashFlow(d, e) = 0
<1>1. NewCash(d, e) = {}
  BY NewOnes DEF NewCash
<1>2. PICK g : Adds(g, Nets(d, e), {}) /\ CashFlow(d, e) = g[{}]
  BY <1>1, CashIsSum, FS_EmptySet
<1> QED
  BY <1>2 DEF Adds

\* The only new record is the `n`th of `a`, a deposit or a withdrawal.
OneNew(d, e, a, n) ==
    /\ a \in DOMAIN e /\ n \in Nat /\ n = Len(e[a].txns) /\ FirstNew(d, a) = n
    /\ e[a].txns[n].type \in Cash /\ Net(a, e[a].txns[n]) \in Int
    /\ \A u \in DOMAIN e \ {a} : \A k \in FirstNew(d, u) .. Len(e[u].txns) : FALSE

LEMMA OneInCash ==
    ASSUME NEW d, NEW e, NEW a, NEW n, OneNew(d, e, a, n)
    PROVE  CashFlow(d, e) = Net(a, e[a].txns[n])
<1> USE DEF OneNew
<1> DEFINE r == <<a, n>>
<1>1. \A k \in n .. n : k = n
  OBVIOUS
<1>2. n \in n .. n
  OBVIOUS
<1>3. NewCash(d, e) = {r}
  <2>1. r \in NewCash(d, e)
    BY <1>2, NewOnes DEF NewCash
  <2>2. ASSUME NEW x \in NewCash(d, e) PROVE x = r
    BY <1>1, NewOnes DEF NewCash
  <2> QED
    BY <2>1, <2>2
<1>4. PICK g : Adds(g, Nets(d, e), {r}) /\ CashFlow(d, e) = g[{r}]
  <2>1. IsFiniteSet({r})
    BY FS_Singleton
  <2>2. IsFiniteSet(NewCash(d, e))
    BY <1>3, <2>1
  <2> QED
    BY <1>3, <2>2, CashIsSum
<1>5. Taken({r}) = r /\ {r} \ {r} = {} /\ {r} # {}
  BY DEF Taken
<1>6. Nets(d, e)[r] = Net(a, e[a].txns[n])
  BY <1>3 DEF Nets
<1>7. g[{}] = 0
  BY <1>4 DEF Adds
<1>8. g[{r}] = Nets(d, e)[r] + g[{}]
  BY <1>4, <1>5 DEF Adds
<1> QED
  BY <1>4, <1>6, <1>7, <1>8

LEMMA Multiples == 0 % Limit = 0 /\ Limit % Limit = 0 /\ (-Limit) % Limit = 0
BY LimitAssumption

LEMMA TotalStands ==
    ASSUME NEW d, NEW e, IsFiniteSet(DOMAIN d), DOMAIN e = DOMAIN d,
           \A u \in DOMAIN d : d[u].balance \in Int /\ e[u].balance = d[u].balance
    PROVE  TotalBalance(d) \in Int /\ TotalBalance(e) = TotalBalance(d)
<1>1. PICK g : Adds(g, Balances(d), DOMAIN d) /\ TotalBalance(d) = g[DOMAIN d]
  BY TotalIsSum
<1>2. PICK h : Adds(h, Balances(e), DOMAIN d) /\ TotalBalance(e) = h[DOMAIN d]
  BY TotalIsSum
<1>3. /\ \A u \in DOMAIN d : Balances(d)[u] = Balances(e)[u]
      /\ \A u \in DOMAIN d : Balances(d)[u] \in Int
  BY DEF Balances
<1>4. DOMAIN d \in SUBSET DOMAIN d
  OBVIOUS
<1>5. g[DOMAIN d] = h[DOMAIN d]
  BY <1>1, <1>2, <1>3, <1>4, SumsAgree
<1>6. g[DOMAIN d] \in Int
  BY <1>1, <1>3, <1>4, SumsAreNumbers
<1> QED
  BY <1>1, <1>2, <1>5, <1>6

-----------------------------------------------------------------------------
(* What each operation does to it.                                         *)

Conserves(d, e) == (TotalBalance(e) - TotalBalance(d) - CashFlow(d, e)) % Limit = 0

LEMMA AccountTypes ==
    ASSUME TypeOK, NEW u \in DOMAIN data
    PROVE  /\ data[u] \in UserState /\ data[u].balance \in U64 /\ data[u].balance \in Int
           /\ data[u].txns \in Seq(TransactionRecord) /\ Len(data[u].txns) \in Nat
<1>1. data[u] \in UserState
  BY DEF TypeOK, IsAccounts
<1>2. data[u].balance \in U64 /\ data[u].txns \in Seq(TransactionRecord)
  BY <1>1 DEF UserState
<1> QED
  BY <1>1, <1>2, LenProperties, LimitAssumption DEF U64

\* What moves no money and writes no record.
LEMMA KeptConserves ==
    ASSUME TypeOK, IsFiniteSet(DOMAIN data), DOMAIN data' = DOMAIN data,
           \A u \in DOMAIN data : Kept(data[u], data'[u])
    PROVE  Conserves(data, data')
<1>1. TotalBalance(data) \in Int /\ TotalBalance(data') = TotalBalance(data)
  BY AccountTypes, TotalStands DEF Kept
<1>2. CashFlow(data, data') = 0
  <2>1. ASSUME NEW u \in DOMAIN data', NEW k \in FirstNew(data, u) .. Len(data'[u].txns)
        PROVE  FALSE
    BY <2>1, AccountTypes DEF Kept, FirstNew
  <2> QED
    BY <2>1, NoCash
<1>3. TotalBalance(data') - TotalBalance(data) - CashFlow(data, data') = 0
  BY <1>1, <1>2
<1> QED
  BY <1>3, Multiples DEF Conserves

LEMMA CreateConserves ==
    ASSUME TypeOK, IsFiniteSet(DOMAIN data), NEW u, NEW p, CreateAccount(u, p), CanCreate(u)
    PROVE  Conserves(data, data') /\ IsFiniteSet(DOMAIN data')
<1> DEFINE t == Txn("deposit", NoOne, DefaultBalance, DefaultBalance)
           opened == [password |-> Hashed(p), balance |-> DefaultBalance,
                      isLocked |-> FALSE, txns |-> <<t>>]
<1>1. /\ u \in SafeUsers /\ u \notin DOMAIN data
      /\ data' = [v \in DOMAIN data \cup {u} |-> IF v = u THEN opened ELSE data[v]]
  BY DEF CreateAccount, CanCreate, IsSafe, Exists, Commit
<1>2. /\ DOMAIN data' = DOMAIN data \cup {u} /\ \A v \in DOMAIN data : data'[v] = data[v]
      /\ data'[u].balance = DefaultBalance /\ data'[u].txns = <<t>>
  BY <1>1
<1>3. IsFiniteSet(DOMAIN data')
  BY <1>2, FS_AddElement
<1>4. DefaultBalance \in Int
  BY InputsAssumption, LimitAssumption DEF U64
<1>5. /\ TotalBalance(data) \in Int
      /\ TotalBalance(data') = TotalBalance(data) + DefaultBalance
  <2>1. /\ \A v \in DOMAIN data : data[v].balance \in Int
        /\ \A v \in DOMAIN data' : data'[v].balance \in Int
        /\ \A v \in DOMAIN data \ {u} : data'[v].balance = data[v].balance
    BY <1>2, <1>4, AccountTypes
  <2>2. u \in DOMAIN data' /\ DOMAIN data' = DOMAIN data \cup {u}
    BY <1>2
  <2>3. DifferAt(data, data', u)
    BY <2>1, <2>2 DEF DifferAt
  <2> QED
    BY <1>1, <1>2, <1>4, <2>3, TotalsDiffer
<1>6. CashFlow(data, data') = DefaultBalance
  <2>1. t.type = "deposit" /\ t.counterparty = NoOne /\ t.amount = DefaultBalance
    BY DEF Txn
  <2>2. Net(u, t) = DefaultBalance
    BY <1>1, <2>1, NamesAssumption DEF Net
  <2>3. Len(data'[u].txns) = 1 /\ data'[u].txns[1] = t /\ FirstNew(data, u) = 1
    BY <1>1, <1>2 DEF FirstNew
  <2>4. ASSUME NEW v \in DOMAIN data' \ {u}, NEW k \in FirstNew(data, v) .. Len(data'[v].txns)
        PROVE  FALSE
    BY <1>2, AccountTypes DEF FirstNew
  <2> HIDE DEF t
  <2>5. /\ u \in DOMAIN data' /\ 1 \in Nat /\ 1 = Len(data'[u].txns)
        /\ data'[u].txns[1].type \in Cash /\ Net(u, data'[u].txns[1]) = DefaultBalance
    BY <1>2, <2>1, <2>2, <2>3 DEF Cash
  <2>6. OneNew(data, data', u, 1)
    BY <1>4, <2>3, <2>4, <2>5 DEF OneNew
  <2> QED
    BY <2>5, <2>6, OneInCash
<1>7. TotalBalance(data') - TotalBalance(data) - CashFlow(data, data') = 0
  BY <1>4, <1>5, <1>6
<1> QED
  BY <1>3, <1>7, Multiples DEF Conserves

\* A sum that wraps is off by 2^64.
LEMMA WrapOff ==
    ASSUME NEW n \in Int
    PROVE  Wrap(n) \in Int /\ Wrap(n) - n \in {0, Limit, -Limit}
BY LimitAssumption DEF Wrap

LEMMA ChangeConserves ==
    ASSUME TypeOK, IsFiniteSet(DOMAIN data), NEW u, NEW c \in I64,
           ChangeBalance(u, c), CanChange(u, c)
    PROVE  Conserves(data, data') /\ DOMAIN data' = DOMAIN data
<1> DEFINE newBal == Wrap(data[u].balance + c)
           t == Txn(IF c >= 0 THEN "deposit" ELSE "withdraw", NoOne,
                    IF c < 0 THEN -c ELSE c, newBal)
           changed == [data EXCEPT ![u].balance = newBal]
<1>1. /\ u \in DOMAIN data /\ IsAccounts(data) /\ c \in Int
      /\ data' = AppendTxn(changed, u, t)
  BY DEF CanChange, Open, Exists, TypeOK, ChangeBalance, Commit, I64
<1>2. /\ DOMAIN data' = DOMAIN data /\ \A v \in DOMAIN data \ {u} : data'[v] = data[v]
      /\ data'[u].balance = newBal /\ data'[u].txns = Append(data[u].txns, t)
  <2>1. data[u] \in UserState
    BY <1>1, AccountTypes
  <2>2. /\ DOMAIN changed = DOMAIN data /\ \A v \in DOMAIN data \ {u} : changed[v] = data[v]
        /\ changed[u].balance = newBal /\ changed[u].txns = data[u].txns
        /\ changed[u] = [data[u] EXCEPT !.balance = newBal]
    BY <1>1, <2>1 DEF UserState
  <2>3. data' = [changed EXCEPT ![u].txns = Append(changed[u].txns, t)]
    BY <1>1 DEF AppendTxn
  <2>4. [data[u] EXCEPT !.balance = newBal] = [password |-> data[u].password,
            balance |-> newBal, isLocked |-> data[u].isLocked, txns |-> data[u].txns]
    BY <2>1 DEF UserState
  <2> HIDE DEF changed, t, newBal
  <2> QED
    BY <1>1, <2>2, <2>3, <2>4
<1>3. data[u].balance \in Int /\ newBal \in Int /\ newBal - data[u].balance - c \in {0, Limit, -Limit}
  BY <1>1, AccountTypes, WrapOff, LimitAssumption
<1> HIDE DEF newBal
<1>4. /\ TotalBalance(data) \in Int
      /\ TotalBalance(data') = TotalBalance(data) + newBal - data[u].balance
  <2>1. /\ \A v \in DOMAIN data : data[v].balance \in Int
        /\ \A v \in DOMAIN data' : data'[v].balance \in Int
        /\ \A v \in DOMAIN data \ {u} : data'[v].balance = data[v].balance
    BY <1>2, <1>3, AccountTypes
  <2>2. u \in DOMAIN data' /\ DOMAIN data' = DOMAIN data \cup {u}
    BY <1>1, <1>2
  <2>3. DifferAt(data, data', u)
    BY <2>1, <2>2 DEF DifferAt
  <2> QED
    BY <1>1, <1>2, <1>3, <2>3, TotalsDiffer
<1>5. CashFlow(data, data') = c
  <2>1. /\ t.type = IF c >= 0 THEN "deposit" ELSE "withdraw"
        /\ t.counterparty = NoOne /\ t.amount = IF c < 0 THEN -c ELSE c
    BY DEF Txn
  <2>2. u \in Users
    BY <1>1, Known
  <2>3. Net(u, t) = c /\ t.type \in Cash
    BY <1>1, <2>1, <2>2, NamesAssumption DEF Net, Cash
  <2> HIDE DEF t
  <2> DEFINE n == Len(data[u].txns) + 1
  <2>4. n \in Nat /\ Len(data'[u].txns) = n /\ data'[u].txns[n] = t /\ FirstNew(data, u) = n
    BY <1>1, <1>2, AccountTypes DEF FirstNew
  <2>5. ASSUME NEW v \in DOMAIN data' \ {u}, NEW k \in FirstNew(data, v) .. Len(data'[v].txns)
        PROVE  FALSE
    BY <1>2, AccountTypes DEF FirstNew
  <2>6. u \in DOMAIN data'
    BY <1>1, <1>2
  <2> HIDE DEF n
  <2>7. /\ data'[u].txns[n].type \in Cash /\ Net(u, data'[u].txns[n]) = c
        /\ n = Len(data'[u].txns)
    BY <2>3, <2>4
  <2>8. OneNew(data, data', u, n)
    BY <1>1, <2>4, <2>5, <2>6, <2>7 DEF OneNew
  <2> QED
    BY <2>7, <2>8, OneInCash
<1>6. TotalBalance(data') - TotalBalance(data) - CashFlow(data, data') \in {0, Limit, -Limit}
  BY <1>1, <1>3, <1>4, <1>5
<1> QED
  BY <1>2, <1>6, Multiples DEF Conserves
\* Writing a record leaves the money where it is.
LEMMA RecordKeepsMoney ==
    ASSUME NEW d, NEW u \in DOMAIN d, NEW t, d = [v \in DOMAIN d |-> d[v]],
           \A v \in DOMAIN d : d[v] \in UserState, NEW e, e = AppendTxn(d, u, t)
    PROVE  /\ e = [v \in DOMAIN d |-> e[v]] /\ DOMAIN e = DOMAIN d
           /\ \A v \in DOMAIN d : e[v].balance = d[v].balance
           /\ t \in TransactionRecord => \A v \in DOMAIN d : e[v] \in UserState
<1>1. /\ DOMAIN e = DOMAIN d /\ e = [v \in DOMAIN d |-> e[v]]
      /\ \A v \in DOMAIN d \ {u} : e[v] = d[v]
      /\ e[u] = [d[u] EXCEPT !.txns = Append(d[u].txns, t)]
  BY DEF AppendTxn
<1>2. e[u].balance = d[u].balance
  BY <1>1 DEF UserState
<1>3. t \in TransactionRecord => e[u] \in UserState
  <2> SUFFICES ASSUME t \in TransactionRecord PROVE e[u] \in UserState
    OBVIOUS
  <2>1. d[u].txns \in Seq(TransactionRecord)
    BY DEF UserState
  <2>2. Append(d[u].txns, t) \in Seq(TransactionRecord)
    BY <2>1, AppendProperties
  <2> QED
    BY <1>1, <2>2 DEF UserState
<1> QED
  BY <1>1, <1>2, <1>3

LEMMA MovedBalances ==
    ASSUME TypeOK, NEW s, NEW r, NEW m \in U64, CanTransfer(s, r, m),
           NEW e, e = LogTransfer(MoveMoney(data, s, r, m), s, r, m)
    PROVE  /\ \A u \in DOMAIN data : u \notin {s, r} => e[u].balance = data[u].balance
           /\ s # r => /\ e[s].balance = data[s].balance - m
                       /\ e[r].balance = Wrap(data[r].balance + m)
           /\ s = r => e[s].balance = data[s].balance
<1> DEFINE mv == MoveMoney(data, s, r, m)
           debited == [data EXCEPT ![s].balance = Wrap(@ - m)]
           out == Txn("transfer_out", r, m, mv[s].balance)
           in == Txn("transfer_in", s, m, mv[r].balance)
<1>1. /\ s \in DOMAIN data /\ r \in DOMAIN data /\ m <= data[s].balance
      /\ data = [v \in DOMAIN data |-> data[v]]
      /\ \A u \in DOMAIN data : data[u] \in UserState /\ data[u].balance \in U64
  BY AccountTypes DEF CanTransfer, Open, Exists, TypeOK, IsAccounts
<1>2. /\ Wrap(data[s].balance - m) = data[s].balance - m
      /\ Wrap(data[s].balance - m) \in U64
      /\ Wrap(Wrap(data[s].balance - m) + m) = data[s].balance
      /\ \A b \in U64 : Wrap(b + m) \in U64
  BY <1>1, WrapBack, LimitAssumption DEF U64, Wrap
<1>3. /\ DOMAIN debited = DOMAIN data /\ debited = [v \in DOMAIN data |-> debited[v]]
      /\ debited[s] = [data[s] EXCEPT !.balance = Wrap(data[s].balance - m)]
      /\ \A u \in DOMAIN data \ {s} : debited[u] = data[u]
  BY <1>1
<1>4. /\ \A u \in DOMAIN data : debited[u] \in UserState /\ debited[u].balance \in U64
      /\ debited[s].balance = Wrap(data[s].balance - m)
  <2> HIDE DEF debited
  <2>1. data[s] \in UserState /\ Wrap(data[s].balance - m) \in U64
    BY <1>1, <1>2
  <2>2. debited[s] \in UserState /\ debited[s].balance = Wrap(data[s].balance - m)
    BY <1>3, <2>1 DEF UserState
  <2>3. \A u \in DOMAIN data \ {s} : debited[u] \in UserState /\ debited[u].balance \in U64
    BY <1>1, <1>3
  <2> QED
    BY <2>1, <2>2, <2>3
<1>5. mv = [debited EXCEPT ![r].balance = Wrap(@ + m)]
  BY DEF MoveMoney
<1> HIDE DEF debited, mv, out, in
<1>6. /\ DOMAIN mv = DOMAIN data /\ mv = [v \in DOMAIN data |-> mv[v]]
      /\ mv[r] = [debited[r] EXCEPT !.balance = Wrap(debited[r].balance + m)]
      /\ \A u \in DOMAIN data \ {r} : mv[u] = debited[u]
  BY <1>1, <1>3, <1>5
<1>7. /\ \A u \in DOMAIN data : mv[u] \in UserState /\ mv[u].balance \in U64
      /\ mv[r].balance = Wrap(debited[r].balance + m)
  <2>1. debited[r] \in UserState /\ Wrap(debited[r].balance + m) \in U64
    BY <1>1, <1>2, <1>4
  <2>2. mv[r] \in UserState /\ mv[r].balance = Wrap(debited[r].balance + m)
    BY <1>6, <2>1 DEF UserState
  <2> QED
    BY <1>4, <1>6, <2>1, <2>2
<1>8. out \in TransactionRecord
  <2>1. r \in Users /\ mv[s].balance \in U64
    BY <1>1, <1>7, Known DEF TypeOK
  <2> QED
    BY <2>1 DEF out, Txn, TransactionRecord, TxnTypes
<1>9. e = AppendTxn(AppendTxn(mv, s, out), r, in)
  BY DEF LogTransfer, mv, out, in
<1>9a. PICK f : f = AppendTxn(mv, s, out)
  OBVIOUS
<1>10. /\ f = [v \in DOMAIN f |-> f[v]] /\ DOMAIN f = DOMAIN data
       /\ \A v \in DOMAIN data : f[v].balance = mv[v].balance /\ f[v] \in UserState
  <2>1. /\ s \in DOMAIN mv /\ \A v \in DOMAIN mv : mv[v] \in UserState
        /\ mv = [v \in DOMAIN mv |-> mv[v]]
    BY <1>1, <1>6, <1>7
  <2> QED
    <3>1. /\ f = [v \in DOMAIN mv |-> f[v]] /\ DOMAIN f = DOMAIN mv
          /\ \A v \in DOMAIN mv : f[v].balance = mv[v].balance
          /\ out \in TransactionRecord => \A v \in DOMAIN mv : f[v] \in UserState
      BY <1>9a, <2>1, RecordKeepsMoney
    <3> QED
      BY <1>6, <1>8, <3>1
<1>11. \A v \in DOMAIN data : e[v].balance = f[v].balance
  <2>1. e = AppendTxn(f, r, in)
    BY <1>9, <1>9a
  <2> QED
    BY <1>1, <1>10, <2>1, RecordKeepsMoney
<1>12. \A u \in DOMAIN data : u \notin {s, r} => e[u].balance = data[u].balance
  BY <1>3, <1>6, <1>10, <1>11
<1>13. s # r => /\ e[s].balance = data[s].balance - m
                /\ e[r].balance = Wrap(data[r].balance + m)
  BY <1>1, <1>2, <1>3, <1>4, <1>6, <1>7, <1>10, <1>11
<1>14. s = r => e[s].balance = data[s].balance
  BY <1>1, <1>2, <1>4, <1>7, <1>10, <1>11
<1> QED
  BY <1>12, <1>13, <1>14

\* The records of a transfer are neither deposits nor withdrawals.
LEMMA TransferNoCash ==
    ASSUME TypeOK, NEW s, NEW r, NEW m \in U64, CanTransfer(s, r, m),
           NEW e, e = LogTransfer(MoveMoney(data, s, r, m), s, r, m)
    PROVE  CashFlow(data, e) = 0
<1>1. /\ DOMAIN e = DOMAIN data /\ s \in DOMAIN data /\ r \in DOMAIN data
      /\ \A u \in DOMAIN data : u \notin {s, r} => e[u] = data[u]
  BY TransferHistories
<1>2. PICK out, in \in TransactionRecord :
          /\ out.type = "transfer_out" /\ in.type = "transfer_in"
          /\ s # r => /\ e[s].txns = Append(data[s].txns, out)
                      /\ e[r].txns = Append(data[r].txns, in)
          /\ s = r => e[s].txns = Append(Append(data[s].txns, out), in)
  BY TransferHistories
<1>3. out.type \notin Cash /\ in.type \notin Cash
  BY <1>2 DEF Cash
<1>4. \A u \in DOMAIN data : data[u].txns \in Seq(TransactionRecord)
  BY AccountTypes
<1>5. \A q \in Seq(TransactionRecord), t \in TransactionRecord :
          /\ Append(q, t) \in Seq(TransactionRecord)
          /\ Len(q) \in Nat /\ Len(Append(q, t)) = Len(q) + 1
          /\ \A k \in 1 .. Len(q) : Append(q, t)[k] = q[k]
          /\ Append(q, t)[Len(q) + 1] = t
  BY AppendProperties, LenProperties
<1>6. ASSUME NEW u \in DOMAIN data, NEW k \in Len(data[u].txns) + 1 .. Len(e[u].txns)
      PROVE  e[u].txns[k].type \notin Cash
  <2> DEFINE q == data[u].txns
  <2>1. q \in Seq(TransactionRecord) /\ Len(q) \in Nat
    BY <1>4, <1>5
  <2>2. CASE u \notin {s, r}
    BY <1>1, <2>1, <2>2
  <2>3. ASSUME NEW t \in TransactionRecord, t.type \notin Cash, e[u].txns = Append(q, t)
        PROVE  e[u].txns[k].type \notin Cash
    <3>1. Len(e[u].txns) = Len(q) + 1 /\ e[u].txns[Len(q) + 1] = t
      BY <1>5, <2>1, <2>3
    <3>2. k = Len(q) + 1
      BY <2>1, <3>1
    <3> QED
      BY <2>3, <3>1, <3>2
  <2>4. CASE s # r /\ u \in {s, r}
    BY <1>2, <1>3, <2>3, <2>4
  <2>5. CASE s = r /\ u = s
    <3> DEFINE once == Append(q, out)
    <3>1. /\ once \in Seq(TransactionRecord) /\ Len(once) = Len(q) + 1
          /\ once[Len(q) + 1] = out /\ e[u].txns = Append(once, in)
      BY <1>2, <1>5, <2>1, <2>5
    <3> HIDE DEF once
    <3>2. /\ Len(e[u].txns) = Len(q) + 2 /\ e[u].txns[Len(q) + 2] = in
          /\ e[u].txns[Len(q) + 1] = out
      <4>1. Len(Append(once, in)) = Len(once) + 1 /\ Append(once, in)[Len(once) + 1] = in
            /\ \A j \in 1 .. Len(once) : Append(once, in)[j] = once[j]
        BY <1>5, <3>1
      <4>2. Len(once) + 1 = Len(q) + 2 /\ Len(q) + 1 \in 1 .. Len(once)
        BY <2>1, <3>1
      <4> QED
        BY <3>1, <4>1, <4>2
    <3>3. k = Len(q) + 1 \/ k = Len(q) + 2
      BY <2>1, <3>2
    <3> QED
      BY <1>3, <3>2, <3>3
  <2> QED
    BY <2>2, <2>4, <2>5
<1> QED
  BY <1>1, <1>6, NoCash DEF FirstNew

LEMMA TransferConserves ==
    ASSUME TypeOK, IsFiniteSet(DOMAIN data), NEW s, NEW r, NEW m \in U64, CanTransfer(s, r, m),
           NEW e, e = LogTransfer(MoveMoney(data, s, r, m), s, r, m)
    PROVE  Conserves(data, e) /\ DOMAIN e = DOMAIN data
<1>1. DOMAIN e = DOMAIN data /\ s \in DOMAIN data /\ r \in DOMAIN data
  BY TransferHistories
<1>2. /\ \A u \in DOMAIN data : u \notin {s, r} => e[u].balance = data[u].balance
      /\ s # r => /\ e[s].balance = data[s].balance - m
                  /\ e[r].balance = Wrap(data[r].balance + m)
      /\ s = r => e[s].balance = data[s].balance
  BY MovedBalances
<1>3. CashFlow(data, e) = 0
  BY TransferNoCash
<1>4. m \in Int /\ \A u \in DOMAIN data : data[u].balance \in Int
  BY AccountTypes DEF U64
<1>5. TotalBalance(e) \in Int /\ TotalBalance(data) \in Int
      /\ TotalBalance(e) - TotalBalance(data) \in {0, Limit, -Limit}
  <2>1. CASE s = r
    <3>1. \A u \in DOMAIN data : data[u].balance \in Int /\ e[u].balance = data[u].balance
      BY <1>2, <1>4, <2>1
    <3> QED
      BY <1>1, <3>1, TotalStands
  <2>2. CASE s # r
    <3> DEFINE d == [data EXCEPT ![s] = e[s]]
    <3>1. /\ DOMAIN d = DOMAIN data /\ d[s] = e[s]
          /\ \A u \in DOMAIN data \ {s} : d[u] = data[u]
      BY <1>1 DEF TypeOK, IsAccounts
    <3> HIDE DEF d
    <3>2. data[s].balance - m \in Int /\ data[r].balance + m \in Int
      BY <1>1, <1>4
    <3>3. /\ Wrap(data[r].balance + m) \in Int
          /\ Wrap(data[r].balance + m) - (data[r].balance + m) \in {0, Limit, -Limit}
      BY <3>2, WrapOff
    <3>4. \A u \in DOMAIN data : d[u].balance \in Int /\ e[u].balance \in Int
      BY <1>2, <1>4, <2>2, <3>1, <3>2, <3>3
    <3>5. DifferAt(data, d, s) /\ DifferAt(d, e, r)
      <4>1. DOMAIN d = DOMAIN data \cup {s} /\ DOMAIN e = DOMAIN d \cup {r}
        BY <1>1, <3>1
      <4>2. \A u \in DOMAIN d \ {r} : e[u].balance = d[u].balance
        BY <1>2, <3>1
      <4>3. \A u \in DOMAIN data \ {s} : d[u].balance = data[u].balance
        BY <3>1
      <4> QED
        BY <1>1, <1>4, <3>1, <3>4, <4>1, <4>2, <4>3 DEF DifferAt
    <3>6. /\ TotalBalance(data) \in Int /\ TotalBalance(d) \in Int
          /\ TotalBalance(d) = TotalBalance(data) + d[s].balance - data[s].balance
      BY <1>1, <3>5, TotalsDiffer
    <3>7. /\ TotalBalance(e) \in Int
          /\ TotalBalance(e) = TotalBalance(d) + e[r].balance - d[r].balance
      BY <1>1, <3>1, <3>5, TotalsDiffer
    <3>8. /\ d[s].balance = data[s].balance - m /\ d[r].balance = data[r].balance
          /\ e[r].balance = Wrap(data[r].balance + m)
      BY <1>1, <1>2, <2>2, <3>1
    <3>9. TotalBalance(e) - TotalBalance(data)
            = Wrap(data[r].balance + m) - (data[r].balance + m)
      BY <1>1, <1>4, <3>3, <3>6, <3>7, <3>8
    <3> QED
      BY <3>3, <3>6, <3>7, <3>9
  <2> QED
    BY <2>1, <2>2
<1>6. TotalBalance(e) - TotalBalance(data) - CashFlow(data, e) \in {0, Limit, -Limit}
  BY <1>3, <1>5, LimitAssumption
<1> QED
  BY <1>1, <1>6, Multiples DEF Conserves

LEMMA StepConserves ==
    ASSUME TypeOK, IsFiniteSet(DOMAIN data), [AnyOperation]_ledger
    PROVE  Conserves(data, data') /\ IsFiniteSet(DOMAIN data')
<1>1. IsAccounts(data)
  BY DEF TypeOK
<1>2. ASSUME DOMAIN data' = DOMAIN data, \A u \in DOMAIN data : Kept(data[u], data'[u])
      PROVE  Conserves(data, data') /\ IsFiniteSet(DOMAIN data')
  BY <1>2, KeptConserves
<1>3. CASE UNCHANGED data
  BY <1>2, <1>3 DEF Kept
<1>4. ASSUME NEW u, NEW p, ChangePassword(u, p), data' # data
      PROVE  Conserves(data, data') /\ IsFiniteSet(DOMAIN data')
  <2>1. u \in DOMAIN data /\ data' = [data EXCEPT ![u].password = p]
    BY <1>4 DEF ChangePassword, Refuse, Exists, Commit, Hashed
  <2>2. DOMAIN data' = DOMAIN data /\ \A v \in DOMAIN data : Kept(data[v], data'[v])
    BY <1>1, <2>1 DEF IsAccounts, UserState, Kept
  <2> QED
    BY <1>2, <2>2
<1>5. ASSUME NEW u, ToggleAccount(u), data' # data
      PROVE  Conserves(data, data') /\ IsFiniteSet(DOMAIN data')
  <2>1. u \in DOMAIN data /\ data' = [data EXCEPT ![u].isLocked = ~@]
    BY <1>5 DEF ToggleAccount, Refuse, Exists, Commit
  <2>2. DOMAIN data' = DOMAIN data /\ \A v \in DOMAIN data : Kept(data[v], data'[v])
    BY <1>1, <2>1 DEF IsAccounts, UserState, Kept
  <2> QED
    BY <1>2, <2>2
<1>6. ASSUME NEW u, NEW p, CreateAccount(u, p), data' # data
      PROVE  Conserves(data, data') /\ IsFiniteSet(DOMAIN data')
  <2>1. CanCreate(u)
    BY <1>6 DEF CreateAccount, Refuse
  <2> QED
    BY <1>6, <2>1, CreateConserves
<1>7. ASSUME NEW u, NEW c \in I64, ChangeBalance(u, c), data' # data
      PROVE  Conserves(data, data') /\ IsFiniteSet(DOMAIN data')
  <2>1. CanChange(u, c)
    BY <1>7 DEF ChangeBalance, Refuse
  <2> QED
    BY <1>7, <2>1, ChangeConserves
<1>8. ASSUME NEW s, NEW r, NEW m \in U64, TransferBalance(s, r, m), data' # data
      PROVE  Conserves(data, data') /\ IsFiniteSet(DOMAIN data')
  <2>1. CanTransfer(s, r, m) /\ data' = LogTransfer(MoveMoney(data, s, r, m), s, r, m)
    BY <1>8 DEF TransferBalance, Refuse, Commit
  <2> QED
    BY <2>1, TransferConserves
<1>9. data' = data \/ \/ \E u, p : ChangePassword(u, p) \/ CreateAccount(u, p)
                      \/ \E u : ToggleAccount(u)
                      \/ \E u : \E c \in I64 : ChangeBalance(u, c)
                      \/ \E s, r : \E m \in U64 : TransferBalance(s, r, m)
  BY DEF AnyOperation, Authenticate, GetBalance, GetTransactions, SearchUsers, Answer, ledger
<1> QED
  BY <1>3, <1>4, <1>5, <1>6, <1>7, <1>8, <1>9

\* No operation makes money or loses it (Database.cpp, processItem): what all
\* accounts hold together changes by what the deposits and withdrawals it
\* records come to, modulo 2^64.
THEOREM MoneyStays ==
    ASSUME IsFiniteSet(DOMAIN Seed)
    PROVE  Spec => MoneyConserved
<1>1. Init => IsFiniteSet(DOMAIN data)
  BY DEF Init
<1>2. TypeOK /\ IsFiniteSet(DOMAIN data) /\ [Next]_ledger
        => IsFiniteSet(DOMAIN data)' /\ [Conserves(data, data')]_ledger
  BY NextOperates, StepConserves
<1>3. [Conserves(data, data')]_ledger
        <=> [(TotalBalance(data') - TotalBalance(data) - CashFlow(data, data'))
                % Limit = 0]_ledger
  BY DEF Conserves
<1> QED
  BY <1>1, <1>2, <1>3, TypeCorrect, PTL DEF Spec, MoneyConserved

=============================================================================
