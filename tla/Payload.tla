------------------------------ MODULE Payload ------------------------------
(***************************************************************************)
(* The texts that requests, replies and files are made of: what Client     *)
(* writes and Session parses, what the database writes and the pages       *)
(* parse, and what fits in a field of a record.                            *)
(*                                                                         *)
(* A text is a sequence of characters: the separators, the digits and      *)
(* letters (numbers up to 99).  Nothing is escaped anywhere, so what comes *)
(* through depends on which characters names are made of: TypedNames.      *)
(***************************************************************************)
EXTENDS Integers, FiniteSets, Sequences, SequencesExt

CONSTANTS
    TypedNames,    \* names users type in the sign-up form
    PasswordTexts, \* passwords they type
    PaidAmounts,   \* what they transfer
    MaxRecords,    \* bound: transfers made
    NameLen        \* UsernameMaxLen, 23 in the code

ASSUME PayloadAssumption ==
    /\ NameLen \in Nat \ {0} /\ MaxRecords \in Nat /\ PaidAmounts \subseteq 0 .. 9

VARIABLES
    known,         \* the user names of the accounts
    directory,     \* what the transfer page keeps of them
    booked,        \* the transfers, as the database records them for the sender
    meant,         \* auxiliary: the same, as the user asked for them
    shown          \* what the history page shows: a user and entries, or nothing

payloadVars == <<known, directory, booked, meant, shown>>

Colon == 101
Pipe == 102
LineEnd == 103
MinusSign == 104
Digit(n) == 110 + n
IsDigit(c) == c \in 110 .. 119

-----------------------------------------------------------------------------
(* Texts.                                                                  *)

\* std::to_string of numbers from -9 to 9.
NumberText(n) == IF n < 0 THEN <<MinusSign, Digit(-n)>> ELSE <<Digit(n)>>

\* stoll and stoull: the digits a text starts with, whatever comes behind them.
NotANumber == -1000
ValueOf(digits) == FoldLeft(LAMBDA v, c : 10 * v + c - Digit(0), 0, digits)
DigitsAhead(s) == CHOOSE k \in 0 .. Len(s) :
                      /\ \A i \in 1 .. k : IsDigit(s[i])
                      /\ k = Len(s) \/ ~IsDigit(s[k + 1])
NumberOf(s) ==
    LET signed == s # <<>> /\ s[1] = MinusSign
        body == IF signed THEN Tail(s) ELSE s
        value == ValueOf(SubSeq(body, 1, DigitsAhead(body)))
    IN IF DigitsAhead(body) = 0 THEN NotANumber ELSE IF signed THEN -value ELSE value

\* The parts between separators.
Split(s, sep) ==
    FoldLeft(LAMBDA parts, c : IF c = sep THEN Append(parts, <<>>)
                               ELSE [parts EXCEPT ![Len(parts)] = Append(@, c)],
             << <<>> >>, s)

\* data.find(':'), and what is before and behind it.
Malformed == "malformed"
CutLast(s) ==                                                           \* mutant
    LET at == SelectLastInSeq(s, LAMBDA c : c = Colon)
    IN [found |-> at > 0, before |-> SubSeq(s, 1, at - 1), behind |-> SubSeq(s, at + 1, Len(s))]
CutFirst(s) ==
    LET at == SelectInSeq(s, LAMBDA c : c = Colon)
    IN [found |-> at > 0, before |-> SubSeq(s, 1, at - 1), behind |-> SubSeq(s, at + 1, Len(s))]

FieldOneShort(s) == SubSeq(s, 1, IF Len(s) < NameLen THEN Len(s) ELSE NameLen - 1)  \* mutant
\* copyFrom into a field of NameLen + 1 bytes, and asString of it.
Field(s) == SubSeq(s, 1, IF Len(s) < NameLen THEN Len(s) ELSE NameLen)

\* isSafePathComponent; none of the characters here is one it looks for.
IsSafeName(s) == s # <<>> /\ Len(s) <= NameLen

-----------------------------------------------------------------------------
(* Requests: what Client's methods write and Session::doRead reads.        *)

\* authenticate, createAccount, changePassword
PasswordText(user, password) == user \o <<Colon>> \o password
ReadPassword(s) ==
    LET c == CutFirst(s) IN IF c.found THEN <<c.before, c.behind>> ELSE <<Malformed>>

\* changeBalance
ChangeText(user, change) == user \o <<Colon>> \o NumberText(change)
ReadChange(s) ==
    LET c == CutFirst(s)
    IN IF c.found /\ NumberOf(c.behind) # NotANumber THEN <<c.before, NumberOf(c.behind)>>
       ELSE <<Malformed>>

\* getTransactionHistory; a count that is not a number is taken for 20.
ReadCount(s) ==
    LET c == CutFirst(s)
        n == NumberOf(c.behind)
    IN IF c.found THEN <<c.before, IF n = NotANumber THEN 20 ELSE n>> ELSE <<Malformed>>

\* transferBalance
TransferText(sender, recipient, amount) ==
    sender \o <<Colon>> \o recipient \o <<Colon>> \o NumberText(amount)
ReadTransfer(s) ==
    LET c == CutFirst(s)
        d == CutFirst(c.behind)
        n == NumberOf(d.behind)
    IN IF c.found /\ d.found /\ n # NotANumber THEN <<c.before, d.before, n>> ELSE <<Malformed>>

-----------------------------------------------------------------------------
(* Replies: what the database writes and the pages parse.                  *)

\* A user's own records, those of his file.
OwnOf(rs, user) == FoldLeft(LAMBDA own, r : IF r.user = user THEN Append(own, r) ELSE own, <<>>, rs)

\* GetTxnHistoryOp; the balance and the time are numbers like the amount.
LineOf(r) == NumberText(2) \o <<Pipe>> \o r.counterparty \o <<Pipe>> \o NumberText(r.amount)
             \o <<Pipe>> \o NumberText(0) \o <<Pipe>> \o NumberText(0) \o <<LineEnd>>
HistoryText(rs) == FoldLeft(LAMBDA s, r : s \o LineOf(r), <<>>, rs)

\* DashboardPage::parseTransactionHistory skips a line with fewer than four '|'.
ParseLines(lines) ==
    LET entry(f) == [counterparty |-> f[2], amount |-> NumberOf(f[3])]
    IN FoldLeft(LAMBDA entries, l : IF Len(Split(l, Pipe)) < 5 THEN entries
                                    ELSE Append(entries, entry(Split(l, Pipe))),
                <<>>, lines)
ParseHistory(s) == ParseLines(Split(s, LineEnd))

\* SearchUsersOp
JoinNames(ns) == FoldLeft(LAMBDA s, n : IF s = <<>> THEN n ELSE s \o <<Pipe>> \o n, <<>>, ns)

\* TransferPage::fetchUserDirectory: an empty name at the end is no name.
ParseNames(s) ==
    LET parts == Split(s, Pipe)
    IN ToSet(IF Last(parts) = <<>> THEN Front(parts) ELSE parts)

-----------------------------------------------------------------------------
(* What users and the server do with them.                                 *)

PayloadInit ==
    known = {} /\ directory = {} /\ booked = <<>> /\ meant = <<>> /\ shown = [user |-> <<>>, entries |-> <<>>]

\* A sign-up: the account gets the name the server read.
PayloadCreate(name, password) ==
    LET read == ReadPassword(PasswordText(name, password))
    IN /\ IsSafeName(read[1])
       /\ known' = known \cup {read[1]}
       /\ UNCHANGED <<directory, booked, meant, shown>>

PayloadFetchDirectory ==
    /\ directory' = ParseNames(JoinNames(SetToSeq(known)))
    /\ UNCHANGED <<known, booked, meant, shown>>

\* A user picks a name of the directory and pays; CreateAccount and
\* TransferBalance are Ledger's, here every sender has the money.
PayloadTransfer(sender, recipient, amount) ==
    LET read == ReadTransfer(TransferText(sender, recipient, amount))
    IN /\ Len(meant) < MaxRecords /\ sender # recipient
       /\ meant' = Append(meant, [user |-> sender, counterparty |-> recipient, amount |-> amount])
       /\ booked' = IF read # <<Malformed>> /\ {read[1], read[2]} \subseteq known
                    THEN Append(booked, [user |-> read[1], counterparty |-> Field(read[2]),
                                         amount |-> read[3]])
                    ELSE booked
       /\ UNCHANGED <<known, directory, shown>>

PayloadShowHistory(user) ==
    /\ shown' = [user |-> user, entries |-> ParseHistory(HistoryText(OwnOf(booked, user)))]
    /\ UNCHANGED <<known, directory, booked, meant>>

\* save() and load(): names through the fields of data.db.
PayloadRestart ==
    /\ known' = {Field(n) : n \in known}
    /\ UNCHANGED <<directory, booked, meant, shown>>

PayloadNext ==
    \/ \E n \in TypedNames, p \in PasswordTexts : PayloadCreate(n, p)
    \/ PayloadFetchDirectory \/ PayloadRestart
    \/ \E s \in known, r \in directory, n \in PaidAmounts : PayloadTransfer(s, r, n)
    \/ \E u \in known : PayloadShowHistory(u)

PayloadSpec == PayloadInit /\ [][PayloadNext]_payloadVars

-----------------------------------------------------------------------------
(* Properties.                                                             *)

\* A request reaches the database as the page made it, for every account that the
\* names typed lead to, every password and every recipient the transfer page
\* suggests, and those are accounts, also after a restart has read the names back
\* from files: the first ':' ends a name, and no account has a name that holds one.
\* No name typed holds a '|' or an end of line, which would be a separator.
RequestsRead ==
    /\ directory \subseteq known
    /\ \A u \in known :
           /\ \A p \in PasswordTexts : ReadPassword(PasswordText(u, p)) = <<u, p>>
           /\ \A n \in -9 .. 9 : ReadChange(ChangeText(u, n)) = <<u, n>>
           /\ \A n \in 0 .. 9 : ReadCount(ChangeText(u, n)) = <<u, n>>
           /\ \A r \in directory, n \in PaidAmounts :
                  ReadTransfer(TransferText(u, r, n)) = <<u, r, n>>

\* The history page tells the user the payments that were asked for: each went
\* from the account logged in to the one picked, with its amount, through the
\* request, the record, the reply and the page's parser; for names without a '|' or
\* an end of line, which nothing escapes.
HistoryTells ==
    LET told(k) == OwnOf(SubSeq(meant, 1, k), shown.user)
    IN /\ booked = meant
       /\ \E k \in 0 .. Len(meant) :
              shown.entries = [i \in DOMAIN told(k) |-> [counterparty |-> told(k)[i].counterparty,
                                                        amount |-> told(k)[i].amount]]

=============================================================================
