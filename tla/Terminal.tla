------------------------------ MODULE Terminal ------------------------------
(***************************************************************************)
(* The terminal of one user: the shell (app/App.cpp) and the pages that    *)
(* decide who is logged in, on top of Client and in front of the accounts. *)
(*                                                                         *)
(* The FTXUI thread takes input from the user and runs, in order, what the *)
(* client's handlers post to it.  Pages keep their fields while a reply is *)
(* awaited and read them again when it comes.                              *)
(*                                                                         *)
(* The server executes a packet when it serves it: Server shows it takes   *)
(* them one by one and Database that each is executed once.  In between it *)
(* serves the other sessions (ServedElsewhere): any request that changes   *)
(* an account.  Left out are the ping that follows each refresh (it only   *)
(* sets the latency shown), the texts of most statuses, and the length     *)
(* limits of the fields.                                                   *)
(***************************************************************************)
EXTENDS Client, Ledger

CONSTANTS
    Forms,       \* what the user uses: some of AllForms
    Patient,     \* does the user wait for the reply before touching the login
                 \* and sign-up forms again, or the buttons of the settings page?
    MaxOthers    \* bound: the requests of other sessions that change an account

AllForms == {"login", "signup", "refresh", "history", "password", "lock", "logout"}

ASSUME TerminalAssumption ==
    Forms \subseteq AllForms /\ Patient \in BOOLEAN /\ MaxOthers \in Nat

VARIABLES
    asked,       \* the requests made, by number
    seen,        \* how many events the FTXUI thread has run
    running,     \* screen.Loop
    section,     \* 0: login and sign-up, 1: the bank
    appUsername,
    login, signup, settings,       \* the fields of the pages
    dash,        \* whose balance the dashboard shows
    history,     \* the history page: is it shown (postAuthPage), and whose entries
    told,        \* auxiliary: the user was told of the loss and did nothing since
    elsewhere    \* auxiliary: what other sessions did: how many requests, to whose
                 \* money since this terminal was given their history, to whose
                 \* lock since it was admitted under their name

pages == <<running, section, appUsername, login, signup, settings, dash, history, told>>
ui == <<asked, seen, pages>>
bank == <<ledger, elsewhere>>
terminalVars == <<ui, clientVars, bank>>

Empty == "empty"

ClearedLogin == [user |-> Empty, password |-> Empty, status |-> "", loading |-> FALSE]

TerminalInit ==
    /\ ClientInit /\ Init
    /\ asked = <<>> /\ seen = 0 /\ running = TRUE
    /\ section = 0 /\ appUsername = Empty
    /\ login = ClearedLogin
    /\ signup = [user |-> Empty, password |-> Empty, loading |-> FALSE]
    /\ settings = [current |-> Empty, new |-> Empty, loading |-> FALSE, showLock |-> FALSE]
    /\ dash = [owner |-> Empty, balance |-> 0, loading |-> FALSE]
    /\ history = [shown |-> FALSE, owner |-> Empty, loading |-> FALSE]
    /\ told = FALSE
    /\ elsewhere = [served |-> 0, paid |-> {}, turned |-> {}]

-----------------------------------------------------------------------------
(* Requests of the pages.                                                  *)

Request(page, op, user, password) ==
    [page |-> page, op |-> op, user |-> user, password |-> password]

\* Client::authenticate and its likes.
Ask(r) == SendRequest /\ asked' = Append(asked, r)
AskNothing == UNCHANGED <<asked, clientVars>>

\* DashboardPage::doRefresh.
Refresh(user) ==
    /\ Ask(Request("dashboard", "history", user, Empty))
    /\ dash' = [dash EXCEPT !.loading = TRUE]

-----------------------------------------------------------------------------
(* What the user does.                                                     *)

\* screen.Loop starts when App::run has built the pages and set its handler.
Looping == running /\ hook # "none"

Acts(form) == Looping /\ form \in Forms /\ told' = FALSE

MaySubmit == made < MaxRequests

\* A patient user leaves the login and sign-up forms, and the buttons of the
\* settings page, alone while a spinner turns there.
MayTouch == section = 0 /\ (Patient => ~login.loading /\ ~signup.loading)
MayPress == section = 1 /\ (Patient => ~settings.loading)

EditLogin ==
    /\ Acts("login") /\ MayTouch
    /\ \E u \in Users, p \in Passwords :
           login' = [login EXCEPT !.user = u, !.password = p]
    /\ AskNothing
    /\ UNCHANGED <<seen, running, section, appUsername, signup, settings, dash, history, bank>>

DoLogin ==
    /\ Acts("login") /\ MayTouch /\ MaySubmit
    /\ IF Empty \in {login.user, login.password}
       THEN AskNothing /\ login' = [login EXCEPT !.status = "Please enter"]
       ELSE /\ Ask(Request("login", "auth", login.user, login.password))
            /\ login' = [login EXCEPT !.loading = TRUE, !.status = ""]
    /\ UNCHANGED <<seen, running, section, appUsername, signup, settings, dash, history, bank>>

EditSignup ==
    /\ Acts("signup") /\ MayTouch
    /\ \E u \in Users, p \in Passwords :
           signup' = [signup EXCEPT !.user = u, !.password = p]
    /\ AskNothing
    /\ UNCHANGED <<seen, running, section, appUsername, login, settings, dash, history, bank>>

\* With a field empty, or a password not repeated, only the status changes.
DoCreateAccount ==
    /\ Acts("signup") /\ MayTouch /\ MaySubmit
    /\ Empty \notin {signup.user, signup.password}
    /\ Ask(Request("signup", "create", signup.user, signup.password))
    /\ signup' = [signup EXCEPT !.loading = TRUE]
    /\ UNCHANGED <<seen, running, section, appUsername, login, settings, dash, history, bank>>

\* Key R, or turning to the dashboard's tab.
DoRefresh ==
    /\ Acts("refresh") /\ section = 1 /\ MaySubmit
    /\ Refresh(appUsername)
    /\ history' = [history EXCEPT !.shown = FALSE]
    /\ UNCHANGED <<seen, running, section, appUsername, login, signup, settings, bank>>

\* Turning to the history's tab, or key R there: nothing is asked for while an
\* answer is awaited.  Which of the other tabs follows is left out.
DoHistory ==
    /\ Acts("history") /\ section = 1 /\ MaySubmit
    /\ IF history.loading THEN AskNothing
       ELSE Ask(Request("history", "recent", appUsername, Empty))
    /\ history' = [history EXCEPT !.shown = TRUE, !.loading = TRUE]
    /\ UNCHANGED <<seen, running, section, appUsername, login, signup, settings, dash, bank>>

EditSettings ==
    /\ Acts("password") /\ section = 1
    /\ \E p, q \in Passwords :
           settings' = [settings EXCEPT !.current = p, !.new = q]
    /\ AskNothing
    /\ UNCHANGED <<seen, running, section, appUsername, login, signup, dash, history, bank>>

DoChangePassword ==
    /\ Acts("password") /\ MayPress /\ MaySubmit
    /\ Empty \notin {settings.current, settings.new}
    /\ Ask(Request("settings", "auth", appUsername, settings.current))
    /\ settings' = [settings EXCEPT !.loading = TRUE]
    /\ UNCHANGED <<seen, running, section, appUsername, login, signup, dash, history, bank>>

\* The button that opens the dialog and the one that cancels it.
ToggleLockConfirm ==
    /\ Acts("lock") /\ section = 1
    /\ settings' = [settings EXCEPT !.showLock = ~@]
    /\ AskNothing
    /\ UNCHANGED <<seen, running, section, appUsername, login, signup, dash, history, bank>>

DoLockAccount ==
    /\ Acts("lock") /\ MayPress /\ settings.showLock /\ MaySubmit
    /\ Ask(Request("settings", "toggle", appUsername, Empty))
    /\ settings' = [settings EXCEPT !.showLock = FALSE, !.loading = TRUE]
    /\ UNCHANGED <<seen, running, section, appUsername, login, signup, dash, history, bank>>

TabKept == history                                                      \* mutant
\* The tab is the dashboard's again, the fields of the pages survive.
FirstTab == [history EXCEPT !.shown = FALSE]

\* The onLogout of App::run.
LogOut == login' = ClearedLogin /\ section' = 0 /\ history' = FirstTab

\* The button of the logout dialog.
DoLogout ==
    /\ Acts("logout") /\ MayPress
    /\ LogOut
    /\ AskNothing
    /\ UNCHANGED <<seen, running, appUsername, signup, settings, dash, bank>>

\* Escape.
Exit ==
    /\ Looping /\ running' = FALSE
    /\ AskNothing
    /\ UNCHANGED <<seen, section, appUsername, login, signup, settings, dash, history, told, bank>>

UserStep ==
    \/ EditLogin \/ DoLogin \/ EditSignup \/ DoCreateAccount \/ DoRefresh \/ DoHistory
    \/ EditSettings \/ DoChangePassword \/ ToggleLockConfirm \/ DoLockAccount
    \/ DoLogout \/ Exit

-----------------------------------------------------------------------------
(* What the client's handlers posted.                                      *)

Event == events[seen + 1]
Runs(kind) == Looping /\ seen < Len(events) /\ Event.kind = kind /\ seen' = seen + 1

Answered == asked[Event.id]
Succeeded == Event.ok /\ Event.reply.says = Bool(TRUE)

\* The reply to the `op` some page asked for.
Replied(page, op) == Runs("call") /\ Answered.page = page /\ Answered.op = op

\* LoginPage::doLogin's handler and onLogin.
LoginReplied ==
    /\ Replied("login", "auth")
    /\ IF Succeeded
       THEN /\ appUsername' = login.user
            /\ Refresh(appUsername') /\ section' = 1
            /\ login' = [login EXCEPT !.loading = FALSE]
       ELSE /\ login' = [login EXCEPT !.loading = FALSE, !.status = "Authentication failed"]
            /\ AskNothing /\ UNCHANGED <<section, appUsername, dash>>
    /\ UNCHANGED <<running, signup, settings, history, told, bank>>

\* SignupPage's handler: no dashboard was set, so none is refreshed.
SignupReplied ==
    /\ Replied("signup", "create")
    /\ signup' = [signup EXCEPT !.loading = FALSE]
    /\ IF Succeeded THEN appUsername' = signup.user /\ section' = 1
       ELSE UNCHANGED <<section, appUsername>>
    /\ AskNothing
    /\ UNCHANGED <<running, login, settings, dash, history, told, bank>>

\* The balance is the balanceAfter of the newest record, "0" without records.
NewestBalance(txns) == IF txns = <<>> THEN 0 ELSE txns[Len(txns)].balanceAfter

Refreshed ==
    /\ Replied("dashboard", "history")
    /\ dash' = IF Event.ok
               THEN [owner |-> Answered.user, balance |-> NewestBalance(Event.reply.says.value),
                     loading |-> FALSE]
               ELSE [owner |-> Empty, balance |-> 0, loading |-> FALSE]
    /\ AskNothing
    /\ UNCHANGED <<running, section, appUsername, login, signup, settings, history, told, bank>>

VerifiedAnyhow == Event.ok                                              \* mutant
Verified == Succeeded

HistoryReplied ==
    /\ Replied("history", "recent")
    /\ history' = [history EXCEPT !.loading = FALSE,
                                  !.owner = IF Event.ok THEN Answered.user ELSE Empty]
    /\ AskNothing
    /\ UNCHANGED <<running, section, appUsername, login, signup, settings, dash, told, bank>>

\* doChangePassword's handlers, one for each of its two requests.
CurrentPasswordReplied ==
    /\ Replied("settings", "auth")
    /\ IF Verified
       THEN /\ Ask(Request("settings", "password", appUsername, settings.new))
            /\ UNCHANGED settings
       ELSE settings' = [settings EXCEPT !.loading = FALSE] /\ AskNothing
    /\ UNCHANGED <<running, section, appUsername, login, signup, dash, history, told, bank>>

PasswordChanged ==
    /\ Replied("settings", "password")
    /\ settings' = IF Succeeded
                   THEN [settings EXCEPT !.loading = FALSE, !.current = Empty, !.new = Empty]
                   ELSE [settings EXCEPT !.loading = FALSE]
    /\ AskNothing
    /\ UNCHANGED <<running, section, appUsername, login, signup, dash, history, told, bank>>

LockReplied ==
    /\ Replied("settings", "toggle")
    /\ settings' = [settings EXCEPT !.loading = FALSE]
    /\ IF Succeeded THEN LogOut ELSE UNCHANGED <<login, section, history>>
    /\ AskNothing
    /\ UNCHANGED <<running, appUsername, signup, dash, told, bank>>

\* The disconnect handler of App::run.
ConnectionLost ==
    /\ Runs("lost")
    /\ login' = [ClearedLogin EXCEPT !.status = "Connection to server lost"]
    /\ section' = 0 /\ history' = FirstTab /\ told' = TRUE
    /\ AskNothing
    /\ UNCHANGED <<running, appUsername, signup, settings, dash, bank>>

ConnectionRefused ==
    /\ Runs("refused") /\ running' = FALSE
    /\ AskNothing
    /\ UNCHANGED <<section, appUsername, login, signup, settings, dash, history, told, bank>>

PostedStep ==
    \/ LoginReplied \/ SignupReplied \/ Refreshed \/ HistoryReplied
    \/ CurrentPasswordReplied \/ PasswordChanged \/ LockReplied \/ ConnectionLost \/ ConnectionRefused

-----------------------------------------------------------------------------
(* The client's io thread and the server.                                  *)

Perform(r) ==
    \/ r.op = "auth" /\ Authenticate(r.user, r.password)
    \/ r.op = "create" /\ CreateAccount(r.user, r.password)
    \/ r.op = "password" /\ ChangePassword(r.user, r.password)
    \/ r.op = "toggle" /\ ToggleAccount(r.user)
    \/ r.op = "history" /\ GetTransactions(r.user, 5)
    \/ r.op = "recent" /\ GetTransactions(r.user, 100)

\* A toggle is answered "OK" whatever became of it.
Says(r) == IF r.op = "toggle" THEN Bool(TRUE) ELSE reply'

\* This terminal has been told, or admitted, anew.
Admits(r) == r.op \in {"auth", "create"} /\ reply' = Bool(TRUE)
Informs(r) ==
    elsewhere' = [elsewhere EXCEPT
                     !.paid = IF r.op = "history" THEN @ \ {r.user} ELSE @,
                     !.turned = IF Admits(r) THEN @ \ {r.user} ELSE @]

Execute ==
    /\ running /\ serving # <<>>
    /\ Perform(asked[serving[1]])
    /\ ServerAnswers(Says(asked[serving[1]]))
    /\ Informs(asked[serving[1]])
    /\ UNCHANGED ui

\* The accounts whose history or lock a request changes.
Recorded(d, e) == { u \in DOMAIN e : u \in DOMAIN d => e[u].txns # d[u].txns }
Turned(d, e) == { u \in DOMAIN e : u \in DOMAIN d => e[u].isLocked # d[u].isLocked }

\* The request of another session, at another terminal, of whatever user.
ServedElsewhere ==
    /\ running /\ elsewhere.served < MaxOthers
    /\ Next /\ data' # data
    /\ elsewhere' = [served |-> elsewhere.served + 1,
                     paid |-> elsewhere.paid \cup Recorded(data, data'),
                     turned |-> elsewhere.turned \cup Turned(data, data')]
    /\ UNCHANGED <<ui, clientVars>>

Network ==
    /\ running
    /\ OnDisconnect \/ IoStep \/ Take \/ ServerCloses
    /\ UNCHANGED <<ui, bank>>

TerminalNext == UserStep \/ PostedStep \/ Execute \/ ServedElsewhere \/ Network

TerminalSpec == TerminalInit /\ [][TerminalNext]_terminalVars

-----------------------------------------------------------------------------
(* Properties.                                                             *)

Fields == [user : Users \cup {Empty}, password : Passwords \cup {Empty}, loading : BOOLEAN]

TerminalTypeOK ==
    /\ ClientTypeOK /\ TypeOK
    /\ Len(asked) = made /\ seen \in 0 .. Len(events)
    /\ section \in {0, 1} /\ appUsername \in Users \cup {Empty}
    /\ signup \in Fields
    /\ [f \in {"user", "password", "loading"} |-> login[f]] \in Fields
    /\ settings.current \in Passwords \cup {Empty} /\ settings.new \in Passwords \cup {Empty}
    /\ dash \in [owner : Users \cup {Empty}, balance : U64, loading : BOOLEAN]
    /\ history \in [shown : BOOLEAN, owner : Users \cup {Empty}, loading : BOOLEAN]
    /\ elsewhere \in [served : 0 .. MaxOthers, paid : SUBSET Users, turned : SUBSET Users]

\* README, Pages: the dashboard is the "Balance display" of the user logged in.
\* What it shows is never the account of an earlier user of the terminal.
DashboardOwn ==
    section = 1 /\ ~dash.loading => dash.owner \in {Empty, appUsername}

\* README, Pages: the history page shows "Full transaction history" of the user
\* logged in.  A refresh is skipped while one is under way, whoever asked for
\* it; still the entries shown are never those of an earlier user.
HistoryOwn ==
    section = 1 /\ history.shown /\ ~history.loading => history.owner \in {Empty, appUsername}

\* README, Pages, Settings: "Password change (requires current password
\* verification)".  The account a change is asked for is one whose current
\* password the server has confirmed before to the settings page, although the
\* name is read again when a confirmation arrives.
PasswordsVerified ==
    \A k \in DOMAIN asked :
        asked[k].op = "password" =>
            \E e \in 1 .. seen :
                /\ events[e].kind = "call" /\ events[e].id < k
                /\ events[e].ok /\ events[e].reply.says = Bool(TRUE)
                /\ LET verified == asked[events[e].id]
                   IN /\ verified.page = "settings" /\ verified.op = "auth"
                      /\ verified.user = asked[k].user

\* README, Security Notes: "Locked accounts cannot authenticate".  Nobody gets
\* past the entry pages under the name of an account that is locked, as long as
\* the client is connected, unless another session locked it after the server
\* had admitted him: it takes a user who types while a login is under way
\* (LoginPage.cpp:41) to break it.  This terminal itself does not lock an account
\* between the reply that lets its owner in and the handler that does.
LockedStayOut ==
    [][section = 0 /\ section' = 1 /\ connected =>
          /\ appUsername' \in DOMAIN data
          /\ data[appUsername'].isLocked => appUsername' \in elsewhere.turned]_terminalVars

=============================================================================
