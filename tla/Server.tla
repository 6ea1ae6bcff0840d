------------------------------- MODULE Server -------------------------------
(***************************************************************************)
(* Sessions (server/Server.{hpp,cpp}) in front of the database engine.     *)
(*                                                                         *)
(* A session runs on the network thread only.  It reads one packet, hands  *)
(* it to DbManager or answers it on the spot, writes the reply and reads   *)
(* again.  It is kept alive by the callback it waits for: when a handler   *)
(* returns without starting another operation the session is destroyed and *)
(* its socket closes.                                                      *)
(*                                                                         *)
(* A packet is its type and what parsing makes of its payload: a request   *)
(* for DbManager, Malformed, or nothing the database is asked.  Packets    *)
(* travel whole; the framing underneath is asyncSend's and asyncRecv's.    *)
(***************************************************************************)
EXTENDS Database

CONSTANTS
    Sessions,      \* connections, each used once
    Packets,       \* what clients may send
    MaxPackets     \* bound: packets one client sends

\* The packet types whose payload has delimiters or numbers that may be
\* missing, and the types handed over as they are.
Parsed == {"account_auth", "account_create", "balance_change",
           "balance_transfer", "account_change_password", "txn_history_req"}
Unparsed == {"balance_req", "account_toggle", "user_search_req"}
Local == {"ping", "log_req"}
Unknown == "unknown"

\* The payload of a packet that does not parse or holds no request.
Malformed == [op |-> "malformed"]

ASSUME PacketsAssumption ==
    \A k \in Packets :
        \/ k.type \in Parsed /\ k.request \in Requests \cup {Malformed}
        \/ k.type \in Unparsed /\ k.request \in Requests
        \/ k.type \in Local \cup {Unknown}

VARIABLES
    at,         \* where each session is
    packet,     \* the packet it is serving
    asked,      \* the request it waits for
    writing,    \* the reply it is writing
    inbox,      \* packets on the way to the server
    outbox,     \* replies its client got
    sent,       \* how many packets its client has sent
    peer        \* is its client still there?

sessions == <<at, packet, asked, writing, inbox, outbox, sent, peer>>
serverVars == <<vars, sessions>>

Nobody == [type |-> "none"]

ServerInit ==
    /\ DbInit
    /\ at = [s \in Sessions |-> "listening"]
    /\ packet = [s \in Sessions |-> Nobody] /\ writing = [s \in Sessions |-> Nobody]
    /\ asked = [s \in Sessions |-> 0]
    /\ inbox = [s \in Sessions |-> <<>>] /\ outbox = [s \in Sessions |-> <<>>]
    /\ sent = [s \in Sessions |-> 0] /\ peer = [s \in Sessions |-> FALSE]

-----------------------------------------------------------------------------
(* Clients.                                                                *)

\* A client connects and doAccept starts a session for it, which reads.
Accept(s) ==
    /\ NetworkIdle /\ at[s] = "listening"
    /\ at' = [at EXCEPT ![s] = "reading"]
    /\ peer' = [peer EXCEPT ![s] = TRUE]
    /\ UNCHANGED <<vars, packet, asked, writing, inbox, outbox, sent>>

Send(s) ==
    /\ peer[s] /\ at[s] # "closed" /\ sent[s] < MaxPackets
    /\ \E k \in Packets : inbox' = [inbox EXCEPT ![s] = Append(@, k)]
    /\ sent' = [sent EXCEPT ![s] = @ + 1]
    /\ UNCHANGED <<vars, at, packet, asked, writing, outbox, peer>>

HangUp(s) ==
    /\ peer[s]
    /\ peer' = [peer EXCEPT ![s] = FALSE]
    /\ UNCHANGED <<vars, at, packet, asked, writing, inbox, outbox, sent>>

-----------------------------------------------------------------------------
(* Session::doRead and Session::doWrite.                                   *)

\* The last reference to the session goes and its socket closes.
Drop(s) ==
    /\ at' = [at EXCEPT ![s] = "closed"]
    /\ inbox' = [inbox EXCEPT ![s] = <<>>]
    /\ packet' = [packet EXCEPT ![s] = Nobody]

Reply(type, body, cb) == [type |-> type, body |-> body, cb |-> cb]

\* What the callbacks of doRead write: "OK" or "FAIL" for a yes or no, the
\* data otherwise, and "OK" for a toggle whatever became of it.
Body(type, r) == IF type = "account_toggle" THEN Bool(TRUE) ELSE r

Text(t) == [kind |-> t, value |-> FALSE]

\* What doRead writes without asking the database.
OnTheSpot(k) ==
    CASE k.type = "ping" -> Text("PONG")
      [] k.type = "log_req" -> Text("log")
      [] k.type = "txn_history_req" -> Text("")
      [] OTHER -> Bool(FALSE)

ForDatabase(k) == k.type \in Parsed \cup Unparsed /\ k.request # Malformed

ReadyEarly(s) == at[s] \in {"reading", "waiting"}                       \* mutant
Ready(s) == at[s] = "reading"

Ask(s) ==
    /\ Ready(s) /\ inbox[s] # <<>> /\ ForDatabase(Head(inbox[s]))
    /\ Submit(Head(inbox[s]).request)
    /\ packet' = [packet EXCEPT ![s] = Head(inbox[s])]
    /\ asked' = [asked EXCEPT ![s] = submitted']
    /\ inbox' = [inbox EXCEPT ![s] = Tail(@)]
    /\ at' = [at EXCEPT ![s] = "waiting"]
    /\ UNCHANGED <<writing, outbox, sent, peer>>

Respond(s) ==
    /\ NetworkIdle /\ Ready(s) /\ inbox[s] # <<>>
    /\ LET k == Head(inbox[s])
       IN /\ ~ForDatabase(k) /\ k.type # Unknown
          /\ packet' = [packet EXCEPT ![s] = k]
          /\ writing' = [writing EXCEPT ![s] = Reply(k.type, OnTheSpot(k), 0)]
    /\ asked' = [asked EXCEPT ![s] = 0]
    /\ inbox' = [inbox EXCEPT ![s] = Tail(@)]
    /\ at' = [at EXCEPT ![s] = "writing"]
    /\ UNCHANGED <<vars, outbox, sent, peer>>

\* The default case starts neither a write nor a read.
Ignore(s) ==
    /\ NetworkIdle /\ Ready(s) /\ inbox[s] # <<>>
    /\ Head(inbox[s]).type = Unknown
    /\ Drop(s)
    /\ UNCHANGED <<vars, asked, writing, outbox, sent, peer>>

\* The client hung up: what it sent before may be lost with the connection.
MayFailWaiting(s) == at[s] \in {"reading", "waiting"}                   \* mutant
MayFail(s) == at[s] = "reading"

ReadFails(s) ==
    /\ NetworkIdle /\ MayFail(s) /\ ~peer[s]
    /\ Drop(s)
    /\ UNCHANGED <<vars, asked, writing, outbox, sent, peer>>

\* The io_context runs a completion: the session that asked starts to write.
Complete ==
    /\ RunPosted
    /\ LET c == Head(posted)
       IN \E s \in Sessions :
              /\ at[s] = "waiting" /\ asked[s] = c.cb
              /\ writing' = [writing EXCEPT ![s] =
                                 Reply(packet[s].type, Body(packet[s].type, c.reply), c.cb)]
              /\ at' = [at EXCEPT ![s] = "writing"]
    /\ UNCHANGED <<packet, asked, inbox, outbox, sent, peer>>

\* async_write is done and doRead runs again.  A write to a client that hung
\* up may fail, or succeed although nobody reads it.
Written(s) ==
    /\ NetworkIdle /\ at[s] = "writing"
    /\ outbox' = [outbox EXCEPT ![s] = Append(@, writing[s])]
    /\ at' = [at EXCEPT ![s] = "reading"]
    /\ packet' = [packet EXCEPT ![s] = Nobody]
    /\ writing' = [writing EXCEPT ![s] = Nobody]
    /\ UNCHANGED <<vars, asked, inbox, sent, peer>>

WriteFails(s) ==
    /\ NetworkIdle /\ at[s] = "writing" /\ ~peer[s]
    /\ Drop(s)
    /\ writing' = [writing EXCEPT ![s] = Nobody]
    /\ UNCHANGED <<vars, asked, outbox, sent, peer>>

-----------------------------------------------------------------------------
(* The rest of the server.                                                 *)

DatabaseStep ==
    /\ SaveTimer \/ NotifyOne \/ WorkerStep \/ SaveHistory \/ Stop \/ Destroy \/ FinalSave
    /\ UNCHANGED sessions

\* Every connection closes with the process.
HangUpAll ==
    /\ at' = [s \in Sessions |-> IF at[s] = "listening" THEN "listening" ELSE "closed"]
    /\ inbox' = [s \in Sessions |-> <<>>]
    /\ packet' = [s \in Sessions |-> Nobody] /\ writing' = [s \in Sessions |-> Nobody]
    /\ UNCHANGED <<asked, outbox, sent, peer>>

ProcessEnds == (FinalSaved \/ Crash) /\ HangUpAll

ProcessStarts == Start /\ UNCHANGED sessions

SessionStep(s) ==
    \/ Ask(s) \/ Respond(s) \/ Ignore(s) \/ ReadFails(s) \/ Written(s) \/ WriteFails(s)

ServerNext ==
    \/ \E s \in Sessions : Accept(s) \/ Send(s) \/ HangUp(s) \/ SessionStep(s)
    \/ Complete \/ DatabaseStep \/ ProcessEnds \/ ProcessStarts

ServerSpec == ServerInit /\ [][ServerNext]_serverVars

\* As in Database; ready handlers of every session get their turn.
ServerFairness ==
    /\ WF_serverVars(WorkerStep /\ UNCHANGED sessions)
    /\ WF_serverVars(SaveHistory /\ UNCHANGED sessions)
    /\ WF_serverVars(NotifyOne /\ UNCHANGED sessions)
    /\ SF_serverVars(Complete)
    /\ \A s \in Sessions : SF_serverVars(SessionStep(s))

FairServerSpec == ServerSpec /\ ServerFairness

-----------------------------------------------------------------------------
(* Properties.                                                             *)

\* Sessions and database keep to their states together.
ServerTypeOK ==
    /\ DbTypeOK
    /\ at \in [Sessions -> {"listening", "reading", "waiting", "writing", "closed"}]
    /\ \A s \in Sessions :
           /\ at[s] \in {"waiting", "writing"} <=> packet[s] # Nobody
           /\ at[s] = "writing" <=> writing[s] # Nobody
           /\ at[s] = "waiting" => asked[s] \in 1 .. submitted

\* README, Server: "Session reads packets in a loop: doRead() -> process ->
\* doWrite() -> doRead()".  So every request in the database engine belongs to
\* exactly one session, which waits for it, and a session has at most one
\* there: a session can neither be overtaken by itself nor die waiting.
RequestsOwned ==
    phase = "up" =>
        /\ \A id \in 1 .. submitted :
               Waiting(id) => \E s \in Sessions : at[s] = "waiting" /\ asked[s] = id
        /\ \A s \in Sessions : at[s] = "waiting" => Waiting(asked[s])
        /\ \A s, t \in Sessions :
               at[s] = "waiting" /\ at[t] = "waiting" /\ asked[s] = asked[t] => s = t

\* A reply has the type of the packet it answers, and is made from a completion
\* of the database if and only if that packet asked it; that the completion is the
\* one of this session's request is RequestsOwned.
Answers(k, r) ==
    /\ r.type = k.type
    /\ ForDatabase(k) <=> r.cb # 0

\* Each session implements Service.
Conn(s) ==
    INSTANCE Service WITH
        Nothing <- Nobody, MayAnswer <- Answers,
        inbox <- inbox[s], serving <- packet[s], outbox <- outbox[s],
        open <- at[s] # "closed"

\* That is, \A s \in Sessions : Conn(s)!Spec, with the quantifier inside.
SessionsServe ==
    /\ \A s \in Sessions : Conn(s)!Init
    /\ [][\A s \in Sessions : Conn(s)!Next \/ UNCHANGED Conn(s)!connection]_serverVars

\* A packet that reached the server is taken unless the session or the server
\* ends first, and a session that has asked is answered.  A session that meets a
\* packet of unknown type has ended, without a word to its client (Server.cpp:201).
PacketsServed ==
    \A s \in Sessions :
        /\ inbox[s] # <<>> /\ at[s] # "closed" ~> inbox[s] = <<>> \/ phase # "up"
        /\ at[s] = "waiting" ~> at[s] # "waiting" \/ phase # "up"

=============================================================================
