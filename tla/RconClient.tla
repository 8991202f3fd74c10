----------------------------- MODULE RconClient -----------------------------
(***************************************************************************)
(* rcon/client.py: one BattlEye RCON connection over UDP.  Commands are    *)
(* serialized by a lock and carry a sequence number that wraps; a reply is *)
(* matched by that number alone and may come in several packets.  The      *)
(* network loses, delays, reorders and, towards the client, duplicates.    *)
(*                                                                         *)
(* Commands are numbered in the order of their sending.  The number is not *)
(* on the wire; it is what lets a property say whose reply was accepted.   *)
(***************************************************************************)
EXTENDS Naturals, Sequences, SequencesExt

CONSTANTS
  Callers,       \* tasks that call command()
  Keepalive,     \* the keepalive task
  Closer,        \* the task that runs close()
  Modulus,       \* sequence numbers are modulo this (256 in the code)
  Shapes,        \* packet totals a reply may have; 0 is a reply without header
  MaxCommands,   \* bound: commands sent on a connection
  MaxInbox       \* bound: packets queued and not read

ASSUME RconAssumption ==
  /\ Keepalive \notin Callers /\ Closer \notin Callers /\ Keepalive # Closer
  /\ Modulus \in Nat /\ Modulus > 1
  /\ Shapes \subseteq Nat
  /\ MaxCommands \in Nat /\ MaxInbox \in Nat

Tasks    == Callers \union {Keepalive, Closer}
Commands == 1 .. MaxCommands

VARIABLES
  link,       \* of the client: new, login, up, closing, stopping, closed
  line,       \* the lock: its head holds it, the others wait in order
  at,         \* what each task does
  sequence,   \* _sequence
  sent,       \* commands sent so far; the number of the latest one
  requests,   \* on their way to the server; command 0 is the login
  replies,    \* on their way to the client
  inbox,      \* protocol.packets
  awaited,    \* the sequence number _collect_response looks for
  backlog,    \* packets of inbox that were there when the command was sent
  parts,      \* parts collected for the current command
  broken,     \* protocol.error is set
  outcome,    \* of each command
  answer,     \* the packets each answer was made from
  executed    \* commands the server has carried out

wire == <<requests, replies, executed>>
call == <<awaited, backlog, parts, outcome, answer>>
vars == <<link, line, at, sequence, sent, inbox, broken, wire, call>>

Request(n, seq) == [cmd |-> n, seq |-> seq]
Login == Request(0, 0)

Packet(r, total, index) ==
  [cmd |-> r.cmd, seq |-> r.seq, total |-> total, index |-> index]
LoginReply(ok) == Packet(Login, 0, IF ok THEN 1 ELSE 0)

\* The packets of a reply: one without header, or a numbered set of parts.
Reply(r, total) ==
  IF total = 0 THEN {Packet(r, 0, 0)}
  ELSE {Packet(r, total, i) : i \in 0 .. total - 1}

\* Datagrams that may still be around when command n is sent: the assumption
\* on the network is that none outlives Modulus - 2 further commands.
Young(n, cmd) == cmd + Modulus - 1 > n

Init ==
  /\ link = "new" /\ line = <<>>
  /\ at = [t \in Tasks |-> IF t = Keepalive THEN "ended" ELSE "idle"]
  /\ sequence = 0 /\ sent = 0
  /\ requests = {} /\ replies = {} /\ inbox = <<>>
  /\ awaited = 0 /\ backlog = 0 /\ parts = {} /\ broken = FALSE
  /\ outcome = [n \in Commands |-> "none"]
  /\ answer = [n \in Commands |-> {}]
  /\ executed = {}
-----------------------------------------------------------------------------
(* The network and the server                                              *)

ServerLogin(ok) ==
  /\ Login \in requests
  /\ requests' = requests \ {Login}
  /\ replies' = replies \union {LoginReply(ok)}
  /\ UNCHANGED <<link, line, at, sequence, sent, inbox, broken, executed, call>>

ServerExecutes(r, total) ==
  /\ r \in requests \ {Login}
  /\ requests' = requests \ {r}
  /\ executed' = executed \union {r.cmd}
  /\ replies' = replies \union Reply(r, total)
  /\ UNCHANGED <<link, line, at, sequence, sent, inbox, broken, call>>

LoseRequest(r) ==
  /\ r \in requests
  /\ requests' = requests \ {r}
  /\ UNCHANGED <<link, line, at, sequence, sent, inbox, broken, replies, executed, call>>

\* A reply that is lost, or that decode_packet finds corrupt.
LoseReply(p) ==
  /\ p \in replies
  /\ replies' = replies \ {p}
  /\ UNCHANGED <<link, line, at, sequence, sent, inbox, broken, requests, executed, call>>

\* datagram_received: a reply is queued, whoever waits for it or nobody.  It
\* may arrive again.  Server messages are acknowledged and never queued.
Deliver(p) ==
  /\ link \in {"login", "up", "closing", "stopping"}
  /\ p \in replies /\ Len(inbox) < MaxInbox
  /\ inbox' = Append(inbox, p)
  /\ replies' \in {replies, replies \ {p}}
  /\ UNCHANGED <<link, line, at, sequence, sent, broken, requests, executed, call>>

\* error_received; the error is never cleared.
UdpError ==
  /\ link \in {"login", "up", "closing", "stopping"} /\ ~broken
  /\ broken' = TRUE
  /\ UNCHANGED <<link, line, at, sequence, sent, inbox, wire, call>>
-----------------------------------------------------------------------------
(* connect                                                                 *)

Connect ==
  /\ link = "new"
  /\ link' = "login"
  /\ requests' = requests \union {Login}
  /\ UNCHANGED <<line, at, sequence, sent, inbox, broken, replies, executed, call>>

\* The first packet decides; a refusal closes the client.
LoginDone ==
  /\ link = "login" /\ inbox # <<>> /\ ~broken
  /\ inbox' = Tail(inbox)
  /\ \/ /\ Head(inbox) = LoginReply(TRUE)
        /\ link' = "up" /\ at' = [at EXCEPT ![Keepalive] = "idle"]
     \/ /\ Head(inbox) # LoginReply(TRUE)
        /\ link' = "closed" /\ UNCHANGED at
  /\ UNCHANGED <<line, sequence, sent, broken, wire, call>>

LoginFails ==
  /\ link = "login" /\ (inbox = <<>> \/ broken)
  /\ link' = "closed"
  /\ UNCHANGED <<line, at, sequence, sent, inbox, broken, wire, call>>
-----------------------------------------------------------------------------
(* command and _keepalive                                                  *)

\* Commands that will still be sent by those in line.
Spoken == sent + Len(line)

CallCommand(c) ==
  /\ link \in {"up", "closing", "stopping", "closed"} /\ at[c] = "idle"
  /\ Spoken + 1 < MaxCommands
  /\ line' = Append(line, c)
  /\ at' = [at EXCEPT ![c] = "waits"]
  /\ UNCHANGED <<link, sequence, sent, inbox, broken, wire, call>>

KeepaliveWakes ==
  /\ at[Keepalive] = "idle" /\ Spoken + 1 < MaxCommands
  /\ line' = Append(line, Keepalive)
  /\ at' = [at EXCEPT ![Keepalive] = "waits"]
  /\ UNCHANGED <<link, sequence, sent, inbox, broken, wire, call>>

Holds(t) == line # <<>> /\ Head(line) = t

\* A task leaves the lock.  A keepalive that met an error ends for good; the
\* closing task goes on whatever became of its @logout.
Release(t, ok) ==
  /\ line' = Tail(line)
  /\ at' = [at EXCEPT ![t] = IF t = Keepalive /\ ~ok THEN "ended" ELSE "idle"]
  /\ link' = IF t = Closer THEN "stopping" ELSE link

\* Under the lock the keepalive finds that a command went out meanwhile.
KeepaliveSkips ==
  /\ Holds(Keepalive) /\ at[Keepalive] = "waits"
  /\ Release(Keepalive, TRUE)
  /\ UNCHANGED <<sequence, sent, inbox, broken, wire, call>>

\* _command after close() is through: refused, nothing is sent.
Refuse(t) ==
  /\ Holds(t) /\ at[t] = "waits" /\ link = "closed"
  /\ Release(t, FALSE)
  /\ UNCHANGED <<sequence, sent, inbox, broken, wire, call>>

\* Mutants of NextSequence: the number never wraps, or is never changed.
EndlessSequence == sequence + 1
SameSequence == sequence

NextSequence == (sequence + 1) % Modulus

\* _command: a number is taken and the request goes out.  On a socket with an
\* error the first _receive raises at once.
SendCommand(t) ==
  LET n == sent + 1 IN
  /\ Holds(t) /\ at[t] = "waits" /\ link # "closed" /\ sent < MaxCommands
  /\ sent' = n
  /\ sequence' = NextSequence
  /\ awaited' = sequence
  /\ requests' = {r \in requests : Young(n, r.cmd)} \union {Request(n, sequence)}
  /\ replies' = {p \in replies : Young(n, p.cmd)}
  /\ backlog' = Len(inbox) /\ parts' = {}
  /\ \/ /\ ~broken
        /\ outcome' = [outcome EXCEPT ![n] = "sent"]
        /\ at' = [at EXCEPT ![t] = "collects"]
        /\ UNCHANGED <<line, link>>
     \/ /\ broken
        /\ outcome' = [outcome EXCEPT ![n] = "failed"]
        /\ Release(t, FALSE)
  /\ UNCHANGED <<inbox, broken, executed, answer>>
-----------------------------------------------------------------------------
(* _collect_response                                                       *)

Collects(t) == Holds(t) /\ at[t] = "collects"

\* Mutant of Matches: any reply to a command is taken for the one awaited.
MatchesAny(p) == p.cmd # 0

\* A login reply is no command reply; of those only the number is compared.
Matches(p) == p.cmd # 0 /\ p.seq = awaited

EndCommand(t, packets) ==
  /\ outcome' = [outcome EXCEPT ![sent] = IF packets = {} THEN "failed" ELSE "answered"]
  /\ answer' = [answer EXCEPT ![sent] = packets]
  /\ parts' = {}
  /\ Release(t, packets # {})

\* One packet off the queue.  A part replaces one of the same index; a wrong
\* total, or a plain packet among parts, is a protocol error.
ReadPacket(t) ==
  LET p    == Head(inbox)
      news == {q \in parts : q.index # p.index} \union {p}
  IN
  /\ Collects(t) /\ inbox # <<>>
  /\ inbox' = Tail(inbox)
  /\ backlog' = IF backlog = 0 THEN 0 ELSE backlog - 1
  /\ \/ /\ ~Matches(p)
        /\ UNCHANGED <<parts, outcome, answer, at, line, link>>
     \/ /\ Matches(p) /\ p.total = 0
        /\ EndCommand(t, IF parts = {} THEN {p} ELSE {})
     \/ /\ Matches(p) /\ p.total # 0 /\ \E q \in parts : q.total # p.total
        /\ EndCommand(t, {})
     \/ /\ Matches(p) /\ p.total # 0 /\ \A q \in parts : q.total = p.total
        /\ \A i \in 0 .. p.total - 1 : \E q \in news : q.index = i
        /\ EndCommand(t, news)
     \/ /\ Matches(p) /\ p.total # 0 /\ \A q \in parts : q.total = p.total
        /\ \E i \in 0 .. p.total - 1 : \A q \in news : q.index # i
        /\ parts' = news
        /\ UNCHANGED <<outcome, answer, at, line, link>>
  /\ UNCHANGED <<sequence, sent, broken, awaited, wire>>

\* Mutant of TimesOut: the error path keeps the lock.
TimesOutHolding(t) ==
  /\ Collects(t) /\ (inbox = <<>> \/ backlog = 0)
  /\ outcome' = [outcome EXCEPT ![sent] = "failed"]
  /\ at' = [at EXCEPT ![t] = "idle"]
  /\ UNCHANGED <<link, line, sequence, sent, inbox, broken, awaited, backlog,
                 parts, answer, wire>>

\* No packet for a second, five seconds over, or the socket has an error or is
\* gone.  What was queued at the time of sending has been read by then: reading
\* it takes no time.
TimesOut(t) ==
  /\ Collects(t) /\ (inbox = <<>> \/ backlog = 0)
  /\ EndCommand(t, {})
  /\ UNCHANGED <<sequence, sent, inbox, broken, awaited, backlog, wire>>
-----------------------------------------------------------------------------
(* close: log out as one more command, end the keepalive, close the socket *)

CloseCall ==
  /\ link = "up" /\ at[Closer] = "idle"
  /\ sent + Len(line) < MaxCommands
  /\ link' = "closing"
  /\ line' = Append(line, Closer)
  /\ at' = [at EXCEPT ![Closer] = "waits"]
  /\ UNCHANGED <<sequence, sent, inbox, broken, wire, call>>

\* The keepalive is cancelled wherever it is, the command it sent included.
CancelKeepalive ==
  /\ link = "stopping" /\ at[Keepalive] # "ended"
  /\ at[Keepalive] = "collects" => backlog = 0
  /\ at' = [at EXCEPT ![Keepalive] = "ended"]
  /\ \/ \E i \in DOMAIN line : line[i] = Keepalive /\ line' = RemoveAt(line, i)
     \/ (\A i \in DOMAIN line : line[i] # Keepalive) /\ UNCHANGED line
  /\ outcome' = IF at[Keepalive] = "collects"
                THEN [outcome EXCEPT ![sent] = "failed"] ELSE outcome
  /\ UNCHANGED <<link, sequence, sent, inbox, broken, wire, awaited, backlog,
                 parts, answer>>

CloseSocket ==
  /\ link = "stopping" /\ at[Keepalive] = "ended"
  /\ link' = "closed"
  /\ UNCHANGED <<line, at, sequence, sent, inbox, broken, wire, call>>
-----------------------------------------------------------------------------
Network ==
  \/ \E ok \in BOOLEAN : ServerLogin(ok)
  \/ \E r \in requests : LoseRequest(r) \/ \E total \in Shapes : ServerExecutes(r, total)
  \/ \E p \in replies : LoseReply(p) \/ Deliver(p)
  \/ UdpError

Next ==
  \/ Network
  \/ Connect \/ LoginDone \/ LoginFails
  \/ \E c \in Callers : CallCommand(c)
  \/ KeepaliveWakes \/ KeepaliveSkips
  \/ \E t \in Tasks : Refuse(t) \/ SendCommand(t) \/ ReadPacket(t) \/ TimesOut(t)
  \/ CloseCall \/ CancelKeepalive \/ CloseSocket

Spec == Init /\ [][Next]_vars

\* Tasks that are ready run and timers expire, the five seconds of a command
\* too, however many packets come in; the network owes nothing.
Fairness ==
  /\ \A t \in Tasks :
       /\ WF_vars(Refuse(t) \/ SendCommand(t))
       /\ WF_vars(ReadPacket(t)) /\ WF_vars(TimesOut(t))
  /\ WF_vars(LoginDone \/ LoginFails)
  /\ WF_vars(CancelKeepalive) /\ WF_vars(CloseSocket)

FairSpec == Spec /\ Fairness
-----------------------------------------------------------------------------
(* Properties                                                              *)

\* Every variable of the client stays within its type.
PacketType == [cmd : 0 .. MaxCommands, seq : 0 .. Modulus - 1, total : Nat, index : Nat]

TypeOK ==
  /\ link \in {"new", "login", "up", "closing", "stopping", "closed"}
  /\ line \in Seq(Tasks)
  /\ at \in [Tasks -> {"idle", "waits", "collects", "ended"}]
  /\ sequence \in 0 .. Modulus - 1 /\ sent \in 0 .. MaxCommands
  /\ requests \subseteq [cmd : 0 .. MaxCommands, seq : 0 .. Modulus - 1]
  /\ replies \subseteq PacketType
  /\ inbox \in Seq(PacketType)
  /\ awaited \in 0 .. Modulus - 1 /\ backlog \in Nat
  /\ parts \subseteq PacketType /\ broken \in BOOLEAN
  /\ outcome \in [Commands -> {"none", "sent", "failed", "answered"}]
  /\ answer \in [Commands -> SUBSET PacketType]
  /\ executed \subseteq Commands

\* _command runs under the lock only: whoever collects holds it, and no other
\* task reads the queue beside it.
OneCollector == \A t \in Tasks : at[t] = "collects" => Holds(t) /\ outcome[sent] = "sent"

\* An answer is complete and made of nothing but the reply to its command, how
\* late or how often packets of earlier commands arrive and how often the
\* sequence number wraps.
AnswersMatch ==
  \A n \in Commands : outcome[n] = "answered" =>
    /\ \A p \in answer[n] : p.cmd = n
    /\ \E p \in answer[n] : {q.index : q \in answer[n]} = 0 .. (IF p.total = 0 THEN 0 ELSE p.total - 1)

\* Of a working socket: what the packets in inbox cannot be: a reply to the command that last used
\* the awaited number.  It is what AnswersMatch rests on.
InboxIsYoung ==
  ~broken => \A i \in DOMAIN inbox : inbox[i].cmd # 0 => inbox[i].cmd + Modulus > sent

\* A command as the callers of the client see it.
CommandState ==
  [n \in Commands |->
     IF outcome[n] = "answered" /\ \E p \in answer[n] : p.cmd # n
     THEN "mismatched" ELSE outcome[n]]

Remote == INSTANCE RemoteCall WITH state <- CommandState

ImplementsRemoteCall == Remote!Spec

\* Nobody waits for ever on the lock or on the network, whatever gets lost; and
\* close() comes to its end with the socket closed and the keepalive gone, though
\* it waits for the lock and for an answer to its @logout.
CallsEnd ==
  /\ \A t \in Tasks : at[t] \in {"waits", "collects"} ~> at[t] \in {"idle", "ended"}
  /\ link \in {"login", "closing"} ~> link \in {"up", "closed"}
=============================================================================
