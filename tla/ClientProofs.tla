----------------------------- MODULE ClientProofs -----------------------------
(***************************************************************************)
(* Theorems about the two clients the manager talks to the network with.    *)
(*                                                                         *)
(* RconClient: an answer belongs to its command, however often the sequence *)
(* number wraps and whatever the network loses, repeats, delays and         *)
(* reorders: the client implements RemoteCall.  The number alone does not   *)
(* say so; what does is how young the packets in the queue are (Fresh).     *)
(*                                                                         *)
(* WorkshopClient: for any number of callers and any burst, daily budget,    *)
(* pauses and retries, what goes out is a token bucket.                     *)
(***************************************************************************)
EXTENDS RconClient, WorkshopClient, Integers, SequenceTheorems, TLAPS

-----------------------------------------------------------------------------
(* Arithmetic of the sequence number *)

LEMMA Division ==
    ASSUME NEW S \in Nat, S > 1, NEW n \in Nat
    PROVE  n % S \in 0 .. S - 1 /\ n \div S \in Nat /\ n = S * (n \div S) + (n % S)
OBVIOUS

LEMMA Multiples ==
    ASSUME NEW S \in Nat, S > 1, NEW d \in Int, S * d < S, S * d > 0 - S
    PROVE  d = 0
<1>1. CASE d >= 1
    <2>1. S * d >= S
        BY <1>1
    <2> QED
        BY <2>1
<1>2. CASE d <= -1
    <2>1. S * d <= 0 - S
        BY <1>2
    <2> QED
        BY <2>1
<1> QED
    BY <1>1, <1>2

LEMMA Remainder ==
    ASSUME NEW S \in Nat, S > 1, NEW m \in Nat, NEW q \in Nat, NEW r \in 0 .. S - 1,
           m = S * q + r
    PROVE  m % S = r
<1>1. m % S \in 0 .. S - 1 /\ m \div S \in Nat /\ m = S * (m \div S) + (m % S)
    BY Division
<1>2. S * (q - (m \div S)) = (m % S) - r
    BY <1>1
<1>3. q - (m \div S) = 0
    BY <1>1, <1>2, Multiples
<1> QED
    BY <1>1, <1>2, <1>3

LEMMA NextNumber ==
    ASSUME NEW S \in Nat, S > 1, NEW n \in Nat
    PROVE  ((n % S) + 1) % S = (n + 1) % S
<1>1. PICK r \in 0 .. S - 1, q \in Nat : r = n % S /\ n = S * q + r
    BY Division
<1>2. PICK m \in Nat : m = n + 1
    OBVIOUS
<1>3. CASE r + 1 < S
    <2>1. PICK s \in 0 .. S - 1 : s = r + 1
        BY <1>3
    <2>2. m = S * q + s /\ s = S * 0 + s
        BY <1>1, <1>2, <2>1
    <2>3. m % S = s /\ s % S = s
        BY <2>2, Remainder
    <2> QED
        BY <1>1, <1>2, <2>1, <2>3
<1>4. CASE r + 1 = S
    <2>1. m = S * (q + 1) + 0 /\ S = S * 1 + 0
        BY <1>1, <1>2, <1>4
    <2>2. m % S = 0 /\ S % S = 0
        BY <2>1, Remainder
    <2> QED
        BY <1>1, <1>2, <1>4, <2>2
<1> QED
    BY <1>1, <1>3, <1>4

LEMMA NumbersApart ==
    ASSUME NEW S \in Nat, S > 1, NEW m \in Nat, NEW n \in Nat, m < n, n < m + S
    PROVE  m % S # n % S
<1> SUFFICES ASSUME m % S = n % S PROVE FALSE
    OBVIOUS
<1>1. m \div S \in Nat /\ m = S * (m \div S) + (m % S)
    BY Division
<1>2. n \div S \in Nat /\ n = S * (n \div S) + (n % S)
    BY Division
<1>3. S * ((n \div S) - (m \div S)) = n - m
    BY <1>1, <1>2
<1>4. (n \div S) - (m \div S) = 0
    BY <1>1, <1>2, <1>3, Multiples
<1> QED
    BY <1>3, <1>4
-----------------------------------------------------------------------------
(* Sequences as queues *)

LEMMA TailFacts ==
    ASSUME NEW S, NEW q \in Seq(S), q # <<>>
    PROVE  /\ Len(q) \in Nat /\ Len(q) >= 1 /\ Head(q) = q[1] /\ Head(q) \in S
           /\ Tail(q) \in Seq(S) /\ Len(Tail(q)) = Len(q) - 1
           /\ \A i \in 1 .. Len(q) - 1 : Tail(q)[i] = q[i + 1]
BY HeadTailProperties, LenProperties, ElementOfSeq

LEMMA AppendFacts ==
    ASSUME NEW S, NEW q \in Seq(S), NEW x \in S
    PROVE  /\ Append(q, x) \in Seq(S) /\ Append(q, x) # <<>>
           /\ Len(q) \in Nat /\ Len(Append(q, x)) = Len(q) + 1
           /\ \A i \in 1 .. Len(q) : Append(q, x)[i] = q[i]
           /\ Append(q, x)[Len(q) + 1] = x
           /\ q # <<>> => Head(Append(q, x)) = Head(q)
BY AppendProperties, HeadTailAppend, LenProperties

(* Leaving the queue anywhere but at its head keeps the head.               *)
LEMMA LeavingFacts ==
    ASSUME NEW S, NEW q \in Seq(S), NEW i \in DOMAIN q
    PROVE  /\ RemoveAt(q, i) \in Seq(S)
           /\ i # 1 => RemoveAt(q, i) # <<>> /\ Head(RemoveAt(q, i)) = Head(q)
<1> DEFINE before == SubSeq(q, 1, i - 1)
           after == SubSeq(q, i + 1, Len(q))
<1>1. i \in 1 .. Len(q) /\ Len(q) \in Nat
    BY LenProperties
<1>2. before \in Seq(S) /\ Len(before) = i - 1 /\ \A j \in 1 .. (i - 1) : before[j] = q[j]
    <2>1. \A j \in 1 .. (i - 1) : q[j] \in S
        BY <1>1, ElementOfSeq
    <2> QED
        BY <1>1, <2>1, SubSeqProperties
<1>3. after \in Seq(S)
    <2>1. \A j \in (i + 1) .. Len(q) : q[j] \in S
        BY <1>1, ElementOfSeq
    <2> QED
        BY <1>1, <2>1, SubSeqProperties
<1>4. RemoveAt(q, i) = before \o after
    BY DEF RemoveAt
<1>5. /\ before \o after \in Seq(S)
      /\ Len(before \o after) = Len(before) + Len(after)
      /\ \A j \in 1 .. Len(before) : (before \o after)[j] = before[j]
    BY <1>2, <1>3, ConcatProperties, LenProperties
<1>6. ASSUME i # 1 PROVE before \o after # <<>> /\ Head(before \o after) = Head(q)
    <2>1. 1 \in 1 .. Len(before) /\ Len(after) \in Nat
        BY <1>1, <1>2, <1>3, <1>6, LenProperties
    <2>2. Len(before \o after) >= 1 /\ (before \o after)[1] = q[1]
        BY <1>1, <1>2, <1>5, <2>1
    <2>3. before \o after # <<>> /\ q # <<>>
        BY <1>1, <1>5, <2>2, EmptySeq
    <2> QED
        BY <1>5, <2>2, <2>3, HeadTailProperties
<1> QED
    BY <1>4, <1>5, <1>6

-----------------------------------------------------------------------------
(* The invariant *)

SequenceOf(n) == (n - 1) % Modulus

(* A packet of a reply: it carries the number of its command, which has     *)
(* been executed, and if it is a part it is one of its total.               *)
Genuine(p) ==
    p.cmd # 0 =>
        /\ p.cmd <= sent /\ p.seq = SequenceOf(p.cmd) /\ p.cmd \in executed
        /\ p.index \in 0 .. (IF p.total = 0 THEN 0 ELSE p.total - 1)

(* Of what is on its way, since the latest command was sent.                *)
Travels(cmd) == cmd # 0 => cmd + Modulus - 1 > sent

Collecting == \E t \in Tasks : at[t] = "collects"

Numbers ==
    /\ sequence = sent % Modulus /\ sent \in 0 .. MaxCommands
    /\ sent # 0 => awaited = SequenceOf(sent)
    /\ \A r \in requests :
          /\ r \in [cmd : 0 .. MaxCommands, seq : 0 .. Modulus - 1] /\ Travels(r.cmd)
          /\ IF r.cmd = 0 THEN r = Login ELSE r.cmd <= sent /\ r.seq = SequenceOf(r.cmd)
    /\ \A p \in replies : p \in PacketType /\ Genuine(p) /\ Travels(p.cmd)
    /\ inbox \in Seq(PacketType) /\ \A i \in DOMAIN inbox : Genuine(inbox[i])
    /\ executed \subseteq 1 .. sent

(* One task at a time is past its wait for the lock; nobody is before the   *)
(* login is through.                                                        *)
Locked ==
    /\ line \in Seq(Tasks)
    /\ at \in [Tasks -> {"idle", "waits", "collects", "ended"}]
    /\ \A t \in Tasks : at[t] = "collects" => Holds(t) /\ sent # 0
    /\ link \in {"new", "login"} =>
          backlog = 0 /\ at[Keepalive] = "ended" /\ \A t \in Tasks : at[t] \in {"idle", "ended"}

(* Why a number that wraps suffices: what was in the queue when the command  *)
(* was sent is of an earlier one, and of none that had its number; what      *)
(* came later is of none that had it either, but this command.              *)
Fresh ==
    /\ backlog \in Nat
    /\ ~broken \/ Collecting =>
        /\ backlog <= Len(inbox) /\ (~Collecting => backlog = 0)
        /\ \A i \in 1 .. Len(inbox) : inbox[i].cmd # 0 =>
              IF i <= backlog
                THEN inbox[i].cmd < sent /\ inbox[i].cmd + Modulus > sent
                ELSE inbox[i].cmd + Modulus - 1 > sent

Outcomes ==
    /\ outcome \in [Commands -> {"none", "sent", "failed", "answered"}]
    /\ \A n \in Commands : outcome[n] = "none" <=> n > sent
    /\ Collecting => outcome[sent] = "sent"
    /\ \A n \in Commands : outcome[n] = "answered" => n \in executed
    /\ answer \in [Commands -> SUBSET PacketType]

(* The parts that were collected are parts of one reply to this command.    *)
Gathered ==
    Collecting =>
        \A q \in parts :
            /\ q \in PacketType /\ q.cmd = sent
            /\ q.total # 0 /\ q.index \in 0 .. q.total - 1
            /\ \A p \in parts : p.total = q.total

IInv == Numbers /\ Locked /\ Fresh /\ Outcomes /\ Gathered /\ AnswersMatch

LEMMA Constants ==
    /\ Modulus \in Nat /\ Modulus > 1 /\ MaxCommands \in Nat
    /\ Keepalive \in Tasks /\ Closer \in Tasks /\ Keepalive # Closer
    /\ Shapes \subseteq Nat
BY RconAssumption DEF Tasks

LEMMA InitHolds == Init => IInv
<1> SUFFICES ASSUME Init PROVE IInv
    OBVIOUS
<1> USE Constants DEF Init
<1>1. 0 % Modulus = 0
    <2>1. 0 = Modulus * 0 + 0
        OBVIOUS
    <2> QED
        BY <2>1, Remainder
<1>2. inbox \in Seq(PacketType) /\ Len(inbox) = 0 /\ line \in Seq(Tasks)
    OBVIOUS
<1>3. ~Collecting
    BY DEF Collecting
<1>4. Numbers
    BY <1>1, <1>2 DEF Numbers
<1>5. Locked
    BY <1>2 DEF Locked
<1>6. Fresh
    BY <1>2, <1>3 DEF Fresh
<1>7. Outcomes /\ AnswersMatch
    BY <1>3 DEF Outcomes, AnswersMatch, Commands
<1> QED
    BY <1>3, <1>4, <1>5, <1>6, <1>7 DEF IInv, Gathered

(* The packet that is taken for a part of the answer is one.                *)
LEMMA MatchIsOwn ==
    ASSUME Numbers, Locked, Fresh, Collecting, inbox # <<>>, Matches(Head(inbox))
    PROVE  Head(inbox).cmd = sent /\ backlog = 0
<1> DEFINE p == Head(inbox)
<1>1. p = inbox[1] /\ p \in PacketType /\ 1 \in 1 .. Len(inbox) /\ 1 \in DOMAIN inbox
    BY TailFacts, LenProperties DEF Numbers
<1>2. p.cmd \in Nat /\ p.cmd # 0 /\ p.cmd <= sent /\ p.seq = SequenceOf(p.cmd) /\ p.seq = awaited
    BY <1>1 DEF Numbers, Genuine, Matches, PacketType
<1>3. sent \in Nat /\ sent # 0 /\ awaited = SequenceOf(sent)
    BY DEF Numbers, Locked, Collecting
<1>4. p.cmd + Modulus > sent /\ (backlog # 0 => p.cmd < sent)
    BY <1>1, <1>2, <1>3, Constants DEF Fresh
<1>5. p.cmd < sent => FALSE
    <2> SUFFICES ASSUME p.cmd < sent PROVE FALSE
        OBVIOUS
    <2>1. PICK m \in Nat, n \in Nat : m = p.cmd - 1 /\ n = sent - 1
        BY <1>2, <1>3
    <2>2. m < n /\ n < m + Modulus
        BY <1>2, <1>3, <1>4, <2>1, Constants
    <2>3. m % Modulus = n % Modulus
        BY <1>2, <1>3, <2>1 DEF SequenceOf
    <2> QED
        BY <2>2, <2>3, Constants, NumbersApart
<1> QED
    BY <1>2, <1>3, <1>4, <1>5

-----------------------------------------------------------------------------
(* The steps *)

LEMMA NumbersStep ==
    ASSUME IInv, [Next]_vars
    PROVE  Numbers'
<1> USE Constants DEF IInv, Numbers
<1>0. sent \in Nat /\ sequence \in 0 .. Modulus - 1
    BY Division
<1>1. CASE UNCHANGED <<sequence, sent, inbox, awaited, wire>>
    BY <1>1 DEF wire, Genuine, Travels, SequenceOf
<1>2. CASE \/ \E ok \in BOOLEAN : ServerLogin(ok)
           \/ \E r \in requests : LoseRequest(r)
           \/ \E p \in replies : LoseReply(p)
           \/ Connect
    <2>1. UNCHANGED <<sequence, sent, inbox, awaited, executed>>
        BY <1>2 DEF ServerLogin, LoseRequest, LoseReply, Connect, call
    <2>2. requests' \subseteq requests \cup {Login}
        BY <1>2 DEF ServerLogin, LoseRequest, LoseReply, Connect
    <2>3. \A p \in replies' : p \in replies \/ \E ok \in BOOLEAN : p = LoginReply(ok)
        BY <1>2 DEF ServerLogin, LoseRequest, LoseReply, Connect
    <2>4. \A ok \in BOOLEAN : LoginReply(ok) \in PacketType /\ LoginReply(ok).cmd = 0
        BY DEF LoginReply, Packet, Login, Request, PacketType
    <2>5. Login \in [cmd : 0 .. MaxCommands, seq : 0 .. Modulus - 1] /\ Login.cmd = 0
        BY DEF Login, Request
    <2> QED
        BY <2>1, <2>2, <2>3, <2>4, <2>5 DEF Genuine, Travels, SequenceOf
<1>3. ASSUME NEW r \in requests, NEW total \in Shapes, ServerExecutes(r, total) PROVE Numbers'
    <2>1. r.cmd # 0 /\ r.cmd \in 1 .. sent /\ r.seq = SequenceOf(r.cmd) /\ Travels(r.cmd)
          /\ r \in [cmd : 0 .. MaxCommands, seq : 0 .. Modulus - 1]
        BY <1>0, <1>3 DEF ServerExecutes
    <2>2. /\ UNCHANGED <<sequence, sent, inbox, awaited>> /\ requests' \subseteq requests
          /\ executed' = executed \cup {r.cmd} /\ replies' = replies \cup Reply(r, total)
        BY <1>3 DEF ServerExecutes, call
    <2>3. \A p \in Reply(r, total) :
            /\ p \in PacketType /\ p.cmd = r.cmd /\ p.seq = r.seq
            /\ p.index \in 0 .. (IF p.total = 0 THEN 0 ELSE p.total - 1)
        <3>1. total \in Nat /\ r.cmd \in 0 .. MaxCommands /\ r.seq \in 0 .. Modulus - 1
            BY <2>1
        <3> QED
            BY <3>1 DEF Reply, Packet, PacketType
    <2>4. \A p \in Reply(r, total) : Genuine(p)' /\ Travels(p.cmd)
        BY <2>1, <2>2, <2>3 DEF Genuine, SequenceOf
    <2> QED
        BY <2>1, <2>2, <2>3, <2>4 DEF Genuine, Travels, SequenceOf
<1>4. ASSUME NEW p \in replies, Deliver(p) PROVE Numbers'
    <2>1. UNCHANGED <<sequence, sent, awaited, requests, executed>> /\ replies' \subseteq replies
          /\ inbox' = Append(inbox, p)
        BY <1>4 DEF Deliver, call
    <2>2. inbox' \in Seq(PacketType) /\ \A i \in DOMAIN inbox' : Genuine(inbox'[i])
        BY <2>1, AppendFacts, LenProperties
    <2> QED
        BY <2>1, <2>2 DEF Genuine, Travels, SequenceOf
<1>5. CASE LoginDone \/ \E t \in Tasks : ReadPacket(t)
    <2>1. /\ UNCHANGED <<sequence, sent, awaited, requests, replies, executed>>
          /\ inbox # <<>> /\ inbox' = Tail(inbox)
        BY <1>5 DEF LoginDone, ReadPacket, call, wire
    <2>2. inbox' \in Seq(PacketType) /\ \A i \in DOMAIN inbox' : Genuine(inbox'[i])
        BY <2>1, TailFacts, LenProperties
    <2> QED
        BY <2>1, <2>2 DEF Genuine, Travels, SequenceOf
<1>6. ASSUME NEW t \in Tasks, SendCommand(t) PROVE Numbers'
    <2>1. /\ sent' = sent + 1 /\ sent < MaxCommands /\ awaited' = sequence
          /\ sequence' = (sequence + 1) % Modulus
          /\ requests' = {r \in requests : Young(sent + 1, r.cmd)} \cup {Request(sent + 1, sequence)}
          /\ replies' = {p \in replies : Young(sent + 1, p.cmd)}
          /\ UNCHANGED <<inbox, executed>>
        BY <1>6 DEF SendCommand, NextSequence
    <2>2. sequence' = sent' % Modulus
        BY <1>0, <2>1, NextNumber
    <2>3. awaited' = SequenceOf(sent')
        BY <1>0, <2>1 DEF SequenceOf
    <2>4. \A r \in requests' :
            /\ r \in [cmd : 0 .. MaxCommands, seq : 0 .. Modulus - 1] /\ Travels(r.cmd)'
            /\ IF r.cmd = 0 THEN r = Login ELSE r.cmd <= sent' /\ r.seq = SequenceOf(r.cmd)
        BY <1>0, <2>1, <2>3 DEF Young, Travels, Request
    <2>5. \A p : Genuine(p) /\ p \in PacketType => Genuine(p)'
        BY <1>0, <2>1 DEF Genuine, SequenceOf, PacketType
    <2>6. \A p \in replies' : p \in PacketType /\ Genuine(p)' /\ Travels(p.cmd)'
        BY <1>0, <2>1, <2>5 DEF Young, Travels, PacketType
    <2>7. \A i \in DOMAIN inbox' : Genuine(inbox[i])'
        BY <2>1, <2>5, ElementOfSeq, LenProperties
    <2>8. inbox' \in Seq(PacketType)
        BY <2>1
    <2>9. executed \subseteq 1 .. sent
        OBVIOUS
    <2> HIDE DEF IInv, Numbers
    <2>10. sent' \in 0 .. MaxCommands
        BY <1>0, <2>1
    <2>11. executed' \subseteq 1 .. sent'
        BY <1>0, <2>1, <2>9
    <2> QED
        BY <2>2, <2>3, <2>4, <2>6, <2>7, <2>8, <2>10, <2>11 DEF Numbers
<1> QED
    BY <1>1, <1>2, <1>3, <1>4, <1>5, <1>6
       DEF Next, Network, vars, call, wire, UdpError, LoginFails, CallCommand, KeepaliveWakes,
           KeepaliveSkips, Refuse, TimesOut, CloseCall, CancelKeepalive, CloseSocket

LEMMA LockedStep ==
    ASSUME IInv, [Next]_vars
    PROVE  Locked'
<1> USE Constants DEF IInv, Locked, Holds
<1>1. CASE UNCHANGED <<link, line, at, sent, backlog>>
    BY <1>1
<1>2. CASE Connect \/ LoginDone \/ LoginFails \/ CloseSocket
    BY <1>2 DEF Connect, LoginDone, LoginFails, CloseSocket, call
<1>3. ASSUME NEW t \in Tasks, at[t] = "idle", line' = Append(line, t),
             at' = [at EXCEPT ![t] = "waits"], link' \notin {"new", "login"}, UNCHANGED sent
      PROVE  Locked'
    <2>1. line' \in Seq(Tasks) /\ line' # <<>> /\ (line # <<>> => Head(line') = Head(line))
        BY <1>3, AppendFacts
    <2> QED
        BY <1>3, <2>1
<1>4. ASSUME NEW t \in Tasks, Holds(t), line' = Tail(line), at' \in {[at EXCEPT ![t] = "idle"], [at EXCEPT ![t] = "ended"]},
             link' \notin {"new", "login"}, sent' \in Nat
      PROVE  Locked'
    <2>1. line' \in Seq(Tasks)
        BY <1>4, TailFacts
    <2>2. \A u \in Tasks : at'[u] # "collects"
        BY <1>4
    <2> QED
        BY <1>4, <2>1, <2>2
<1>5. ASSUME NEW t \in Tasks, NEW ok \in BOOLEAN, Holds(t), Release(t, ok), at[t] \in {"waits", "collects"}, sent' \in Nat
      PROVE  Locked'
    <2>1. link' \notin {"new", "login"}
        BY <1>5 DEF Release
    <2> QED
        BY <1>4, <1>5, <2>1 DEF Release
<1>6. sent \in Nat
    BY DEF Numbers
<1>7. ASSUME NEW t \in Tasks, SendCommand(t) PROVE Locked'
    <2>1. Holds(t) /\ at[t] = "waits" /\ sent' = sent + 1
        BY <1>7 DEF SendCommand
    <2>2. CASE at' = [at EXCEPT ![t] = "collects"] /\ UNCHANGED <<line, link>>
        <3>1. link' \notin {"new", "login"}
            BY <2>1, <2>2
        <3>2. \A u \in Tasks : at'[u] = "collects" => u = t
            BY <2>1, <2>2
        <3> QED
            BY <1>6, <2>1, <2>2, <3>1, <3>2
    <2>3. CASE Release(t, FALSE)
        <3>1. link' \notin {"new", "login"}
            BY <2>1, <2>3 DEF Release
        <3> QED
            BY <1>4, <1>6, <2>1, <2>3, <3>1 DEF Release
    <2>4. (at' = [at EXCEPT ![t] = "collects"] /\ UNCHANGED <<line, link>>) \/ Release(t, FALSE)
        BY <1>7 DEF SendCommand
    <2> QED
        BY <2>2, <2>3, <2>4
<1>8. ASSUME NEW t \in Tasks, ReadPacket(t) \/ TimesOut(t) PROVE Locked'
    <2>1. Holds(t) /\ at[t] = "collects" /\ UNCHANGED sent
        BY <1>8 DEF ReadPacket, TimesOut, Collects
    <2>2. \/ UNCHANGED <<at, line, link>>
          \/ \E ok \in BOOLEAN : Release(t, ok)
        BY <1>8 DEF ReadPacket, TimesOut, EndCommand
    <2> QED
        BY <1>5, <1>6, <2>1, <2>2
<1>9. CASE CancelKeepalive
    <2>1. link = "stopping" /\ at' = [at EXCEPT ![Keepalive] = "ended"] /\ UNCHANGED <<link, sent>>
        BY <1>9 DEF CancelKeepalive
    <2>2. CASE \E i \in DOMAIN line : line[i] = Keepalive /\ line' = RemoveAt(line, i)
        <3>1. PICK i \in DOMAIN line : line[i] = Keepalive /\ line' = RemoveAt(line, i)
            BY <2>2
        <3>2. line' \in Seq(Tasks) /\ (i # 1 => line' # <<>> /\ Head(line') = Head(line))
            BY <3>1, LeavingFacts
        <3>3. line # <<>> => Head(line) = line[1]
            BY TailFacts
        <3> QED
            BY <2>1, <3>1, <3>2, <3>3
    <2>3. CASE UNCHANGED line
        BY <2>1, <2>3
    <2> QED
        BY <1>9, <2>2, <2>3 DEF CancelKeepalive
<1>10. CASE KeepaliveSkips \/ \E t \in Tasks : Refuse(t)
    BY <1>5, <1>6, <1>10 DEF KeepaliveSkips, Refuse
<1>11. CASE KeepaliveWakes \/ CloseCall \/ \E c \in Callers : CallCommand(c)
    BY <1>3, <1>11 DEF KeepaliveWakes, CloseCall, CallCommand, Tasks
<1> QED
    BY <1>1, <1>2, <1>7, <1>8, <1>9, <1>10, <1>11
       DEF Next, Network, vars, call, wire, ServerLogin, ServerExecutes, LoseRequest, LoseReply,
           Deliver, UdpError

(* Who holds the lock and does not collect is nobody's rival.               *)
LEMMA Alone ==
    ASSUME Locked, NEW t \in Tasks, Holds(t), at[t] # "collects"
    PROVE  ~Collecting
BY DEF Locked, Holds, Collecting

LEMMA Ending ==
    ASSUME IInv, NEW t \in Tasks, Holds(t), at' \in {[at EXCEPT ![t] = "idle"], [at EXCEPT ![t] = "ended"]}
    PROVE  ~Collecting'
BY DEF IInv, Locked, Holds, Collecting

(* A task begins to collect by sending, and over a socket without an error. *)
LEMMA NoOneCollects ==
    ASSUME IInv, [Next]_vars, ~Collecting, Collecting'
    PROVE  ~broken /\ sent' = sent + 1
           /\ \E t \in Tasks : SendCommand(t)
<1> USE DEF IInv, Locked, Collecting
<1>1. ASSUME NEW t \in Tasks, SendCommand(t) PROVE ~broken /\ sent' = sent + 1
    <2>1. CASE broken
        BY <1>1, <2>1 DEF SendCommand, Release
    <2> QED
        BY <1>1, <2>1 DEF SendCommand
<1>2. CASE \A t \in Tasks : ~SendCommand(t)
    <2>1. \A t \in Tasks : ~ReadPacket(t) /\ ~TimesOut(t)
        BY DEF ReadPacket, TimesOut, Collects
    <2> QED
        BY <1>2, <2>1, Constants
           DEF Next, Network, vars, call, wire, ServerLogin, ServerExecutes, LoseRequest, LoseReply,
               Deliver, UdpError, Connect, LoginDone, LoginFails, CallCommand, KeepaliveWakes,
               KeepaliveSkips, Refuse, Release, CloseCall, CancelKeepalive, CloseSocket, Tasks
<1> QED
    BY <1>1, <1>2

LEMMA FreshStep ==
    ASSUME IInv, [Next]_vars
    PROVE  Fresh'
<1> USE Constants DEF IInv, Fresh
<1>0. sent \in Nat /\ inbox \in Seq(PacketType) /\ Len(inbox) \in Nat
    BY LenProperties DEF Numbers
<1>1. CASE UNCHANGED <<sent, inbox, backlog>> /\ (broken => broken') /\ (Collecting <=> Collecting')
    BY <1>1
<1>2. CASE UNCHANGED <<sent, inbox, backlog>> /\ (broken => broken') /\ ~Collecting' /\ (broken \/ backlog = 0)
    BY <1>2
<1>3. ASSUME NEW p \in replies, Deliver(p) PROVE Fresh'
    <2>1. inbox' = Append(inbox, p) /\ UNCHANGED <<sent, backlog, broken, at>>
        BY <1>3 DEF Deliver, call
    <2>2. p.cmd # 0 => p.cmd + Modulus - 1 > sent
        BY DEF Numbers, Travels
    <2>3. /\ Len(inbox') = Len(inbox) + 1 /\ inbox'[Len(inbox) + 1] = p
          /\ \A i \in 1 .. Len(inbox) : inbox'[i] = inbox[i]
        BY <1>0, <2>1, AppendFacts DEF Numbers
    <2>4. Collecting <=> Collecting'
        BY <2>1 DEF Collecting
    <2>5. \A i \in 1 .. Len(inbox') : i \in 1 .. Len(inbox) \/ (i = Len(inbox) + 1 /\ i > Len(inbox))
        BY <1>0, <2>3
    <2> QED
        BY <1>0, <2>1, <2>2, <2>3, <2>4, <2>5
<1>4. CASE LoginDone
    <2>1. inbox # <<>> /\ inbox' = Tail(inbox) /\ backlog = 0 /\ UNCHANGED <<sent, backlog, broken>>
        BY <1>4 DEF LoginDone, call, Locked
    <2>2. ~Collecting /\ ~Collecting'
        BY <1>4 DEF LoginDone, Locked, Collecting
    <2>3. Len(inbox') = Len(inbox) - 1 /\ \A i \in 1 .. Len(inbox') : inbox'[i] = inbox[i + 1]
        BY <1>0, <2>1, TailFacts
    <2>4. \A i \in 1 .. Len(inbox') : i + 1 \in 1 .. Len(inbox) /\ ~(i <= backlog) /\ ~(i + 1 <= backlog)
        BY <1>0, <2>1, <2>3
    <2> QED
        BY <1>0, <2>1, <2>2, <2>3, <2>4
<1>5. ASSUME NEW t \in Tasks, SendCommand(t) PROVE Fresh'
    <2>1. sent' = sent + 1 /\ backlog' = Len(inbox) /\ UNCHANGED <<inbox, broken>>
        BY <1>5 DEF SendCommand
    <2>2. ~Collecting
        BY <1>5, Alone DEF SendCommand
    <2>3. CASE broken
        <3>1. Holds(t) /\ Release(t, FALSE)
            BY <1>5, <2>3 DEF SendCommand
        <3>2. ~Collecting'
            BY <3>1, Ending DEF Release
        <3> QED
            BY <1>0, <2>1, <2>3, <3>2
    <2>4. CASE ~broken
        <3>1. \A i \in 1 .. Len(inbox) : inbox[i].cmd \in Nat /\ (inbox[i].cmd # 0 => inbox[i].cmd <= sent)
            <4> SUFFICES ASSUME NEW i \in 1 .. Len(inbox)
                         PROVE  inbox[i].cmd \in Nat /\ (inbox[i].cmd # 0 => inbox[i].cmd <= sent)
                OBVIOUS
            <4>1. inbox[i] \in PacketType /\ Genuine(inbox[i])
                BY <1>0, ElementOfSeq, LenProperties DEF Numbers
            <4> QED
                BY <4>1 DEF Genuine, PacketType
        <3>2. \A i \in 1 .. Len(inbox) : inbox[i].cmd # 0 => inbox[i].cmd + Modulus - 1 > sent
            BY <1>0, <2>2, <2>4
        <3>3. Collecting'
            BY <1>5, <2>4 DEF SendCommand, Locked, Collecting
        <3> QED
            BY <1>0, <2>1, <3>1, <3>2, <3>3
    <2> QED
        BY <2>3, <2>4
<1>6. ASSUME NEW t \in Tasks, ReadPacket(t) PROVE Fresh'
    <2>1. /\ Holds(t) /\ Collecting /\ inbox # <<>> /\ inbox' = Tail(inbox)
          /\ backlog' = IF backlog = 0 THEN 0 ELSE backlog - 1
          /\ UNCHANGED <<sent, broken>>
        BY <1>6 DEF ReadPacket, Collects, Collecting
    <2>2. Len(inbox') = Len(inbox) - 1 /\ \A i \in 1 .. Len(inbox') : inbox'[i] = inbox[i + 1]
        BY <1>0, <2>1, TailFacts
    <2>3. backlog' \in Nat /\ backlog' <= Len(inbox')
        BY <1>0, <2>1, <2>2, TailFacts
    <2>4. \A i \in 1 .. Len(inbox') : i + 1 \in 1 .. Len(inbox) /\ (i <= backlog' <=> i + 1 <= backlog)
        BY <1>0, <2>1, <2>2
    <2>5. ~Collecting' => backlog' = 0
        <3>1. ~Matches(Head(inbox)) => Collecting'
            BY <1>6, <2>1 DEF ReadPacket, Collecting
        <3> QED
            BY <2>1, <3>1, MatchIsOwn
    <2> QED
        BY <1>0, <2>1, <2>2, <2>3, <2>4, <2>5
<1>7. ASSUME NEW t \in Tasks, TimesOut(t) PROVE Fresh'
    <2>1. Holds(t) /\ Collecting /\ (inbox = <<>> \/ backlog = 0) /\ UNCHANGED <<sent, inbox, backlog, broken>>
        BY <1>7 DEF TimesOut, Collects, Collecting
    <2>2. ~Collecting'
        BY <1>7, <2>1, Ending DEF TimesOut, EndCommand, Release
    <2>3. backlog = 0
        BY <1>0, <2>1, EmptySeq
    <2> QED
        BY <1>2, <2>1, <2>2, <2>3
<1>8. CASE CancelKeepalive
    <2>1. UNCHANGED <<sent, inbox, backlog, broken>> /\ at' = [at EXCEPT ![Keepalive] = "ended"]
          /\ (at[Keepalive] = "collects" => backlog = 0)
        BY <1>8 DEF CancelKeepalive
    <2>2. CASE at[Keepalive] = "collects"
        <3>1. ~Collecting'
            BY <2>1, <2>2, Ending DEF Locked
        <3> QED
            BY <1>2, <2>1, <2>2, <3>1
    <2>3. CASE at[Keepalive] # "collects"
        <3>1. Collecting <=> Collecting'
            BY <2>1, <2>3 DEF Collecting, Locked
        <3> QED
            BY <1>1, <2>1, <3>1
    <2> QED
        BY <2>2, <2>3
<1>9. ASSUME NEW t \in Tasks, at[t] # "collects", NEW x \in {"idle", "waits", "ended"},
             at' = [at EXCEPT ![t] = x], UNCHANGED <<sent, inbox, backlog, broken>>
      PROVE  Fresh'
    <2>1. Collecting <=> Collecting'
        BY <1>9 DEF Collecting, Locked
    <2> QED
        BY <1>1, <1>9, <2>1
<1>10. CASE KeepaliveSkips \/ \E t \in Tasks : Refuse(t)
    BY <1>9, <1>10 DEF KeepaliveSkips, Refuse, Release, call
<1>11. CASE KeepaliveWakes \/ CloseCall \/ \E c \in Callers : CallCommand(c)
    BY <1>9, <1>11 DEF KeepaliveWakes, CloseCall, CallCommand, call, Tasks
<1>12. CASE UNCHANGED <<sent, inbox, backlog, at>> /\ (broken => broken')
    <2>1. Collecting <=> Collecting'
        BY <1>12 DEF Collecting
    <2> QED
        BY <1>1, <1>12, <2>1
<1> QED
    BY <1>3, <1>4, <1>5, <1>6, <1>7, <1>8, <1>10, <1>11, <1>12
       DEF Next, Network, vars, call, wire, ServerLogin, ServerExecutes, LoseRequest, LoseReply,
           UdpError, Connect, LoginFails, CloseSocket

LEMMA OutcomesStep ==
    ASSUME IInv, [Next]_vars
    PROVE  Outcomes'
<1> USE Constants DEF IInv, Outcomes
<1>0. sent \in 0 .. MaxCommands /\ (Collecting => sent \in Commands)
      /\ \A t \in Tasks : at[t] = "collects" => Collecting
    BY DEF Numbers, Locked, Collecting, Commands
<1>1. ASSUME UNCHANGED <<sent, outcome, answer>>, Collecting' => Collecting, executed \subseteq executed'
      PROVE  Outcomes'
    BY <1>1
<1>2. ASSUME NEW t \in Tasks, SendCommand(t) PROVE Outcomes'
    <2>0. /\ sent' = sent + 1 /\ sent < MaxCommands /\ UNCHANGED <<answer, executed>>
          /\ broken => outcome' = [outcome EXCEPT ![sent + 1] = "failed"]
          /\ ~broken => outcome' = [outcome EXCEPT ![sent + 1] = "sent"]
        BY <1>2 DEF SendCommand
    <2>1. /\ sent' = sent + 1 /\ sent' \in Commands /\ UNCHANGED <<answer, executed>>
          /\ broken => outcome' = [outcome EXCEPT ![sent'] = "failed"]
          /\ ~broken => outcome' = [outcome EXCEPT ![sent'] = "sent"]
        BY <1>0, <2>0 DEF Commands
    <2>2. \A n \in Commands : outcome'[n] = "none" <=> n > sent'
        BY <1>0, <2>1 DEF Commands
    <2>3. Collecting' => ~broken
        BY <1>2, Alone, NoOneCollects DEF SendCommand
    <2> QED
        BY <2>1, <2>2, <2>3
<1>3. ASSUME sent \in Commands, UNCHANGED <<sent, executed>>, ~Collecting',
             \E x \in {"failed", "answered"} : /\ outcome' = [outcome EXCEPT ![sent] = x]
                                               /\ x = "answered" => sent \in executed,
             answer' = answer \/ \E P \in SUBSET PacketType : answer' = [answer EXCEPT ![sent] = P]
      PROVE  Outcomes'
    <2>1. answer' \in [Commands -> SUBSET PacketType]
        BY <1>3
    <2> QED
        BY <1>0, <1>3, <2>1 DEF Commands
<1>4. ASSUME NEW t \in Tasks, ReadPacket(t) \/ TimesOut(t) PROVE Outcomes'
    <2>1. Holds(t) /\ Collecting /\ UNCHANGED <<sent, executed>>
        BY <1>0, <1>4 DEF ReadPacket, TimesOut, Collects, wire
    <2>2. CASE UNCHANGED <<outcome, answer, at>>
        BY <1>1, <2>1, <2>2 DEF Collecting
    <2>3. ASSUME NEW P \in SUBSET PacketType, EndCommand(t, P), P # {} => sent \in executed
          PROVE  Outcomes'
        <3>1. ~Collecting'
            BY <2>1, <2>3, Ending DEF EndCommand, Release
        <3>2. \E x \in {"failed", "answered"} : /\ outcome' = [outcome EXCEPT ![sent] = x]
                                                /\ x = "answered" => sent \in executed
            BY <2>3 DEF EndCommand
        <3>3. \E Q \in SUBSET PacketType : answer' = [answer EXCEPT ![sent] = Q]
            BY <2>3 DEF EndCommand
        <3> QED
            BY <1>0, <1>3, <2>1, <3>1, <3>2, <3>3
    <2>4. ASSUME inbox # <<>>, Matches(Head(inbox)) PROVE sent \in executed /\ Head(inbox) \in PacketType
        <3>1. Head(inbox) = inbox[1] /\ 1 \in DOMAIN inbox /\ Head(inbox) \in PacketType
            BY <2>4, TailFacts, LenProperties DEF Numbers
        <3>2. Head(inbox).cmd = sent /\ sent # 0
            BY <1>0, <2>1, <2>4, MatchIsOwn DEF Commands
        <3> QED
            BY <3>1, <3>2 DEF Numbers, Genuine
    <2>5. ASSUME inbox # <<>>, Matches(Head(inbox))
          PROVE  {q \in parts : q.index # Head(inbox).index} \cup {Head(inbox)} \subseteq PacketType
        BY <2>1, <2>4, <2>5 DEF Gathered
    <2>6. \/ UNCHANGED <<outcome, answer, at>>
          \/ EndCommand(t, {})
          \/ /\ inbox # <<>> /\ Matches(Head(inbox))
             /\ \/ EndCommand(t, {Head(inbox)})
                \/ EndCommand(t, {q \in parts : q.index # Head(inbox).index} \cup {Head(inbox)})
        BY <1>4 DEF ReadPacket, TimesOut
    <2> QED
        BY <2>2, <2>3, <2>4, <2>5, <2>6
<1>5. CASE CancelKeepalive
    <2>1. UNCHANGED <<sent, executed, answer>> /\ at' = [at EXCEPT ![Keepalive] = "ended"]
        BY <1>5 DEF CancelKeepalive, wire
    <2>2. CASE at[Keepalive] = "collects"
        <3>1. ~Collecting' /\ Collecting
            BY <1>0, <2>1, <2>2, Ending DEF Locked
        <3>2. outcome' = [outcome EXCEPT ![sent] = "failed"]
            BY <1>5, <2>2 DEF CancelKeepalive
        <3> QED
            BY <1>0, <1>3, <2>1, <3>1, <3>2
    <2>3. CASE at[Keepalive] # "collects"
        <3>1. Collecting' => Collecting
            BY <2>1 DEF Collecting, Locked
        <3> QED
            BY <1>1, <1>5, <2>1, <2>3, <3>1 DEF CancelKeepalive
    <2> QED
        BY <2>2, <2>3
<1>6. CASE \A t \in Tasks : ~SendCommand(t) /\ ~ReadPacket(t) /\ ~TimesOut(t) /\ ~CancelKeepalive
    <2>1. Collecting' => Collecting
        BY <1>6, NoOneCollects
    <2>2. UNCHANGED <<sent, outcome, answer>> /\ executed \subseteq executed'
        BY <1>6 DEF Next, Network, vars, call, wire, ServerLogin, ServerExecutes, LoseRequest,
               LoseReply, Deliver, UdpError, Connect, LoginDone, LoginFails, CallCommand,
               KeepaliveWakes, KeepaliveSkips, Refuse, Release, CloseCall, CloseSocket
    <2> QED
        BY <1>1, <2>1, <2>2
<1> QED
    BY <1>2, <1>4, <1>5, <1>6

LEMMA GatheredStep ==
    ASSUME IInv, [Next]_vars
    PROVE  Gathered'
<1> USE Constants DEF IInv, Gathered
<1>1. CASE UNCHANGED <<sent, parts>> /\ (Collecting' => Collecting)
    BY <1>1
<1>2. CASE parts' = {}
    BY <1>2
<1>3. ASSUME NEW t \in Tasks, ReadPacket(t), parts' # parts, parts' # {} PROVE Gathered'
    <2> DEFINE p == Head(inbox)
    <2>1. /\ Collecting /\ UNCHANGED sent /\ inbox # <<>> /\ Matches(p) /\ p.total # 0
          /\ \A q \in parts : q.total = p.total
          /\ parts' = {q \in parts : q.index # p.index} \cup {p}
        BY <1>3 DEF ReadPacket, EndCommand, Collects, Collecting
    <2>2. p = inbox[1] /\ 1 \in DOMAIN inbox /\ p \in PacketType
        BY <2>1, TailFacts, LenProperties DEF Numbers
    <2>3. p.cmd = sent
        BY <2>1, MatchIsOwn
    <2>4. p.cmd # 0
        BY <2>1 DEF Matches
    <2>5. p.index \in 0 .. p.total - 1
        BY <2>1, <2>2, <2>4 DEF Numbers, Genuine
    <2> HIDE DEF p
    <2>6. \A q \in parts' : (q \in parts \/ q = p)
        BY <2>1
    <2>7. \A q \in parts' : /\ q \in PacketType /\ q.cmd = sent
                            /\ q.total = p.total /\ q.index \in 0 .. q.total - 1
        BY <2>1, <2>2, <2>3, <2>5, <2>6
    <2> QED
        BY <2>1, <2>7
<1>4. ASSUME NEW t \in Tasks, SendCommand(t) \/ ReadPacket(t) \/ TimesOut(t) PROVE Gathered'
    <2>1. CASE SendCommand(t) \/ TimesOut(t)
        BY <1>2, <2>1 DEF SendCommand, TimesOut, EndCommand
    <2>2. CASE ReadPacket(t) /\ parts' = parts
        BY <1>1, <2>2 DEF ReadPacket, Collects, Collecting
    <2> QED
        BY <1>2, <1>3, <1>4, <2>1, <2>2
<1>5. CASE \A t \in Tasks : ~SendCommand(t) /\ ~ReadPacket(t) /\ ~TimesOut(t)
    <2>1. Collecting' => Collecting
        BY <1>5, NoOneCollects
    <2>2. UNCHANGED <<sent, parts>>
        BY <1>5 DEF Next, Network, vars, call, wire, ServerLogin, ServerExecutes, LoseRequest,
               LoseReply, Deliver, UdpError, Connect, LoginDone, LoginFails, CallCommand,
               KeepaliveWakes, KeepaliveSkips, Refuse, CloseCall, CloseSocket, CancelKeepalive
    <2> QED
        BY <1>1, <2>1, <2>2
<1> QED
    BY <1>4, <1>5

(* What a complete answer was made of is the reply to the command.          *)
Complete(n, P) ==
    /\ \A p \in P : p.cmd = n
    /\ \E p \in P : {q.index : q \in P} = 0 .. (IF p.total = 0 THEN 0 ELSE p.total - 1)

LEMMA AnswerIsComplete ==
    ASSUME IInv, NEW t \in Tasks, ReadPacket(t)
    PROVE  \/ UNCHANGED <<outcome, answer>>
           \/ \E P : EndCommand(t, P) /\ (P # {} => Complete(sent, P))
<1> USE Constants DEF IInv
<1> DEFINE p == Head(inbox)
           news == {q \in parts : q.index # p.index} \cup {p}
<1>1. Collecting /\ inbox # <<>> /\ p = inbox[1] /\ 1 \in DOMAIN inbox /\ p \in PacketType
    BY TailFacts, LenProperties DEF ReadPacket, Collects, Collecting, Numbers
<1>2. ASSUME Matches(p) PROVE p.cmd = sent /\ p.index \in 0 .. (IF p.total = 0 THEN 0 ELSE p.total - 1)
    <2>1. p.cmd = sent /\ p.cmd # 0
        BY <1>1, <1>2, MatchIsOwn DEF Matches
    <2> QED
        BY <1>1, <2>1 DEF Numbers, Genuine
<1>3. CASE Matches(p) /\ p.total = 0 /\ EndCommand(t, {p})
    <2>1. {q.index : q \in {p}} = {0} /\ 0 .. 0 = {0}
        BY <1>2, <1>3
    <2>2. Complete(sent, {p})
        BY <1>2, <1>3, <2>1 DEF Complete
    <2> QED
        BY <1>3, <2>2
<1>4. CASE /\ Matches(p) /\ p.total # 0 /\ EndCommand(t, news)
           /\ \A q \in parts : q.total = p.total
           /\ \A i \in 0 .. p.total - 1 : \E q \in news : q.index = i
    <2>1. \A q \in news : q.cmd = sent /\ q.index \in 0 .. p.total - 1
        BY <1>1, <1>2, <1>4 DEF Gathered
    <2>2. {q.index : q \in news} = 0 .. p.total - 1
        BY <1>4, <2>1
    <2>3. p \in news
        OBVIOUS
    <2>4. Complete(sent, news)
        BY <1>4, <2>1, <2>2, <2>3 DEF Complete
    <2> QED
        BY <1>4, <2>4
<1>5. CASE EndCommand(t, {})
    BY <1>5
<1> QED
    BY <1>3, <1>4, <1>5 DEF ReadPacket

LEMMA AnswersStep ==
    ASSUME IInv, [Next]_vars
    PROVE  AnswersMatch'
<1> USE Constants DEF IInv
<1>0. answer \in [Commands -> SUBSET PacketType] /\ outcome \in [Commands -> {"none", "sent", "failed", "answered"}]
      /\ \A n \in Commands : outcome[n] = "answered" => Complete(n, answer[n])
    BY DEF Outcomes, AnswersMatch, Complete
<1> SUFFICES \A n \in Commands : outcome'[n] = "answered" => Complete(n, answer'[n])
    BY DEF AnswersMatch, Complete
<1>1. CASE UNCHANGED <<outcome, answer>>
    BY <1>0, <1>1
<1>2. ASSUME NEW n, NEW x \in {"sent", "failed"}, outcome' = [outcome EXCEPT ![n] = x],
             answer' = answer \/ answer' = [answer EXCEPT ![n] = {}]
      PROVE  \A m \in Commands : outcome'[m] = "answered" => Complete(m, answer'[m])
    BY <1>0, <1>2
<1>3. ASSUME NEW t \in Tasks, SendCommand(t)
      PROVE  \A m \in Commands : outcome'[m] = "answered" => Complete(m, answer'[m])
    BY <1>2, <1>3 DEF SendCommand
<1>4. ASSUME NEW t \in Tasks, ReadPacket(t)
      PROVE  \A m \in Commands : outcome'[m] = "answered" => Complete(m, answer'[m])
    <2>1. ASSUME NEW P, EndCommand(t, P), P # {} => Complete(sent, P)
          PROVE  \A m \in Commands : outcome'[m] = "answered" => Complete(m, answer'[m])
        BY <1>0, <2>1 DEF EndCommand
    <2> QED
        BY <1>1, <1>4, <2>1, AnswerIsComplete
<1>5. ASSUME NEW t \in Tasks, TimesOut(t)
      PROVE  \A m \in Commands : outcome'[m] = "answered" => Complete(m, answer'[m])
    BY <1>2, <1>5 DEF TimesOut, EndCommand
<1>6. CASE CancelKeepalive
    BY <1>1, <1>2, <1>6 DEF CancelKeepalive
<1> QED
    BY <1>1, <1>3, <1>4, <1>5, <1>6
       DEF Next, Network, vars, call, wire, ServerLogin, ServerExecutes, LoseRequest, LoseReply,
           Deliver, UdpError, Connect, LoginDone, LoginFails, CallCommand, KeepaliveWakes,
           KeepaliveSkips, Refuse, CloseCall, CloseSocket

-----------------------------------------------------------------------------
(* The theorems *)

(* The whole of what the client relies on, over any network.                *)
THEOREM Inductive == Spec => []IInv
<1>1. IInv /\ [Next]_vars => IInv'
    BY NumbersStep, LockedStep, FreshStep, OutcomesStep, GatheredStep, AnswersStep DEF IInv
<1> QED
    BY InitHolds, <1>1, PTL DEF Spec

(* _collect_response: matching by the sequence number alone never gives a   *)
(* command the reply of another one, nor an incomplete reply.               *)
THEOREM AnswersBelong == Spec => []AnswersMatch
<1>1. IInv => AnswersMatch
    BY DEF IInv
<1> QED
    BY Inductive, <1>1, PTL

(* What callers of command() see is a remote call executed at most once,    *)
(* answered by its own answer or failed.                                    *)
THEOREM RemoteCalls == Spec => ImplementsRemoteCall
<1>1. IInv => CommandState = outcome
    BY DEF IInv, AnswersMatch, Outcomes, CommandState
<1>2. IInv' => CommandState' = outcome'
    BY DEF IInv, AnswersMatch, Outcomes, CommandState
<1>3. Init => Remote!Init
    BY InitHolds, <1>1 DEF Init, Remote!Init
<1>4. IInv /\ IInv' /\ [Next]_vars => [Remote!Next]_<<CommandState, executed>>
    <2> SUFFICES ASSUME IInv, IInv', [Next]_vars
                 PROVE  [Remote!Next]_<<CommandState, executed>>
        OBVIOUS
    <2> SUFFICES \/ UNCHANGED <<outcome, executed>>
                 \/ \E k \in Commands :
                       \/ /\ outcome[k] = "none" /\ UNCHANGED executed
                          /\ \E x \in {"sent", "failed"} : outcome' = [outcome EXCEPT ![k] = x]
                       \/ outcome[k] # "none" /\ executed' = executed \cup {k} /\ UNCHANGED outcome
                       \/ /\ outcome[k] = "sent" /\ k \in executed /\ UNCHANGED executed
                          /\ outcome' = [outcome EXCEPT ![k] = "answered"]
                       \/ /\ outcome[k] = "sent" /\ UNCHANGED executed
                          /\ outcome' = [outcome EXCEPT ![k] = "failed"]
        <3>1. CommandState = outcome /\ CommandState' = outcome'
            BY <1>1, <1>2
        <3>2. ASSUME NEW k \in Commands, outcome[k] # "none", executed' = executed \cup {k}, UNCHANGED outcome
              PROVE  Remote!Execute(k) \/ UNCHANGED <<outcome, executed>>
            BY <3>1, <3>2 DEF Remote!Execute
        <3> QED
            BY <3>1, <3>2
               DEF Remote!Next, Remote!Send, Remote!Execute, Remote!Answer, Remote!Fail
    <2> USE DEF IInv, Numbers, Outcomes
    <2>1. ASSUME NEW t \in Tasks, SendCommand(t)
          PROVE  /\ sent + 1 \in Commands /\ outcome[sent + 1] = "none" /\ UNCHANGED executed
                 /\ \E x \in {"sent", "failed"} : outcome' = [outcome EXCEPT ![sent + 1] = x]
        <3>1. sent + 1 \in Commands /\ outcome[sent + 1] = "none"
            BY <2>1, Constants DEF SendCommand, Commands
        <3> QED
            BY <2>1, <3>1 DEF SendCommand
    <2>2. ASSUME NEW r \in requests, NEW total \in Shapes, ServerExecutes(r, total)
          PROVE  /\ r.cmd \in Commands /\ outcome[r.cmd] # "none" /\ executed' = executed \cup {r.cmd}
                 /\ UNCHANGED outcome
        <3>1. r.cmd \in Commands /\ ~(r.cmd > sent)
            BY <2>2, Constants DEF ServerExecutes, Commands
        <3> QED
            BY <2>2, <3>1 DEF ServerExecutes, call
    <2>3. ASSUME Collecting PROVE sent \in Commands /\ outcome[sent] = "sent"
        BY <2>3, Constants DEF Locked, Collecting, Commands
    <2>4. ASSUME NEW t \in Tasks, ReadPacket(t) \/ TimesOut(t)
          PROVE  /\ Collecting /\ UNCHANGED executed
                 /\ \/ UNCHANGED outcome
                    \/ outcome' = [outcome EXCEPT ![sent] = "failed"]
                    \/ outcome' = [outcome EXCEPT ![sent] = "answered"]
        BY <2>4 DEF ReadPacket, TimesOut, EndCommand, Collects, Collecting, wire
    <2>5. ASSUME Collecting, outcome' = [outcome EXCEPT ![sent] = "answered"], UNCHANGED executed
          PROVE  sent \in executed
        <3>1. outcome'[sent] = "answered"
            BY <2>3, <2>5
        <3> QED
            BY <2>3, <2>5, <3>1
    <2>6. ASSUME CancelKeepalive
          PROVE  /\ UNCHANGED executed
                 /\ \/ UNCHANGED outcome
                    \/ Collecting /\ outcome' = [outcome EXCEPT ![sent] = "failed"]
        BY <2>6, Constants DEF CancelKeepalive, Collecting, wire
    <2>7. CASE UNCHANGED <<outcome, executed>>
        BY <2>7
    <2> QED
        BY <2>1, <2>2, <2>3, <2>4, <2>5, <2>6, <2>7
           DEF Next, Network, vars, call, wire, ServerLogin, LoseRequest, LoseReply,
               Deliver, UdpError, Connect, LoginDone, LoginFails, CallCommand, KeepaliveWakes,
               KeepaliveSkips, Refuse, CloseCall, CloseSocket
<1> QED
    BY Inductive, <1>3, <1>4, PTL DEF Spec, ImplementsRemoteCall, Remote!Spec
-----------------------------------------------------------------------------
(* The client of the Workshop API *)

USE WorkshopAssumption

(* What the argument needs of the types.                                    *)
Shape ==
    /\ tokens \in Int /\ ahead \in Int /\ level \in 0..Burst
    /\ lock \in Seq(ApiCallers)
    /\ DOMAIN pc = ApiCallers
    /\ left \in [ApiCallers -> Nat]

(* The bucket never holds more than what the Workshop still grants.         *)
Covered == Least(Burst, tokens - ahead) <= level

(* Who paces holds the lock, and time will have granted its request by the   *)
(* end of its sleep.                                                        *)
PacedIsCovered ==
    \A c \in ApiCallers :
        pc[c] = "paced" => lock # <<>> /\ Head(lock) = c /\ 1 - left[c] <= level

WCInv == Shape /\ Covered /\ PacedIsCovered

-----------------------------------------------------------------------------
LEMMA LongestIsNatural == LongestWait \in Nat
BY DEF LongestWait

LEMMA RefilledIs ==
    ASSUME Shape, Covered
    PROVE  Refilled \in Int /\ Refilled <= Burst /\ Refilled <= level
BY DEF Shape, Covered, Refilled, Least

(* The lock passes from its holder to the next, in order.                   *)
LEMMA QueueFacts ==
    ASSUME NEW q \in Seq(ApiCallers), NEW c \in ApiCallers
    PROVE  /\ Append(q, c) \in Seq(ApiCallers) /\ Append(q, c) # <<>>
           /\ q # <<>> => Head(Append(q, c)) = Head(q) /\ Tail(q) \in Seq(ApiCallers)
BY AppendProperties, HeadTailAppend, HeadTailProperties

-----------------------------------------------------------------------------
(* One step of one caller *)

LEMMA AcquireStep ==
    ASSUME WCInv, NEW c \in ApiCallers, Acquire(c)
    PROVE  WCInv' /\ [Bucket!Refill \/ Bucket!Take]_level
<1> USE DEF Shape
<1>0. Shape /\ Covered
    BY DEF WCInv
<1>1. \A d \in ApiCallers : pc[d] # "paced"
    BY DEF Acquire, WCInv, PacedIsCovered
<1>2. lock # <<>> /\ Tail(lock) \in Seq(ApiCallers) /\ ahead' = 0
    BY <1>0, QueueFacts DEF Acquire
<1>3. Refilled \in Int /\ Refilled <= Burst /\ Refilled <= level
    BY <1>0, RefilledIs
<1>4. CASE Exhausts(c)
    BY <1>0, <1>1, <1>2, <1>3, <1>4
       DEF Exhausts, Returns, WCInv, Covered, Least, PacedIsCovered
<1>5. CASE Paces(c)
    <2>1. Shape' /\ level' = level /\ lock' = lock
        BY <1>0, <1>2, <1>3, <1>5 DEF Paces
    <2>2. Covered'
        BY <1>0, <1>2, <1>3, <1>5 DEF Paces, Covered, Least
    <2>3. PacedIsCovered'
        BY <1>0, <1>1, <1>3, <1>5 DEF Acquire, Paces, PacedIsCovered
    <2> QED
        BY <2>1, <2>2, <2>3 DEF WCInv
<1>6. CASE Passes(c)
    <2>1. level' = level - 1 /\ level >= 1
        BY <1>0, <1>3, <1>6 DEF Passes, Sends
    <2>2. Shape'
        BY <1>0, <1>2, <1>3, <1>6, <2>1 DEF Passes, Sends
    <2>3. Covered'
        BY <1>0, <1>2, <1>3, <1>6, <2>1 DEF Passes, Covered, Least
    <2>4. PacedIsCovered'
        BY <1>0, <1>1, <1>6 DEF Passes, Sends, PacedIsCovered
    <2> QED
        BY <1>0, <2>1, <2>2, <2>3, <2>4 DEF WCInv, Bucket!Take
<1> QED
    BY <1>4, <1>5, <1>6 DEF Acquire

LEMMA PaceEndsStep ==
    ASSUME WCInv, NEW c \in ApiCallers, PaceEnds(c)
    PROVE  WCInv' /\ [Bucket!Refill \/ Bucket!Take]_level
<1> USE DEF Shape
<1>1. Shape /\ lock # <<>> /\ Head(lock) = c /\ level >= 1
    BY DEF PaceEnds, WCInv, PacedIsCovered
<1>2. level' = level - 1 /\ tokens' = 0 /\ ahead' = 0 /\ Tail(lock) \in Seq(ApiCallers)
    BY <1>1, QueueFacts DEF PaceEnds, Settles, Sends
<1>3. Shape' /\ Covered'
    BY <1>1, <1>2 DEF PaceEnds, Sends, Covered, Least
<1>4. PacedIsCovered'
    BY <1>1 DEF PaceEnds, Sends, WCInv, PacedIsCovered
<1> QED
    BY <1>1, <1>2, <1>3, <1>4 DEF WCInv, Bucket!Take

(* Nothing is sent, and the bucket is as it was or drained.                 *)
LEMMA QuietStep ==
    ASSUME WCInv, UNCHANGED level, NEW c \in ApiCallers,
           UNCHANGED <<tokens, ahead>> \/ (tokens' = 0 /\ \E w \in Nat : ahead' = w),
           lock' = lock \/ lock' = Append(lock, c),
           \E why \in {"idle", "lock", "told", "retry"} : pc' = [pc EXCEPT ![c] = why],
           UNCHANGED left \/ \E n \in Nat : left' = [left EXCEPT ![c] = n]
    PROVE  WCInv'
<1> USE DEF Shape
<1>0. Shape /\ Covered
    BY DEF WCInv
<1>1. Shape'
    <2>1. tokens' \in Int /\ ahead' \in Int /\ level' \in 0..Burst
        BY <1>0
    <2>2. lock' \in Seq(ApiCallers)
        BY <1>0, QueueFacts
    <2>3. DOMAIN pc' = ApiCallers /\ left' \in [ApiCallers -> Nat]
        BY <1>0
    <2> QED
        BY <2>1, <2>2, <2>3
<1>2. Covered'
    BY <1>0 DEF Covered, Least
<1>3. PacedIsCovered'
    BY <1>0, QueueFacts DEF WCInv, PacedIsCovered
<1> QED
    BY <1>1, <1>2, <1>3 DEF WCInv

LEMMA CancelledStep ==
    ASSUME WCInv, NEW c \in ApiCallers, Cancelled(c)
    PROVE  WCInv'
<1> USE DEF Shape
<1>0. Shape /\ Covered
    BY DEF WCInv
<1>1. UNCHANGED <<tokens, ahead, level>> /\ pc' = [pc EXCEPT ![c] = "idle"]
      /\ left' = [left EXCEPT ![c] = 0]
    BY DEF Cancelled, Returns, limiter
<1>2. lock' \in Seq(ApiCallers) /\ \A d \in ApiCallers \ {c} :
         lock # <<>> /\ Head(lock) = d => lock' # <<>> /\ Head(lock') = d
    <2>1. CASE UNCHANGED lock
        BY <1>0, <2>1
    <2>2. ASSUME NEW i \in DOMAIN lock, lock[i] = c, lock' = RemoveAt(lock, i)
          PROVE  <1>2!1 /\ <1>2!2
        BY <1>0, <2>2, LeavingFacts
    <2> QED
        BY <2>1, <2>2 DEF Cancelled
<1>3. PacedIsCovered'
    BY <1>0, <1>1, <1>2 DEF WCInv, PacedIsCovered
<1> QED
    BY <1>0, <1>1, <1>2, <1>3 DEF WCInv, Covered, Least

LEMMA TickStep ==
    ASSUME WCInv, Tick
    PROVE  WCInv' /\ [Bucket!Refill \/ Bucket!Take]_level
<1> USE LongestIsNatural DEF Shape
<1>1. Shape /\ Covered
    BY DEF WCInv
<1>2. ahead' \in Int /\ ahead' >= ahead - 1
    BY <1>1 DEF Tick, Most
<1>3. level' = Least(level + 1, Burst)
    BY DEF Tick
<1>4. Shape' /\ \A c \in ApiCallers : left'[c] >= left[c] - 1
    BY <1>1, <1>2, <1>3 DEF Tick, Most, Least
<1>5. Covered'
    BY <1>1, <1>2, <1>3 DEF Tick, Covered, Least
<1>6. PacedIsCovered'
    <2> SUFFICES ASSUME NEW c \in ApiCallers, pc'[c] = "paced"
                 PROVE  lock' # <<>> /\ Head(lock') = c /\ 1 - left'[c] <= level'
        BY DEF PacedIsCovered
    <2>1. lock # <<>> /\ Head(lock) = c /\ 1 - left[c] <= level /\ UNCHANGED lock
        BY DEF Tick, WCInv, PacedIsCovered
    <2>2. left[c] \in Nat /\ left'[c] \in Nat /\ left'[c] >= left[c] - 1
        BY <1>1, <1>4
    <2>3. 1 - left'[c] <= level'
        BY <1>1, <1>3, <2>1, <2>2 DEF Least
    <2> QED
        BY <2>1, <2>3
<1>7. [Bucket!Refill \/ Bucket!Take]_level
    BY <1>1, <1>3 DEF Least, Bucket!Refill
<1> QED
    BY <1>4, <1>5, <1>6, <1>7 DEF WCInv

LEMMA WCStep ==
    ASSUME WCInv, [WCNext]_wcVars
    PROVE  WCInv' /\ [Bucket!Refill \/ Bucket!Take]_level
<1>1. ASSUME NEW c \in ApiCallers, NEW u \in Urls, Get(c, u) PROVE WCInv' /\ UNCHANGED level
    BY <1>1, QuietStep DEF Get, Queues, limiter
<1>2. ASSUME NEW c \in ApiCallers, Ends(c) PROVE WCInv' /\ UNCHANGED level
    <2>1. CASE Answered(c) \/ Raises(c) \/ GivesUp(c)
        BY <2>1, QuietStep DEF Answered, Raises, GivesUp, Returns, limiter
    <2>2. CASE Transient(c)
        BY <2>2, QuietStep DEF Transient, Sleeps, limiter
    <2>3. ASSUME NEW w \in Waits, TooMany(c, w) PROVE WCInv' /\ UNCHANGED level
        <3>1. w \in Nat
            OBVIOUS
        <3> QED
            BY <2>3, <3>1, QuietStep DEF TooMany, Sleeps, NoteRetryAfter
    <2> QED
        BY <1>2, <2>1, <2>2, <2>3 DEF Ends
<1>3. ASSUME NEW c \in ApiCallers, TriesAgain(c) PROVE WCInv' /\ UNCHANGED level
    BY <1>3, QuietStep DEF TriesAgain, Queues, limiter
<1>4. ASSUME NEW c \in ApiCallers, Cancelled(c) PROVE WCInv' /\ UNCHANGED level
    BY <1>4, CancelledStep DEF Cancelled
<1>5. CASE UNCHANGED <<tokens, ahead, level, lock, pc, left>>
    BY <1>5 DEF WCInv, Shape, Covered, PacedIsCovered, Least
<1> QED
    BY <1>1, <1>2, <1>3, <1>4, <1>5, AcquireStep, PaceEndsStep, TickStep
       DEF WCNext, wcVars, limiter, callers, Midnight, ClearCache

(* WCInv is an invariant.                                                    *)
THEOREM WCInductive == WCSpec => []WCInv
<1>1. WCInit => WCInv
    BY DEF WCInit, WCInv, Shape, Covered, PacedIsCovered, Least
<1>2. WCInv /\ [WCNext]_wcVars => WCInv'
    BY WCStep
<1> QED
    BY <1>1, <1>2, PTL DEF WCSpec

(* However many callers pace, are refused, sleep out a pause and are         *)
(* cancelled, _RateLimiter lets out what a token bucket grants.             *)
THEOREM SendsWithinBudget == WCSpec => ImplementsTokenBucket
<1>1. WCInit => Bucket!Init
    BY DEF WCInit, Bucket!Init
<1>2. WCInv /\ [WCNext]_wcVars => [Bucket!Refill \/ Bucket!Take]_level
    BY WCStep
<1> QED
    BY <1>1, <1>2, WCInductive, PTL DEF WCSpec, ImplementsTokenBucket, Bucket!Spec
==============================================================================
