---------------------------- MODULE Replication ----------------------------
(***************************************************************************)
(* A master and a slave, each with its AppendLog, and the connection the   *)
(* slave makes when it starts.  The master greets every connection with    *)
(* S2C_SVR_READY_CMD and the slave registers when it hears that; the       *)
(* master's main thread answers with the lines of its append file in       *)
(* batches and adds the agent of the connection to m_SlaveVector; from     *)
(* then on it broadcasts every command it carries out.  SlaveMgr never     *)
(* removes an agent, so the memory of one may be handed out again.         *)
(***************************************************************************)
EXTENDS AppendLog, FiniteSets

CONSTANTS
  Master, Slave,
  Batch,      \* lines of a full M2S_APPENDFILE_ACK: 11
  Room,       \* messages the send buffer of a session holds
  Agents      \* addresses of ClientAgent objects

ASSUME ReplicationAssumption ==
  /\ Servers = {Master, Slave} /\ Master # Slave
  /\ Batch \in Nat \ {0}
  /\ Room \in Nat \ {0}

VARIABLES
  link,     \* "idle" (not tried yet), "open" (accepted), "asked" (the slave
            \* has asked to be registered), "registered" or "lost"
  agent,    \* address of the ClientAgent of the latest connection
  vector,   \* m_SlaveVector
  chan,     \* messages on their way to the slave
  ready,    \* m_bReplicated of the slave
  base,     \* history: lines of its file the master sent on this connection
  since,    \* history: commands in the master's memory at that moment
  stream    \* history: lines the slave has carried out on this connection

linkVars == <<link, agent, vector, chan, ready, base, since, stream>>
vars == <<logVars, linkVars>>

ReadyMsg       == [kind |-> "ready", lines |-> <<>>]
FileAck(lines) == [kind |-> "file", lines |-> lines]
CommandMsg(c)  == [kind |-> "command", lines |-> <<c>>]

Up(l) == l \in {"open", "asked", "registered"}

-----------------------------------------------------------------------------
(* The master *)

MutSendAll(before, msgs, l) ==
  /\ chan' = before \o msgs
  /\ link' = l

\* Session::Send: without room in its send buffer the session is removed.
SendAll(before, msgs, l) ==
  IF Len(before) + Len(msgs) <= Room
  THEN chan' = before \o msgs /\ link' = l
  ELSE chan' = SubSeq(before \o msgs, 1, Room) /\ link' = "lost"

\* BroadAllSlave sends the command once for every entry that is the agent of
\* the live connection, one that an earlier connection left behind included,
\* even before the slave registers.  The other entries are freed agents.
Broadcast(c) ==
  LET copies == Cardinality({i \in DOMAIN vector : vector[i] = agent})
  IN  IF Up(link) THEN [i \in 1 .. copies |-> CommandMsg(c)] ELSE <<>>

MutBroadcastFirst ==
  /\ Execute(Master)
  /\ SendAll(<<>>, Broadcast(<<Master, issued'[Master]>>) \o chan, link)
  /\ UNCHANGED <<agent, vector, ready, base, since, stream>>

\* A command of the master's clients, logged and then broadcast.
MasterCommand ==
  /\ Execute(Master)
  /\ SendAll(chan, Broadcast(<<Master, issued'[Master]>>), link)
  /\ UNCHANGED <<agent, vector, ready, base, since, stream>>

\* The file as fgets reads it while the append thread is writing it.
FileLines ==
  file[Master] \o IF half[Master] /\ ~ragged[Master] THEN <<Torn>> ELSE <<>>

MutBatches(lines) ==
  LET full == Len(lines) \div Batch
  IN  [i \in 1 .. full + 1 |->
         FileAck(SubSeq(lines, 1, IF i <= full THEN i * Batch ELSE Len(lines)))]

\* Full batches, and a last one, perhaps empty.
Batches(lines) ==
  LET full == Len(lines) \div Batch
  IN  [i \in 1 .. full + 1 |->
         FileAck(SubSeq(lines, (i - 1) * Batch + 1,
                        IF i <= full THEN i * Batch ELSE Len(lines)))]

MutRegister ==
  /\ Master \in up /\ link = "asked"
  /\ \E opened \in BOOLEAN :
       LET lines == IF opened THEN FileLines ELSE <<>>
       IN  /\ SendAll(chan, IF opened THEN Batches(lines) ELSE <<>>, "registered")
           /\ base' = lines
           /\ vector' = IF opened THEN Append(vector, agent) ELSE vector
  /\ since' = Len(mem[Master])
  /\ UNCHANGED <<agent, ready, stream, logVars>>

\* The handler of S2M_SLVREGISTER_SYN: ReplicateAppendFile, whose result it
\* ignores, then InsertSlave.  Nothing is sent when the file cannot be opened.
Register ==
  /\ Master \in up /\ link = "asked"
  /\ \E opened \in BOOLEAN :
       LET lines == IF opened THEN FileLines ELSE <<>>
       IN  /\ SendAll(chan, IF opened THEN Batches(lines) ELSE <<>>, "registered")
           /\ base' = lines
  /\ since' = Len(mem[Master])
  /\ vector' = Append(vector, agent)
  /\ UNCHANGED <<agent, ready, stream, logVars>>

-----------------------------------------------------------------------------
(* The slave *)

\* The connect thread tries once, after InitServer; the new agent may get the
\* address of one that was freed.  The master's OnAccept sends the greeting.
Connect ==
  /\ Slave \in up /\ link = "idle"
  /\ \/ Master \in up /\ link' = "open" /\ agent' \in Agents /\ chan' = <<ReadyMsg>>
     \/ link' = "lost" /\ UNCHANGED <<agent, chan>>
  /\ UNCHANGED <<vector, ready, base, since, stream, logVars>>

\* What has arrived before the slave's main thread handles the connection is
\* thrown away: OnConnect clears the receive buffer, the greeting with it.
OnConnect ==
  /\ Slave \in up /\ link \in {"open", "lost"} /\ chan # <<>> /\ Head(chan) = ReadyMsg
  /\ \E n \in 1 .. Len(chan) : chan' = SubSeq(chan, n + 1, Len(chan))
  /\ UNCHANGED <<link, agent, vector, ready, base, since, stream, logVars>>

\* S2C_SVR_READY_CMD: the slave asks to be registered.
ReceiveReady ==
  /\ Slave \in up /\ chan # <<>> /\ Head(chan) = ReadyMsg
  /\ link' = IF link = "open" THEN "asked" ELSE link
  /\ chan' = Tail(chan)
  /\ UNCHANGED <<agent, vector, ready, base, since, stream, logVars>>

\* M2S_APPENDFILE_ACK: the lines are carried out without logging them, and the
\* slave takes the replication to be done.
ReceiveFile ==
  /\ Slave \in up /\ chan # <<>> /\ Head(chan).kind = "file"
  /\ mem' = [mem EXCEPT ![Slave] = @ \o Head(chan).lines]
  /\ stream' = stream \o Head(chan).lines
  /\ ready' = TRUE
  /\ chan' = Tail(chan)
  /\ UNCHANGED <<link, agent, vector, base, since>>
  /\ UNCHANGED <<up, queue, isOpen, buf, half, file, ragged, stopped, dropped,
                 issued, crashes>>

\* M2S_APPENDCOMMAND_CMD: the command is carried out and logged.
ReceiveCommand ==
  /\ Slave \in up /\ chan # <<>> /\ Head(chan).kind = "command"
  /\ Do(Slave, Head(chan).lines[1], TRUE)
  /\ stream' = stream \o Head(chan).lines
  /\ chan' = Tail(chan)
  /\ UNCHANGED <<link, agent, vector, ready, base, since>>
  /\ UNCHANGED <<up, isOpen, buf, half, file, ragged, stopped, dropped, issued, crashes>>

\* A client's command to the slave, which CheckSvrReady lets pass.
SlaveCommand ==
  /\ ready
  /\ Execute(Slave)
  /\ UNCHANGED linkVars

-----------------------------------------------------------------------------
(* Failures *)

\* What the slave has received already when the connection breaks.
Cut(l) == \E n \in 0 .. Len(chan) : chan' = SubSeq(chan, 1, n) /\ link' = l

Disconnect ==
  /\ Up(link)
  /\ Cut("lost")
  /\ UNCHANGED <<agent, vector, ready, base, since, stream, logVars>>

MasterCrash ==
  /\ Crash(Master)
  /\ Cut(IF Up(link) THEN "lost" ELSE link)
  /\ vector' = <<>>
  /\ UNCHANGED <<agent, ready, base, since, stream>>

SlaveCrash ==
  /\ Crash(Slave)
  /\ chan' = <<>>
  /\ link' = "lost"
  /\ ready' = FALSE
  /\ UNCHANGED <<agent, vector, base, since, stream>>

SlaveRestart ==
  /\ Restart(Slave)
  /\ link' = "idle"
  /\ stream' = <<>>
  /\ UNCHANGED <<agent, vector, chan, ready, base, since>>

LogThread(s) == AppendThread(s) /\ UNCHANGED linkVars

Receive == ReceiveReady \/ ReceiveFile \/ ReceiveCommand

Init ==
  /\ InitLog
  /\ link = "idle"
  /\ agent \in Agents
  /\ vector = <<>>
  /\ chan = <<>>
  /\ ready = FALSE
  /\ base = <<>>
  /\ since = 0
  /\ stream = <<>>

Next ==
  \/ MasterCommand \/ Register
  \/ Connect \/ OnConnect \/ Receive \/ SlaveCommand
  \/ \E s \in Servers : LogThread(s)
  \/ Disconnect \/ MasterCrash \/ SlaveCrash \/ SlaveRestart
  \/ Restart(Master) /\ UNCHANGED linkVars

Spec == Init /\ [][Next]_vars

\* The main threads and the slave's connect thread go on.  The master registers
\* the slave when it has asked, not whenever a connection is open.
FairSpec == Spec /\ WF_vars(Connect) /\ WF_vars(Register) /\ WF_vars(Receive)

-----------------------------------------------------------------------------
(* Properties *)

TypeOK ==
  /\ LogTypeOK
  /\ link \in {"idle", "open", "asked", "registered", "lost"}
  /\ agent \in Agents
  /\ vector \in Seq(Agents)
  /\ chan \in Seq([kind : {"ready", "file", "command"}, lines : Seq(Line)])
  /\ Len(chan) <= Room
  /\ ready \in BOOLEAN
  /\ base \in Seq(Line)
  /\ since \in Nat
  /\ stream \in Seq(Line)

\* The lines of the messages on their way.
Pending[i \in 0 .. Room] ==
  IF i = 0 THEN <<>>
  ELSE IF i <= Len(chan) THEN Pending[i - 1] \o chan[i].lines ELSE Pending[i - 1]

Entries == Cardinality({i \in DOMAIN vector : vector[i] = agent})

\* A registered slave gets the master's file as it was, then every command the
\* master has carried out since, once and in order, as long as the address of
\* its agent is in m_SlaveVector once.
StreamIsFileThenCommands ==
  link = "registered" /\ Entries = 1 =>
    stream \o Pending[Room] =
      base \o SubSeq(mem[Master], since + 1, Len(mem[Master]))

\* Until it restarts, a slave carries out the master's commands in the order the
\* master did, and none twice: the file it is sent and the broadcasts that
\* follow do not overlap, whatever the append thread and the connection do.
AppliedOnceInOrder ==
  crashes[Slave] = 0 =>
    LET m == mem[Slave]
        mine == {i \in DOMAIN m : m[i] # Torn /\ m[i][1] = Master}
    IN  \A i, j \in mine : i < j => m[i][2] < m[j][2]

\* Once a slave says the replication is done, its memory holds every command
\* that the master had carried out when the slave registered.
ReplicationDone ==
  ready /\ link = "registered" =>
    \A i \in 1 .. since : Holds(mem[Slave], mem[Master][i])

\* The slave's OnConnect has thrown the greeting away.
Deaf == link = "open" /\ ReadyMsg \notin {chan[i] : i \in DOMAIN chan}

\* In the end a slave that heard the greeting has carried out all that its master
\* has, from the file on, and serves clients, unless the connection failed, which it
\* never makes again, or a server is down: no message waits for another, and no
\* command falls between the file and the broadcasts.  A slave that did not hear it
\* never asks and gets nothing.  A master without a file sends nothing, and its slave
\* is never ready.
CatchesUp ==
  <>[](\/ link = "lost" \/ up # Servers \/ Entries > 1 \/ Deaf
       \/ /\ Len(stream) = Len(base) + Len(mem[Master]) - since
          /\ link = "registered" /\ (ready \/ base = <<>>))
=============================================================================
