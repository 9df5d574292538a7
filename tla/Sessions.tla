------------------------------ MODULE Sessions ------------------------------
(***************************************************************************)
(* The life of sessions in IoHandler.  The main thread runs Update, whose  *)
(* loops are cut where another thread can come between; the I/O thread     *)
(* takes completions off the port in their order; the accept, connect and  *)
(* send threads are an action each.  Sockets, and the clients behind them, *)
(* are the environment, and any operation on a socket may fail.  A         *)
(* connection is a number, which also names the ClientAgent made for it; a *)
(* packet is <<connection, its place>>.                                    *)
(***************************************************************************)
EXTENDS Integers, Sequences, SequencesExt, FiniteSets

CONSTANTS
  AcceptSess,  \* the sessions of m_pAcceptSessionPool
  Dialer,      \* the session of m_pConnectSessionPool
  None,        \* NULL
  MaxAccept,   \* m_dwMaxAcceptSession
  MaxConn,     \* bound: connections
  MaxSent      \* bound: packets on a connection

ASSUME SessionsAssumption ==
  /\ IsFiniteSet(AcceptSess) /\ Dialer \notin AcceptSess
  /\ MaxAccept \in Nat \ {0} /\ MaxConn \in Nat \ {0} /\ MaxSent \in Nat
  /\ None \notin 1 .. MaxConn /\ None \notin AcceptSess \cup {Dialer}

Sess  == AcceptSess \cup {Dialer}
Conns == 1 .. MaxConn

VARIABLES
  \* the main thread
  pc, at,    \* its place in Update, and in m_pTempList
  temp,      \* m_pTempList
  active,    \* m_pActiveSessionList
  count,     \* m_numActiveSessions
  agent,     \* m_pNetworkObject of each session
  \* shared with the other threads
  accepted,  \* m_pAcceptedSessionList
  dial,      \* the list of Connector or IoHandler the dialling session is on
  kill,      \* m_bRemove: None, or the connection Remove was called for
  rbuf,      \* the packets in m_pRecvBuffer
  \* the system
  sock,      \* the state of each session's socket; "lost" when the program has
             \* dropped the session after an operation on it has failed
  conn,      \* its connection
  port,      \* the sockets that report to the port m_hIOCP
  posted,    \* the sessions with a receive pending
  cq, acq,   \* the completions on m_hIOCP, and on the port of Acceptor
  sent,      \* how many packets the peer of each connection has sent
  gone,      \* connections whose peer is gone
  \* history
  made,      \* connections made
  heard,     \* the packets OnRecv was called with, for each agent
  passed     \* the sessions a loop over m_pTempList has passed over

main == <<pc, at, temp, active, count, agent>>
net  == <<sock, conn, port, posted, cq, acq, sent, gone, made>>
shared == <<accepted, dial, kill, rbuf>>
vars == <<main, shared, net, heard, passed>>

-----------------------------------------------------------------------------
(* Sockets and completions *)

Done(type, s, n) == [type |-> type, sess |-> s, conn |-> conn[s], n |-> n]

\* Remove: session s is to end, for connection c.
Kill(s, c) == kill' = [kill EXCEPT ![s] = c]

\* PreRecv posts a receive, and queue is what is on the port.  It waits for
\* data, or ends at once when the peer has closed.
PostRecv(s, queue) ==
  /\ sock[s] = "open"
  /\ IF conn[s] \in gone
     THEN cq' = Append(queue, Done("end", s, 0)) /\ UNCHANGED posted
     ELSE cq' = queue /\ posted' = posted \cup {s}

\* PreRecv returns FALSE.
CannotRecv(s) == sock[s] # "open" \/ conn[s] \in gone

PendingRecv(s) == IF s \in posted THEN <<Done("end", s, 0)>> ELSE <<>>

MutReuse(s, reporting) ==
  /\ sock' = [sock EXCEPT ![s] = "closing"]
  /\ \/ /\ s \in reporting
        /\ cq' = cq \o PendingRecv(s) \o <<Done("disconnect", s, 0)>>
        /\ port' = reporting
     \/ /\ UNCHANGED cq
        /\ port' = reporting \ {s}
  /\ posted' = posted \ {s}

\* Session::Reuse.  TransmitFile ends the receive that is pending and then
\* reports to the port, if the socket is one of those that do; when it fails, the
\* socket is closed and the completion is posted by hand.
Reuse(s, reporting) ==
  /\ \/ /\ s \in reporting
        /\ cq' = cq \o PendingRecv(s) \o <<Done("disconnect", s, 0)>>
        /\ sock' = [sock EXCEPT ![s] = "closing"]
        /\ port' = reporting
     \/ /\ s \notin reporting
        /\ sock' = [sock EXCEPT ![s] = "lost"]
        /\ UNCHANGED <<cq, port>>
     \/ /\ cq' = Append(cq, Done("disconnect", s, 0))
        /\ sock' = [sock EXCEPT ![s] = "closing"]
        /\ port' = reporting \ {s}
  /\ posted' = posted \ {s}

\* FreeSession: the dialling session's socket is closed.
Free(s) ==
  /\ sock' = [sock EXCEPT ![s] = "closed"]
  /\ port' = port \ {s}
  /\ posted' = posted \ {s}
  /\ UNCHANGED cq

\* Session::Init: the buffers and the flag.
Cleared(s) ==
  /\ kill' = [kill EXCEPT ![s] = None]
  /\ rbuf' = [rbuf EXCEPT ![s] = <<>>]

-----------------------------------------------------------------------------
(* Clients, the accept thread and the connect thread *)

PeerConnects(s) ==
  /\ sock[s] = "listening" /\ made < MaxConn
  /\ made' = made + 1
  /\ sock' = [sock EXCEPT ![s] = "open"]
  /\ conn' = [conn EXCEPT ![s] = made + 1]
  /\ acq' = Append(acq, s)
  /\ UNCHANGED <<main, shared, port, posted, cq, sent, gone, heard, passed>>

PeerSends(s) ==
  /\ s \in posted /\ sent[conn[s]] < MaxSent
  /\ sent' = [sent EXCEPT ![conn[s]] = @ + 1]
  /\ posted' = posted \ {s}
  /\ cq' = Append(cq, Done("data", s, sent[conn[s]] + 1))
  /\ UNCHANGED <<main, shared, sock, conn, port, acq, gone, made, heard, passed>>

PeerCloses(s) ==
  /\ sock[s] = "open" /\ conn[s] \notin gone
  /\ gone' = gone \cup {conn[s]}
  /\ cq' = cq \o PendingRecv(s)
  /\ posted' = posted \ {s}
  /\ UNCHANGED <<main, shared, sock, conn, port, acq, sent, made, heard, passed>>

\* A session whose accept has failed is deleted or dropped (lost), unless the error
\* is ERROR_NETNAME_DELETED: then it is listed as if its client were there.
AcceptThread ==
  /\ acq # <<>>
  /\ acq' = Tail(acq)
  /\ \/ accepted' = Append(accepted, Head(acq)) /\ UNCHANGED sock
     \/ sock' = [sock EXCEPT ![Head(acq)] = "lost"] /\ UNCHANGED accepted
  /\ UNCHANGED <<main, dial, kill, rbuf, conn, port, posted, cq,
                 sent, gone, made, heard, passed>>

ConnectThread ==
  /\ dial = "connecting"
  /\ \/ dial' = "succeeded" /\ sock' = [sock EXCEPT ![Dialer] = "open"]
     \/ dial' = "failed" /\ UNCHANGED sock
  /\ UNCHANGED <<main, accepted, kill, rbuf, conn, port, posted, cq, acq,
                 sent, gone, made, heard, passed>>

-----------------------------------------------------------------------------
(* The I/O thread, one completion at a time, and the send thread *)

Received(e, rest) ==
  /\ rbuf' = [rbuf EXCEPT ![e.sess] = Append(@, <<e.conn, e.n>>)]
  /\ \/ PostRecv(e.sess, rest) /\ UNCHANGED kill
     \/ CannotRecv(e.sess) /\ Kill(e.sess, e.conn) /\ cq' = rest /\ UNCHANGED posted
  /\ UNCHANGED <<sock, conn>>

\* A receive that the peer's end ended, or that failed: on an error other than
\* ERROR_NETNAME_DELETED the session stays, with no receive pending.
Ended(e, rest) ==
  /\ Kill(e.sess, e.conn) \/ UNCHANGED kill
  /\ cq' = rest
  /\ UNCHANGED <<rbuf, posted, sock, conn>>

\* AcceptEx is called, and the session listens; or it fails, which io_thread, like
\* StartListen, does not look at.
Listens(s) == \E state \in {"listening", "lost"} : sock' = [sock EXCEPT ![s] = state]

MutPreAccept(e, rest) ==
  /\ UNCHANGED <<kill, rbuf>>
  /\ Listens(e.sess)
  /\ conn' = [conn EXCEPT ![e.sess] = None]
  /\ cq' = rest
  /\ UNCHANGED posted

\* PreAccept of a session that Reuse gave back.
PreAccept(e, rest) ==
  /\ Cleared(e.sess)
  /\ Listens(e.sess)
  /\ conn' = [conn EXCEPT ![e.sess] = None]
  /\ cq' = rest
  /\ UNCHANGED posted

\* The disconnect itself failed (it was not posted by hand): the session is removed
\* or not, as for a receive, but nothing calls PreAccept for it.
DisconnectFails(e, rest) ==
  /\ e.sess \in port
  /\ sock' = [sock EXCEPT ![e.sess] = "lost"]
  /\ Kill(e.sess, e.conn) \/ UNCHANGED kill
  /\ cq' = rest
  /\ UNCHANGED <<rbuf, posted, conn>>

HandleCompletion(e, rest) ==
  /\ \/ e.type = "data" /\ Received(e, rest)
     \/ e.type = "end" /\ Ended(e, rest)
     \/ e.type = "disconnect" /\ (PreAccept(e, rest) \/ DisconnectFails(e, rest))
  /\ UNCHANGED <<main, accepted, dial, port, acq, sent, gone, made, heard, passed>>

MutIoThread == \E i \in 1 .. Len(cq) : HandleCompletion(cq[i], RemoveAt(cq, i))

IoThread == cq # <<>> /\ HandleCompletion(Head(cq), Tail(cq))

\* ProcessSend finds that it cannot send what an agent has for a peer that is gone.
SendThread(s) ==
  /\ s \in Range(active) /\ kill[s] = None /\ agent[s] # None
  /\ conn[s] \in gone
  /\ Kill(s, conn[s])
  /\ UNCHANGED <<main, accepted, dial, rbuf, net, heard, passed>>

-----------------------------------------------------------------------------
(* The main thread: Update *)

\* Update goes to a list of connections only if there is something on it.
AfterAccepted == IF dial \in {"succeeded", "failed"} THEN "connected" ELSE "kick"

\* ProcessActiveSessionList: sessions that have been idle for too long, and
\* those with a packet of a wrong size first (bad), are removed; what the others
\* have received goes to their agents.  Then what the accept thread has listed is
\* taken over.
ProcessActive(idle, bad) ==
  LET served == {s \in Range(active) : kill[s] = None}
      ended  == idle \cup bad
      ready  == served \ ended
      Packets(c) == FlattenSeq([i \in 1 .. Len(active) |->
                       IF active[i] \in ready /\ agent[active[i]] = c
                       THEN rbuf[active[i]] ELSE <<>>])
  IN  /\ pc = "process"
      /\ idle \subseteq served \ {Dialer}
      /\ bad \subseteq {s \in served \ idle : rbuf[s] # <<>>}
      /\ kill' = [s \in Sess |-> IF s \in ended THEN conn[s] ELSE kill[s]]
      /\ rbuf' = [s \in Sess |-> IF s \in ready THEN <<>> ELSE rbuf[s]]
      /\ heard' = [c \in Conns |-> heard[c] \o Packets(c)]
      /\ temp' = accepted /\ accepted' = <<>>
      /\ pc' = IF accepted # <<>> THEN "accepted" ELSE AfterAccepted
      /\ UNCHANGED <<at, active, count, agent, dial, net, passed>>

MutEraseAt == temp' = RemoveAt(temp, at) /\ at' = at + 1 /\ UNCHANGED passed

\* The loops over m_pTempList erase the session at the iterator with it-- or, at
\* the beginning, it++; the loop's ++it then passes over the one that follows.
\* Nothing is passed over when that is the end: the loop breaks.
EraseAt ==
  /\ temp' = RemoveAt(temp, at)
  /\ IF at > 1
     THEN UNCHANGED <<at, passed>>
     ELSE /\ at' = IF Len(temp) > 1 THEN 2 ELSE 1
          /\ passed' = passed \cup (IF Len(temp) > 1 THEN {temp[2]} ELSE {})

MutIsFull == count > MaxAccept

\* The connection to the master counts too.
IsFull == count >= MaxAccept

\* ProcessAcceptedSessionList refuses a session: too many connections.
Refuse ==
  /\ pc = "accepted" /\ at <= Len(temp)
  /\ IsFull
  /\ Reuse(temp[at], port)
  /\ EraseAt
  /\ UNCHANGED <<pc, active, count, agent, shared, conn, acq, sent, gone, made, heard>>

\* It posts a receive for a session, or finds that it cannot.
Accept ==
  /\ pc = "accepted" /\ at <= Len(temp)
  /\ ~IsFull
  /\ LET s == temp[at]
     IN  \/ /\ PostRecv(s, cq)
            /\ port' = port \cup {s}
            /\ pc' = "onaccept"
            /\ UNCHANGED <<sock, temp, at, passed>>
         \/ /\ CannotRecv(s)
            /\ Reuse(s, port \cup {s})
            /\ EraseAt
            /\ UNCHANGED pc
  /\ UNCHANGED <<active, count, agent, shared, conn, acq, sent, gone, made, heard>>

MutOnAccept ==
  /\ pc = "onaccept"
  /\ agent' = [agent EXCEPT ![temp[at]] = conn[temp[at]]]
  /\ kill' = [kill EXCEPT ![temp[at]] = None]
  /\ at' = at + 1
  /\ pc' = "accepted"
  /\ UNCHANGED <<temp, active, count, accepted, dial, rbuf, net, heard, passed>>

\* Then it makes the agent, and OnAccept resets the flag.
OnAccept ==
  /\ pc = "onaccept"
  /\ agent' = [agent EXCEPT ![temp[at]] = conn[temp[at]]]
  /\ kill' = [kill EXCEPT ![temp[at]] = None]
  /\ count' = count + 1
  /\ at' = at + 1
  /\ pc' = "accepted"
  /\ UNCHANGED <<temp, active, accepted, dial, rbuf, net, heard, passed>>

\* The end of the loop: whatever is left on the list becomes active.
AcceptDone ==
  /\ pc = "accepted" /\ at > Len(temp)
  /\ active' = temp \o active
  /\ temp' = <<>>
  /\ at' = 1
  /\ pc' = AfterAccepted
  /\ UNCHANGED <<count, agent, shared, net, heard, passed>>

\* ProcessConnectSuccessList: a receive is posted for the dialling session.
ConnectSucceeds ==
  /\ pc = "connected" /\ dial = "succeeded"
  /\ PostRecv(Dialer, cq)
  /\ port' = port \cup {Dialer}
  /\ dial' = "done"
  /\ pc' = "onconnect"
  /\ UNCHANGED <<at, temp, active, count, agent, accepted, kill, rbuf, sock,
                 conn, acq, sent, gone, made, heard, passed>>

\* Session::OnConnect, which calls Init after the receive has been posted.
OnConnect ==
  /\ pc = "onconnect"
  /\ Cleared(Dialer)
  /\ active' = Append(active, Dialer)
  /\ count' = count + 1
  /\ pc' = "kick"
  /\ UNCHANGED <<at, temp, agent, accepted, dial, net, heard, passed>>

\* No receive can be posted, or ProcessConnectFailList: OnConnect( FALSE ).
ConnectFails ==
  /\ pc = "connected"
  /\ dial = "failed" \/ (dial = "succeeded" /\ CannotRecv(Dialer))
  /\ Free(Dialer)
  /\ Cleared(Dialer)
  /\ agent' = [agent EXCEPT ![Dialer] = None]
  /\ dial' = "done"
  /\ pc' = "kick"
  /\ UNCHANGED <<at, temp, active, count, accepted, conn, acq, sent, gone,
                 made, heard, passed>>

\* KickDeadSessions takes the sessions to be removed off the list, but for a
\* second one behind a first one: its loop passes over it, until the next turn.
KickDeadSessions ==
  LET dead == {i \in 1 .. Len(active) :
                 kill[active[i]] # None /\ ~(i = 2 /\ kill[active[1]] # None)}
      Sublist(S) == FlattenSeq([i \in 1 .. Len(active) |->
                                 IF i \in S THEN <<active[i]>> ELSE <<>>])
  IN  /\ pc = "kick"
      /\ temp' = Sublist(dead)
      /\ active' = Sublist((1 .. Len(active)) \ dead)
      /\ pc' = IF dead = {} THEN "process" ELSE "bury"
      /\ UNCHANGED <<at, count, agent, shared, net, heard, passed>>

\* Then it parts each from its agent, gives it back, and destroys the agent.
Bury ==
  LET s == Head(temp)
  IN  /\ pc = "bury" /\ agent[s] # None
      /\ temp' = Tail(temp)
      /\ count' = count - 1
      /\ agent' = [agent EXCEPT ![s] = None]
      /\ IF s = Dialer
         THEN Free(s) /\ Cleared(s)
         ELSE Reuse(s, port) /\ UNCHANGED <<kill, rbuf>>
      /\ pc' = IF Len(temp) > 1 THEN "bury" ELSE "process"
      /\ UNCHANGED <<at, active, accepted, dial, conn, acq, sent, gone, made,
                     heard, passed>>

\* A session that was passed over has no agent to call, and the program ends.
Fault ==
  /\ pc = "bury" /\ agent[Head(temp)] = None
  /\ pc' = "fault"
  /\ UNCHANGED <<at, temp, active, count, agent, shared, net, heard, passed>>

\* StartListen has called PreAccept for every session of the pool, each of which
\* listens or is lost; initInterface dials the master, the first connection.
Init ==
  /\ pc = "process" /\ at = 1 /\ temp = <<>> /\ active = <<>> /\ count = 0
  /\ agent = [s \in Sess |-> IF s = Dialer THEN 1 ELSE None]
  /\ accepted = <<>> /\ dial = "connecting"
  /\ kill = [s \in Sess |-> None]
  /\ rbuf = [s \in Sess |-> <<>>]
  /\ sock \in [Sess -> {"closed", "listening", "lost"}]
  /\ \A s \in Sess : sock[s] = "closed" <=> s = Dialer
  /\ conn = [s \in Sess |-> IF s = Dialer THEN 1 ELSE None]
  /\ port = {} /\ posted = {} /\ cq = <<>> /\ acq = <<>>
  /\ sent = [c \in Conns |-> 0] /\ gone = {} /\ made = 1
  /\ heard = [c \in Conns |-> <<>>]
  /\ passed = {}

Update ==
  \/ \E idle \in SUBSET AcceptSess, bad \in SUBSET Sess : ProcessActive(idle, bad)
  \/ Refuse \/ Accept \/ OnAccept \/ AcceptDone
  \/ ConnectSucceeds \/ OnConnect \/ ConnectFails
  \/ KickDeadSessions \/ Bury \/ Fault

Next ==
  \/ Update \/ IoThread \/ AcceptThread \/ ConnectThread
  \/ \E s \in Sess : PeerSends(s) \/ PeerCloses(s) \/ SendThread(s)
  \/ \E s \in AcceptSess : PeerConnects(s)

Spec == Init /\ [][Next]_vars

-----------------------------------------------------------------------------
(* Properties *)

Packet == Conns \X (1 .. MaxSent)

TypeOK ==
  /\ pc \in {"process", "accepted", "onaccept", "connected", "onconnect", "kick",
             "bury", "fault"}
  /\ temp \in Seq(Sess) /\ active \in Seq(Sess) /\ accepted \in Seq(AcceptSess)
  /\ at \in 1 .. Cardinality(Sess) + 1
  /\ count \in 0 .. Cardinality(Sess)
  /\ agent \in [Sess -> Conns \cup {None}]
  /\ dial \in {"connecting", "succeeded", "failed", "done"}
  /\ kill \in [Sess -> Conns \cup {None}]
  /\ rbuf \in [Sess -> Seq(Packet)]
  /\ sock \in [Sess -> {"listening", "open", "closing", "closed", "lost"}]
  /\ conn \in [Sess -> Conns \cup {None}]
  /\ port \subseteq Sess /\ posted \subseteq Sess
  /\ acq \in Seq(AcceptSess)
  /\ sent \in [Conns -> 0 .. MaxSent] /\ gone \subseteq Conns /\ made \in Conns
  /\ heard \in [Conns -> Seq(Packet)]
  /\ passed \subseteq Sess

\* What the peer of a connection has sent.
SentOn(c) == [i \in 1 .. sent[c] |-> <<c, i>>]

\* The data still on its way to the receive buffer of session s.
Coming(s) == FlattenSeq([i \in 1 .. Len(cq) |->
               IF cq[i].type = "data" /\ cq[i].sess = s THEN << <<cq[i].conn, cq[i].n>> >> ELSE <<>>])

\* An agent is given what its own client has sent, from the first packet on and in
\* order, whatever other connections its session has had.
HeardInOrder ==
  \A c \in Conns : (c # conn[Dialer]) => IsPrefix(heard[c], SentOn(c))

\* As long as a session serves a connection, nothing the client has sent is
\* missing: it was handled, is in the receive buffer, or is on its way there.
NothingDropped ==
  \A s \in AcceptSess :
    (sock[s] = "open" /\ conn[s] # None) =>
      heard[conn[s]] \o rbuf[s] \o Coming(s) = SentOn(conn[s])

\* The same of the connection to the master, whose first packet makes the slave
\* register (MasterConnector::OnRecv).
MasterIsHeard ==
  sock[Dialer] = "open" =>
    heard[conn[Dialer]] \o rbuf[Dialer] \o Coming(Dialer) = SentOn(conn[Dialer])

\* An active session that is to be removed is so because of the connection it
\* serves, not because of one it served before.
NoStaleKill == \A s \in Range(active) : kill[s] \in {None, conn[s]}

\* An active session has the agent of its connection, unless a loop has passed
\* over it, and a session that waits for a connection has none.
AgentOfItsConnection ==
  /\ \A s \in Range(active) \ passed : agent[s] = conn[s] /\ agent[s] # None
  /\ \A s \in AcceptSess : sock[s] \in {"listening", "closing", "lost"} => agent[s] = None

\* The sessions that are counted are those with an agent, and never more than
\* the limit and the connection to the master.
CountIsExact ==
  /\ pc = "process" => count = Cardinality({s \in Range(active) : agent[s] # None})
  /\ count <= MaxAccept + 1

\* A session is always in one place, where a thread will find it: it listens, or is
\* on one list or among the completions.  It is lost, and then in no place at all,
\* only where the code drops it: when AcceptEx, an accept or a disconnect fails, and
\* when one is refused whose socket does not report to the port yet.
NoSessionLeaks ==
  LET Returning == [i \in 1 .. Len(cq) |-> IF cq[i].type = "disconnect" THEN cq[i].sess ELSE None]
      all == acq \o accepted \o temp \o active \o Returning
  IN  \A s \in AcceptSess :
        Cardinality({i \in DOMAIN all : all[i] = s})
          = IF sock[s] \in {"listening", "lost"} THEN 0 ELSE 1
=============================================================================
