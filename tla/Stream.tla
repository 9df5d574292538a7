------------------------------- MODULE Stream -------------------------------
(***************************************************************************)
(* Packets from Send at one end of a connection to OnRecv at the other.    *)
(* An end is a server or the command line client.                          *)
(*                                                                         *)
(* On a server they go through the SendBuffer or the RecvBuffer of the     *)
(* session.  The main thread and the I/O thread, and the sender's send     *)
(* thread, share the buffers; the system reads and writes their memory     *)
(* while a send or a receive is pending.  On the client they go through    *)
(* the pools of ConnectInfo, which NetWorkThread and the thread that reads *)
(* commands share.                                                         *)
(*                                                                         *)
(* A cell <<n, i>> is the i-th piece of the n-th packet; the first         *)
(* HeaderLen of them are its header, which tells the size of the rest.     *)
(***************************************************************************)
EXTENDS CircuitQueue, ConnectInfo, SequencesExt

CONSTANTS
  HeaderLen,   \* sizeof(PACKET_HEADER)
  Sizes,       \* of messages
  MaxPacket,   \* dwMaxPacketSize, the extra cells of both rings
  SendSize,    \* dwSendBufferSize
  RecvSize,    \* dwRecvBufferSize
  RecvLen,     \* RECEIVEBUFLEN: what the client receives at a time
  Ends,        \* the pairs of sender and receiver, each a "server" or the "client"
  None,        \* nothing is pending
  MaxPackets   \* bound: calls of Send

ASSUME StreamAssumption ==
  /\ HeaderLen \in Nat \ {0} /\ MaxPackets \in Nat
  /\ \A s \in Sizes : s \in Nat \ {0} /\ HeaderLen + s <= MaxPacket
  /\ MaxPacket \in Nat /\ SendSize \in Nat \ {0} /\ RecvSize \in Nat \ {0}
  /\ SendSize >= MaxPacket /\ RecvSize >= MaxPacket
  /\ RecvLen \in Nat \ {0} /\ MaxNetPool \in Nat /\ MaxNetPool >= MaxPacket
  /\ None \notin Nat /\ None \notin Nat \X Nat
  /\ Ends \subseteq ({"server", "client"} \X {"server", "client"}) \ {<<"client", "client">>}

VARIABLES
  ends,      \* which programs the sender and the receiver are
  \* the sender
  size,      \* the size of each message Send was called with
  wrote,     \* the main thread has written the header of the last one, not the rest
  written,   \* the packets written whole
  sbuf,      \* the ring of m_pSendBuffer
  complete,  \* its m_bComplete
  looked,    \* the send thread has found m_bRemove unset
  sending,   \* the cells of a pending WSASend, as <<index, number>>, or None
  sdone,     \* the completion of one, or None
  skill,     \* m_bRemove
  closed,    \* the main thread has taken the session off its list
  spool,     \* m_pSendMemPool of a client
  \* the connection
  net,       \* the cells on their way
  \* the receiver
  rbuf,      \* the ring of m_pRecvBuffer
  posted,    \* the room a pending WSARecv has, or None
  rdone,     \* the completion of one: how many cells, or None
  packet,    \* the size of the packet OnRecv is about to be called with, or None
  handled,   \* the messages OnRecv was called with
  rkill,     \* m_bRemove
  rpool,     \* m_pMemPool of a client
  \* history
  raced,     \* WSASend was called for a session with m_bRemove set
  lost       \* a client has thrown away a part of what it sends or receives

server   == <<sbuf, complete, looked, sending, sdone, skill, closed>>
sender   == <<size, wrote, written, server>>
receiver == <<rbuf, posted, rdone, packet, handled, rkill>>
client   == <<spool, rpool, lost>>
vars == <<ends, sender, net, receiver, raced, client>>

Cells(n, from, to) == [i \in 1 .. to - from + 1 |-> <<n, from + i - 1>>]
Header(n)  == Cells(n, 1, HeaderLen)
Message(n) == Cells(n, HeaderLen + 1, HeaderLen + size[n])

-----------------------------------------------------------------------------
(* The sender's main thread *)

\* Session::Send writes the header; when it does not fit the session is to go.
Send(s) ==
  /\ ends[1] = "server" /\ ~closed /\ ~wrote /\ Len(size) < MaxPackets
  /\ size' = Append(size, s)
  /\ IF GetSpace(sbuf) >= HeaderLen
     THEN /\ sbuf' = Enqueue(sbuf, Header(Len(size) + 1))
          /\ wrote' = TRUE
          /\ UNCHANGED skill
     ELSE skill' = TRUE /\ UNCHANGED <<sbuf, wrote>>
  /\ UNCHANGED <<written, complete, looked, sending, sdone, closed, net, receiver, raced,
                 client, ends>>

\* Then the message; when that does not fit, the header stays.
WriteMessage ==
  LET n == Len(size)
  IN  /\ wrote
      /\ wrote' = FALSE
      /\ IF GetSpace(sbuf) >= size[n]
         THEN /\ sbuf' = Enqueue(sbuf, Message(n))
              /\ written' = Append(written, n)
              /\ UNCHANGED skill
         ELSE skill' = TRUE /\ UNCHANGED <<sbuf, written>>
      /\ UNCHANGED <<size, complete, looked, sending, sdone, closed, net, receiver, raced,
                 client, ends>>

\* KickDeadSessions, which needs the lock that ProcessSend holds.
Kick ==
  /\ skill /\ ~wrote /\ ~looked /\ ~closed
  /\ closed' = TRUE
  /\ UNCHANGED <<size, wrote, written, sbuf, complete, looked, sending, sdone, skill,
                 net, receiver, raced, client, ends>>

-----------------------------------------------------------------------------
(* The send thread, and the sender's I/O thread *)

\* ProcessSend: sessions to be removed are left out.
LookAtSession ==
  /\ ends[1] = "server" /\ ~looked /\ ~skill /\ ~closed
  /\ looked' = TRUE
  /\ UNCHANGED <<size, wrote, written, sbuf, complete, sending, sdone, skill, closed,
                 net, receiver, raced, client, ends>>

\* PreSend: nothing when a send is pending or the ring is empty; otherwise what
\* can be read in one piece is sent from where it lies.
PreSend ==
  /\ looked
  /\ looked' = FALSE
  /\ IF complete /\ sbuf.length > 0
     THEN /\ sbuf' = GetReadPtr(sbuf)
          /\ sending' = <<sbuf.head, GetReadableLen(sbuf)>>
          /\ complete' = FALSE
          /\ raced' = (raced \/ skill)
     ELSE UNCHANGED <<sbuf, sending, complete, raced>>
  /\ UNCHANGED <<size, wrote, written, sdone, skill, closed, net, receiver, client, ends>>

\* io_thread, SEND_POSTED: only now does the ring give up what was sent.
SendCompletion ==
  /\ sdone # None
  /\ sbuf' = Dequeue(sbuf, sdone)
  /\ complete' = TRUE
  /\ sdone' = None
  /\ UNCHANGED <<size, wrote, written, looked, sending, skill, closed, net, receiver, raced,
                 client, ends>>

-----------------------------------------------------------------------------
(* The connection.  The system reads what is sent, and writes what arrives, *)
(* in the memory of the rings.                                              *)

Transmit ==
  /\ sending # None
  /\ net' = net \o ReadAt(sbuf, sending[1], sending[2])
  /\ sdone' = sending[2]
  /\ sending' = None
  /\ UNCHANGED <<size, wrote, written, sbuf, complete, looked, skill, closed, receiver, raced, client, ends>>

\* Any number of cells that are there may come at a time; a receive without room
\* ends with none of them.
Arrive(n) ==
  /\ posted # None /\ n \in 1 .. Len(net)
  /\ LET got == IF n < posted THEN n ELSE posted
     IN  /\ rbuf' = Copy(rbuf, rbuf.tail, SubSeq(net, 1, got))
         /\ net' = SubSeq(net, got + 1, Len(net))
         /\ rdone' = got
  /\ posted' = None
  /\ UNCHANGED <<sender, packet, handled, rkill, raced, client, ends>>

\* The sender has closed, and all it sent has arrived.
ArriveEnd ==
  /\ posted # None /\ closed /\ sending = None /\ net = <<>>
  /\ rdone' = 0
  /\ posted' = None
  /\ UNCHANGED <<sender, net, rbuf, packet, handled, rkill, raced, client, ends>>

-----------------------------------------------------------------------------
(* The receiver's I/O thread and main thread *)

\* io_thread, RECV_POSTED and PreRecv; a completion without data ends the session.
RecvCompletion ==
  /\ rdone # None
  /\ rdone' = None
  /\ IF rdone = 0
     THEN rkill' = TRUE /\ UNCHANGED <<rbuf, posted>>
     ELSE /\ rbuf' = Commit(rbuf, rdone)
          /\ posted' = GetWritableLen(rbuf')
          /\ UNCHANGED rkill
  /\ UNCHANGED <<sender, net, packet, handled, raced, client, ends>>

\* The size in a header, or None when these cells are no header of a packet.
SizeIn(cells) ==
  LET n == cells[1][1] IN IF cells = Header(n) THEN size[n] ELSE None

\* GetFirstPacketPtr: the size of a packet that has arrived whole, or None, and
\* the ring with the packet moved together when it wraps round.
FirstPacket(q) ==
  LET s == IF q.length < HeaderLen THEN None ELSE SizeIn(Peek(q, HeaderLen))
      n == HeaderLen + s
  IN  IF s = None \/ q.length < n THEN [size |-> None, ring |-> q]
      ELSE [size |-> s,
            ring |-> GetReadPtr(IF GetBackDataCount(q) < n
                                THEN CopyHeadDataToExtraBuffer(q, n - GetBackDataCount(q))
                                ELSE q)]

\* ProcessRecvdPacket: the loop begins, unless the session is to be removed.
GetFirstPacketPtr ==
  /\ packet = None /\ ~rkill
  /\ LET first == FirstPacket(rbuf)
     IN  first.size # None /\ packet' = first.size /\ rbuf' = first.ring
  /\ UNCHANGED <<sender, net, posted, rdone, handled, rkill, raced, client, ends>>

\* OnRecv reads the message where it lies; then RemoveFirstPacket, and the loop
\* goes on with the next packet, if there is one.
OnRecv ==
  /\ packet # None
  /\ handled' = Append(handled, ReadAt(rbuf, rbuf.head + HeaderLen, packet))
  /\ LET next == FirstPacket(Dequeue(rbuf, HeaderLen + packet))
     IN  packet' = next.size /\ rbuf' = next.ring
  /\ UNCHANGED <<sender, net, posted, rdone, rkill, raced, client, ends>>

-----------------------------------------------------------------------------
(* The client: the thread that reads commands, and NetWorkThread *)

MutSaveSendData(s) ==
  LET n == Len(size) + 1
  IN  /\ ends[1] = "client" /\ Len(size) < MaxPackets
      /\ size' = Append(size, s)
      /\ spool' = spool \o [i \in 1 .. HeaderLen + s |-> <<n, i>>]
      /\ written' = Append(written, n)
      /\ UNCHANGED <<wrote, server, net, receiver, raced, rpool, lost, ends>>

\* CNetBase::Send and SaveSendData, under the lock of the pool.
SaveSendData(s) ==
  LET n == Len(size) + 1
  IN  /\ ends[1] = "client" /\ Len(size) < MaxPackets
      /\ size' = Append(size, s)
      /\ IF HasRoomToSend(spool, HeaderLen + s)
         THEN /\ spool' = spool \o Cells(n, 1, HeaderLen + s)
              /\ written' = Append(written, n)
         ELSE UNCHANGED <<spool, written>>
      /\ UNCHANGED <<wrote, server, net, receiver, raced, rpool, lost, ends>>

\* NetWorkThread sends the pool, under its lock.  The system may take a part of it
\* only, since the socket does not block; m_SendLen is 0 all the same.
SendPool(n) ==
  /\ spool # <<>> /\ n \in 1 .. Len(spool)
  /\ net' = net \o SubSeq(spool, 1, n)
  /\ lost' = (lost \/ n < Len(spool))
  /\ spool' = <<>>
  /\ UNCHANGED <<size, wrote, written, server, receiver, raced, rpool, ends>>

\* IsHavdData: the size of the packet at the beginning of a pool, or None when it
\* is not there whole.
PooledPacket(p) ==
  LET s == IF Len(p.cells) < HeaderLen THEN None ELSE SizeIn(SubSeq(p.cells, 1, HeaderLen))
  IN  IF s = None \/ Len(p.cells) < HeaderLen + s THEN None ELSE s

MutNetWorkTurn(n) ==
  LET saved == SaveData(rpool, SubSeq(net, 1, n))
      s == PooledPacket(saved)
  IN  /\ ends[2] = "client" /\ n > 0 /\ n <= Len(net)
      /\ net' = SubSeq(net, n + 1, Len(net))
      /\ lost' = (lost \/ ~HasRoom(rpool, n))
      /\ IF s = None THEN rpool' = saved /\ UNCHANGED handled
         ELSE /\ rpool' = GetData(saved, HeaderLen + s)
              /\ handled' = Append(handled, SubSeq(saved.cells, HeaderLen + 1, HeaderLen + s))
      /\ UNCHANGED <<sender, rbuf, posted, rdone, packet, rkill, raced, spool, ends>>

\* A turn of NetWorkThread: it receives what is there, which may be nothing;
\* SaveData puts that in the pool, if it fits, and nobody looks at what it returns;
\* then NetProcess hands one packet to ServerPro, however many have arrived.
NetWorkTurn(n) ==
  LET saved == SaveData(rpool, SubSeq(net, 1, n))
      s == PooledPacket(saved)
  IN  /\ ends[2] = "client" /\ n <= Len(net)
      /\ net' = SubSeq(net, n + 1, Len(net))
      /\ lost' = (lost \/ ~HasRoom(rpool, n))
      /\ IF s = None THEN rpool' = saved /\ UNCHANGED handled
         ELSE /\ rpool' = GetData(saved, HeaderLen + s)
              /\ handled' = Append(handled, SubSeq(saved.cells, HeaderLen + 1, HeaderLen + s))
      /\ UNCHANGED <<sender, rbuf, posted, rdone, packet, rkill, raced, spool, ends>>

Init ==
  /\ ends \in Ends
  /\ size = <<>> /\ wrote = FALSE /\ written = <<>>
  /\ sbuf = Create(SendSize, MaxPacket) /\ complete = TRUE
  /\ looked = FALSE /\ sending = None /\ sdone = None
  /\ skill = FALSE /\ closed = FALSE
  /\ net = <<>>
  /\ rbuf = Create(RecvSize, MaxPacket) /\ rdone = None
  /\ posted = IF ends[2] = "server" THEN RecvSize ELSE None
  /\ packet = None /\ handled = <<>> /\ rkill = FALSE
  /\ spool = <<>> /\ rpool = EmptyPool
  /\ raced = FALSE /\ lost = FALSE

\* What goes on by itself once Send has been called.
Work ==
  \/ WriteMessage \/ Kick \/ LookAtSession \/ PreSend \/ SendCompletion
  \/ Transmit \/ ArriveEnd \/ RecvCompletion \/ GetFirstPacketPtr \/ OnRecv
  \/ \E n \in 1 .. Len(net) : Arrive(n)
  \/ \E n \in 1 .. Len(spool) : SendPool(n)
  \/ \E n \in 0 .. RecvLen : NetWorkTurn(n)

Next == Work \/ \E s \in Sizes : Send(s) \/ SaveSendData(s)

Spec == Init /\ [][Next]_vars

\* The threads of both ends go on, and so does the connection.
Fairness ==
  /\ WF_vars(WriteMessage)
  /\ WF_vars(LookAtSession \/ PreSend)
  /\ WF_vars(SendCompletion)
  /\ WF_vars(Transmit \/ \E n \in 1 .. Len(net) : Arrive(n))
  /\ WF_vars(RecvCompletion)
  /\ WF_vars(GetFirstPacketPtr \/ OnRecv)
  /\ WF_vars(\E n \in 1 .. Len(spool) : SendPool(n))
  /\ WF_vars(\E n \in 0 .. RecvLen : NetWorkTurn(n))

FairSpec == Spec /\ Fairness

-----------------------------------------------------------------------------
(* Properties *)

Cell == ((1 .. MaxPackets) \X (1 .. MaxPacket)) \cup {Junk}

IsRing(q, cells) ==
  /\ q.size = cells /\ q.extra = MaxPacket
  /\ q.data \in [0 .. cells + MaxPacket - 1 -> Cell]
  /\ q.head \in 0 .. cells - 1 /\ q.tail \in 0 .. cells - 1
  /\ q.length \in 0 .. cells
  /\ q.tail = (q.head + q.length) % cells

TypeOK ==
  /\ ends \in Ends
  /\ size \in Seq(Sizes) /\ written \in Seq(1 .. MaxPackets)
  /\ IsRing(sbuf, SendSize) /\ IsRing(rbuf, RecvSize)
  /\ wrote \in BOOLEAN /\ complete \in BOOLEAN /\ looked \in BOOLEAN
  /\ skill \in BOOLEAN /\ closed \in BOOLEAN /\ rkill \in BOOLEAN
  /\ sending = None \/ sending \in (0 .. SendSize - 1) \X (1 .. SendSize)
  /\ sdone = None \/ sdone \in 1 .. SendSize
  /\ net \in Seq(Cell)
  /\ posted = None \/ posted \in 0 .. RecvSize
  /\ rdone = None \/ rdone \in 0 .. RecvSize
  /\ packet = None \/ packet \in Sizes
  /\ handled \in Seq(Seq(Cell))
  /\ spool \in Seq(Cell) /\ Len(spool) <= MaxNetPool
  /\ rpool.start \in Nat /\ rpool.cells \in Seq(Cell) /\ Room(rpool) >= 0
  /\ raced \in BOOLEAN /\ lost \in BOOLEAN

\* The other end takes apart what it gets wherever Send has put it together.
Broken == raced \/ lost

\* The messages that Send has written whole.
Sent == [i \in 1 .. Len(written) |-> Message(written[i])]

\* OnRecv, or a client's ServerPro, is called with the messages that Send has
\* written whole, in order, each with its own cells: however the packets lie in the
\* rings and pools, come in pieces and are overwritten, and after a Send whose
\* message did not fit.  There are two exceptions.  A ProcessSend may have looked
\* at the session before such a Send marked it, and then sends what was written
\* behind the header that stays; and a client throws away what the system does not
\* take at once, and what comes when its pool is full.
HandledIsWritten == Broken \/ IsPrefix(handled, Sent)

Chan == INSTANCE Channel WITH put <- Sent, taken <- handled, broken <- Broken

\* The same as a refinement: until one of these happens the threads and buffers of
\* both ends implement a channel of messages, step by step.
ChannelSpec == Chan!Spec

\* As long as every Send of a server has succeeded, what was written is somewhere on
\* its way, cell by cell and in order: handled, in the ring or the pool of the
\* receiver, in its memory behind the tail, in the connection, or in the ring or the
\* pool of the sender.
NothingLostOnTheWay ==
  LET Frame(n) == Header(n) \o Message(n)
      Frames(ns) == FlattenSeq([i \in 1 .. Len(ns) |-> Frame(ns[i])])
      unsent == SubSeq(Peek(sbuf, sbuf.length), (IF sdone = None THEN 0 ELSE sdone) + 1,
                       sbuf.length)
      landed == IF rdone = None THEN <<>> ELSE ReadAt(rbuf, rbuf.tail, rdone)
  IN  ~skill /\ ~lost =>
        Frames(SubSeq(written, 1, Len(handled))) \o Peek(rbuf, rbuf.length) \o landed
          \o rpool.cells \o net \o unsent \o spool
        = Frames(written) \o (IF wrote THEN Header(Len(size)) ELSE <<>>)

\* Once Send is called no more, all that was written is handled in the end, unless
\* one of the sessions is to be removed or a client has lost something: no send
\* waits for a completion that has come already, and no packet waits for another
\* to be noticed, though a client takes one of them a turn.
Delivered == <>[](Len(handled) = Len(written) \/ skill \/ rkill \/ lost)
=============================================================================
