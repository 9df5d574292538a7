------------------------- MODULE ReplicationProofs --------------------------
(***************************************************************************)
(* Theorems about Replication, for any numbers of commands and crashes,    *)
(* batches of any size and any room.                                       *)
(*                                                                         *)
(* A registered slave is sent the master's file and then every later       *)
(* command, once and in order.  In the invariant of this every message on  *)
(* its way is a slice of what the slave is to get, and the slices follow   *)
(* each other.                                                             *)
(*                                                                         *)
(* Until it restarts, a slave carries out each of its master's commands at *)
(* most once, in the master's order.  In the invariant of this the numbers *)
(* of the master's commands rise through its file, buffer and queue, and   *)
(* through what the slave has carried out and what is on its way.          *)
(***************************************************************************)
EXTENDS Replication, AppendLogProofs, WellFoundedInduction, FiniteSetTheorems

-----------------------------------------------------------------------------
(* Numbers.                                                                *)

\* Induction, as a fact about sets of numbers.
LEMMA NaturalsByInduction ==
  ASSUME NEW S, 0 \in S, \A n \in Nat : n \in S => n + 1 \in S
  PROVE  Nat \subseteq S
<1> DEFINE T == Nat \ S
<1>1. ASSUME T # {} PROVE FALSE
  <2>1. PICK x \in T : \A y \in T : ~ (<<y, x>> \in OpToRel(<, Nat))
    BY <1>1, NatLessThanWellFounded, WFMin
  <2>2. x \in Nat /\ x \notin S /\ x # 0
    BY <2>1
  <2>3. x - 1 \in Nat /\ x - 1 \notin S /\ x - 1 < x
    BY <2>2
  <2>4. <<x - 1, x>> \in OpToRel(<, Nat)
    BY <2>2, <2>3 DEF OpToRel
  <2>5. QED
    BY <2>1, <2>3, <2>4
<1>2. QED
  BY <1>1

\* How many full batches there are.
LEMMA FullBatches ==
  ASSUME NEW n \in Nat, NEW b \in Nat \ {0}
  PROVE  /\ n \div b \in Nat
         /\ \A i \in 0 .. n \div b : i * b \in 0 .. n
         /\ n - (n \div b) * b < b
<1> DEFINE q == n \div b
<1>1. q \in Nat /\ q * b <= n /\ n < q * b + b
  OBVIOUS
<1> HIDE DEF q
<1>2. ASSUME NEW i \in 0 .. q PROVE i * b \in 0 .. n
  <2>1. q - i \in Nat /\ i \in Nat
    BY <1>1
  <2>2. (q - i) * b \in Nat /\ i * b \in Nat
    BY <2>1
  <2>3. q * b = i * b + (q - i) * b
    BY <1>1, <2>1
  <2>4. QED
    BY <1>1, <2>2, <2>3
<1>3. QED
  BY <1>1, <1>2 DEF q

-----------------------------------------------------------------------------
(* What is sent.                                                           *)

Msg == {ReadyMsg} \cup [kind : {"file"}, lines : Seq(Line)]
         \cup [kind : {"command"}, lines : {<<c>> : c \in Commands}]

LEMMA MessageTypes ==
  /\ ReadyMsg \in Msg /\ ReadyMsg.lines = <<>> /\ ReadyMsg.kind = "ready"
  /\ \A lines \in Seq(Line) : FileAck(lines) \in Msg
  /\ \A c \in Commands : CommandMsg(c) \in Msg
BY DEF ReadyMsg, FileAck, CommandMsg, Msg

\* The lines of a message.
LEMMA LinesOfMessage ==
  ASSUME NEW m \in Msg
  PROVE  /\ m \in [kind : {"ready", "file", "command"}, lines : Seq(Line)]
         /\ m.kind = "command" => m.lines[1] \in Commands /\ m.lines = <<m.lines[1]>>
<1>1. CASE m \in [kind : {"file"}, lines : Seq(Line)]
  BY <1>1
<1>2. CASE m \in [kind : {"command"}, lines : {<<c>> : c \in Commands}]
  <2>1. PICK c \in Commands : m.lines = <<c>>
    BY <1>2
  <2>2. m.lines[1] = c /\ <<c>> \in Seq(Line)
    BY <2>1 DEF Line
  <2>3. QED
    BY <1>2, <2>1, <2>2
<1>3. CASE m = ReadyMsg
  <2>1. m = [kind |-> "ready", lines |-> <<>>] /\ <<>> \in Seq(Line)
    BY <1>3, EmptySeq DEF ReadyMsg
  <2>2. QED
    BY <2>1
<1>4. QED
  BY <1>1, <1>2, <1>3 DEF Msg

\* A send that does not fit ends the connection.
LEMMA SendAllSends ==
  ASSUME NEW before \in Seq(Msg), NEW msgs \in Seq(Msg), NEW l, SendAll(before, msgs, l)
  PROVE  /\ chan' \in Seq(Msg) /\ Len(chan') <= Room
         /\ (chan' = before \o msgs /\ link' = l) \/ link' = "lost"
<1>1. Room \in Nat \ {0}
  BY ReplicationAssumption
<1>2. Len(before) \in Nat /\ Len(msgs) \in Nat
  BY LenProperties
<1>3. before \o msgs \in Seq(Msg) /\ Len(before \o msgs) = Len(before) + Len(msgs)
  BY ConcatProperties
<1>4. CASE Len(before) + Len(msgs) <= Room
  BY <1>3, <1>4 DEF SendAll
<1>5. CASE ~(Len(before) + Len(msgs) <= Room)
  <2> DEFINE all == before \o msgs
  <2>1. chan' = SubSeq(all, 1, Room) /\ link' = "lost"
    BY <1>5 DEF SendAll
  <2>2. Room \in 0 .. Len(all)
    BY <1>1, <1>2, <1>3, <1>5
  <2>3. \A i \in 1 .. Room : all[i] \in Msg
    BY <1>3, <2>2, ElementOfSeq, LenProperties
  <2> HIDE DEF all
  <2>4. SubSeq(all, 1, Room) \in Seq(Msg) /\ Len(SubSeq(all, 1, Room)) = Room
    BY <1>1, <2>3, SubSeqProperties
  <2>5. QED
    BY <1>1, <2>1, <2>4
<1>6. QED
  BY <1>4, <1>5

\* A broadcast is one message for a slave whose address is there once, and none for
\* one whose address is not.
LEMMA BroadcastSends ==
  ASSUME TypeOK, NEW c \in Commands
  PROVE  /\ Broadcast(c) \in Seq(Msg)
         /\ ~Up(link) \/ Entries = 0 => Broadcast(c) = <<>>
         /\ Up(link) /\ Entries = 1 => Broadcast(c) = <<CommandMsg(c)>>
<1>1. vector \in Seq(Agents) /\ Len(vector) \in Nat /\ DOMAIN vector = 1 .. Len(vector)
  <2>1. vector \in Seq(Agents)
    BY DEF TypeOK
  <2>2. QED
    BY <2>1, LenProperties
<1> DEFINE places == {i \in DOMAIN vector : vector[i] = agent}
<1>2. Cardinality(places) \in Nat
  <2>1. IsFiniteSet(1 .. Len(vector)) /\ places \subseteq 1 .. Len(vector)
    BY <1>1, FS_Interval
  <2>2. IsFiniteSet(places)
    BY <2>1, FS_Subset
  <2>3. QED
    BY <2>2, FS_CardinalityType
<1> DEFINE copies == Cardinality(places)
<1>3. Broadcast(c) = IF Up(link) THEN [i \in 1 .. copies |-> CommandMsg(c)] ELSE <<>>
  BY DEF Broadcast
<1>4. Entries = copies
  BY DEF Entries
<1> HIDE DEF places, copies
<1>5. copies \in Nat
  BY <1>2 DEF copies
<1>6. CommandMsg(c) \in Msg
  BY MessageTypes
<1>7. [i \in 1 .. copies |-> CommandMsg(c)] \in Seq(Msg)
  BY <1>5, <1>6
<1>8. /\ copies = 1 => [i \in 1 .. copies |-> CommandMsg(c)] = <<CommandMsg(c)>>
      /\ copies = 0 => [i \in 1 .. copies |-> CommandMsg(c)] = <<>>
  OBVIOUS
<1>9. QED
  BY <1>3, <1>4, <1>7, <1>8, EmptySeq

\* The batches of a file are slices of it that follow each other.
BatchEnd(lines, i) == IF i <= Len(lines) \div Batch THEN i * Batch ELSE Len(lines)

LEMMA BatchesSlice ==
  ASSUME NEW lines \in Seq(Line)
  PROVE  LET full == Len(lines) \div Batch
         IN  /\ full \in Nat /\ Batches(lines) \in Seq(Msg) /\ Len(Batches(lines)) = full + 1
             /\ \A i \in 0 .. full + 1 : BatchEnd(lines, i) \in 0 .. Len(lines)
             /\ BatchEnd(lines, 0) = 0 /\ BatchEnd(lines, full + 1) = Len(lines)
             /\ \A i \in 1 .. full + 1 :
                  LET part == Batches(lines)[i].lines
                      from == BatchEnd(lines, i - 1)
                  IN  /\ from + Len(part) = BatchEnd(lines, i)
                      /\ \A j \in 1 .. Len(part) : part[j] = lines[from + j]
<1> DEFINE full == Len(lines) \div Batch
           End(i) == BatchEnd(lines, i)
           part(i) == SubSeq(lines, End(i - 1) + 1, End(i))
<1>1. Len(lines) \in Nat /\ Batch \in Nat \ {0}
  BY LenProperties, ReplicationAssumption
<1>2. /\ full \in Nat
      /\ \A i \in 0 .. full : i * Batch \in 0 .. Len(lines)
  BY <1>1, FullBatches
<1>3. Batches(lines) = [i \in 1 .. full + 1 |->
                          FileAck(SubSeq(lines, (i - 1) * Batch + 1, End(i)))]
  BY DEF Batches, BatchEnd
<1> HIDE DEF full
<1>4. \A i \in 0 .. full + 1 : End(i) \in 0 .. Len(lines)
  BY <1>1, <1>2 DEF BatchEnd, full
<1>5. End(0) = 0 /\ End(full + 1) = Len(lines)
  BY <1>1, <1>2 DEF BatchEnd, full
<1>6. \A i \in 1 .. full + 1 : End(i - 1) = (i - 1) * Batch /\ End(i - 1) <= End(i)
  <2> SUFFICES ASSUME NEW i \in 1 .. full + 1
               PROVE  End(i - 1) = (i - 1) * Batch /\ End(i - 1) <= End(i)
    OBVIOUS
  <2>1. i - 1 \in 0 .. full
    BY <1>2
  <2>2. End(i - 1) = (i - 1) * Batch
    BY <2>1 DEF BatchEnd, full
  <2>3. CASE i <= full
    <3>1. End(i) = i * Batch
      BY <2>3 DEF BatchEnd, full
    <3>2. i * Batch = (i - 1) * Batch + Batch
      BY <1>1, <1>2
    <3>3. (i - 1) * Batch \in Int
      BY <1>1, <1>2
    <3>4. QED
      BY <1>1, <2>2, <3>1, <3>2, <3>3
  <2>4. CASE ~(i <= full)
    <3>1. End(i) = Len(lines)
      BY <2>4 DEF BatchEnd, full
    <3>2. QED
      BY <1>1, <1>2, <1>4, <2>1, <2>2, <3>1
  <2>5. QED
    BY <2>2, <2>3, <2>4
<1> HIDE DEF End
<1>7. ASSUME NEW i \in 1 .. full + 1
      PROVE  /\ part(i) \in Seq(Line)
             /\ End(i - 1) + Len(part(i)) = End(i)
             /\ \A j \in 1 .. Len(part(i)) : part(i)[j] = lines[End(i - 1) + j]
  <2> DEFINE a == End(i - 1)
             b == End(i)
  <2>1. a \in 0 .. Len(lines) /\ b \in 0 .. Len(lines) /\ a <= b
    BY <1>2, <1>4, <1>6
  <2> HIDE DEF a, b
  <2>2. \A k \in a + 1 .. b : lines[k] \in Line
    BY <1>1, <2>1, ElementOfSeq
  <2>3. /\ SubSeq(lines, a + 1, b) \in Seq(Line)
        /\ Len(SubSeq(lines, a + 1, b)) = IF a + 1 <= b THEN b - (a + 1) + 1 ELSE 0
        /\ \A j \in 1 .. b - (a + 1) + 1 : SubSeq(lines, a + 1, b)[j] = lines[a + 1 + j - 1]
    BY <1>1, <2>1, <2>2, SubSeqProperties
  <2> DEFINE p == SubSeq(lines, a + 1, b)
  <2>4. Len(p) = b - a /\ \A j \in 1 .. b - a : p[j] = lines[a + 1 + j - 1]
    BY <1>1, <2>1, <2>3
  <2> HIDE DEF p
  <2>5. a + Len(p) = b /\ \A j \in 1 .. Len(p) : p[j] = lines[a + j]
    BY <1>1, <2>1, <2>4
  <2>6. QED
    BY <2>3, <2>5 DEF a, b, p
<1> HIDE DEF part
<1>8. Batches(lines) = [i \in 1 .. full + 1 |-> FileAck(part(i))]
  BY <1>3, <1>6 DEF part
<1>9. \A i \in 1 .. full + 1 : FileAck(part(i)) \in Msg /\ FileAck(part(i)).lines = part(i)
  BY <1>7 DEF FileAck, Msg
<1>10. Batches(lines) \in Seq(Msg) /\ Len(Batches(lines)) = full + 1
  BY <1>2, <1>8, <1>9
<1>11. \A i \in 1 .. full + 1 : Batches(lines)[i].lines = part(i)
  BY <1>8, <1>9
<1>12. QED
  BY <1>2, <1>4, <1>5, <1>7, <1>10, <1>11 DEF full, End

-----------------------------------------------------------------------------
(* The inductive invariant.                                                *)

\* The j-th line that the slave is to get, of as many as there are.
Due(j) == IF j <= Len(base) THEN base[j] ELSE mem[Master][since + (j - Len(base))]

Total == Len(base) + (Len(mem[Master]) - since)

\* The slave has carried out the first of them, and each message on its way holds
\* the next ones: message i ends with line cut[i].
Sliced(cut) ==
  /\ cut \in [0 .. Len(chan) -> Nat]
  /\ cut[0] = Len(stream) /\ cut[Len(chan)] = Total
  /\ \A j \in 1 .. Len(stream) : stream[j] = Due(j)
  /\ \A i \in 1 .. Len(chan) :
       /\ cut[i] = cut[i - 1] + Len(chan[i].lines)
       /\ \A j \in 1 .. Len(chan[i].lines) : chan[i].lines[j] = Due(cut[i - 1] + j)

\* A slave the master has not registered and whose address it does not have.
Waiting == link = "idle" \/ (link \in {"open", "asked"} /\ Entries = 0)

LinkOK ==
  /\ chan \in Seq(Msg)
  /\ Waiting => stream = <<>> /\ (chan = <<>> \/ (link = "open" /\ chan = <<ReadyMsg>>))
  /\ Slave \notin up => link = "lost" /\ chan = <<>>
  /\ Up(link) => Master \in up
  /\ link = "registered" => since <= Len(mem[Master])
  /\ link = "registered" /\ Entries = 1 => \E cut : Sliced(cut)

RInv == TypeOK /\ LinkOK

Lengths(q) == Len(q) \in Nat /\ DOMAIN q = 1 .. Len(q)

LEMMA LinkTypes ==
  ASSUME RInv
  PROVE  /\ LogTypeOK /\ mem[Master] \in Seq(Line) /\ file[Master] \in Seq(Line)
         /\ Lengths(mem[Master]) /\ Master \in Servers /\ Slave \in Servers /\ Master # Slave
         /\ chan \in Seq(Msg) /\ Lengths(chan) /\ Len(chan) <= Room /\ Room \in Nat
         /\ stream \in Seq(Line) /\ base \in Seq(Line) /\ Lengths(stream) /\ Lengths(base)
         /\ since \in Nat
<1>1. /\ LogTypeOK /\ chan \in Seq(Msg) /\ Len(chan) <= Room
      /\ stream \in Seq(Line) /\ base \in Seq(Line) /\ since \in Nat
  BY DEF RInv, TypeOK, LinkOK
<1>2. Master \in Servers /\ Slave \in Servers /\ Master # Slave /\ Room \in Nat
  BY ReplicationAssumption
<1>3. mem[Master] \in Seq(Line) /\ file[Master] \in Seq(Line)
  BY <1>1, <1>2, TypedAt
<1>4. Lengths(mem[Master]) /\ Lengths(chan) /\ Lengths(stream) /\ Lengths(base)
  BY <1>1, <1>3, LenProperties DEF Lengths
<1>5. QED
  BY <1>1, <1>2, <1>3, <1>4

\* Messages are typed as TypeOK says.
LEMMA MessagesTyped ==
  ASSUME NEW q \in Seq(Msg)
  PROVE  q \in Seq([kind : {"ready", "file", "command"}, lines : Seq(Line)])
BY LinesOfMessage, SeqMonotonic

-----------------------------------------------------------------------------
(* The steps.                                                              *)

\* A step of the servers alone, which leaves what the master holds as it was unless
\* its process is just starting.
LEMMA QuietStep ==
  ASSUME RInv, LogTypeOK', UNCHANGED linkVars, up \subseteq up',
         mem'[Master] = mem[Master] \/ Master \notin up
  PROVE  RInv'
<1>1. TypeOK'
  BY DEF RInv, TypeOK, linkVars
<1>2. link = "registered" => mem'[Master] = mem[Master]
  BY DEF RInv, LinkOK, Up
<1>3. LinkOK'
  <2>1. /\ chan' = chan /\ link' = link /\ stream' = stream /\ base' = base /\ since' = since
        /\ vector' = vector /\ agent' = agent
    BY DEF linkVars
  <2>2. ASSUME link = "registered", Entries = 1 PROVE \E cut : Sliced(cut)'
    <3>1. PICK cut : Sliced(cut)
      BY <2>2 DEF RInv, LinkOK
    <3>2. Total' = Total /\ \A j : Due(j)' = Due(j)
      BY <1>2, <2>1, <2>2 DEF Total, Due
    <3>3. Sliced(cut)'
      BY <2>1, <3>1, <3>2 DEF Sliced
    <3>4. QED
      BY <3>3
  <2>3. Entries' = Entries
    BY <2>1 DEF Entries
  <2>4. QED
    BY <1>2, <2>1, <2>2, <2>3 DEF RInv, LinkOK, Waiting, Up
<1>4. QED
  BY <1>1, <1>3 DEF RInv

\* A step after which there is no connection.
LEMMA LostStep ==
  ASSUME TypeOK', chan' \in Seq(Msg), link' = "lost", Slave \notin up' => chan' = <<>>
  PROVE  RInv'
BY DEF RInv, LinkOK, Waiting, Up

\* What a broken connection has delivered already.
LEMMA CutSends ==
  ASSUME RInv, NEW l, Cut(l)
  PROVE  /\ chan' \in Seq(Msg) /\ Len(chan') <= Room /\ link' = l
         /\ chan = <<>> => chan' = <<>>
<1>1. PICK n \in 0 .. Len(chan) : chan' = SubSeq(chan, 1, n)
  BY DEF Cut
<1>2. link' = l
  BY DEF Cut
<1>3. chan \in Seq(Msg) /\ Len(chan) \in Nat /\ Len(chan) <= Room /\ Room \in Nat
  BY LinkTypes DEF Lengths
<1>4. \A i \in 1 .. n : chan[i] \in Msg
  BY <1>3, ElementOfSeq
<1>5. chan' \in Seq(Msg) /\ Len(chan') = IF 1 <= n THEN n - 1 + 1 ELSE 0
  BY <1>1, <1>3, <1>4, SubSeqProperties
<1>6. Len(chan') <= Room
  BY <1>3, <1>5
<1>7. ASSUME chan = <<>> PROVE chan' = <<>>
  <2>1. n = 0
    BY <1>7
  <2>2. QED
    BY <1>5, <2>1, EmptySeq
<1>8. QED
  BY <1>2, <1>5, <1>6, <1>7

\* The first message on its way is carried out: it holds the lines that come next.
LEMMA ReceiveStep ==
  ASSUME RInv, ~Waiting, LogTypeOK', Slave \in up, up' = up, chan # <<>>, mem'[Master] = mem[Master],
         stream' = stream \o Head(chan).lines, chan' = Tail(chan), ready' \in BOOLEAN,
         UNCHANGED <<link, agent, vector, base, since>>
  PROVE  RInv'
<1> DEFINE lines == chan[1].lines
<1>1. /\ chan \in Seq(Msg) /\ stream \in Seq(Line) /\ Len(chan) \in Nat /\ Len(stream) \in Nat
      /\ Len(chan) <= Room /\ Room \in Nat
  BY LinkTypes DEF Lengths
<1>2. Len(chan) \in Nat \ {0}
  BY <1>1, EmptySeq
<1>3. /\ Tail(chan) \in Seq(Msg) /\ Len(Tail(chan)) = Len(chan) - 1
      /\ \A i \in 1 .. Len(Tail(chan)) : Tail(chan)[i] = chan[i + 1]
  BY <1>1, HeadTailProperties
<1>4. Head(chan) = chan[1] /\ chan[1] \in Msg
  BY <1>1, <1>2, ElementOfSeq
<1>5. lines \in Seq(Line)
  BY <1>4, LinesOfMessage
<1> HIDE DEF lines
<1>6. /\ stream' = stream \o lines /\ stream' \in Seq(Line) /\ Len(lines) \in Nat
      /\ Len(stream') = Len(stream) + Len(lines)
      /\ \A j \in 1 .. Len(stream) + Len(lines) :
           stream'[j] = IF j <= Len(stream) THEN stream[j] ELSE lines[j - Len(stream)]
  <2>1. stream' = stream \o lines
    BY <1>4 DEF lines
  <2>2. Len(lines) \in Nat
    BY <1>5, LenProperties
  <2>3. stream \in Seq(Line)
    BY <1>1
  <2>4. /\ stream \o lines \in Seq(Line) /\ Len(stream \o lines) = Len(stream) + Len(lines)
        /\ \A j \in 1 .. Len(stream) + Len(lines) :
             (stream \o lines)[j] = IF j <= Len(stream) THEN stream[j] ELSE lines[j - Len(stream)]
    BY <1>5, <2>3, ConcatProperties
  <2>5. QED
    BY <2>1, <2>2, <2>4
<1>7. /\ chan' \in Seq(Msg) /\ Len(chan') = Len(chan) - 1
      /\ \A i \in 1 .. Len(chan') : chan'[i] = chan[i + 1]
  BY <1>3
<1>8. TypeOK'
  <2>1. chan' \in Seq([kind : {"ready", "file", "command"}, lines : Seq(Line)])
    BY <1>7, MessagesTyped
  <2>2. Len(chan') <= Room
    BY <1>1, <1>7
  <2>3. QED
    BY <1>6, <2>1, <2>2 DEF RInv, TypeOK
<1>9. ~Waiting'
  BY DEF Waiting, Entries
<1>10. ASSUME link = "registered", Entries = 1 PROVE \E cut : Sliced(cut)'
  <2>1. PICK cut : Sliced(cut)
    BY <1>10 DEF RInv, LinkOK
  <2>0. PICK next : next = [i \in 0 .. Len(chan) - 1 |-> cut[i + 1]]
    OBVIOUS
  <2>2. Total' = Total /\ \A j : Due(j)' = Due(j)
    BY DEF Total, Due
  <2>3. /\ cut \in [0 .. Len(chan) -> Nat] /\ cut[0] = Len(stream) /\ cut[Len(chan)] = Total
        /\ \A j \in 1 .. Len(stream) : stream[j] = Due(j)
        /\ cut[1] = Len(stream) + Len(lines)
        /\ \A j \in 1 .. Len(lines) : lines[j] = Due(Len(stream) + j)
        /\ \A i \in 1 .. Len(chan) :
             /\ cut[i] = cut[i - 1] + Len(chan[i].lines)
             /\ \A j \in 1 .. Len(chan[i].lines) : chan[i].lines[j] = Due(cut[i - 1] + j)
    <3>1. 1 \in 1 .. Len(chan) /\ 1 - 1 = 0
      BY <1>2
    <3>2. QED
      BY <2>1, <3>1 DEF Sliced, lines
  <2>4. next \in [0 .. Len(chan') -> Nat]
    BY <1>2, <1>7, <2>0, <2>3
  <2>5. next[0] = Len(stream') /\ next[Len(chan')] = Total
    BY <1>2, <1>6, <1>7, <2>0, <2>3
  <2>6. \A j \in 1 .. Len(stream') : stream'[j] = Due(j)
    <3> SUFFICES ASSUME NEW j \in 1 .. Len(stream') PROVE stream'[j] = Due(j)
      OBVIOUS
    <3>1. CASE j <= Len(stream)
      BY <1>1, <1>6, <2>3, <3>1
    <3>2. CASE ~(j <= Len(stream))
      <4>1. j - Len(stream) \in 1 .. Len(lines) /\ Len(stream) + (j - Len(stream)) = j
        BY <1>1, <1>6, <3>2
      <4>2. stream'[j] = lines[j - Len(stream)]
        BY <1>6, <3>2
      <4>3. QED
        BY <2>3, <4>1, <4>2
    <3>3. QED
      BY <3>1, <3>2
  <2>7. ASSUME NEW i \in 1 .. Len(chan')
        PROVE  /\ next[i] = next[i - 1] + Len(chan'[i].lines)
               /\ \A j \in 1 .. Len(chan'[i].lines) : chan'[i].lines[j] = Due(next[i - 1] + j)
    <3>1. /\ i + 1 \in 1 .. Len(chan) /\ (i + 1) - 1 = i /\ chan'[i] = chan[i + 1]
          /\ next[i] = cut[i + 1] /\ next[i - 1] = cut[i]
      BY <1>2, <1>7, <2>0
    <3>2. /\ cut[i + 1] = cut[(i + 1) - 1] + Len(chan[i + 1].lines)
          /\ \A j \in 1 .. Len(chan[i + 1].lines) :
               chan[i + 1].lines[j] = Due(cut[(i + 1) - 1] + j)
      BY <2>3, <3>1
    <3>3. QED
      BY <3>1, <3>2
  <2>8. Sliced(next)'
    BY <2>2, <2>4, <2>5, <2>6, <2>7 DEF Sliced
  <2>9. QED
    BY <2>8
<1>11. LinkOK'
  <2>1. Entries' = Entries
    BY DEF Entries
  <2>2. QED
    BY <1>7, <1>9, <1>10, <2>1 DEF RInv, LinkOK, Up
<1>12. QED
  BY <1>8, <1>11 DEF RInv

\* Only the greeting is on its way to a slave that waits.
LEMMA NoneWaiting ==
  ASSUME RInv, chan # <<>>, Head(chan).kind # "ready" PROVE ~Waiting
<1>1. ASSUME chan = <<ReadyMsg>> PROVE FALSE
  <2>1. Head(chan) = ReadyMsg
    BY <1>1
  <2>2. QED
    BY <2>1 DEF ReadyMsg
<1>2. QED
  BY <1>1 DEF RInv, LinkOK

\* What is left of the messages on their way when the first are gone.
LEMMA RestTyped ==
  ASSUME RInv, NEW n \in 1 .. Len(chan), NEW rest, rest = SubSeq(chan, n + 1, Len(chan))
  PROVE  /\ rest \in Seq(Msg) /\ Len(rest) = Len(chan) - n /\ Len(rest) <= Room
         /\ \A i \in 1 .. Len(rest) : i + n \in 1 .. Len(chan) /\ rest[i] = chan[i + n]
         /\ Len(chan) = 1 => rest = <<>>
<1>1. chan \in Seq(Msg) /\ Len(chan) \in Nat /\ Len(chan) <= Room /\ Room \in Nat /\ n \in Nat
  BY LinkTypes DEF Lengths
<1>2. \A i \in n + 1 .. Len(chan) : chan[i] \in Msg
  BY <1>1, ElementOfSeq
<1>3. /\ rest \in Seq(Msg)
      /\ Len(rest) = IF n + 1 <= Len(chan) THEN Len(chan) - (n + 1) + 1 ELSE 0
      /\ \A i \in 1 .. Len(chan) - (n + 1) + 1 : rest[i] = chan[n + 1 + i - 1]
  BY <1>1, <1>2, SubSeqProperties
<1>4. Len(rest) = Len(chan) - n
  BY <1>1, <1>3
<1>5. ASSUME NEW i \in 1 .. Len(rest) PROVE i + n \in 1 .. Len(chan) /\ rest[i] = chan[i + n]
  <2>1. i \in 1 .. Len(chan) - (n + 1) + 1 /\ n + 1 + i - 1 = i + n
    BY <1>1, <1>4
  <2>2. QED
    BY <1>1, <1>3, <1>4, <2>1
<1>6. Len(chan) = 1 => rest = <<>>
  BY <1>1, <1>3, <1>4, EmptySeq
<1>7. QED
  BY <1>1, <1>3, <1>4, <1>5, <1>6

LEMMA OnConnectPreserves ==
  ASSUME RInv, OnConnect PROVE RInv'
<1>1. /\ Slave \in up /\ link \in {"open", "lost"}
      /\ UNCHANGED <<link, agent, vector, ready, base, since, stream, logVars>>
  BY DEF OnConnect
<1>2. PICK n \in 1 .. Len(chan) : chan' = SubSeq(chan, n + 1, Len(chan))
  BY DEF OnConnect
<1>3. chan' \in Seq(Msg) /\ Len(chan') <= Room /\ (Len(chan) = 1 => chan' = <<>>)
  BY <1>2, RestTyped
<1>4. chan' \in Seq([kind : {"ready", "file", "command"}, lines : Seq(Line)])
  BY <1>3, MessagesTyped
<1>5. up' = up /\ LogTypeOK'
  BY <1>1 DEF RInv, TypeOK, LogTypeOK, logVars
<1>6. TypeOK'
  BY <1>1, <1>3, <1>4, <1>5 DEF RInv, TypeOK
<1>7. Waiting => chan' = <<>> /\ stream = <<>>
  <2>1. Len(<<>>) = 0 /\ Len(<<ReadyMsg>>) = 1
    BY EmptySeq
  <2>2. Waiting => Len(chan) \in {0, 1} /\ stream = <<>>
    BY <2>1 DEF RInv, LinkOK
  <2>3. Len(chan) # 0
    BY <1>2
  <2>4. QED
    BY <1>3, <2>2, <2>3
<1>8. Waiting' = Waiting
  BY <1>1 DEF Waiting, Entries
<1>9. LinkOK'
  BY <1>1, <1>3, <1>5, <1>7, <1>8 DEF RInv, LinkOK, Up
<1>10. QED
  BY <1>6, <1>9 DEF RInv

\* The greeting brings no line; a slave that has asked waits for the master.
LEMMA ReceiveReadyPreserves ==
  ASSUME RInv, ReceiveReady PROVE RInv'
<1>1. /\ Slave \in up /\ chan # <<>> /\ Head(chan) = ReadyMsg /\ chan' = Tail(chan)
      /\ link' = IF link = "open" THEN "asked" ELSE link
      /\ UNCHANGED <<agent, vector, ready, base, since, stream, logVars>>
  BY DEF ReceiveReady
<1>2. /\ stream \in Seq(Line) /\ chan \in Seq(Msg) /\ Len(chan) \in Nat
      /\ Len(chan) <= Room /\ Room \in Nat
  BY LinkTypes DEF Lengths
<1>3. up' = up /\ mem' = mem /\ LogTypeOK' /\ ready' \in BOOLEAN
  BY <1>1 DEF RInv, TypeOK, LogTypeOK, logVars
<1>4. CASE link # "open" /\ ~Waiting
  <2>1. stream' = stream \o Head(chan).lines
    BY <1>1, <1>2, MessageTypes, ConcatEmptySeq
  <2>2. QED
    BY <1>1, <1>3, <1>4, <2>1, ReceiveStep
<1>5. CASE link = "open" \/ Waiting
  <2>1. chan' \in Seq(Msg) /\ Len(chan') <= Room
    BY <1>1, <1>2, HeadTailProperties
  <2>2. chan' \in Seq([kind : {"ready", "file", "command"}, lines : Seq(Line)])
    BY <2>1, MessagesTyped
  <2>3. link = "open" /\ link' = "asked"
    <3>1. Waiting => link = "open"
      BY <1>1 DEF RInv, LinkOK
    <3>2. QED
      BY <1>1, <1>5, <3>1
  <2>4. TypeOK'
    BY <1>1, <1>3, <2>1, <2>2, <2>3 DEF RInv, TypeOK
  <2>5. Waiting' => stream' = <<>> /\ chan' = <<>>
    <3>1. Waiting' => Waiting
      BY <1>1, <2>3 DEF Waiting, Entries
    <3>2. Waiting => stream = <<>> /\ chan = <<ReadyMsg>>
      BY <1>1 DEF RInv, LinkOK
    <3>3. Tail(<<ReadyMsg>>) = <<>>
      OBVIOUS
    <3>4. QED
      BY <1>1, <3>1, <3>2, <3>3
  <2>6. LinkOK'
    BY <1>1, <1>3, <2>1, <2>3, <2>5 DEF RInv, LinkOK, Up
  <2>7. QED
    BY <2>4, <2>6 DEF RInv
<1>6. QED
  BY <1>4, <1>5

LEMMA ReceivePreserves ==
  ASSUME RInv, Receive PROVE RInv'
<1>1. /\ LogTypeOK /\ Master \in Servers /\ Slave \in Servers /\ Master # Slave
      /\ chan \in Seq(Msg) /\ mem[Slave] \in Seq(Line)
  BY LinkTypes, TypedAt
<1>2. chan # <<>> => Head(chan) \in Msg
  BY <1>1, HeadTailProperties
<1>3. CASE ReceiveFile
  <2>1. Head(chan).lines \in Seq(Line)
    BY <1>2, <1>3, LinesOfMessage DEF ReceiveFile
  <2>2. mem[Slave] \o Head(chan).lines \in Seq(Line)
    BY <1>1, <2>1, ConcatProperties
  <2>3. /\ mem' = [mem EXCEPT ![Slave] = mem[Slave] \o Head(chan).lines]
        /\ UNCHANGED <<up, queue, isOpen, buf, half, file, ragged, stopped, dropped,
                       issued, crashes>>
    BY <1>3 DEF ReceiveFile
  <2>4. LogTypeOK' /\ mem'[Master] = mem[Master]
    BY <1>1, <2>2, <2>3 DEF LogTypeOK
  <2>5. ~Waiting
    BY <1>3, NoneWaiting DEF ReceiveFile
  <2>6. QED
    BY <1>3, <2>4, <2>5, ReceiveStep DEF ReceiveFile
<1>4. CASE ReceiveCommand
  <2> DEFINE c == Head(chan).lines[1]
  <2>1. c \in Commands
    BY <1>2, <1>4, LinesOfMessage DEF ReceiveCommand
  <2>2. /\ mem' = [mem EXCEPT ![Slave] = Append(@, c)]
        /\ queue' = [queue EXCEPT ![Slave] = Append(@, c)]
        /\ UNCHANGED <<up, isOpen, buf, half, file, ragged, stopped, dropped, issued, crashes>>
    BY <1>4 DEF ReceiveCommand, Do
  <2> HIDE DEF c
  <2>3. LogTypeOK'
    BY <1>1, <2>1, <2>2, LineTypes
  <2>4. mem'[Master] = mem[Master]
    BY <1>1, <2>2 DEF LogTypeOK
  <2>5. /\ Slave \in up /\ chan # <<>> /\ stream' = stream \o Head(chan).lines
        /\ chan' = Tail(chan) /\ UNCHANGED <<link, agent, vector, ready, base, since>>
    BY <1>4 DEF ReceiveCommand
  <2>6. ready' \in BOOLEAN
    BY <2>5 DEF RInv, TypeOK
  <2>7. ~Waiting
    BY <1>4, NoneWaiting DEF ReceiveCommand
  <2>8. QED
    BY <2>2, <2>3, <2>4, <2>5, <2>6, <2>7, ReceiveStep
<1>5. QED
  BY <1>3, <1>4, ReceiveReadyPreserves DEF Receive

\* A command of the master comes last in what is due, and its broadcast last on the
\* way.
LEMMA MasterCommandPreserves ==
  ASSUME RInv, MasterCommand PROVE RInv'
<1> DEFINE c == <<Master, issued[Master] + 1>>
           n == Len(mem[Master])
<1>1. /\ LogTypeOK /\ Master \in Servers /\ Slave \in Servers /\ Master # Slave
      /\ chan \in Seq(Msg) /\ Len(chan) \in Nat /\ Len(chan) <= Room /\ Room \in Nat
      /\ mem[Master] \in Seq(Line) /\ n \in Nat /\ since \in Nat /\ Len(base) \in Nat
      /\ Len(stream) \in Nat
  BY LinkTypes DEF Lengths
<1>2. Execute(Master) /\ UNCHANGED <<agent, vector, ready, base, since, stream>>
  BY DEF MasterCommand
<1>3. /\ LogTypeOK' /\ mem' = [mem EXCEPT ![Master] = Append(@, c)]
      /\ issued'[Master] = issued[Master] + 1 /\ c \in Line
  BY <1>1, <1>2, ExecuteTypes
<1>4. c \in Commands
  <2>1. issued[Master] \in Nat
    BY <1>1 DEF LogTypeOK
  <2>2. issued[Master] + 1 \in Nat
    BY <2>1
  <2>3. QED
    BY <1>1, <2>2 DEF Commands
<1>5. up' = up /\ Master \in up
  BY <1>2 DEF Execute
<1>6. SendAll(chan, Broadcast(c), link)
  BY <1>3 DEF MasterCommand
<1> HIDE DEF c
<1>7. /\ Broadcast(c) \in Seq(Msg)
      /\ ~Up(link) \/ Entries = 0 => Broadcast(c) = <<>>
      /\ Up(link) /\ Entries = 1 => Broadcast(c) = <<CommandMsg(c)>>
  BY <1>4, BroadcastSends DEF RInv
<1>8. /\ chan' \in Seq(Msg) /\ Len(chan') <= Room
      /\ (chan' = chan \o Broadcast(c) /\ link' = link) \/ link' = "lost"
  BY <1>1, <1>6, <1>7, SendAllSends
<1>9. link' \in {link, "lost"} /\ (Slave \notin up' => link' = "lost" /\ chan' = <<>>)
  <2>1. link' \in {link, "lost"}
    BY <1>8
  <2>2. ASSUME Slave \notin up PROVE link' = "lost" /\ chan' = <<>>
    <3>1. link = "lost" /\ chan = <<>> /\ Broadcast(c) = <<>>
      BY <1>7, <2>2 DEF RInv, LinkOK, Up
    <3>2. Len(chan) + Len(Broadcast(c)) <= Room /\ chan \o Broadcast(c) = <<>>
      BY <1>1, <3>1, EmptySeq, ConcatEmptySeq
    <3>3. QED
      BY <1>6, <3>1, <3>2 DEF SendAll
  <2>3. QED
    BY <1>5, <2>1, <2>2
<1>10. TypeOK'
  <2>1. chan' \in Seq([kind : {"ready", "file", "command"}, lines : Seq(Line)])
    BY <1>8, MessagesTyped
  <2>2. QED
    BY <1>2, <1>3, <1>8, <1>9, <2>1 DEF RInv, TypeOK
<1>11. CASE link' = "lost"
  BY <1>8, <1>9, <1>10, <1>11, LostStep
<1>12. CASE link' # "lost"
  <2>1. chan' = chan \o Broadcast(c) /\ link' = link
    BY <1>8, <1>12
  <2>2. mem'[Master] = Append(mem[Master], c)
    BY <1>1, <1>3 DEF LogTypeOK
  <2>3. /\ Len(mem'[Master]) = n + 1 /\ mem'[Master][n + 1] = c
        /\ \A i \in 1 .. n : mem'[Master][i] = mem[Master][i]
    BY <1>1, <1>3, <2>2, AppendProperties
  <2> HIDE DEF n
  <2>4. Waiting => stream' = stream /\ chan' = chan
    <3>1. Waiting => Broadcast(c) = <<>>
      BY <1>7 DEF Waiting, Up
    <3>2. chan \o <<>> = chan
      BY <1>1, ConcatEmptySeq
    <3>3. QED
      BY <1>2, <2>1, <3>1, <3>2
  <2>5. link = "registered" => since <= n
    BY DEF RInv, LinkOK, n
  <2>6. ASSUME link = "registered", Entries = 1 PROVE \E cut : Sliced(cut)'
    <3> DEFINE m == CommandMsg(c)
               k == Len(chan)
    <3>1. m \in Msg /\ m.lines = <<c>>
      BY <1>4, MessageTypes DEF CommandMsg
    <3>2. chan' = Append(chan, m)
      BY <1>1, <1>7, <2>1, <2>6, <3>1, AppendIsConcat DEF Up
    <3> HIDE DEF m
    <3>3. /\ Len(chan') = k + 1 /\ chan'[k + 1] = m
          /\ \A i \in 1 .. k : chan'[i] = chan[i]
      BY <1>1, <3>1, <3>2, AppendProperties
    <3>4. PICK cut : Sliced(cut)
      BY <2>6 DEF RInv, LinkOK
    <3>5. PICK total : total = Total
      OBVIOUS
    <3>6. total \in Nat /\ total = Len(base) + (n - since) /\ Total' = total + 1
      <4>1. PICK k0, n0, s0 : k0 = Len(base) /\ n0 = n /\ s0 = since
        OBVIOUS
      <4>2. k0 \in Nat /\ n0 \in Nat /\ s0 \in Nat /\ s0 <= n0
        BY <1>1, <2>5, <2>6, <4>1 DEF n
      <4>3. total = k0 + (n0 - s0) /\ Total' = k0 + ((n0 + 1) - s0)
        BY <1>2, <2>3, <3>5, <4>1 DEF Total, n
      <4>4. QED
        BY <4>1, <4>2, <4>3
    <3>7. \A j \in 1 .. total : Due(j)' = Due(j)
      <4> SUFFICES ASSUME NEW j \in 1 .. total PROVE Due(j)' = Due(j)
        OBVIOUS
      <4>1. CASE j <= Len(base)
        BY <1>2, <4>1 DEF Due
      <4>2. CASE ~(j <= Len(base))
        <5>1. since + (j - Len(base)) \in 1 .. n
          BY <1>1, <2>5, <2>6, <3>6, <4>2 DEF n
        <5>2. QED
          BY <1>2, <2>3, <4>2, <5>1 DEF Due
      <4>3. QED
        BY <4>1, <4>2
    <3>8. Due(total + 1)' = c
      <4>0. PICK last : last = total + 1
        OBVIOUS
      <4>1. since + (last - Len(base)) = n + 1 /\ ~(last <= Len(base))
        BY <1>1, <2>5, <2>6, <3>6, <4>0 DEF n
      <4>2. Due(last)' = mem'[Master][since + (last - Len(base))]
        BY <1>2, <4>1 DEF Due
      <4>3. QED
        BY <2>3, <4>0, <4>1, <4>2
    <3>9. PICK size : size = k
      OBVIOUS
    <3>10. PICK next : next = [i \in 0 .. size + 1 |-> IF i <= size THEN cut[i] ELSE total + 1]
      OBVIOUS
    <3>11. /\ cut \in [0 .. size -> Nat] /\ cut[0] = Len(stream) /\ cut[size] = total
           /\ size \in Nat
           /\ \A j \in 1 .. Len(stream) : stream[j] = Due(j)
           /\ \A i \in 1 .. size :
                /\ cut[i] = cut[i - 1] + Len(chan[i].lines)
                /\ \A j \in 1 .. Len(chan[i].lines) : chan[i].lines[j] = Due(cut[i - 1] + j)
      BY <1>1, <3>4, <3>5, <3>9 DEF Sliced
    <3> HIDE DEF k
    <3>12. \A i \in 1 .. size : /\ Len(chan[i].lines) \in Nat
                                 /\ cut[i - 1] \in Nat /\ cut[i] \in Nat
      <4> SUFFICES ASSUME NEW i \in 1 .. size
                   PROVE  Len(chan[i].lines) \in Nat /\ cut[i - 1] \in Nat /\ cut[i] \in Nat
        OBVIOUS
      <4>1. chan[i] \in Msg
        BY <1>1, <3>9, ElementOfSeq DEF k
      <4>2. Len(chan[i].lines) \in Nat
        BY <4>1, LinesOfMessage, LenProperties
      <4>3. QED
        BY <3>11, <4>2
    <3>13. \A i \in 0 .. size : cut[i] <= total
      <4> DEFINE S == {d \in Nat : d <= size => cut[size - d] <= total}
      <4>1. 0 \in S
        BY <3>6, <3>11
      <4>2. ASSUME NEW d \in Nat, d \in S PROVE d + 1 \in S
        <5>1. CASE d + 1 <= size
          <6>1. size - d \in 1 .. size /\ (size - d) - 1 = size - (d + 1)
            BY <3>11, <5>1
          <6>2. cut[size - d] = cut[size - (d + 1)] + Len(chan[size - d].lines)
            BY <3>11, <6>1
          <6>3. cut[size - d] <= total
            BY <4>2, <5>1, <3>11
          <6>4. /\ Len(chan[size - d].lines) \in Nat /\ cut[size - (d + 1)] \in Nat
                /\ cut[size - d] \in Nat
            BY <3>12, <6>1
          <6>5. cut[size - (d + 1)] <= total
            BY <3>6, <6>2, <6>3, <6>4
          <6>6. QED
            BY <6>5
        <5>2. QED
          BY <5>1
      <4>3. Nat \subseteq S
        <5> HIDE DEF S
        <5>1. QED
          BY <4>1, <4>2, NaturalsByInduction
      <4>4. QED
        <5> SUFFICES ASSUME NEW i \in 0 .. size PROVE cut[i] <= total
          OBVIOUS
        <5>1. size - i \in Nat /\ size - i <= size /\ size - (size - i) = i
          BY <3>11
        <5>2. size - i \in S
          BY <4>3, <5>1
        <5>3. QED
          BY <5>1, <5>2
    <3>14. next \in [0 .. Len(chan') -> Nat]
      BY <3>3, <3>6, <3>9, <3>10, <3>11
    <3>15. next[0] = Len(stream') /\ next[Len(chan')] = Total'
      BY <1>2, <3>3, <3>6, <3>9, <3>10, <3>11
    <3>16. \A j \in 1 .. Len(stream') : stream'[j] = Due(j)'
      BY <1>1, <1>2, <3>7, <3>6, <3>11, <3>13
    <3>17. ASSUME NEW i \in 1 .. Len(chan')
           PROVE  /\ next[i] = next[i - 1] + Len(chan'[i].lines)
                  /\ \A j \in 1 .. Len(chan'[i].lines) :
                       chan'[i].lines[j] = Due(next[i - 1] + j)'
      <4>1. CASE i <= size
        <5>1. /\ i \in 1 .. size /\ chan'[i] = chan[i]
              /\ next[i] = cut[i] /\ next[i - 1] = cut[i - 1]
          BY <3>3, <3>9, <3>10, <3>11, <4>1
        <5>2. /\ Len(chan[i].lines) \in Nat /\ cut[i - 1] \in Nat /\ cut[i] \in Nat
              /\ cut[i] = cut[i - 1] + Len(chan[i].lines) /\ cut[i] <= total
          BY <3>11, <3>12, <3>13, <5>1
        <5>3. ASSUME NEW j \in 1 .. Len(chan[i].lines)
              PROVE  chan[i].lines[j] = Due(cut[i - 1] + j)'
          <6>1. cut[i - 1] + j \in 1 .. total
            BY <3>6, <5>2
          <6>2. chan[i].lines[j] = Due(cut[i - 1] + j)
            BY <3>11, <5>1
          <6>3. QED
            BY <3>7, <6>1, <6>2
        <5>4. QED
          BY <5>1, <5>2, <5>3
      <4>2. CASE ~(i <= size)
        <5>1. i = size + 1 /\ chan'[i] = m /\ next[i] = total + 1 /\ next[i - 1] = total
          BY <3>3, <3>9, <3>10, <3>11, <4>2
        <5>2. Len(m.lines) = 1 /\ m.lines[1] = c
          BY <3>1
        <5>3. QED
          BY <3>6, <3>8, <5>1, <5>2
      <4>3. QED
        BY <4>1, <4>2
    <3>18. Sliced(next)'
      BY <3>14, <3>15, <3>16, <3>17 DEF Sliced
    <3>19. QED
      BY <3>18
  <2>7. Entries' = Entries
    BY <1>2 DEF Entries
  <2>8. Waiting' => stream' = <<>> /\ (chan' = <<>> \/ (link' = "open" /\ chan' = <<ReadyMsg>>))
    <3>1. Waiting' => Waiting
      BY <2>1, <2>7 DEF Waiting
    <3>2. Waiting => stream = <<>> /\ (chan = <<>> \/ (link = "open" /\ chan = <<ReadyMsg>>))
      BY DEF RInv, LinkOK
    <3>3. QED
      BY <2>1, <2>4, <3>1, <3>2
  <2>9. link' = "registered" => since' <= Len(mem'[Master])
    <3>1. link = "registered" => since <= n + 1
      BY <1>1, <2>5 DEF n
    <3>2. QED
      BY <1>2, <2>1, <2>3, <3>1
  <2>10. link' = "registered" /\ Entries' = 1 => \E cut : Sliced(cut)'
    BY <2>1, <2>6, <2>7
  <2>11. Up(link') => Master \in up'
    BY <1>5
  <2>12. LinkOK'
    BY <1>8, <1>9, <2>8, <2>9, <2>10, <2>11 DEF LinkOK
  <2>13. QED
    BY <1>10, <2>12 DEF RInv
<1>13. QED
  BY <1>11, <1>12

LEMMA FileLinesTyped ==
  ASSUME LogTypeOK PROVE FileLines \in Seq(Line)
<1>1. file[Master] \in Seq(Line)
  BY TypedAt, ReplicationAssumption
<1>2. <<Torn>> \in Seq(Line) /\ <<>> \in Seq(Line)
  BY EmptySeq DEF Line
<1>3. QED
  BY <1>1, <1>2, ConcatProperties DEF FileLines

\* Messages that hold slices of the lines which follow each other: the i-th ends with
\* line cut[i].
Slices(msgs, lines, cut) ==
  /\ cut \in [0 .. Len(msgs) -> 0 .. Len(lines)]
  /\ cut[0] = 0 /\ cut[Len(msgs)] = Len(lines)
  /\ \A i \in 1 .. Len(msgs) :
       /\ cut[i] = cut[i - 1] + Len(msgs[i].lines)
       /\ \A j \in 1 .. Len(msgs[i].lines) : msgs[i].lines[j] = lines[cut[i - 1] + j]

\* What the master answers a slave that registers: the lines in slices that follow
\* each other, or nothing at all when it cannot open the file.
LEMMA AnswerSlices ==
  ASSUME NEW lines \in Seq(Line), NEW msgs,
         msgs = Batches(lines) \/ (msgs = <<>> /\ lines = <<>>)
  PROVE  msgs \in Seq(Msg) /\ \E cut : Slices(msgs, lines, cut)
<1>1. CASE msgs = <<>> /\ lines = <<>>
  <2>1. msgs \in Seq(Msg) /\ Len(msgs) = 0 /\ Len(lines) = 0
    BY <1>1, EmptySeq
  <2>2. PICK c : c = [i \in 0 .. 0 |-> 0]
    OBVIOUS
  <2>3. c \in [0 .. Len(msgs) -> 0 .. Len(lines)] /\ c[0] = 0 /\ c[Len(msgs)] = Len(lines)
    BY <2>1, <2>2
  <2>4. \A i \in 1 .. Len(msgs) : FALSE
    BY <2>1
  <2>5. Slices(msgs, lines, c)
    BY <2>3, <2>4 DEF Slices
  <2>6. QED
    BY <2>1, <2>5
<1>2. CASE msgs = Batches(lines)
  <2>1. PICK full : full = Len(lines) \div Batch
    OBVIOUS
  <2>2. /\ full \in Nat /\ msgs \in Seq(Msg) /\ Len(msgs) = full + 1
        /\ \A i \in 0 .. full + 1 : BatchEnd(lines, i) \in 0 .. Len(lines)
        /\ BatchEnd(lines, 0) = 0 /\ BatchEnd(lines, full + 1) = Len(lines)
        /\ \A i \in 1 .. full + 1 :
             /\ BatchEnd(lines, i - 1) + Len(msgs[i].lines) = BatchEnd(lines, i)
             /\ \A j \in 1 .. Len(msgs[i].lines) :
                  msgs[i].lines[j] = lines[BatchEnd(lines, i - 1) + j]
    BY <1>2, <2>1, BatchesSlice
  <2>3. PICK cut : cut = [i \in 0 .. full + 1 |-> BatchEnd(lines, i)]
    OBVIOUS
  <2>4. cut \in [0 .. Len(msgs) -> 0 .. Len(lines)]
    BY <2>2, <2>3
  <2>5. cut[0] = 0 /\ cut[Len(msgs)] = Len(lines)
    BY <2>2, <2>3
  <2>6. ASSUME NEW i \in 1 .. Len(msgs)
        PROVE  /\ cut[i] = cut[i - 1] + Len(msgs[i].lines)
               /\ \A j \in 1 .. Len(msgs[i].lines) :
                    msgs[i].lines[j] = lines[cut[i - 1] + j]
    <3>1. cut[i] = BatchEnd(lines, i) /\ cut[i - 1] = BatchEnd(lines, i - 1)
      BY <2>2, <2>3
    <3>2. QED
      BY <2>2, <3>1
  <2>7. Slices(msgs, lines, cut)
    BY <2>4, <2>5, <2>6 DEF Slices
  <2>8. QED
    BY <2>2, <2>7
<1>3. QED
  BY <1>1, <1>2

\* The agent that registers has one more entry than before.
LEMMA OneMoreEntry ==
  ASSUME vector \in Seq(Agents), agent \in Agents, agent' = agent,
         vector' = Append(vector, agent), Entries' = 1
  PROVE  Entries = 0
<1> DEFINE places == {i \in DOMAIN vector : vector[i] = agent}
           after == {i \in DOMAIN vector' : vector'[i] = agent'}
<1>1. /\ Len(vector) \in Nat /\ DOMAIN vector = 1 .. Len(vector)
      /\ DOMAIN vector' = 1 .. Len(vector) + 1 /\ vector'[Len(vector) + 1] = agent
      /\ \A i \in 1 .. Len(vector) : vector'[i] = vector[i]
  <2>1. /\ vector' \in Seq(Agents) /\ Len(vector') = Len(vector) + 1
        /\ vector'[Len(vector) + 1] = agent
        /\ \A i \in 1 .. Len(vector) : vector'[i] = vector[i]
    BY AppendProperties
  <2>2. QED
    BY <2>1, LenProperties
<1>2. after = places \cup {Len(vector) + 1} /\ Len(vector) + 1 \notin places
  BY <1>1
<1>3. IsFiniteSet(places)
  <2>1. IsFiniteSet(1 .. Len(vector)) /\ places \subseteq 1 .. Len(vector)
    BY <1>1, FS_Interval
  <2>2. QED
    BY <2>1, FS_Subset
<1>4. Cardinality(after) = Cardinality(places) + 1 /\ Cardinality(places) \in Nat
  <2> HIDE DEF places, after
  <2>1. QED
    BY <1>2, <1>3, FS_AddElement, FS_CardinalityType
<1>5. Entries = Cardinality(places) /\ Entries' = Cardinality(after)
  BY DEF Entries
<1> HIDE DEF places, after
<1>6. QED
  BY <1>4, <1>5

LEMMA RegisterPreserves ==
  ASSUME RInv, Register PROVE RInv'
<1>1. PICK opened \in BOOLEAN :
        LET lines == IF opened THEN FileLines ELSE <<>>
        IN  /\ SendAll(chan, IF opened THEN Batches(lines) ELSE <<>>, "registered")
            /\ base' = lines
  BY DEF Register
<1>2. PICK lines : lines = IF opened THEN FileLines ELSE <<>>
  OBVIOUS
<1>3. PICK msgs : msgs = IF opened THEN Batches(lines) ELSE <<>>
  OBVIOUS
<1>4. /\ Master \in up /\ link = "asked" /\ since' = Len(mem[Master])
      /\ vector' = Append(vector, agent) /\ UNCHANGED <<agent, ready, stream, logVars>>
  BY DEF Register
<1>5. base' = lines /\ SendAll(chan, msgs, "registered")
  BY <1>1, <1>2, <1>3
<1>6. Slave \in up /\ (Entries = 0 => stream = <<>> /\ chan = <<>>)
  BY <1>4 DEF RInv, LinkOK, Waiting
<1>7. LogTypeOK /\ Len(mem[Master]) \in Nat /\ chan \in Seq(Msg)
  BY LinkTypes DEF Lengths
<1>8. lines \in Seq(Line) /\ Len(lines) \in Nat
  <2>1. lines \in Seq(Line)
    BY <1>2, <1>7, FileLinesTyped, EmptySeq
  <2>2. QED
    BY <2>1, LenProperties
<1>9. msgs = Batches(lines) \/ (msgs = <<>> /\ lines = <<>>)
  BY <1>2, <1>3
<1>10. msgs \in Seq(Msg)
  BY <1>8, <1>9, AnswerSlices
<1>0. PICK cut : Slices(msgs, lines, cut)
  BY <1>8, <1>9, AnswerSlices
<1>11. /\ cut \in [0 .. Len(msgs) -> 0 .. Len(lines)]
       /\ cut[0] = 0 /\ cut[Len(msgs)] = Len(lines)
       /\ \A i \in 1 .. Len(msgs) :
            /\ cut[i] = cut[i - 1] + Len(msgs[i].lines)
            /\ \A j \in 1 .. Len(msgs[i].lines) : msgs[i].lines[j] = lines[cut[i - 1] + j]
  BY <1>0 DEF Slices
<1>12. /\ chan' \in Seq(Msg) /\ Len(chan') <= Room
       /\ (chan' = chan \o msgs /\ link' = "registered") \/ link' = "lost"
  BY <1>5, <1>7, <1>10, SendAllSends
<1>13. TypeOK'
  <2>1. chan' \in Seq([kind : {"ready", "file", "command"}, lines : Seq(Line)])
    BY <1>12, MessagesTyped
  <2>2. LogTypeOK'
    BY <1>4, <1>7 DEF LogTypeOK, logVars
  <2>3. vector' \in Seq(Agents)
    BY <1>4, AppendProperties DEF RInv, TypeOK
  <2>4. /\ agent' \in Agents /\ ready' \in BOOLEAN /\ base' \in Seq(Line) /\ since' \in Nat
        /\ stream' \in Seq(Line)
    BY <1>4, <1>5, <1>7, <1>8 DEF RInv, TypeOK
  <2>5. QED
    BY <1>12, <2>1, <2>2, <2>3, <2>4 DEF TypeOK
<1>14. Slave \in up' /\ Master \in up' /\ mem' = mem
  BY <1>4, <1>6 DEF logVars
<1>15. CASE link' = "lost"
  BY <1>12, <1>13, <1>14, <1>15, LostStep
<1>16. CASE link' = "registered" /\ chan' = chan \o msgs
  <2>1. ASSUME Entries' = 1 PROVE Entries = 0
    BY <2>1, <1>4, OneMoreEntry DEF RInv, TypeOK
  <2>2. ASSUME Entries' = 1 PROVE \E c : Sliced(c)'
    <3>0. stream = <<>> /\ chan' = msgs
      BY <1>6, <1>10, <1>16, <2>1, <2>2, ConcatEmptySeq
    <3>1. Total' = Len(lines) /\ \A j \in 1 .. Len(lines) : Due(j)' = lines[j]
      BY <1>4, <1>5, <1>7, <1>8, <1>14 DEF Total, Due
    <3>2. /\ cut \in [0 .. Len(chan') -> Nat]
          /\ cut[0] = Len(stream') /\ cut[Len(chan')] = Total'
          /\ \A j \in 1 .. Len(stream') : stream'[j] = Due(j)'
      <4>1. stream' = <<>> /\ Len(stream') = 0
        BY <1>4, <3>0, EmptySeq
      <4>2. cut \in [0 .. Len(chan') -> Nat]
        BY <1>8, <1>11, <3>0
      <4>3. QED
        BY <1>11, <3>0, <3>1, <4>1, <4>2
    <3>3. ASSUME NEW i \in 1 .. Len(chan')
          PROVE  /\ cut[i] = cut[i - 1] + Len(chan'[i].lines)
                 /\ \A j \in 1 .. Len(chan'[i].lines) : chan'[i].lines[j] = Due(cut[i - 1] + j)'
      <4>1. /\ cut[i] = cut[i - 1] + Len(msgs[i].lines)
            /\ \A j \in 1 .. Len(msgs[i].lines) : msgs[i].lines[j] = lines[cut[i - 1] + j]
        BY <1>11, <3>0
      <4>2. msgs[i] \in Msg /\ Len(msgs) \in Nat
        BY <1>10, <3>0, ElementOfSeq, LenProperties
      <4>3. Len(msgs[i].lines) \in Nat
        BY <4>2, LinesOfMessage, LenProperties
      <4>4. cut[i] \in 0 .. Len(lines) /\ cut[i - 1] \in 0 .. Len(lines)
        <5>1. i \in 0 .. Len(msgs) /\ i - 1 \in 0 .. Len(msgs)
          BY <3>0, <4>2
        <5>2. QED
          BY <1>11, <5>1
      <4>5. ASSUME NEW j \in 1 .. Len(msgs[i].lines) PROVE cut[i - 1] + j \in 1 .. Len(lines)
        <5>1. PICK a, b, k : a = cut[i - 1] /\ b = cut[i] /\ k = Len(msgs[i].lines)
          OBVIOUS
        <5>2. b = a + k /\ a \in 0 .. Len(lines) /\ b \in 0 .. Len(lines) /\ k \in Nat
          BY <4>1, <4>3, <4>4, <5>1
        <5>3. j \in 1 .. k
          BY <5>1
        <5>4. a + j \in 1 .. Len(lines)
          BY <1>8, <5>2, <5>3
        <5>5. QED
          BY <5>1, <5>4
      <4>6. QED
        BY <3>0, <3>1, <4>1, <4>5
    <3>4. Sliced(cut)'
      BY <3>2, <3>3 DEF Sliced
    <3>5. QED
      BY <3>4
  <2>3. ~Waiting'
    BY <1>16 DEF Waiting
  <2>4. LinkOK'
    BY <1>4, <1>7, <1>12, <1>14, <1>16, <2>2, <2>3 DEF LinkOK, Up
  <2>5. QED
    BY <1>13, <2>4 DEF RInv
<1>17. QED
  BY <1>12, <1>15, <1>16

LEMMA ConnectPreserves ==
  ASSUME RInv, Connect PROVE RInv'
<1>1. /\ Slave \in up /\ link = "idle" /\ UNCHANGED <<vector, ready, base, since, stream>>
      /\ UNCHANGED logVars
      /\ \/ Master \in up /\ link' = "open" /\ agent' \in Agents /\ chan' = <<ReadyMsg>>
         \/ link' = "lost" /\ agent' = agent /\ chan' = chan
  BY DEF Connect
<1>2. stream = <<>> /\ chan = <<>>
  BY <1>1 DEF RInv, LinkOK, Waiting
<1>3. up' = up /\ mem' = mem /\ LogTypeOK'
  BY <1>1 DEF RInv, TypeOK, LogTypeOK, logVars
<1>4. chan' \in Seq(Msg) /\ Len(chan') <= Room
  <2>1. <<ReadyMsg>> \in Seq(Msg) /\ Len(<<ReadyMsg>>) = 1 /\ 1 <= Room
    BY MessageTypes, ReplicationAssumption
  <2>2. chan \in Seq(Msg) /\ Len(chan) <= Room
    BY LinkTypes
  <2>3. QED
    BY <1>1, <2>1, <2>2
<1>5. chan' \in Seq([kind : {"ready", "file", "command"}, lines : Seq(Line)])
  BY <1>4, MessagesTyped
<1>6. TypeOK'
  BY <1>1, <1>3, <1>4, <1>5 DEF RInv, TypeOK
<1>7. LinkOK'
  BY <1>1, <1>2, <1>3, <1>4 DEF LinkOK, Waiting, Up
<1>8. QED
  BY <1>6, <1>7 DEF RInv

LEMMA DisconnectPreserves ==
  ASSUME RInv, Disconnect PROVE RInv'
<1>1. Cut("lost") /\ UNCHANGED <<agent, vector, ready, base, since, stream, logVars>>
  BY DEF Disconnect
<1>2. /\ chan' \in Seq(Msg) /\ Len(chan') <= Room /\ link' = "lost"
      /\ chan = <<>> => chan' = <<>>
  BY <1>1, CutSends
<1>3. chan' \in Seq([kind : {"ready", "file", "command"}, lines : Seq(Line)])
  BY <1>2, MessagesTyped
<1>4. up' = up /\ LogTypeOK'
  BY <1>1 DEF RInv, TypeOK, LogTypeOK, logVars
<1>5. TypeOK'
  BY <1>1, <1>2, <1>3, <1>4 DEF RInv, TypeOK
<1>6. Slave \notin up' => chan' = <<>>
  BY <1>2, <1>4 DEF RInv, LinkOK
<1>7. QED
  BY <1>2, <1>5, <1>6, LostStep

LEMMA MasterCrashPreserves ==
  ASSUME RInv, MasterCrash PROVE RInv'
<1>1. /\ LogTypeOK /\ Master \in Servers /\ Slave \in Servers /\ Master # Slave
  BY LinkTypes
<1>2. /\ Crash(Master) /\ Cut(IF Up(link) THEN "lost" ELSE link) /\ vector' = <<>>
      /\ UNCHANGED <<agent, ready, base, since, stream>>
  BY DEF MasterCrash
<1>3. LogTypeOK' /\ up' = up \ {Master}
  BY <1>1, <1>2, CrashTypes DEF Crash
<1>4. /\ chan' \in Seq(Msg) /\ Len(chan') <= Room /\ link' = (IF Up(link) THEN "lost" ELSE link)
      /\ chan = <<>> => chan' = <<>>
  BY <1>2, CutSends
<1>5. chan' \in Seq([kind : {"ready", "file", "command"}, lines : Seq(Line)])
  BY <1>4, MessagesTyped
<1>6. link' \in {"idle", "lost"} /\ (link' = "idle" => link = "idle")
  BY <1>4 DEF RInv, TypeOK, Up
<1>7. vector' \in Seq(Agents)
  BY <1>2, EmptySeq
<1>8. TypeOK'
  BY <1>2, <1>3, <1>4, <1>5, <1>6, <1>7 DEF RInv, TypeOK
<1>9. Slave \notin up' => link' = "lost" /\ chan' = <<>>
  BY <1>1, <1>3, <1>4 DEF RInv, LinkOK, Up
<1>10. link' = "idle" => stream' = <<>> /\ chan' = <<>>
  BY <1>2, <1>4, <1>6 DEF RInv, LinkOK, Waiting
<1>11. LinkOK'
  BY <1>4, <1>6, <1>9, <1>10 DEF LinkOK, Waiting, Up
<1>12. QED
  BY <1>8, <1>11 DEF RInv

LEMMA SlaveCrashPreserves ==
  ASSUME RInv, SlaveCrash PROVE RInv'
<1>1. /\ LogTypeOK /\ Slave \in Servers
  BY LinkTypes
<1>2. /\ Crash(Slave) /\ chan' = <<>> /\ link' = "lost" /\ ready' = FALSE
      /\ UNCHANGED <<agent, vector, base, since, stream>>
  BY DEF SlaveCrash
<1>3. LogTypeOK'
  BY <1>1, <1>2, CrashTypes
<1>4. /\ chan' \in Seq(Msg) /\ Len(chan') = 0
      /\ chan' \in Seq([kind : {"ready", "file", "command"}, lines : Seq(Line)])
  BY <1>2, EmptySeq
<1>5. TypeOK'
  <2>1. Len(chan') <= Room /\ ready' \in BOOLEAN
    <3>1. Room \in Nat
      BY ReplicationAssumption
    <3>2. Len(chan') <= Room
      BY <1>4, <3>1
    <3>3. ready' = FALSE
      BY <1>2
    <3>4. QED
      BY <3>2, <3>3
  <2>2. QED
    BY <1>2, <1>3, <1>4, <2>1 DEF RInv, TypeOK
<1>6. QED
  BY <1>2, <1>4, <1>5, LostStep

LEMMA SlaveRestartPreserves ==
  ASSUME RInv, SlaveRestart PROVE RInv'
<1>1. /\ LogTypeOK /\ Slave \in Servers /\ Master \in Servers /\ Master # Slave
  BY LinkTypes
<1>2. /\ Restart(Slave) /\ link' = "idle" /\ stream' = <<>>
      /\ UNCHANGED <<agent, vector, chan, ready, base, since>>
  BY DEF SlaveRestart
<1>3. LogTypeOK'
  BY <1>1, <1>2, RestartTypes
<1>4. Slave \notin up /\ up' = up \cup {Slave}
  BY <1>2 DEF Restart
<1>5. chan = <<>>
  BY <1>4 DEF RInv, LinkOK
<1>6. TypeOK'
  <2>1. stream' \in Seq(Line)
    BY <1>2, EmptySeq
  <2>2. QED
    BY <1>2, <1>3, <2>1 DEF RInv, TypeOK
<1>7. LinkOK'
  BY <1>2, <1>4, <1>5 DEF RInv, LinkOK, Waiting, Up
<1>8. QED
  BY <1>6, <1>7 DEF RInv

LEMMA ServerPreserves ==
  ASSUME RInv,
         SlaveCommand \/ (\E s \in Servers : LogThread(s))
           \/ (Restart(Master) /\ UNCHANGED linkVars)
  PROVE  RInv'
<1>1. /\ LogTypeOK /\ Master \in Servers /\ Slave \in Servers /\ Master # Slave
  BY LinkTypes
<1>2. CASE SlaveCommand
  <2>1. Execute(Slave) /\ UNCHANGED linkVars
    BY <1>2 DEF SlaveCommand
  <2>2. LogTypeOK' /\ mem' = [mem EXCEPT ![Slave] = Append(@, <<Slave, issued[Slave] + 1>>)]
    BY <1>1, <2>1, ExecuteTypes
  <2>3. mem'[Master] = mem[Master] /\ up' = up
    BY <1>1, <2>1, <2>2 DEF LogTypeOK, Execute
  <2>4. QED
    BY <2>1, <2>2, <2>3, QuietStep
<1>3. CASE \E s \in Servers : LogThread(s)
  <2>1. PICK s \in Servers : AppendThread(s) /\ UNCHANGED linkVars
    BY <1>3 DEF LogThread
  <2>2. CASE WriteLine(s)
    <3>1. LogTypeOK'
      BY <1>1, <2>2, WriteLineTypes
    <3>2. mem' = mem /\ up' = up
      BY <1>1, <2>2, WriteLineCases
    <3>3. QED
      BY <2>1, <3>1, <3>2, QuietStep
  <2>3. CASE CloseFile(s)
    <3>1. LogTypeOK'
      BY <1>1, <2>3, CloseFileTypes
    <3>2. mem' = mem /\ up' = up
      BY <2>3 DEF CloseFile
    <3>3. QED
      BY <2>1, <3>1, <3>2, QuietStep
  <2>4. QED
    BY <2>1, <2>2, <2>3 DEF AppendThread
<1>4. CASE Restart(Master) /\ UNCHANGED linkVars
  <2>1. LogTypeOK'
    BY <1>1, <1>4, RestartTypes
  <2>2. Master \notin up /\ up' = up \cup {Master}
    BY <1>4 DEF Restart
  <2>3. QED
    BY <1>4, <2>1, <2>2, QuietStep
<1>5. QED
  BY <1>2, <1>3, <1>4

LEMMA InitRInv == Init => RInv
<1> SUFFICES ASSUME Init PROVE RInv
  OBVIOUS
<1>1. /\ InitLog /\ link = "idle" /\ agent \in Agents /\ vector = <<>> /\ chan = <<>>
      /\ ready = FALSE /\ base = <<>> /\ since = 0 /\ stream = <<>> /\ up = Servers
  BY DEF Init, InitLog
<1>2. LogTypeOK
  BY <1>1, InitEstablishes DEF IInv
<1>3. \A S : <<>> \in Seq(S)
  BY EmptySeq
<1>4. Len(chan) <= Room
  BY <1>1, ReplicationAssumption
<1>5. TypeOK
  BY <1>1, <1>2, <1>3, <1>4 DEF TypeOK
<1>6. chan \in Seq(Msg)
  BY <1>1, <1>3
<1>7. LinkOK
  BY <1>1, <1>6, ReplicationAssumption DEF LinkOK, Waiting, Up
<1>8. QED
  BY <1>5, <1>7 DEF RInv

LEMMA NextRInv == RInv /\ [Next]_vars => RInv'
<1> SUFFICES ASSUME RInv, [Next]_vars PROVE RInv'
  OBVIOUS
<1>1. CASE UNCHANGED vars
  <2>1. UNCHANGED linkVars /\ UNCHANGED logVars
    BY <1>1 DEF vars
  <2>2. LogTypeOK' /\ up' = up /\ mem' = mem
    BY <2>1 DEF RInv, TypeOK, LogTypeOK, logVars
  <2>3. QED
    BY <2>1, <2>2, QuietStep
<1>2. CASE MasterCommand
  BY <1>2, MasterCommandPreserves
<1>3. CASE Register
  BY <1>3, RegisterPreserves
<1>4. CASE Connect
  BY <1>4, ConnectPreserves
<1>5. CASE Receive
  BY <1>5, ReceivePreserves
<1>6. CASE SlaveCommand \/ (\E s \in Servers : LogThread(s))
             \/ (Restart(Master) /\ UNCHANGED linkVars)
  BY <1>6, ServerPreserves
<1>7. CASE Disconnect
  BY <1>7, DisconnectPreserves
<1>8. CASE MasterCrash
  BY <1>8, MasterCrashPreserves
<1>9. CASE SlaveCrash
  BY <1>9, SlaveCrashPreserves
<1>10. CASE SlaveRestart
  BY <1>10, SlaveRestartPreserves
<1>11. CASE OnConnect
  BY <1>11, OnConnectPreserves
<1>12. QED
  BY <1>1, <1>2, <1>3, <1>4, <1>5, <1>6, <1>7, <1>8, <1>9, <1>10, <1>11 DEF Next

LEMMA RInvAlways == Spec => []RInv
BY InitRInv, NextRInv, PTL DEF Spec

-----------------------------------------------------------------------------
(* The lines on their way.                                                 *)

\* There is a function such as Pending.
LEMMA PendingExists ==
  ASSUME Room \in Nat
  PROVE  \E f : f = [i \in 0 .. Room |->
                       IF i = 0 THEN <<>>
                       ELSE IF i <= Len(chan) THEN f[i - 1] \o chan[i].lines ELSE f[i - 1]]
<1> DEFINE Step(f, i) == IF i <= Len(chan) THEN f[i - 1] \o chan[i].lines ELSE f[i - 1]
           Good(n, f) == f = [i \in 0 .. n |-> IF i = 0 THEN <<>> ELSE Step(f, i)]
           S == {n \in Nat : \E f : Good(n, f)}
<1>1. 0 \in S
  <2>1. PICK f : f = [i \in 0 .. 0 |-> <<>>]
    OBVIOUS
  <2>2. Good(0, f)
    BY <2>1
  <2>3. QED
    BY <2>2
<1>2. ASSUME NEW n \in Nat, n \in S PROVE n + 1 \in S
  <2>1. PICK f : Good(n, f)
    BY <1>2
  <2>2. PICK last : last = Step(f, n + 1)
    OBVIOUS
  <2>3. PICK g : g = [i \in 0 .. n + 1 |-> IF i <= n THEN f[i] ELSE last]
    OBVIOUS
  <2>4. \A i \in 0 .. n : g[i] = f[i]
    BY <2>3
  <2>5. \A i \in 1 .. n + 1 : Step(g, i) = Step(f, i)
    <3>1. \A i \in 1 .. n + 1 : g[i - 1] = f[i - 1]
      BY <2>4
    <3>2. QED
      BY <3>1
  <2>6. \A i \in 0 .. n : f[i] = IF i = 0 THEN <<>> ELSE Step(f, i)
    BY <2>1
  <2> HIDE DEF Step
  <2>7. \A i \in 0 .. n + 1 : g[i] = IF i = 0 THEN <<>> ELSE Step(g, i)
    <3> SUFFICES ASSUME NEW i \in 0 .. n + 1
                 PROVE  g[i] = IF i = 0 THEN <<>> ELSE Step(g, i)
      OBVIOUS
    <3>1. CASE i <= n
      <4>1. i \in 0 .. n /\ (i # 0 => i \in 1 .. n + 1)
        BY <3>1
      <4>2. QED
        BY <2>4, <2>5, <2>6, <4>1
    <3>2. CASE ~(i <= n)
      <4>1. i = n + 1 /\ i # 0 /\ i \in 1 .. n + 1
        BY <3>2
      <4>2. QED
        BY <2>2, <2>3, <2>5, <4>1
    <3>3. QED
      BY <3>1, <3>2
  <2>8. Good(n + 1, g)
    BY <2>3, <2>7
  <2>9. QED
    BY <2>8
<1>3. Nat \subseteq S
  <2> HIDE DEF S
  <2>1. QED
    BY <1>1, <1>2, NaturalsByInduction
<1>4. QED
  BY <1>3

\* What the messages on their way hold, taken together, is what comes next.
LEMMA PendingComesNext ==
  ASSUME RInv, NEW cut, Sliced(cut)
  PROVE  /\ Pending[Room] \in Seq(Line)
         /\ Len(stream) + Len(Pending[Room]) = Total
         /\ \A j \in 1 .. Len(Pending[Room]) : Pending[Room][j] = Due(Len(stream) + j)
<1>1. PICK size, start, room : size = Len(chan) /\ start = Len(stream) /\ room = Room
  OBVIOUS
<1>2. size \in Nat /\ start \in Nat /\ room \in Nat /\ size <= room /\ chan \in Seq(Msg)
  BY <1>1, LinkTypes DEF Lengths
<1>3. /\ cut \in [0 .. size -> Nat] /\ cut[0] = start /\ cut[size] = Total
      /\ \A i \in 1 .. size :
           /\ cut[i] = cut[i - 1] + Len(chan[i].lines)
           /\ \A j \in 1 .. Len(chan[i].lines) : chan[i].lines[j] = Due(cut[i - 1] + j)
  BY <1>1 DEF Sliced
<1>4. /\ Pending[0] = <<>>
      /\ \A i \in 1 .. room : Pending[i] = IF i <= size THEN Pending[i - 1] \o chan[i].lines
                                           ELSE Pending[i - 1]
  <2>1. PICK f : f = [i \in 0 .. Room |->
                        IF i = 0 THEN <<>>
                        ELSE IF i <= Len(chan) THEN f[i - 1] \o chan[i].lines ELSE f[i - 1]]
    BY <1>1, <1>2, PendingExists
  <2>2. Pending = [i \in 0 .. Room |->
                     IF i = 0 THEN <<>>
                     ELSE IF i <= Len(chan) THEN Pending[i - 1] \o chan[i].lines
                     ELSE Pending[i - 1]]
    BY <2>1 DEF Pending
  <2>3. 0 \in 0 .. Room /\ \A i \in 1 .. Room : i \in 0 .. Room /\ i # 0
    BY <1>1, <1>2
  <2>4. QED
    BY <1>1, <2>2, <2>3
<1> DEFINE At(n) == IF n <= size THEN n ELSE size
           Follows(q, n) == /\ q \in Seq(Line) /\ start + Len(q) = cut[At(n)]
                            /\ \A j \in 1 .. Len(q) : q[j] = Due(start + j)
           S == {n \in Nat : n <= room => Follows(Pending[n], n)}
<1>5. 0 \in S
  <2>1. Pending[0] \in Seq(Line) /\ Len(Pending[0]) = 0
    BY <1>4, EmptySeq
  <2>2. QED
    BY <1>2, <1>3, <2>1
<1>6. ASSUME NEW n \in Nat, n \in S PROVE n + 1 \in S
  <2>1. CASE n + 1 <= room /\ n + 1 <= size
    <3>1. PICK q, r, a : q = Pending[n] /\ r = chan[n + 1].lines /\ a = cut[n]
      OBVIOUS
    <3>2. n + 1 \in 1 .. size /\ n + 1 \in 1 .. room /\ (n + 1) - 1 = n
      BY <1>2, <2>1
    <3>3. /\ q \in Seq(Line) /\ start + Len(q) = a
          /\ \A j \in 1 .. Len(q) : q[j] = Due(start + j)
      BY <1>6, <2>1, <1>2, <3>1
    <3>4. r \in Seq(Line) /\ Len(r) \in Nat
      <4>1. chan[n + 1] \in Msg
        BY <1>1, <1>2, <3>2, ElementOfSeq
      <4>2. QED
        BY <3>1, <4>1, LinesOfMessage, LenProperties
    <3>5. Len(q) \in Nat
      BY <3>3, LenProperties
    <3>6. cut[n + 1] = a + Len(r) /\ \A j \in 1 .. Len(r) : r[j] = Due(a + j)
      BY <1>3, <3>1, <3>2
    <3>7. Pending[n + 1] = q \o r
      BY <1>4, <2>1, <3>1, <3>2
    <3>8. /\ q \o r \in Seq(Line) /\ Len(q \o r) = Len(q) + Len(r)
          /\ \A j \in 1 .. Len(q) + Len(r) :
               (q \o r)[j] = IF j <= Len(q) THEN q[j] ELSE r[j - Len(q)]
      BY <3>3, <3>4, ConcatProperties
    <3>9. ASSUME NEW j \in 1 .. Len(q \o r) PROVE (q \o r)[j] = Due(start + j)
      <4>1. CASE j <= Len(q)
        BY <3>3, <3>4, <3>5, <3>8, <4>1
      <4>2. CASE ~(j <= Len(q))
        <5>1. j - Len(q) \in 1 .. Len(r) /\ a + (j - Len(q)) = start + j
          BY <1>2, <3>3, <3>4, <3>5, <3>8, <4>2
        <5>2. (q \o r)[j] = r[j - Len(q)]
          BY <3>8, <4>2
        <5>3. r[j - Len(q)] = Due(a + (j - Len(q)))
          BY <3>6, <5>1
        <5>4. QED
          BY <5>1, <5>2, <5>3
      <4>3. QED
        BY <4>1, <4>2
    <3>10. start + Len(q \o r) = cut[At(n + 1)]
      <4>1. At(n + 1) = n + 1
        BY <2>1
      <4>2. QED
        BY <1>2, <3>3, <3>4, <3>5, <3>6, <3>8, <4>1
    <3> HIDE DEF At
    <3>11. Follows(q \o r, n + 1)
      BY <3>8, <3>9, <3>10
    <3> HIDE DEF Follows
    <3>12. n + 1 \in Nat /\ Follows(Pending[n + 1], n + 1)
      BY <3>7, <3>11
    <3>13. QED
      BY <3>12, Zenon
  <2>2. CASE n + 1 <= room /\ ~(n + 1 <= size)
    <3>1. n + 1 \in 1 .. room /\ (n + 1) - 1 = n /\ n <= room
      BY <1>2, <2>2
    <3>2. Pending[n + 1] = Pending[n]
      BY <1>4, <2>2, <3>1
    <3>3. At(n + 1) = size /\ At(n) = size
      BY <1>2, <2>2
    <3>4. Follows(Pending[n], n)
      BY <1>6, <3>1
    <3> HIDE DEF At
    <3>5. QED
      BY <3>2, <3>3, <3>4
  <2>3. QED
    BY <2>1, <2>2
<1>7. Nat \subseteq S
  <2> HIDE DEF S
  <2>1. QED
    BY <1>5, <1>6, NaturalsByInduction
<1>8. room \in S
  BY <1>2, <1>7
<1>9. At(room) = size
  BY <1>2
<1>10. Follows(Pending[room], room)
  BY <1>2, <1>8
<1>11. QED
  BY <1>1, <1>3, <1>9, <1>10

-----------------------------------------------------------------------------
(* The theorems.                                                           *)

\* The master, the slave and the connection between them stay of their types: the
\* send buffer never holds more than it has room for, and every message carries
\* lines of the file or one command.
THEOREM ReplicationTypes == Spec => []TypeOK
<1>1. RInv => TypeOK
  BY DEF RInv
<1>2. QED
  BY <1>1, RInvAlways, PTL

\* A registered slave gets the master's append file as ReplicateAppendFile read it and
\* then every command that BroadAllSlave has sent, once and in order, whatever the
\* append thread writes and wherever the connection stands, as long as m_SlaveVector
\* names its agent once.
THEOREM SlaveGetsFileThenCommands == Spec => []StreamIsFileThenCommands
<1> DEFINE All == base \o SubSeq(mem[Master], since + 1, Len(mem[Master]))
           Got == stream \o Pending[Room]
<1>1. ASSUME RInv, link = "registered", Entries = 1 PROVE Got = All
  <2>1. PICK cut : Sliced(cut)
    BY <1>1 DEF RInv, LinkOK
  <2>2. PICK q, n, k, s : /\ q = Pending[Room] /\ n = Len(mem[Master]) /\ k = Len(base)
                          /\ s = Len(stream)
    OBVIOUS
  <2>3. /\ q \in Seq(Line) /\ s + Len(q) = Total
        /\ \A j \in 1 .. Len(q) : q[j] = Due(s + j)
    BY <1>1, <2>1, <2>2, PendingComesNext
  <2>4. \A j \in 1 .. s : stream[j] = Due(j)
    BY <2>1, <2>2 DEF Sliced
  <2>5. /\ stream \in Seq(Line) /\ base \in Seq(Line) /\ mem[Master] \in Seq(Line)
        /\ n \in Nat /\ k \in Nat /\ s \in Nat /\ since \in Nat /\ since <= n
    BY <1>1, <2>2, LinkTypes DEF RInv, LinkOK, Lengths
  <2>6. Len(q) \in Nat
    BY <2>3, LenProperties
  <2>7. /\ stream \o q \in Seq(Line) /\ Len(stream \o q) = s + Len(q)
        /\ \A j \in 1 .. s + Len(q) :
             (stream \o q)[j] = IF j <= s THEN stream[j] ELSE q[j - s]
    BY <2>2, <2>3, <2>5, ConcatProperties
  <2>8. PICK later : later = SubSeq(mem[Master], since + 1, n)
    OBVIOUS
  <2>9. /\ later \in Seq(Line) /\ Len(later) = n - since
        /\ \A j \in 1 .. n - since : later[j] = mem[Master][since + j]
    <3>1. \A j \in since + 1 .. n : mem[Master][j] \in Line
      BY <2>2, <2>5, ElementOfSeq
    <3>2. since + 1 \in Int /\ n \in Int
      BY <2>5
    <3>3. /\ later \in Seq(Line)
          /\ Len(later) = IF since + 1 <= n THEN n - (since + 1) + 1 ELSE 0
          /\ \A j \in 1 .. n - (since + 1) + 1 : later[j] = mem[Master][since + 1 + j - 1]
      BY <2>8, <3>1, <3>2, SubSeqProperties
    <3>4. n - (since + 1) + 1 = n - since /\ \A j \in Int : since + 1 + j - 1 = since + j
      BY <2>5
    <3>5. QED
      BY <2>5, <3>3, <3>4
  <2>10. /\ base \o later \in Seq(Line) /\ Len(base \o later) = k + (n - since)
         /\ \A j \in 1 .. k + (n - since) :
              (base \o later)[j] = IF j <= k THEN base[j] ELSE later[j - k]
    <3>1. base \in Seq(Line) /\ later \in Seq(Line)
      BY <2>5, <2>9
    <3>2. /\ base \o later \in Seq(Line) /\ Len(base \o later) = Len(base) + Len(later)
          /\ \A j \in 1 .. Len(base) + Len(later) :
               (base \o later)[j] = IF j <= Len(base) THEN base[j] ELSE later[j - Len(base)]
      BY <3>1, ConcatProperties
    <3>3. Len(base) = k /\ Len(later) = n - since
      BY <2>2, <2>9
    <3>4. QED
      BY <3>2, <3>3
  <2>11. Total = k + (n - since)
    BY <2>2 DEF Total
  <2>12. ASSUME NEW j \in 1 .. s + Len(q) PROVE (stream \o q)[j] = (base \o later)[j]
    <3>1. (stream \o q)[j] = Due(j)
      <4>1. CASE j <= s
        BY <2>4, <2>7, <4>1
      <4>2. CASE ~(j <= s)
        <5>1. j - s \in 1 .. Len(q) /\ s + (j - s) = j
          BY <2>5, <2>6, <4>2
        <5>2. (stream \o q)[j] = q[j - s]
          BY <2>7, <4>2
        <5>3. QED
          BY <2>3, <5>1, <5>2
      <4>3. QED
        BY <4>1, <4>2
    <3>2. (base \o later)[j] = Due(j)
      <4>1. j \in 1 .. k + (n - since)
        BY <2>3, <2>11
      <4>2. CASE j <= k
        BY <2>2, <2>10, <4>1, <4>2 DEF Due
      <4>3. CASE ~(j <= k)
        <5>1. j - k \in 1 .. n - since
          BY <2>5, <4>1, <4>3
        <5>2. (base \o later)[j] = mem[Master][since + (j - k)]
          BY <2>9, <2>10, <4>1, <4>3, <5>1
        <5>3. QED
          BY <2>2, <4>3, <5>2 DEF Due
      <4>4. QED
        BY <4>2, <4>3
    <3>3. QED
      BY <3>1, <3>2
  <2>13. stream \o q = base \o later
    BY <2>3, <2>7, <2>10, <2>11, <2>12, SeqEqual
  <2>14. QED
    BY <2>2, <2>8, <2>13
<1>2. RInv => StreamIsFileThenCommands
  BY <1>1 DEF StreamIsFileThenCommands
<1>3. QED
  BY <1>2, RInvAlways, PTL


-----------------------------------------------------------------------------
(* Lines in the order of the master's commands.                            *)

\* A command of the master's clients.
Own(l) == l # Torn /\ l[1] = Master

Elems(q) == {q[i] : i \in 1 .. Len(q)}

Ascending(q) ==
  \A i, j \in 1 .. Len(q) : i < j /\ Own(q[i]) /\ Own(q[j]) => q[i][2] < q[j][2]

Below(q, n) == \A a \in Elems(q) : Own(a) => a[2] \in 0 .. n

Before(p, q) == \A a \in Elems(p), b \in Elems(q) : Own(a) /\ Own(b) => a[2] < b[2]

\* What the end of one sequence and the whole of another hold.
LEMMA ElemsOf ==
  /\ \A p, q \in Seq(Line) : p \o q \in Seq(Line) /\ Elems(p \o q) = Elems(p) \cup Elems(q)
  /\ \A q \in Seq(Line) : q # <<>> => Tail(q) \in Seq(Line) /\ Elems(Tail(q)) \subseteq Elems(q)
  /\ \A q \in Seq(Line) : \A n \in 0 .. Len(q) :
       LET first == SubSeq(q, 1, n)
           rest  == SubSeq(q, n + 1, Len(q))
       IN  /\ first \in Seq(Line) /\ Elems(first) \subseteq Elems(q)
           /\ rest \in Seq(Line) /\ Elems(rest) \subseteq Elems(q)
<1>1. ASSUME NEW p \in Seq(Line), NEW q \in Seq(Line)
      PROVE  p \o q \in Seq(Line) /\ Elems(p \o q) = Elems(p) \cup Elems(q)
  <2>1. /\ p \o q \in Seq(Line) /\ Len(p \o q) = Len(p) + Len(q)
        /\ \A i \in 1 .. Len(p) + Len(q) :
             (p \o q)[i] = IF i <= Len(p) THEN p[i] ELSE q[i - Len(p)]
    BY ConcatProperties
  <2>2. Len(p) \in Nat /\ Len(q) \in Nat
    BY LenProperties
  <2> DEFINE r == p \o q
  <2>3. /\ r \in Seq(Line) /\ Len(r) = Len(p) + Len(q)
        /\ \A i \in 1 .. Len(p) + Len(q) : r[i] = IF i <= Len(p) THEN p[i] ELSE q[i - Len(p)]
    BY <2>1
  <2> HIDE DEF r
  <2>4. \A i \in 1 .. Len(p) : i \in 1 .. Len(r) /\ r[i] = p[i]
    BY <2>2, <2>3
  <2>5. ASSUME NEW i \in 1 .. Len(q) PROVE Len(p) + i \in 1 .. Len(r) /\ r[Len(p) + i] = q[i]
    <3>1. Len(p) + i \in 1 .. Len(p) + Len(q) /\ ~(Len(p) + i <= Len(p))
          /\ (Len(p) + i) - Len(p) = i
      BY <2>2
    <3>2. QED
      BY <2>3, <3>1
  <2>6. ASSUME NEW i \in 1 .. Len(r) PROVE r[i] \in Elems(p) \cup Elems(q)
    <3>1. CASE i <= Len(p)
      BY <2>2, <2>3, <3>1 DEF Elems
    <3>2. CASE ~(i <= Len(p))
      <4>1. i - Len(p) \in 1 .. Len(q) /\ r[i] = q[i - Len(p)]
        BY <2>2, <2>3, <3>2
      <4>2. QED
        BY <4>1 DEF Elems
    <3>3. QED
      BY <3>1, <3>2
  <2>7. Elems(r) = Elems(p) \cup Elems(q)
    <3>1. Elems(r) \subseteq Elems(p) \cup Elems(q)
      BY <2>6 DEF Elems
    <3>2. Elems(p) \subseteq Elems(r)
      BY <2>4 DEF Elems
    <3>3. Elems(q) \subseteq Elems(r)
      BY <2>5 DEF Elems
    <3>4. QED
      BY <3>1, <3>2, <3>3
  <2>8. QED
    BY <2>3, <2>7 DEF r
<1>2. ASSUME NEW q \in Seq(Line), q # <<>>
      PROVE  Tail(q) \in Seq(Line) /\ Elems(Tail(q)) \subseteq Elems(q)
  <2>1. /\ Tail(q) \in Seq(Line) /\ Len(Tail(q)) = Len(q) - 1
        /\ \A i \in 1 .. Len(Tail(q)) : Tail(q)[i] = q[i + 1]
    BY <1>2, HeadTailProperties
  <2>2. Len(q) \in Nat
    BY LenProperties
  <2>3. \A i \in 1 .. Len(Tail(q)) : i + 1 \in 1 .. Len(q)
    BY <2>1, <2>2
  <2>4. QED
    BY <2>1, <2>3 DEF Elems
<1>3. ASSUME NEW q \in Seq(Line), NEW n \in 0 .. Len(q)
      PROVE  /\ SubSeq(q, 1, n) \in Seq(Line) /\ Elems(SubSeq(q, 1, n)) \subseteq Elems(q)
             /\ SubSeq(q, n + 1, Len(q)) \in Seq(Line)
             /\ Elems(SubSeq(q, n + 1, Len(q))) \subseteq Elems(q)
  <2>1. PICK p, r : p = SubSeq(q, 1, n) /\ r = SubSeq(q, n + 1, Len(q))
    OBVIOUS
  <2>2. p \in Seq(Line) /\ r \in Seq(Line) /\ p \o r = q
    BY <2>1, Split
  <2>3. Elems(q) = Elems(p) \cup Elems(r)
    BY <1>1, <2>2
  <2>4. QED
    BY <2>1, <2>2, <2>3
<1>4. QED
  BY <1>1, <1>2, <1>3

\* The parts of a concatenation.
LEMMA AscendingConcat ==
  ASSUME NEW p \in Seq(Line), NEW q \in Seq(Line)
  PROVE  Ascending(p \o q) <=> Ascending(p) /\ Ascending(q) /\ Before(p, q)
<1>1. PICK r : r = p \o q
  OBVIOUS
<1>2. /\ Len(p) \in Nat /\ Len(q) \in Nat /\ Len(r) = Len(p) + Len(q)
      /\ \A i \in 1 .. Len(p) + Len(q) : r[i] = IF i <= Len(p) THEN p[i] ELSE q[i - Len(p)]
  BY <1>1, ConcatProperties, LenProperties
<1>3. \A i \in 1 .. Len(p) : i \in 1 .. Len(r) /\ r[i] = p[i]
  BY <1>2
<1>4. ASSUME NEW i \in 1 .. Len(q) PROVE Len(p) + i \in 1 .. Len(r) /\ r[Len(p) + i] = q[i]
  <2>1. Len(p) + i \in 1 .. Len(p) + Len(q) /\ ~(Len(p) + i <= Len(p))
        /\ (Len(p) + i) - Len(p) = i
    BY <1>2
  <2>2. QED
    BY <1>2, <2>1
<1>5. ASSUME Ascending(r) PROVE Ascending(p) /\ Ascending(q) /\ Before(p, q)
  <2>1. Ascending(p)
    BY <1>3, <1>5 DEF Ascending
  <2>2. ASSUME NEW i \in 1 .. Len(q), NEW j \in 1 .. Len(q), i < j, Own(q[i]), Own(q[j])
        PROVE  q[i][2] < q[j][2]
    <3>1. Len(p) + i < Len(p) + j
      BY <1>2, <2>2
    <3>2. /\ Len(p) + i \in 1 .. Len(r) /\ r[Len(p) + i] = q[i]
          /\ Len(p) + j \in 1 .. Len(r) /\ r[Len(p) + j] = q[j]
      BY <1>4
    <3>3. r[Len(p) + i][2] < r[Len(p) + j][2]
      BY <1>5, <2>2, <3>1, <3>2 DEF Ascending
    <3>4. QED
      BY <3>2, <3>3
  <2>3. ASSUME NEW i \in 1 .. Len(p), NEW j \in 1 .. Len(q), Own(p[i]), Own(q[j])
        PROVE  p[i][2] < q[j][2]
    <3>1. i < Len(p) + j
      BY <1>2
    <3>2. /\ i \in 1 .. Len(r) /\ r[i] = p[i]
          /\ Len(p) + j \in 1 .. Len(r) /\ r[Len(p) + j] = q[j]
      BY <1>3, <1>4
    <3>3. r[i][2] < r[Len(p) + j][2]
      BY <1>5, <2>3, <3>1, <3>2 DEF Ascending
    <3>4. QED
      BY <3>2, <3>3
  <2>4. QED
    BY <2>1, <2>2, <2>3 DEF Ascending, Before, Elems
<1>6. ASSUME Ascending(p), Ascending(q), Before(p, q),
             NEW i \in 1 .. Len(r), NEW j \in 1 .. Len(r), i < j, Own(r[i]), Own(r[j])
      PROVE  r[i][2] < r[j][2]
  <2>1. CASE j <= Len(p)
    <3>1. i \in 1 .. Len(p) /\ j \in 1 .. Len(p)
      BY <1>2, <1>6, <2>1
    <3>2. QED
      BY <1>3, <1>6, <3>1 DEF Ascending
  <2>2. CASE i <= Len(p) /\ ~(j <= Len(p))
    <3>1. i \in 1 .. Len(p) /\ j - Len(p) \in 1 .. Len(q) /\ r[i] = p[i] /\ r[j] = q[j - Len(p)]
      BY <1>2, <1>6, <2>2
    <3>2. r[i] \in Elems(p) /\ r[j] \in Elems(q)
      BY <3>1 DEF Elems
    <3>3. QED
      BY <1>6, <3>2 DEF Before
  <2>3. CASE ~(i <= Len(p))
    <3>1. /\ i - Len(p) \in 1 .. Len(q) /\ j - Len(p) \in 1 .. Len(q) /\ i - Len(p) < j - Len(p)
          /\ r[i] = q[i - Len(p)] /\ r[j] = q[j - Len(p)]
      BY <1>2, <1>6, <2>3
    <3>2. QED
      BY <1>6, <3>1 DEF Ascending
  <2>4. QED
    BY <1>2, <1>6, <2>1, <2>2, <2>3
<1>7. QED
  BY <1>1, <1>5, <1>6 DEF Ascending

\* Without its first element or its end a sequence keeps its order.
LEMMA AscendingPart ==
  ASSUME NEW q \in Seq(Line), Ascending(q)
  PROVE  /\ q # <<>> => Ascending(Tail(q)) /\ Before(<<Head(q)>>, Tail(q))
         /\ \A n \in 0 .. Len(q) :
              LET first == SubSeq(q, 1, n)
                  rest  == SubSeq(q, n + 1, Len(q))
              IN  Ascending(first) /\ Ascending(rest) /\ Before(first, rest)
<1>1. ASSUME q # <<>> PROVE Ascending(Tail(q)) /\ Before(<<Head(q)>>, Tail(q))
  <2>1. <<Head(q)>> \in Seq(Line) /\ Tail(q) \in Seq(Line)
    BY <1>1, HeadTailProperties
  <2>2. q = <<Head(q)>> \o Tail(q)
    <3>1. <<>> \o q = Append(<<>>, Head(q)) \o Tail(q)
      BY <1>1, MoveHead, EmptySeq
    <3>2. <<>> \o q = q
      BY ConcatEmptySeq
    <3>3. Append(<<>>, Head(q)) = <<Head(q)>>
      OBVIOUS
    <3>4. QED
      BY <3>1, <3>2, <3>3
  <2>3. QED
    BY <2>1, <2>2, AscendingConcat
<1>2. ASSUME NEW n \in 0 .. Len(q)
      PROVE  /\ Ascending(SubSeq(q, 1, n)) /\ Ascending(SubSeq(q, n + 1, Len(q)))
             /\ Before(SubSeq(q, 1, n), SubSeq(q, n + 1, Len(q)))
  <2>1. /\ SubSeq(q, 1, n) \in Seq(Line) /\ SubSeq(q, n + 1, Len(q)) \in Seq(Line)
        /\ SubSeq(q, 1, n) \o SubSeq(q, n + 1, Len(q)) = q
    BY Split
  <2>2. QED
    BY <2>1, AscendingConcat
<1>3. QED
  BY <1>1, <1>2

LEMMA ElemsOfOne ==
  /\ Elems(<<>>) = {}
  /\ \A x \in Line : <<x>> \in Seq(Line) /\ Elems(<<x>>) = {x} /\ Ascending(<<x>>)
<1>1. Elems(<<>>) = {}
  BY EmptySeq DEF Elems
<1>2. ASSUME NEW x \in Line PROVE <<x>> \in Seq(Line) /\ Elems(<<x>>) = {x} /\ Ascending(<<x>>)
  <2>1. <<x>> \in Seq(Line) /\ Len(<<x>>) = 1 /\ <<x>>[1] = x
    OBVIOUS
  <2>2. Elems(<<x>>) = {x}
    BY <2>1 DEF Elems
  <2>3. QED
    BY <2>1, <2>2 DEF Ascending
<1>3. QED
  BY <1>1, <1>2

-----------------------------------------------------------------------------
(* The master's log.                                                       *)

Ordered(f, b, q) ==
  /\ Ascending(f) /\ Ascending(b) /\ Ascending(q)
  /\ Before(f, b) /\ Before(f, q) /\ Before(b, q)

LogOrdered ==
  /\ Ordered(file[Master], buf[Master], queue[Master])
  /\ Below(file[Master], issued[Master])
  /\ Below(buf[Master], issued[Master])
  /\ Below(queue[Master], issued[Master])

\* Lines that land in the file keep their places.
LEMMA LandOrdered ==
  ASSUME NEW f \in Seq(Line), NEW lines \in Seq(Line), NEW q \in Seq(Line),
         NEW k, NEW n \in 0 .. Len(lines), NEW swallow \in BOOLEAN, swallow => n > 0,
         Ordered(f, lines, q), Below(f, k), Below(lines, k)
  PROVE  LET landing == SubSeq(lines, 1, n)
             rest    == SubSeq(lines, n + 1, Len(lines))
             after   == f \o IF swallow THEN Tail(landing) ELSE landing
         IN  Ordered(after, rest, q) /\ Below(after, k) /\ Below(rest, k)
<1>1. PICK landing, rest :
        landing = SubSeq(lines, 1, n) /\ rest = SubSeq(lines, n + 1, Len(lines))
  OBVIOUS
<1>2. /\ landing \in Seq(Line) /\ Elems(landing) \subseteq Elems(lines)
      /\ rest \in Seq(Line) /\ Elems(rest) \subseteq Elems(lines)
  BY <1>1, ElemsOf
<1>3. Ascending(landing) /\ Ascending(rest) /\ Before(landing, rest)
  BY <1>1, AscendingPart DEF Ordered
<1>4. PICK new : new = IF swallow THEN Tail(landing) ELSE landing
  OBVIOUS
<1>5. new \in Seq(Line) /\ Elems(new) \subseteq Elems(landing) /\ Ascending(new)
  <2>1. CASE swallow
    <3>1. Len(landing) = n /\ n # 0
      BY <1>1, <2>1, LenProperties
    <3>2. landing # <<>>
      BY <3>1, EmptySeq
    <3>3. Ascending(Tail(landing))
      BY <1>2, <1>3, <3>2, AscendingPart
    <3>4. Tail(landing) \in Seq(Line) /\ Elems(Tail(landing)) \subseteq Elems(landing)
      BY <1>2, <3>2, ElemsOf
    <3>5. QED
      BY <1>4, <2>1, <3>3, <3>4
  <2>2. CASE ~swallow
    BY <1>2, <1>3, <1>4, <2>2
  <2>3. QED
    BY <2>1, <2>2
<1>6. f \o new \in Seq(Line) /\ Elems(f \o new) = Elems(f) \cup Elems(new)
  BY <1>5, ElemsOf
<1>7. Ascending(f) /\ Before(f, lines) /\ Before(f, q) /\ Before(lines, q) /\ Ascending(q)
  BY DEF Ordered
<1>8. Before(f, new) /\ Before(f, rest) /\ Before(new, rest) /\ Before(new, q) /\ Before(rest, q)
  BY <1>2, <1>3, <1>5, <1>7 DEF Before
<1>9. Ascending(f \o new)
  BY <1>5, <1>7, <1>8, AscendingConcat
<1>10. Before(f \o new, rest) /\ Before(f \o new, q)
  BY <1>6, <1>7, <1>8 DEF Before
<1>11. Below(f \o new, k) /\ Below(rest, k)
  BY <1>2, <1>5, <1>6 DEF Below
<1>12. Ordered(f \o new, rest, q)
  BY <1>3, <1>7, <1>8, <1>9, <1>10 DEF Ordered
<1>13. QED
  BY <1>1, <1>4, <1>11, <1>12

\* The lines that are written come before those that wait.
LEMMA WriteOrdered ==
  ASSUME NEW f \in Seq(Line), NEW b \in Seq(Line), NEW q \in Seq(Line), NEW k, q # <<>>,
         Ordered(f, b, q), Below(b, k), Below(q, k)
  PROVE  /\ Append(b, Head(q)) \in Seq(Line) /\ Tail(q) \in Seq(Line)
         /\ Ordered(f, Append(b, Head(q)), Tail(q))
         /\ Ordered(f, b, Tail(q)) /\ Below(Append(b, Head(q)), k) /\ Below(Tail(q), k)
<1>1. Head(q) \in Line /\ Tail(q) \in Seq(Line) /\ Head(q) \in Elems(q)
  <2>1. Head(q) \in Line /\ Tail(q) \in Seq(Line) /\ Head(q) = q[1] /\ Len(q) \in Nat \ {0}
    BY HeadTailProperties, LenProperties, EmptySeq
  <2>2. QED
    BY <2>1 DEF Elems
<1>2. PICK h, t, lines : h = <<Head(q)>> /\ t = Tail(q) /\ lines = Append(b, Head(q))
  OBVIOUS
<1>3. lines = b \o h /\ h \in Seq(Line) /\ t \in Seq(Line)
  BY <1>1, <1>2, AppendIsConcat
<1>4. Elems(h) \subseteq Elems(q) /\ Elems(t) \subseteq Elems(q) /\ Ascending(h)
  BY <1>1, <1>2, ElemsOf, ElemsOfOne
<1>5. Ascending(t) /\ Before(h, t)
  BY <1>2, AscendingPart DEF Ordered
<1>6. lines \in Seq(Line) /\ Elems(lines) = Elems(b) \cup Elems(h)
  BY <1>3, ElemsOf
<1>7. Ascending(b) /\ Before(b, q) /\ Before(f, b) /\ Before(f, q) /\ Ascending(f)
  BY DEF Ordered
<1>8. Before(b, h) /\ Before(b, t) /\ Before(f, h) /\ Before(f, t)
  BY <1>4, <1>7 DEF Before
<1>9. Ascending(lines)
  BY <1>3, <1>4, <1>7, <1>8, AscendingConcat
<1>10. Before(f, lines) /\ Before(lines, t)
  BY <1>5, <1>6, <1>7, <1>8 DEF Before
<1>11. Below(lines, k) /\ Below(t, k)
  BY <1>4, <1>6 DEF Below
<1>12. QED
  BY <1>2, <1>3, <1>5, <1>6, <1>7, <1>8, <1>9, <1>10, <1>11 DEF Ordered

LEMMA MasterTyped ==
  ASSUME LogTypeOK
  PROVE  /\ Master \in Servers /\ file[Master] \in Seq(Line) /\ buf[Master] \in Seq(Line)
         /\ queue[Master] \in Seq(Line) /\ issued[Master] \in Nat
         /\ mem[Master] \in Seq(Line)
<1>1. Master \in Servers
  BY ReplicationAssumption
<1>2. issued[Master] \in Nat
  BY <1>1 DEF LogTypeOK
<1>3. QED
  BY <1>1, <1>2, TypedAt

\* Land as it changes the log of one server.
LEMMA LandSteps ==
  ASSUME LogTypeOK, NEW lines \in Seq(Line), NEW n \in 0 .. Len(lines), NEW part,
         Land(Master, lines, n, part), NEW q \in Seq(Line), queue'[Master] = q,
         issued'[Master] = issued[Master], Ordered(file[Master], lines, q),
         Below(file[Master], issued[Master]), Below(lines, issued[Master]),
         Below(q, issued[Master])
  PROVE  LogOrdered'
<1>1. PICK swallow \in BOOLEAN : swallow = (ragged[Master] /\ n > 0)
  OBVIOUS
<1>2. PICK after : after = file[Master] \o IF swallow THEN Tail(SubSeq(lines, 1, n))
                                           ELSE SubSeq(lines, 1, n)
  OBVIOUS
<1>3. file'[Master] = after /\ buf'[Master] = SubSeq(lines, n + 1, Len(lines))
  BY <1>1, <1>2, MasterTyped DEF Land, LogTypeOK
<1>4. swallow => n > 0
  BY <1>1
<1>5. file[Master] \in Seq(Line)
  BY MasterTyped
<1>6. /\ Ordered(after, SubSeq(lines, n + 1, Len(lines)), q)
      /\ Below(after, issued[Master])
      /\ Below(SubSeq(lines, n + 1, Len(lines)), issued[Master])
  BY <1>2, <1>4, <1>5, LandOrdered
<1>7. QED
  BY <1>3, <1>6 DEF LogOrdered

\* The log of another server changes nothing of the master's.
LEMMA OthersOrdered ==
  ASSUME LogOrdered, file'[Master] = file[Master], buf'[Master] = buf[Master],
         queue'[Master] = queue[Master], issued'[Master] = issued[Master]
  PROVE  LogOrdered'
BY DEF LogOrdered

LEMMA ExecuteOrdered ==
  ASSUME LogTypeOK, LogOrdered, NEW s \in Servers, Execute(s)
  PROVE  LogOrdered' /\ issued'[Master] = issued[Master] + IF s = Master THEN 1 ELSE 0
<1>1. /\ issued' = [issued EXCEPT ![s] = @ + 1]
      /\ queue' = [queue EXCEPT ![s] = Append(@, <<s, issued'[s]>>)]
      /\ UNCHANGED <<file, buf>>
  BY DEF Execute, Do
<1>2. CASE s # Master
  <2>1. issued'[Master] = issued[Master] /\ queue'[Master] = queue[Master]
    BY <1>1, <1>2, MasterTyped DEF LogTypeOK
  <2>2. QED
    BY <1>1, <1>2, <2>1, OthersOrdered, MasterTyped
<1>3. CASE s = Master
  <2>1. PICK n, f, b, q : /\ n = issued[Master] /\ f = file[Master] /\ b = buf[Master]
                          /\ q = queue[Master]
    OBVIOUS
  <2>2. n \in Nat /\ f \in Seq(Line) /\ b \in Seq(Line) /\ q \in Seq(Line)
    BY <2>1, MasterTyped
  <2>3. PICK c : c = <<Master, n + 1>>
    OBVIOUS
  <2>4. issued'[Master] = n + 1 /\ queue'[Master] = Append(q, c)
    BY <1>1, <1>3, <2>1, <2>3, MasterTyped DEF LogTypeOK
  <2>5. c \in Line /\ c[2] = n + 1
    BY <2>2, <2>3, MasterTyped DEF Line, Commands
  <2>6. <<c>> \in Seq(Line) /\ Elems(<<c>>) = {c} /\ Ascending(<<c>>)
    BY <2>5, ElemsOfOne
  <2>7. Append(q, c) = q \o <<c>> /\ Elems(q \o <<c>>) = Elems(q) \cup {c}
    BY <2>2, <2>5, <2>6, AppendIsConcat, ElemsOf
  <2>8. Below(f, n) /\ Below(b, n) /\ Below(q, n) /\ Ordered(f, b, q)
    BY <2>1 DEF LogOrdered
  <2>9. \A a \in 0 .. n : a < n + 1 /\ a \in 0 .. n + 1
    BY <2>2
  <2>10. Before(f, <<c>>) /\ Before(b, <<c>>) /\ Before(q, <<c>>)
    BY <2>5, <2>6, <2>8, <2>9 DEF Before, Below
  <2>11. Ascending(q \o <<c>>)
    BY <2>2, <2>6, <2>8, <2>10, AscendingConcat DEF Ordered
  <2>12. Before(f, q \o <<c>>) /\ Before(b, q \o <<c>>)
    BY <2>6, <2>7, <2>8, <2>10 DEF Before, Ordered
  <2>13. Ordered(f, b, q \o <<c>>)
    BY <2>8, <2>11, <2>12 DEF Ordered
  <2>14. n + 1 \in 0 .. n + 1
    BY <2>2
  <2>15. Below(f, n + 1) /\ Below(b, n + 1) /\ Below(q \o <<c>>, n + 1)
    BY <2>5, <2>7, <2>8, <2>9, <2>14 DEF Below
  <2>16. QED
    BY <1>1, <1>3, <2>1, <2>4, <2>7, <2>13, <2>15 DEF LogOrdered
<1>4. QED
  BY <1>2, <1>3

LEMMA AppendThreadOrdered ==
  ASSUME LogTypeOK, LogOrdered, NEW s \in Servers, AppendThread(s)
  PROVE  LogOrdered'
<1>1. PICK n, f, b, q : /\ n = issued[Master] /\ f = file[Master] /\ b = buf[Master]
                        /\ q = queue[Master]
  OBVIOUS
<1>2. f \in Seq(Line) /\ b \in Seq(Line) /\ q \in Seq(Line)
  BY <1>1, MasterTyped
<1>3. Below(f, n) /\ Below(b, n) /\ Below(q, n) /\ Ordered(f, b, q)
  BY <1>1 DEF LogOrdered
<1>4. CASE WriteLine(s)
  <2>1. /\ queue[s] # <<>> /\ queue' = [queue EXCEPT ![s] = Tail(@)] /\ issued' = issued
        /\ \/ \E i \in 0 .. Len(Append(buf[s], Head(queue[s]))), part \in BOOLEAN :
                Land(s, Append(buf[s], Head(queue[s])), i, part)
           \/ UNCHANGED <<file, buf>>
    BY <1>4, WriteLineCases
  <2>2. CASE s # Master
    <3>1. queue'[Master] = queue[Master]
      BY <2>1, <2>2, MasterTyped DEF LogTypeOK
    <3>2. file'[Master] = file[Master] /\ buf'[Master] = buf[Master]
      BY <2>1, <2>2, MasterTyped DEF LogTypeOK, Land
    <3>3. QED
      BY <2>1, <3>1, <3>2, OthersOrdered
  <2>3. CASE s = Master
    <3>1. queue'[Master] = Tail(q) /\ q # <<>> /\ issued'[Master] = n
      BY <1>1, <2>1, <2>3, MasterTyped DEF LogTypeOK
    <3>2. /\ Append(b, Head(q)) \in Seq(Line) /\ Tail(q) \in Seq(Line)
          /\ Ordered(f, Append(b, Head(q)), Tail(q))
          /\ Ordered(f, b, Tail(q)) /\ Below(Append(b, Head(q)), n) /\ Below(Tail(q), n)
      BY <1>2, <1>3, <3>1, WriteOrdered
    <3>3. CASE UNCHANGED <<file, buf>>
      BY <1>1, <1>3, <3>1, <3>2, <3>3 DEF LogOrdered
    <3>4. CASE \E i \in 0 .. Len(Append(buf[s], Head(queue[s]))), part \in BOOLEAN :
                 Land(s, Append(buf[s], Head(queue[s])), i, part)
      <4>1. PICK lines : lines = Append(b, Head(q))
        OBVIOUS
      <4>2. PICK i \in 0 .. Len(lines), part \in BOOLEAN : Land(Master, lines, i, part)
        BY <1>1, <2>3, <3>4, <4>1
      <4>3. lines \in Seq(Line) /\ Ordered(file[Master], lines, Tail(q))
            /\ Below(file[Master], issued[Master]) /\ Below(lines, issued[Master])
            /\ Below(Tail(q), issued[Master]) /\ issued'[Master] = issued[Master]
        BY <1>1, <1>3, <3>1, <3>2, <4>1
      <4>4. QED
        BY <3>1, <3>2, <4>2, <4>3, LandSteps
    <3>5. QED
      BY <2>1, <3>3, <3>4
  <2>4. QED
    BY <2>2, <2>3
<1>5. CASE CloseFile(s)
  <2>1. Land(s, buf[s], Len(buf[s]), FALSE) /\ UNCHANGED <<queue, issued>>
    BY <1>5 DEF CloseFile
  <2>2. CASE s # Master
    <3>1. file'[Master] = file[Master] /\ buf'[Master] = buf[Master]
      BY <2>1, <2>2, MasterTyped DEF LogTypeOK, Land
    <3>2. QED
      BY <2>1, <3>1, OthersOrdered
  <2>3. CASE s = Master
    <3>0. Len(b) \in Nat
      BY <1>2, LenProperties
    <3>1. Land(Master, b, Len(b), FALSE)
      BY <1>1, <2>1, <2>3, Zenon
    <3>4. Len(b) \in 0 .. Len(b)
      BY <3>0
    <3>2. /\ queue'[Master] = q /\ issued'[Master] = issued[Master]
          /\ Ordered(file[Master], b, q) /\ Below(file[Master], issued[Master])
          /\ Below(b, issued[Master]) /\ Below(q, issued[Master])
      BY <1>1, <1>3, <2>1
    <3>3. QED
      BY <1>2, <3>1, <3>2, <3>4, LandSteps
  <2>4. QED
    BY <2>2, <2>3
<1>6. QED
  BY <1>4, <1>5 DEF AppendThread

LEMMA CrashOrdered ==
  ASSUME LogTypeOK, LogOrdered, NEW s \in Servers, Crash(s)
  PROVE  LogOrdered'
<1>1. /\ queue' = [queue EXCEPT ![s] = <<>>] /\ buf' = [buf EXCEPT ![s] = <<>>]
      /\ file' = IF half[s] /\ ~ragged[s] THEN [file EXCEPT ![s] = Append(@, Torn)] ELSE file
      /\ issued' = issued
  BY DEF Crash
<1>2. CASE s # Master
  <2>1. /\ file'[Master] = file[Master] /\ buf'[Master] = buf[Master]
        /\ queue'[Master] = queue[Master]
    BY <1>1, <1>2, MasterTyped DEF LogTypeOK
  <2>2. QED
    BY <1>1, <2>1, OthersOrdered
<1>3. CASE s = Master
  <2>1. PICK f, after, n : f = file[Master] /\ after = file'[Master] /\ n = issued[Master]
    OBVIOUS
  <2>2. /\ after \in {f, Append(f, Torn)} /\ buf'[Master] = <<>> /\ queue'[Master] = <<>>
        /\ issued'[Master] = n /\ f \in Seq(Line)
    BY <1>1, <1>3, <2>1, MasterTyped DEF LogTypeOK
  <2>3. Ascending(f) /\ Below(f, n)
    BY <2>1 DEF LogOrdered, Ordered
  <2>4. Torn \in Line /\ ~Own(Torn)
    BY DEF Line, Own
  <2>5. <<Torn>> \in Seq(Line) /\ Elems(<<Torn>>) = {Torn} /\ Ascending(<<Torn>>)
    BY <2>4, ElemsOfOne
  <2>6. Append(f, Torn) = f \o <<Torn>> /\ Elems(f \o <<Torn>>) = Elems(f) \cup {Torn}
    BY <2>2, <2>4, <2>5, AppendIsConcat, ElemsOf
  <2>7. Before(f, <<Torn>>)
    BY <2>4, <2>5 DEF Before
  <2>8. Ascending(f \o <<Torn>>)
    BY <2>2, <2>3, <2>5, <2>7, AscendingConcat
  <2>9. Below(f \o <<Torn>>, n)
    BY <2>3, <2>4, <2>6 DEF Below
  <2>10. Ascending(after) /\ Below(after, n)
    BY <2>2, <2>3, <2>6, <2>8, <2>9
  <2>11. Elems(<<>>) = {} /\ Ascending(<<>>)
    BY ElemsOfOne, EmptySeq DEF Ascending
  <2>12. Ordered(after, <<>>, <<>>) /\ Below(<<>>, n)
    BY <2>10, <2>11 DEF Ordered, Before, Below
  <2>13. QED
    BY <2>1, <2>2, <2>10, <2>12 DEF LogOrdered
<1>4. QED
  BY <1>2, <1>3

-----------------------------------------------------------------------------
(* What a slave has carried out and what is on its way.                    *)

\* m holds the commands in order, and the messages of q the ones that follow, none
\* beyond the n-th.
Flows(m, q, n) ==
  /\ Ascending(m) /\ Below(m, n)
  /\ \A i \in 1 .. Len(q) : /\ Ascending(q[i].lines) /\ Below(q[i].lines, n)
                            /\ Before(m, q[i].lines)
  /\ \A i, k \in 1 .. Len(q) : i < k => Before(q[i].lines, q[k].lines)

\* A connection that breaks keeps a beginning.
LEMMA FlowsPrefix ==
  ASSUME NEW m, NEW q \in Seq(Msg), NEW k, NEW n \in 0 .. Len(q), Flows(m, q, k)
  PROVE  Flows(m, SubSeq(q, 1, n), k)
<1>1. Len(q) \in Nat /\ n \in Nat /\ n <= Len(q)
  BY LenProperties
<1>2. PICK p : p = SubSeq(q, 1, n)
  OBVIOUS
<1>3. \A i \in 1 .. n : q[i] \in Msg
  BY <1>1, ElementOfSeq
<1>4. /\ Len(p) = IF 1 <= n THEN n - 1 + 1 ELSE 0
      /\ \A i \in 1 .. n - 1 + 1 : p[i] = q[1 + i - 1]
  BY <1>1, <1>2, <1>3, SubSeqProperties
<1>5. Len(p) = n /\ \A i \in 1 .. n : i \in 1 .. Len(q) /\ p[i] = q[i]
  BY <1>1, <1>4
<1>6. QED
  BY <1>2, <1>5 DEF Flows

\* What comes first may be thrown away.
LEMMA FlowsRest ==
  ASSUME NEW m, NEW k, RInv, Flows(m, chan, k), NEW n \in 1 .. Len(chan)
  PROVE  Flows(m, SubSeq(chan, n + 1, Len(chan)), k)
<1>1. PICK rest : rest = SubSeq(chan, n + 1, Len(chan))
  OBVIOUS
<1>2. /\ rest \in Seq(Msg)
      /\ \A i \in 1 .. Len(rest) : i + n \in 1 .. Len(chan) /\ rest[i] = chan[i + n]
  BY <1>1, RestTyped
<1>3. ASSUME NEW i \in 1 .. Len(rest), NEW j \in 1 .. Len(rest), i < j
      PROVE  Before(rest[i].lines, rest[j].lines)
  <2>1. i + n < j + n
    BY <1>3
  <2>2. QED
    BY <1>2, <2>1 DEF Flows
<1>4. QED
  BY <1>1, <1>2, <1>3 DEF Flows

\* What comes first on the way is carried out.
LEMMA FlowsTail ==
  ASSUME NEW m \in Seq(Line), NEW q \in Seq(Msg), NEW k, q # <<>>, Flows(m, q, k)
  PROVE  Flows(m \o Head(q).lines, Tail(q), k)
<1>1. /\ Tail(q) \in Seq(Msg) /\ Len(Tail(q)) = Len(q) - 1
      /\ \A i \in 1 .. Len(Tail(q)) : Tail(q)[i] = q[i + 1]
      /\ Head(q) = q[1] /\ Head(q) \in Msg
  BY HeadTailProperties
<1>2. Len(q) \in Nat \ {0}
  BY LenProperties, EmptySeq
<1>3. PICK lines : lines = q[1].lines
  OBVIOUS
<1>4. lines \in Seq(Line)
  BY <1>1, <1>3, LinesOfMessage
<1>5. m \o lines \in Seq(Line) /\ Elems(m \o lines) = Elems(m) \cup Elems(lines)
  BY <1>4, ElemsOf
<1>6. 1 \in 1 .. Len(q)
  BY <1>2
<1>7. Ascending(m) /\ Below(m, k) /\ Ascending(lines) /\ Below(lines, k) /\ Before(m, lines)
  BY <1>3, <1>6 DEF Flows
<1>8. Ascending(m \o lines)
  BY <1>4, <1>7, AscendingConcat
<1>9. Below(m \o lines, k)
  BY <1>5, <1>7 DEF Below
<1>10. ASSUME NEW i \in 1 .. Len(Tail(q))
       PROVE  /\ Ascending(Tail(q)[i].lines) /\ Below(Tail(q)[i].lines, k)
              /\ Before(m \o lines, Tail(q)[i].lines)
  <2>1. i + 1 \in 1 .. Len(q) /\ 1 < i + 1 /\ Tail(q)[i] = q[i + 1]
    BY <1>1, <1>2
  <2>2. /\ Ascending(q[i + 1].lines) /\ Below(q[i + 1].lines, k)
        /\ Before(m, q[i + 1].lines) /\ Before(lines, q[i + 1].lines)
    BY <1>3, <1>6, <2>1 DEF Flows
  <2>3. Before(m \o lines, q[i + 1].lines)
    BY <1>5, <2>2 DEF Before
  <2>4. QED
    BY <2>1, <2>2, <2>3
<1>11. ASSUME NEW i \in 1 .. Len(Tail(q)), NEW j \in 1 .. Len(Tail(q)), i < j
       PROVE  Before(Tail(q)[i].lines, Tail(q)[j].lines)
  <2>1. /\ i + 1 \in 1 .. Len(q) /\ j + 1 \in 1 .. Len(q) /\ i + 1 < j + 1
        /\ Tail(q)[i] = q[i + 1] /\ Tail(q)[j] = q[j + 1]
    BY <1>1, <1>2, <1>11
  <2>2. QED
    BY <2>1 DEF Flows
<1>12. QED
  BY <1>1, <1>3, <1>8, <1>9, <1>10, <1>11 DEF Flows

\* A broadcast comes last.
LEMMA FlowsBroadcast ==
  ASSUME NEW m, NEW q \in Seq(Msg), NEW n \in Nat, Flows(m, q, n), NEW c \in Commands,
         c[2] = n + 1
  PROVE  Flows(m, q, n + 1) /\ Flows(m, Append(q, CommandMsg(c)), n + 1)
<1>1. \A a \in 0 .. n : a < n + 1 /\ a \in 0 .. n + 1
  OBVIOUS
<1>2. Flows(m, q, n + 1)
  BY <1>1 DEF Flows, Below
<1>3. CommandMsg(c) \in Msg /\ CommandMsg(c).lines = <<c>> /\ c \in Line
  BY MessageTypes DEF CommandMsg, Line
<1>4. PICK r, new : r = Append(q, new) /\ new = CommandMsg(c)
  OBVIOUS
<1>5. Len(q) \in Nat /\ Len(r) = Len(q) + 1 /\ r[Len(q) + 1] = new
      /\ \A i \in 1 .. Len(q) : r[i] = q[i]
  BY <1>3, <1>4, AppendProperties, LenProperties
<1>6. new.lines = <<c>> /\ Ascending(<<c>>) /\ Elems(<<c>>) = {c}
  BY <1>3, <1>4, ElemsOfOne
<1>7. n + 1 \in 0 .. n + 1
  OBVIOUS
<1>8. Ascending(new.lines) /\ Below(new.lines, n + 1) /\ Before(m, new.lines)
  BY <1>1, <1>6, <1>7 DEF Below, Before, Flows
<1>9. \A i \in 1 .. Len(q) : Before(q[i].lines, new.lines)
  BY <1>1, <1>6 DEF Below, Before, Flows
<1>10. \A i \in 1 .. Len(r) : \/ i \in 1 .. Len(q) /\ r[i] = q[i]
                              \/ i = Len(q) + 1 /\ r[i] = new
  BY <1>5
<1>11. \A i \in 1 .. Len(r) : /\ Ascending(r[i].lines) /\ Below(r[i].lines, n + 1)
                              /\ Before(m, r[i].lines)
  BY <1>2, <1>8, <1>10 DEF Flows
<1>12. ASSUME NEW i \in 1 .. Len(r), NEW k \in 1 .. Len(r), i < k
       PROVE  Before(r[i].lines, r[k].lines)
  <2>1. i \in 1 .. Len(q) /\ r[i] = q[i]
    BY <1>5, <1>10, <1>12
  <2>2. QED
    BY <1>2, <1>9, <1>10, <1>12, <2>1 DEF Flows
<1>13. QED
  BY <1>2, <1>4, <1>11, <1>12 DEF Flows

\* The answer to a slave that registers: nothing in m is a command of the master.
LEMMA FlowsAnswer ==
  ASSUME NEW m \in Seq(Line), \A a \in Elems(m) : ~Own(a), NEW n,
         NEW lines \in Seq(Line), Ascending(lines), Below(lines, n),
         NEW msgs, msgs = Batches(lines) \/ (msgs = <<>> /\ lines = <<>>)
  PROVE  Flows(m, msgs, n)
<1>1. PICK size : size = Len(msgs)
  OBVIOUS
<1>2. msgs \in Seq(Msg) /\ size \in Nat /\ Len(lines) \in Nat
  BY <1>1, AnswerSlices, LenProperties
<1>0. PICK cut : Slices(msgs, lines, cut)
  BY AnswerSlices
<1>3. /\ cut \in [0 .. size -> 0 .. Len(lines)]
      /\ \A i \in 1 .. size :
           /\ cut[i] = cut[i - 1] + Len(msgs[i].lines)
           /\ \A j \in 1 .. Len(msgs[i].lines) : msgs[i].lines[j] = lines[cut[i - 1] + j]
  BY <1>0, <1>1 DEF Slices
<1>4. \A i \in 0 .. size : cut[i] \in Nat /\ cut[i] <= Len(lines)
  BY <1>2, <1>3
<1>5. ASSUME NEW i \in 1 .. size
      PROVE  /\ Len(msgs[i].lines) \in Nat /\ i - 1 \in 0 .. size /\ i \in 0 .. size
             /\ cut[i - 1] <= cut[i]
             /\ \A j \in 1 .. Len(msgs[i].lines) :
                  /\ cut[i - 1] + j \in 1 .. Len(lines) /\ cut[i - 1] + j <= cut[i]
                  /\ msgs[i].lines[j] = lines[cut[i - 1] + j]
  <2>1. msgs[i] \in Msg
    BY <1>1, <1>2, ElementOfSeq
  <2>2. Len(msgs[i].lines) \in Nat
    BY <2>1, LinesOfMessage, LenProperties
  <2>3. i - 1 \in 0 .. size /\ i \in 0 .. size
    BY <1>2
  <2>4. PICK a, b, l : a = cut[i - 1] /\ b = cut[i] /\ l = Len(msgs[i].lines)
    OBVIOUS
  <2>5. a \in Nat /\ b \in Nat /\ b <= Len(lines) /\ l \in Nat /\ b = a + l
    BY <1>3, <1>4, <2>2, <2>3, <2>4
  <2>6. a <= b /\ \A j \in 1 .. l : a + j \in 1 .. Len(lines) /\ a + j <= b
    BY <1>2, <2>5
  <2>7. QED
    BY <1>3, <2>2, <2>3, <2>4, <2>6
<1>6. \A i, k \in 0 .. size : i <= k => cut[i] <= cut[k]
  <2> DEFINE S == {d \in Nat : \A i \in 0 .. size : i + d <= size => cut[i] <= cut[i + d]}
  <2>1. 0 \in S
    BY <1>4
  <2>2. ASSUME NEW d \in Nat, d \in S PROVE d + 1 \in S
    <3>1. ASSUME NEW i \in 0 .. size, i + (d + 1) <= size
          PROVE  cut[i] <= cut[i + (d + 1)]
      <4>1. PICK k : k = i + (d + 1)
        OBVIOUS
      <4>2. k \in 1 .. size /\ k - 1 = i + d /\ i + d <= size /\ i + d \in 0 .. size
        BY <1>2, <3>1, <4>1
      <4>3. cut[i] <= cut[k - 1] /\ cut[k - 1] <= cut[k]
        BY <1>5, <2>2, <4>2
      <4>4. cut[i] \in Nat /\ cut[k - 1] \in Nat /\ cut[k] \in Nat
        BY <1>4, <1>5, <4>2
      <4>5. cut[i] <= cut[k]
        BY <4>3, <4>4
      <4>6. QED
        BY <4>1, <4>5
    <3>2. QED
      BY <3>1
  <2>3. Nat \subseteq S
    <3> HIDE DEF S
    <3>1. QED
      BY <2>1, <2>2, NaturalsByInduction
  <2>4. ASSUME NEW i \in 0 .. size, NEW k \in 0 .. size, i <= k PROVE cut[i] <= cut[k]
    <3>1. k - i \in Nat /\ i + (k - i) = k /\ k <= size
      BY <1>2, <2>4
    <3>2. k - i \in S
      BY <2>3, <3>1
    <3>3. QED
      BY <3>1, <3>2
  <2>5. QED
    BY <2>4
<1>7. ASSUME NEW i \in 1 .. size
      PROVE  Ascending(msgs[i].lines) /\ Below(msgs[i].lines, n) /\ Before(m, msgs[i].lines)
  <2>1. Elems(msgs[i].lines) \subseteq Elems(lines)
    <3>1. \A j \in 1 .. Len(msgs[i].lines) : msgs[i].lines[j] \in Elems(lines)
      BY <1>5 DEF Elems
    <3>2. QED
      BY <3>1 DEF Elems
  <2>2. ASSUME NEW j \in 1 .. Len(msgs[i].lines), NEW l \in 1 .. Len(msgs[i].lines), j < l,
               Own(msgs[i].lines[j]), Own(msgs[i].lines[l])
        PROVE  msgs[i].lines[j][2] < msgs[i].lines[l][2]
    <3>1. cut[i - 1] \in Nat
      BY <1>4, <1>5
    <3>2. /\ cut[i - 1] + j \in 1 .. Len(lines) /\ cut[i - 1] + l \in 1 .. Len(lines)
          /\ msgs[i].lines[j] = lines[cut[i - 1] + j]
          /\ msgs[i].lines[l] = lines[cut[i - 1] + l]
      BY <1>5
    <3>3. cut[i - 1] + j < cut[i - 1] + l
      BY <2>2, <3>1
    <3>4. QED
      BY <2>2, <3>2, <3>3 DEF Ascending
  <2>3. QED
    BY <2>1, <2>2 DEF Ascending, Below, Before
<1>8. ASSUME NEW i \in 1 .. size, NEW k \in 1 .. size, i < k
      PROVE  Before(msgs[i].lines, msgs[k].lines)
  <2>1. cut[i] <= cut[k - 1] /\ cut[i] \in Nat /\ cut[k - 1] \in Nat /\ cut[i - 1] \in Nat
    <3>1. i \in 0 .. size /\ k - 1 \in 0 .. size /\ i <= k - 1
      BY <1>2, <1>8
    <3>2. QED
      BY <1>4, <1>5, <1>6, <3>1
  <2>2. ASSUME NEW j \in 1 .. Len(msgs[i].lines), NEW l \in 1 .. Len(msgs[k].lines),
               Own(msgs[i].lines[j]), Own(msgs[k].lines[l])
        PROVE  msgs[i].lines[j][2] < msgs[k].lines[l][2]
    <3>1. PICK x, y : x = cut[i - 1] + j /\ y = cut[k - 1] + l
      OBVIOUS
    <3>2. /\ x \in 1 .. Len(lines) /\ y \in 1 .. Len(lines) /\ x <= cut[i]
          /\ msgs[i].lines[j] = lines[x] /\ msgs[k].lines[l] = lines[y]
      BY <1>5, <3>1
    <3>3. x < y
      <4>1. PICK a, b : a = cut[i] /\ b = cut[k - 1]
        OBVIOUS
      <4>5. a <= b /\ a \in Nat /\ b \in Nat
        BY <2>1, <4>1
      <4>6. y = b + l
        BY <3>1, <4>1
      <4>7. x <= a
        BY <3>2, <4>1
      <4>8. x \in Nat
        BY <3>2
      <4>2. a <= b /\ a \in Nat /\ b \in Nat /\ x <= a /\ y = b + l /\ x \in Nat
        BY <4>5, <4>6, <4>7, <4>8
      <4>3. l \in Nat /\ l >= 1
        BY <1>5
      <4>4. QED
        BY <4>2, <4>3
    <3>4. QED
      BY <2>2, <3>2, <3>3 DEF Ascending
  <2>3. QED
    BY <2>2 DEF Before, Elems
<1>9. Ascending(m) /\ Below(m, n)
  <2>1. \A i \in 1 .. Len(m) : ~Own(m[i])
    BY DEF Elems
  <2>2. QED
    BY <2>1 DEF Ascending, Below
<1>10. QED
  BY <1>1, <1>7, <1>8, <1>9 DEF Flows

-----------------------------------------------------------------------------
(* The inductive invariant and the steps.                                  *)

SlaveOnce ==
  crashes[Slave] = 0 =>
    /\ Slave \in up
    /\ Len(vector) <= 1
    /\ link \in {"idle", "open", "asked"} => vector = <<>> /\ \A a \in Elems(mem[Slave]) : ~Own(a)
    /\ Flows(mem[Slave], chan, issued[Master])

OInv == RInv /\ LogOrdered /\ SlaveOnce

LEMMA SlaveTyped ==
  ASSUME RInv
  PROVE  /\ LogTypeOK /\ Master \in Servers /\ Slave \in Servers /\ Master # Slave
         /\ mem[Slave] \in Seq(Line) /\ chan \in Seq(Msg) /\ Len(chan) \in Nat
         /\ issued[Master] \in Nat /\ crashes[Slave] \in Nat /\ Room \in Nat
         /\ vector \in Seq(Agents) /\ agent \in Agents
<1>1. LogTypeOK /\ Master \in Servers /\ Slave \in Servers /\ Master # Slave
  BY LinkTypes
<1>2. mem[Slave] \in Seq(Line)
  BY <1>1, TypedAt
<1>3. issued[Master] \in Nat /\ crashes[Slave] \in Nat
  BY <1>1 DEF LogTypeOK
<1>4. chan \in Seq(Msg) /\ Len(chan) \in Nat /\ Room \in Nat
  BY LinkTypes DEF Lengths
<1>5. vector \in Seq(Agents) /\ agent \in Agents
  BY DEF RInv, TypeOK
<1>6. QED
  BY <1>1, <1>2, <1>3, <1>4, <1>5

\* A step that neither the slave's memory nor the connection takes part in.
LEMMA SameFlow ==
  ASSUME SlaveOnce, UNCHANGED <<link, vector, chan>>, mem'[Slave] = mem[Slave],
         issued'[Master] = issued[Master], crashes'[Slave] = crashes[Slave],
         Slave \in up => Slave \in up'
  PROVE  SlaveOnce'
BY DEF SlaveOnce

\* At most one copy is broadcast when m_SlaveVector has at most one entry.
LEMMA BroadcastOnce ==
  ASSUME RInv, Len(vector) <= 1, NEW c
  PROVE  Broadcast(c) = <<>> \/ Broadcast(c) = <<CommandMsg(c)>>
<1> DEFINE places == {i \in DOMAIN vector : vector[i] = agent}
           copies == Cardinality(places)
<1>1. DOMAIN vector = 1 .. Len(vector) /\ Len(vector) \in Nat
  BY SlaveTyped, LenProperties
<1>2. places = {} \/ places = {1}
  <2>1. \A i \in DOMAIN vector : i = 1
    BY <1>1
  <2>2. QED
    BY <2>1
<1>3. copies = 0 \/ copies = 1
  BY <1>2, FS_EmptySet, FS_Singleton
<1>4. Broadcast(c) = IF Up(link) THEN [i \in 1 .. copies |-> CommandMsg(c)] ELSE <<>>
  BY DEF Broadcast
<1> HIDE DEF places, copies
<1>5. [i \in 1 .. 0 |-> CommandMsg(c)] = <<>>
  OBVIOUS
<1>6. [i \in 1 .. 1 |-> CommandMsg(c)] = <<CommandMsg(c)>>
  OBVIOUS
<1>7. QED
  BY <1>3, <1>4, <1>5, <1>6

\* A send keeps the order, cut short or not.
LEMMA SendFlows ==
  ASSUME NEW m, NEW n, NEW before \in Seq(Msg), NEW msgs \in Seq(Msg), NEW l,
         SendAll(before, msgs, l), Flows(m, before \o msgs, n)
  PROVE  Flows(m, chan', n) /\ link' \in {l, "lost"}
<1>1. PICK all : all = before \o msgs
  OBVIOUS
<1>2. /\ all \in Seq(Msg) /\ Len(all) = Len(before) + Len(msgs)
      /\ Len(before) \in Nat /\ Len(msgs) \in Nat /\ Room \in Nat \ {0}
  BY <1>1, ConcatProperties, LenProperties, ReplicationAssumption
<1>3. CASE Len(before) + Len(msgs) <= Room
  BY <1>3 DEF SendAll
<1>4. CASE ~(Len(before) + Len(msgs) <= Room)
  <2>1. chan' = SubSeq(all, 1, Room) /\ link' = "lost"
    BY <1>1, <1>4 DEF SendAll
  <2>2. Room \in 0 .. Len(all)
    BY <1>2, <1>4
  <2>3. Flows(m, SubSeq(all, 1, Room), n)
    BY <1>1, <1>2, <2>2, FlowsPrefix
  <2>4. QED
    BY <2>1, <2>3
<1>5. QED
  BY <1>3, <1>4

LEMMA MasterCommandOnce ==
  ASSUME OInv, MasterCommand PROVE LogOrdered' /\ SlaveOnce'
<1> DEFINE n == issued[Master]
           c == <<Master, n + 1>>
<1>1. RInv /\ LogOrdered /\ SlaveOnce
  BY DEF OInv
<1>2. /\ LogTypeOK /\ Master \in Servers /\ Slave \in Servers /\ Master # Slave
      /\ chan \in Seq(Msg) /\ n \in Nat
  BY <1>1, SlaveTyped
<1>3. Execute(Master) /\ UNCHANGED <<vector, agent>>
  BY DEF MasterCommand
<1>4. LogOrdered' /\ issued'[Master] = n + 1
  BY <1>1, <1>2, <1>3, ExecuteOrdered
<1>5. mem' = [mem EXCEPT ![Master] = Append(@, c)]
  BY <1>2, <1>3, ExecuteTypes
<1>6. mem'[Slave] = mem[Slave] /\ crashes' = crashes /\ up' = up
  BY <1>2, <1>3, <1>5 DEF LogTypeOK, Execute
<1>7. SendAll(chan, Broadcast(c), link)
  BY <1>4 DEF MasterCommand
<1>8. ASSUME crashes[Slave] = 0
      PROVE  Flows(mem[Slave], chan', n + 1) /\ link' \in {link, "lost"}
  <2>1. c \in Commands /\ c[2] = n + 1
    BY <1>2 DEF Commands
  <2> HIDE DEF c
  <2>2. Flows(mem[Slave], chan, n) /\ Len(vector) <= 1
    BY <1>1, <1>8 DEF SlaveOnce
  <2>3. Flows(mem[Slave], chan, n + 1) /\ Flows(mem[Slave], Append(chan, CommandMsg(c)), n + 1)
    BY <1>2, <2>1, <2>2, FlowsBroadcast
  <2>4. PICK msgs : msgs = Broadcast(c)
    OBVIOUS
  <2>5. /\ msgs \in Seq(Msg)
        /\ msgs = <<>> \/ msgs = <<CommandMsg(c)>>
    BY <1>1, <2>1, <2>2, <2>4, BroadcastOnce, BroadcastSends DEF RInv
  <2>6. chan \o msgs = chan \/ chan \o msgs = Append(chan, CommandMsg(c))
    <3>1. CASE msgs = <<>>
      BY <1>2, <3>1, ConcatEmptySeq
    <3>2. CASE msgs = <<CommandMsg(c)>>
      BY <1>2, <2>1, <3>2, MessageTypes, AppendIsConcat
    <3>3. QED
      BY <2>5, <3>1, <3>2
  <2>7. Flows(mem[Slave], chan \o msgs, n + 1)
    BY <2>3, <2>6
  <2>8. QED
    BY <1>2, <1>7, <2>4, <2>5, <2>7, SendFlows
<1>9. SlaveOnce'
  <2>1. ASSUME crashes'[Slave] = 0
        PROVE  /\ Slave \in up' /\ Len(vector') <= 1
               /\ link' \in {"idle", "open", "asked"} =>
                    vector' = <<>> /\ \A a \in Elems(mem'[Slave]) : ~Own(a)
               /\ Flows(mem'[Slave], chan', issued'[Master])
    <3>1. crashes[Slave] = 0 /\ vector' = vector
      BY <1>3, <1>6, <2>1
    <3>2. /\ Slave \in up /\ Len(vector) <= 1
          /\ link \in {"idle", "open", "asked"} => vector = <<>> /\ \A a \in Elems(mem[Slave]) : ~Own(a)
      BY <1>1, <3>1 DEF SlaveOnce
    <3>3. Flows(mem'[Slave], chan', issued'[Master]) /\ link' \in {link, "lost"}
      BY <1>4, <1>6, <1>8, <3>1
    <3>4. QED
      BY <1>6, <3>1, <3>2, <3>3
  <2>2. QED
    BY <2>1 DEF SlaveOnce
<1>10. QED
  BY <1>4, <1>9

\* The file that fgets reads keeps the order, a line that it reads half of included.
LEMMA FileLinesOrdered ==
  ASSUME LogTypeOK, LogOrdered
  PROVE  Ascending(FileLines) /\ Below(FileLines, issued[Master])
<1>1. PICK f, n : f = file[Master] /\ n = issued[Master]
  OBVIOUS
<1>2. f \in Seq(Line) /\ Ascending(f) /\ Below(f, n)
  BY <1>1, MasterTyped DEF LogOrdered, Ordered
<1>3. Torn \in Line /\ ~Own(Torn)
  BY DEF Line, Own
<1>4. PICK t : t = IF half[Master] /\ ~ragged[Master] THEN <<Torn>> ELSE <<>>
  OBVIOUS
<1>5. t \in Seq(Line) /\ Ascending(t) /\ Elems(t) \subseteq {Torn}
  <2>1. <<>> \in Seq(Line) /\ Ascending(<<>>) /\ Elems(<<>>) = {}
    BY EmptySeq, ElemsOfOne DEF Ascending
  <2>2. <<Torn>> \in Seq(Line) /\ Ascending(<<Torn>>) /\ Elems(<<Torn>>) = {Torn}
    BY <1>3, ElemsOfOne
  <2>3. QED
    BY <1>4, <2>1, <2>2
<1>6. Before(f, t)
  BY <1>3, <1>5 DEF Before
<1>7. Ascending(f \o t)
  BY <1>2, <1>5, <1>6, AscendingConcat
<1>8. Elems(f \o t) = Elems(f) \cup Elems(t)
  BY <1>2, <1>5, ElemsOf
<1>9. Below(f \o t, n)
  BY <1>2, <1>3, <1>5, <1>8 DEF Below
<1>10. QED
  BY <1>1, <1>4, <1>7, <1>9 DEF FileLines

LEMMA NoEntries == vector = <<>> => Entries = 0
<1> SUFFICES ASSUME vector = <<>> PROVE Entries = 0
  OBVIOUS
<1>1. {i \in DOMAIN vector : vector[i] = agent} = {}
  OBVIOUS
<1>2. QED
  BY <1>1, FS_EmptySet DEF Entries

LEMMA RegisterOnce ==
  ASSUME OInv, Register PROVE LogOrdered' /\ SlaveOnce'
<1>1. PICK opened \in BOOLEAN :
        LET lines == IF opened THEN FileLines ELSE <<>>
        IN  /\ SendAll(chan, IF opened THEN Batches(lines) ELSE <<>>, "registered")
            /\ base' = lines
  BY DEF Register
<1>2. PICK lines : lines = IF opened THEN FileLines ELSE <<>>
  OBVIOUS
<1>3. PICK msgs : msgs = IF opened THEN Batches(lines) ELSE <<>>
  OBVIOUS
<1>4. SendAll(chan, msgs, "registered")
  BY <1>1, <1>2, <1>3
<1>5. RInv /\ LogOrdered /\ SlaveOnce /\ LogTypeOK
  BY SlaveTyped DEF OInv
<1>6. link = "asked" /\ vector' = Append(vector, agent) /\ UNCHANGED logVars
  BY DEF Register
<1>7. LogOrdered'
  BY <1>5, <1>6 DEF LogOrdered, logVars
<1>8. ASSUME crashes[Slave] = 0
      PROVE  /\ Slave \in up /\ Len(vector') <= 1 /\ link' \notin {"idle", "open", "asked"}
             /\ Flows(mem[Slave], chan', issued[Master])
  <2>1. Slave \in up /\ vector = <<>> /\ \A a \in Elems(mem[Slave]) : ~Own(a)
    BY <1>5, <1>6, <1>8 DEF SlaveOnce
  <2>2. Len(vector') = 1
    <3>1. vector' = Append(<<>>, agent)
      BY <1>6, <2>1
    <3>2. QED
      BY <3>1
  <2>3. lines \in Seq(Line) /\ Ascending(lines) /\ Below(lines, issued[Master])
    <3>1. <<>> \in Seq(Line) /\ Ascending(<<>>) /\ Below(<<>>, issued[Master])
      BY EmptySeq, ElemsOfOne DEF Ascending, Below
    <3>2. QED
      BY <1>2, <1>5, <3>1, FileLinesOrdered, FileLinesTyped
  <2>4. msgs = Batches(lines) \/ (msgs = <<>> /\ lines = <<>>)
    BY <1>2, <1>3
  <2>5. mem[Slave] \in Seq(Line)
    BY <1>5, SlaveTyped
  <2>6. Flows(mem[Slave], msgs, issued[Master])
    BY <2>1, <2>3, <2>4, <2>5, FlowsAnswer
  <2>7. msgs \in Seq(Msg) /\ chan \in Seq(Msg) /\ chan \o msgs = msgs
    <3>1. msgs \in Seq(Msg)
      BY <2>3, <2>4, AnswerSlices
    <3>2. chan = <<>>
      BY <1>5, <1>6, <2>1, NoEntries DEF RInv, LinkOK, Waiting
    <3>3. QED
      BY <3>1, <3>2, EmptySeq, ConcatEmptySeq
  <2>8. Flows(mem[Slave], chan', issued[Master]) /\ link' \in {"registered", "lost"}
    BY <1>4, <2>6, <2>7, SendFlows
  <2>9. QED
    BY <2>1, <2>2, <2>8
<1>9. SlaveOnce'
  BY <1>6, <1>8 DEF SlaveOnce, logVars
<1>10. QED
  BY <1>7, <1>9

LEMMA ReceiveOnce ==
  ASSUME OInv, Receive PROVE LogOrdered' /\ SlaveOnce'
<1>1. RInv /\ LogOrdered /\ SlaveOnce
  BY DEF OInv
<1>2. /\ LogTypeOK /\ Master \in Servers /\ Slave \in Servers /\ Master # Slave
      /\ chan \in Seq(Msg) /\ mem[Slave] \in Seq(Line)
  BY <1>1, SlaveTyped
<1>3. /\ chan # <<>> /\ chan' = Tail(chan) /\ UNCHANGED vector
      /\ UNCHANGED <<up, file, buf, issued, crashes>>
  BY DEF Receive, ReceiveReady, ReceiveFile, ReceiveCommand, logVars
<1>4. Head(chan) \in Msg
  BY <1>2, <1>3, HeadTailProperties
<1>5. mem'[Slave] = mem[Slave] \o Head(chan).lines /\ queue'[Master] = queue[Master]
  <2>1. CASE ReceiveFile
    BY <1>2, <2>1 DEF ReceiveFile, LogTypeOK
  <2>2. CASE ReceiveCommand
    <3>1. PICK lines, c : lines = Head(chan).lines /\ c = lines[1]
      OBVIOUS
    <3>2. lines = <<c>> /\ c \in Line
      BY <1>4, <2>2, <3>1, LinesOfMessage DEF ReceiveCommand, Line
    <3>3. /\ mem' = [mem EXCEPT ![Slave] = Append(@, c)]
          /\ queue' = [queue EXCEPT ![Slave] = Append(@, c)]
      BY <2>2, <3>1 DEF ReceiveCommand, Do
    <3>4. mem'[Slave] = Append(mem[Slave], c) /\ queue'[Master] = queue[Master]
      BY <1>2, <3>3 DEF LogTypeOK
    <3>5. Append(mem[Slave], c) = mem[Slave] \o <<c>>
      BY <1>2, <3>2, AppendIsConcat
    <3>6. QED
      BY <3>1, <3>2, <3>4, <3>5
  <2>3. CASE ReceiveReady
    <3>1. mem' = mem /\ queue' = queue /\ Head(chan).lines = <<>>
      BY <2>3, MessageTypes DEF ReceiveReady, logVars
    <3>2. QED
      BY <1>2, <3>1, ConcatEmptySeq
  <2>4. QED
    BY <2>1, <2>2, <2>3 DEF Receive
<1>6. LogOrdered'
  BY <1>1, <1>3, <1>5, OthersOrdered
<1>7. ASSUME crashes[Slave] = 0, link' \in {"idle", "open", "asked"}
      PROVE  vector = <<>> /\ \A a \in Elems(mem'[Slave]) : ~Own(a)
  <2>1. CASE ReceiveReady
    <3>1. mem' = mem /\ link' = IF link = "open" THEN "asked" ELSE link
      BY <2>1 DEF ReceiveReady, logVars
    <3>2. link \in {"idle", "open", "asked"}
      BY <1>7, <3>1
    <3>3. QED
      BY <1>1, <1>7, <3>1, <3>2 DEF SlaveOnce
  <2>2. CASE ReceiveFile \/ ReceiveCommand
    <3>1. link' = link /\ Head(chan).kind # "ready"
      BY <2>2 DEF ReceiveFile, ReceiveCommand
    <3>2. vector = <<>>
      BY <1>1, <1>7, <3>1 DEF SlaveOnce
    <3>3. Waiting
      BY <1>7, <3>1, <3>2, NoEntries DEF Waiting
    <3>4. QED
      BY <1>1, <1>3, <3>1, <3>3, NoneWaiting
  <2>3. QED
    BY <2>1, <2>2 DEF Receive
<1>8. ASSUME crashes[Slave] = 0
      PROVE  Flows(mem[Slave] \o Head(chan).lines, Tail(chan), issued[Master])
  <2>1. Flows(mem[Slave], chan, issued[Master])
    BY <1>1, <1>8 DEF SlaveOnce
  <2>2. QED
    BY <1>2, <1>3, <2>1, FlowsTail
<1>9. SlaveOnce'
  BY <1>1, <1>3, <1>5, <1>7, <1>8 DEF SlaveOnce
<1>10. QED
  BY <1>6, <1>9

\* A connection that opens, fails or breaks.
LEMMA LinkOnce ==
  ASSUME OInv, Connect \/ OnConnect \/ Disconnect \/ MasterCrash
  PROVE  LogOrdered' /\ SlaveOnce'
<1>1. RInv /\ LogOrdered /\ SlaveOnce
  BY DEF OInv
<1>2. /\ LogTypeOK /\ Master \in Servers /\ Slave \in Servers /\ Master # Slave
      /\ chan \in Seq(Msg)
  BY <1>1, SlaveTyped
<1>3. CASE Connect
  <2>1. /\ link = "idle" /\ UNCHANGED <<vector, logVars>>
        /\ chan' = <<ReadyMsg>> \/ (chan' = chan /\ link' = "lost")
    BY <1>3 DEF Connect
  <2>2. LogOrdered'
    BY <1>1, <2>1 DEF LogOrdered, logVars
  <2>3. ASSUME crashes[Slave] = 0 PROVE Flows(mem[Slave], chan', issued[Master])
    <3>1. Flows(mem[Slave], chan, issued[Master])
      BY <1>1, <2>3 DEF SlaveOnce
    <3>2. Elems(<<>>) = {} /\ Len(<<>>) = 0
      BY ElemsOfOne, EmptySeq
    <3>3. /\ Ascending(<<>>) /\ Below(<<>>, issued[Master])
          /\ Before(mem[Slave], <<>>)
      BY <3>2 DEF Ascending, Below, Before
    <3>4. PICK q : q = <<ReadyMsg>>
      OBVIOUS
    <3>5. Len(q) = 1 /\ \A i \in 1 .. 1 : q[i].lines = <<>>
      BY <3>4, MessageTypes
    <3>6. Flows(mem[Slave], q, issued[Master])
      BY <3>1, <3>3, <3>5 DEF Flows
    <3>7. QED
      BY <2>1, <3>1, <3>4, <3>6
  <2>4. SlaveOnce'
    BY <1>1, <2>1, <2>3 DEF SlaveOnce, logVars
  <2>5. QED
    BY <2>2, <2>4
<1>8. CASE OnConnect
  <2>1. UNCHANGED <<link, vector, logVars>>
    BY <1>8 DEF OnConnect
  <2>2. PICK n \in 1 .. Len(chan) : chan' = SubSeq(chan, n + 1, Len(chan))
    BY <1>8 DEF OnConnect
  <2>3. LogOrdered'
    BY <1>1, <2>1 DEF LogOrdered, logVars
  <2>4. ASSUME crashes[Slave] = 0 PROVE Flows(mem[Slave], chan', issued[Master])
    BY <1>1, <2>2, <2>4, FlowsRest DEF SlaveOnce
  <2>5. SlaveOnce'
    BY <1>1, <2>1, <2>4 DEF SlaveOnce, logVars
  <2>6. QED
    BY <2>3, <2>5
<1>4. ASSUME NEW l, Cut(l), crashes[Slave] = 0 PROVE Flows(mem[Slave], chan', issued[Master])
  <2>1. PICK n \in 0 .. Len(chan) : chan' = SubSeq(chan, 1, n)
    BY <1>4 DEF Cut
  <2>2. Flows(mem[Slave], chan, issued[Master])
    BY <1>1, <1>4 DEF SlaveOnce
  <2>3. QED
    BY <1>2, <2>1, <2>2, FlowsPrefix
<1>5. CASE Disconnect
  <2>1. Cut("lost") /\ link' = "lost" /\ UNCHANGED <<vector, logVars>>
    BY <1>5 DEF Disconnect, Cut
  <2>2. LogOrdered'
    BY <1>1, <2>1 DEF LogOrdered, logVars
  <2>3. SlaveOnce'
    BY <1>1, <1>4, <2>1 DEF SlaveOnce, logVars
  <2>4. QED
    BY <2>2, <2>3
<1>6. CASE MasterCrash
  <2> DEFINE l == IF Up(link) THEN "lost" ELSE link
  <2>1. /\ Cut(l) /\ link' = l /\ vector' = <<>> /\ Crash(Master)
    BY <1>6 DEF MasterCrash, Cut
  <2>2. LogOrdered'
    BY <1>1, <1>2, <2>1, CrashOrdered
  <2>3. /\ mem' = mem /\ issued' = issued /\ up' = up \ {Master}
        /\ crashes' = [crashes EXCEPT ![Master] = @ + 1]
    BY <2>1 DEF Crash
  <2>4. crashes'[Slave] = crashes[Slave] /\ (Slave \in up => Slave \in up')
    BY <1>2, <2>3 DEF LogTypeOK
  <2>5. link' \in {"idle", "open", "asked"} => link = "idle"
    BY <2>1 DEF Up
  <2>6. Len(vector') = 0
    BY <2>1, EmptySeq
  <2>7. SlaveOnce'
    BY <1>1, <1>4, <2>1, <2>3, <2>4, <2>5, <2>6 DEF SlaveOnce
  <2>8. QED
    BY <2>2, <2>7
<1>7. QED
  BY <1>3, <1>5, <1>6, <1>8

\* A slave that crashes has crashed from then on.
LEMMA SlaveDownOnce ==
  ASSUME OInv, SlaveCrash \/ SlaveRestart PROVE LogOrdered' /\ SlaveOnce'
<1>1. RInv /\ LogOrdered /\ SlaveOnce
  BY DEF OInv
<1>2. /\ LogTypeOK /\ Master \in Servers /\ Slave \in Servers /\ Master # Slave
      /\ crashes[Slave] \in Nat
  BY <1>1, SlaveTyped
<1>3. CASE SlaveCrash
  <2>1. Crash(Slave)
    BY <1>3 DEF SlaveCrash
  <2>2. LogOrdered'
    BY <1>1, <1>2, <2>1, CrashOrdered
  <2>3. crashes'[Slave] = crashes[Slave] + 1
    BY <1>2, <2>1 DEF Crash, LogTypeOK
  <2>4. crashes'[Slave] # 0
    BY <1>2, <2>3
  <2>5. QED
    BY <2>2, <2>4 DEF SlaveOnce
<1>4. CASE SlaveRestart
  <2>1. Restart(Slave)
    BY <1>4 DEF SlaveRestart
  <2>2. Slave \notin up /\ UNCHANGED <<queue, buf, file, issued, crashes>>
    BY <2>1 DEF Restart
  <2>3. LogOrdered'
    BY <1>1, <2>2 DEF LogOrdered
  <2>4. QED
    BY <1>1, <2>2, <2>3 DEF SlaveOnce
<1>5. QED
  BY <1>3, <1>4

LEMMA ServerOnce ==
  ASSUME OInv,
         SlaveCommand \/ (\E s \in Servers : LogThread(s))
           \/ (Restart(Master) /\ UNCHANGED linkVars)
  PROVE  LogOrdered' /\ SlaveOnce'
<1>1. RInv /\ LogOrdered /\ SlaveOnce
  BY DEF OInv
<1>2. /\ LogTypeOK /\ Master \in Servers /\ Slave \in Servers /\ Master # Slave
      /\ mem[Slave] \in Seq(Line)
  BY <1>1, SlaveTyped
<1>3. CASE SlaveCommand
  <2>1. Execute(Slave) /\ UNCHANGED <<link, vector, chan>>
    BY <1>3 DEF SlaveCommand, linkVars
  <2>2. PICK c : c = <<Slave, issued[Slave] + 1>>
    OBVIOUS
  <2>3. mem' = [mem EXCEPT ![Slave] = Append(@, c)] /\ c \in Line
    BY <1>2, <2>1, <2>2, ExecuteTypes
  <2>4. LogOrdered' /\ issued'[Master] = issued[Master]
    <3>1. LogOrdered' /\ issued'[Master] = issued[Master] + IF Slave = Master THEN 1 ELSE 0
      BY <1>1, <1>2, <2>1, ExecuteOrdered
    <3>2. issued[Master] \in Nat
      BY <1>1, SlaveTyped
    <3>3. QED
      BY <1>2, <3>1, <3>2
  <2>5. ~Own(c)
    BY <1>2, <2>2 DEF Own
  <2>6. PICK m, after : m = mem[Slave] /\ after = mem'[Slave]
    OBVIOUS
  <2>7. after = m \o <<c>> /\ <<c>> \in Seq(Line) /\ m \in Seq(Line)
    <3>1. after = Append(m, c)
      BY <1>2, <2>3, <2>6 DEF LogTypeOK
    <3>2. QED
      BY <1>2, <2>3, <2>6, <3>1, AppendIsConcat, ElemsOfOne
  <2>8. Elems(after) = Elems(m) \cup {c} /\ Ascending(<<c>>) /\ Elems(<<c>>) = {c}
    <3>1. Ascending(<<c>>) /\ Elems(<<c>>) = {c}
      BY <2>3, ElemsOfOne
    <3>2. Elems(m \o <<c>>) = Elems(m) \cup Elems(<<c>>)
      BY <2>7, ElemsOf
    <3>3. QED
      BY <2>7, <3>1, <3>2
  <2>9. Before(m, <<c>>)
    BY <2>5, <2>8 DEF Before
  <2>10. Ascending(m) => Ascending(after)
    BY <2>7, <2>8, <2>9, AscendingConcat
  <2>11. \A n : Below(m, n) => Below(after, n)
    BY <2>5, <2>8 DEF Below
  <2>12. \A q : Before(m, q) => Before(after, q)
    BY <2>5, <2>8 DEF Before
  <2>13. \A n : Flows(m, chan, n) => Flows(after, chan, n)
    BY <2>10, <2>11, <2>12 DEF Flows
  <2>14. (\A a \in Elems(m) : ~Own(a)) => \A a \in Elems(after) : ~Own(a)
    BY <2>5, <2>8
  <2>15. crashes' = crashes /\ up' = up
    BY <2>1 DEF Execute
  <2>16. SlaveOnce'
    BY <1>1, <2>1, <2>4, <2>6, <2>13, <2>14, <2>15 DEF SlaveOnce
  <2>17. QED
    BY <2>4, <2>16
<1>4. CASE \E s \in Servers : LogThread(s)
  <2>1. PICK s \in Servers : AppendThread(s) /\ UNCHANGED linkVars
    BY <1>4 DEF LogThread
  <2>2. LogOrdered'
    BY <1>1, <1>2, <2>1, AppendThreadOrdered
  <2>3. UNCHANGED <<up, mem, issued, crashes>>
    BY <1>2, <2>1, WriteLineCases DEF AppendThread, CloseFile
  <2>4. SlaveOnce'
    BY <1>1, <2>1, <2>3, SameFlow DEF linkVars
  <2>5. QED
    BY <2>2, <2>4
<1>5. CASE Restart(Master) /\ UNCHANGED linkVars
  <2>1. /\ mem' = [mem EXCEPT ![Master] = file[Master]] /\ up' = up \cup {Master}
        /\ UNCHANGED <<queue, buf, file, issued, crashes>>
    BY <1>5 DEF Restart
  <2>2. LogOrdered'
    BY <1>1, <2>1 DEF LogOrdered
  <2>3. mem'[Slave] = mem[Slave]
    BY <1>2, <2>1 DEF LogTypeOK
  <2>4. SlaveOnce'
    BY <1>1, <1>5, <2>1, <2>3, SameFlow DEF linkVars
  <2>5. QED
    BY <2>2, <2>4
<1>6. QED
  BY <1>3, <1>4, <1>5

LEMMA InitOInv == Init => OInv
<1> SUFFICES ASSUME Init PROVE OInv
  OBVIOUS
<1>1. RInv
  BY InitRInv
<1>2. /\ Master \in Servers /\ Slave \in Servers
  BY ReplicationAssumption
<1>3. /\ file[Master] = <<>> /\ buf[Master] = <<>> /\ queue[Master] = <<>> /\ mem[Slave] = <<>>
      /\ chan = <<>> /\ vector = <<>> /\ Slave \in up
  BY <1>2 DEF Init, InitLog
<1>4. Elems(<<>>) = {} /\ Len(<<>>) = 0
  BY ElemsOfOne, EmptySeq
<1>5. Ascending(<<>>) /\ (\A n : Below(<<>>, n)) /\ Before(<<>>, <<>>)
  BY <1>4 DEF Ascending, Below, Before
<1>6. LogOrdered
  BY <1>3, <1>5 DEF LogOrdered, Ordered
<1>7. Flows(<<>>, <<>>, issued[Master])
  BY <1>4, <1>5 DEF Flows
<1>8. SlaveOnce
  BY <1>3, <1>4, <1>7 DEF SlaveOnce
<1>9. QED
  BY <1>1, <1>6, <1>8 DEF OInv

LEMMA NextOInv == OInv /\ [Next]_vars => OInv'
<1> SUFFICES ASSUME OInv, [Next]_vars PROVE OInv'
  OBVIOUS
<1>1. RInv'
  BY NextRInv DEF OInv
<1>2. CASE UNCHANGED vars
  <2>1. UNCHANGED <<link, vector, chan>> /\ UNCHANGED logVars
    BY <1>2 DEF vars, linkVars
  <2>2. LogOrdered' /\ SlaveOnce'
    BY <2>1 DEF OInv, LogOrdered, SlaveOnce, logVars
  <2>3. QED
    BY <1>1, <2>2 DEF OInv
<1>3. CASE MasterCommand
  BY <1>1, <1>3, MasterCommandOnce DEF OInv
<1>4. CASE Register
  BY <1>1, <1>4, RegisterOnce DEF OInv
<1>5. CASE Receive
  BY <1>1, <1>5, ReceiveOnce DEF OInv
<1>6. CASE Connect \/ OnConnect \/ Disconnect \/ MasterCrash
  BY <1>1, <1>6, LinkOnce DEF OInv
<1>7. CASE SlaveCrash \/ SlaveRestart
  BY <1>1, <1>7, SlaveDownOnce DEF OInv
<1>8. CASE SlaveCommand \/ (\E s \in Servers : LogThread(s))
             \/ (Restart(Master) /\ UNCHANGED linkVars)
  BY <1>1, <1>8, ServerOnce DEF OInv
<1>9. QED
  BY <1>2, <1>3, <1>4, <1>5, <1>6, <1>7, <1>8 DEF Next

-----------------------------------------------------------------------------
(* The theorem.                                                            *)

\* ReplicateAppendFile and BroadAllSlave between them never give a slave the same
\* command of its master twice, or two of them in the wrong order, until the slave
\* restarts: whatever the append threads write, wherever the connection breaks, and
\* through any crashes of the master.
THEOREM SlaveAppliesOnceInOrder == Spec => []AppliedOnceInOrder
<1>1. OInv => AppliedOnceInOrder
  <2> SUFFICES ASSUME OInv, crashes[Slave] = 0,
                      NEW i \in DOMAIN mem[Slave], NEW j \in DOMAIN mem[Slave], i < j,
                      mem[Slave][i] # Torn /\ mem[Slave][i][1] = Master,
                      mem[Slave][j] # Torn /\ mem[Slave][j][1] = Master
               PROVE  mem[Slave][i][2] < mem[Slave][j][2]
    BY DEF AppliedOnceInOrder
  <2>1. Ascending(mem[Slave])
    BY DEF OInv, SlaveOnce, Flows
  <2>2. DOMAIN mem[Slave] = 1 .. Len(mem[Slave])
    BY SlaveTyped, LenProperties DEF OInv
  <2>3. QED
    BY <2>1, <2>2 DEF Ascending, Own
<1>2. QED
  BY <1>1, InitOInv, NextOInv, PTL DEF Spec
=============================================================================
