--------------------------- MODULE AppendLogProofs ---------------------------
(***************************************************************************)
(* Theorems about AppendLog for any servers and any number of commands and *)
(* crashes: what a server's memory holds is what it has logged, and a      *)
(* restart loses the last commands only.                                   *)
(***************************************************************************)
EXTENDS AppendLog, SequenceTheorems, TLAPS

-----------------------------------------------------------------------------
(* Facts about sequences.                                                  *)

\* A line taken off the queue comes first in what is left.
LEMMA MoveHead ==
  ASSUME NEW S, NEW a \in Seq(S), NEW q \in Seq(S), q # <<>>
  PROVE  a \o q = Append(a, Head(q)) \o Tail(q)
<1>1. Head(q) \in S /\ Tail(q) \in Seq(S) /\ <<Head(q)>> \in Seq(S)
  BY HeadTailProperties
<1>2. q = <<Head(q)>> \o Tail(q)
  BY HeadTailProperties, HeadTailAppend, EmptySeq
<1>3. Append(a, Head(q)) = a \o <<Head(q)>>
  BY <1>1, AppendIsConcat
<1>4. QED
  BY <1>1, <1>2, <1>3, ConcatAssociative

\* A sequence falls into its beginning and the rest.
LEMMA Split ==
  ASSUME NEW S, NEW q \in Seq(S), NEW n \in 0 .. Len(q)
  PROVE  /\ SubSeq(q, 1, n) \in Seq(S) /\ SubSeq(q, n + 1, Len(q)) \in Seq(S)
         /\ SubSeq(q, 1, n) \o SubSeq(q, n + 1, Len(q)) = q
<1>1. Len(q) \in Nat /\ \A i \in 1 .. Len(q) : q[i] \in S
  BY LenProperties
<1>2. SubSeq(q, 1, n) \in Seq(S)
  BY <1>1, SubSeqProperties
<1>3. SubSeq(q, n + 1, Len(q)) \in Seq(S)
  BY <1>1, SubSeqProperties
<1>4. SubSeq(q, 1, n) \o SubSeq(q, n + 1, Len(q)) = SubSeq(q, 1, Len(q))
  <2>1. 1 \in 1 .. Len(q) + 1 /\ n \in 1 - 1 .. Len(q) /\ Len(q) \in n .. Len(q)
    BY <1>1
  <2>2. QED
    BY <2>1, ConcatAdjacentSubSeq
<1>5. QED
  BY <1>2, <1>3, <1>4, SubSeqFull

\* What comes first can be read off again.
LEMMA Beginning ==
  ASSUME NEW S, NEW a \in Seq(S), NEW b \in Seq(S)
  PROVE  Len(a) \in 0 .. Len(a \o b) /\ SubSeq(a \o b, 1, Len(a)) = a
<1>1. /\ Len(a) \in Nat /\ Len(b) \in Nat
      /\ a \o b \in Seq(S) /\ Len(a \o b) = Len(a) + Len(b)
      /\ \A i \in 1 .. Len(a) + Len(b) :
           (a \o b)[i] = IF i <= Len(a) THEN a[i] ELSE b[i - Len(a)]
  BY LenProperties, ConcatProperties
<1> DEFINE c == a \o b
           d == SubSeq(c, 1, Len(a))
<1>2. \A i \in 1 .. Len(a) : c[i] \in S /\ c[i] = a[i]
  BY <1>1
<1> HIDE DEF c
<1>3. d \in Seq(S) /\ Len(d) = Len(a) /\ \A i \in 1 .. Len(a) : d[i] = c[i]
  BY <1>1, <1>2, SubSeqProperties
<1> HIDE DEF d
<1>4. d = a
  BY <1>1, <1>2, <1>3, SeqEqual
<1>5. QED
  BY <1>1, <1>4 DEF c, d

\* A line put on the queue comes last in what is logged.
LEMMA LinesConcat ==
  /\ \A a, b, c \in Seq(Line) : (a \o b) \o c = a \o (b \o c)
  /\ \A a, b \in Seq(Line) : \A x \in Line : Append(a \o b, x) = a \o Append(b, x)
<1>1. ASSUME NEW a \in Seq(Line), NEW b \in Seq(Line), NEW c \in Seq(Line)
      PROVE  (a \o b) \o c = a \o (b \o c)
  BY ConcatAssociative
<1>2. ASSUME NEW a \in Seq(Line), NEW b \in Seq(Line), NEW x \in Line
      PROVE  Append(a \o b, x) = a \o Append(b, x)
  <2>1. a \o b \in Seq(Line) /\ <<x>> \in Seq(Line)
    BY ConcatProperties
  <2>2. Append(a \o b, x) = (a \o b) \o <<x>> /\ Append(b, x) = b \o <<x>>
    BY <2>1, AppendIsConcat
  <2>3. QED
    BY <1>1, <2>1, <2>2
<1>3. QED
  BY <1>1, <1>2

HasTorn(q) == \E i \in DOMAIN q : q[i] = Torn

\* A torn line stays in what it is in.
LEMMA TornStays ==
  ASSUME NEW a \in Seq(Line), NEW b \in Seq(Line), HasTorn(a)
  PROVE  HasTorn(a \o b)
<1>1. PICK i \in 1 .. Len(a) : a[i] = Torn
  BY LenProperties DEF HasTorn
<1>2. /\ Len(a) \in Nat /\ Len(b) \in Nat
      /\ (a \o b)[i] = a[i] /\ DOMAIN (a \o b) = 1 .. Len(a) + Len(b)
  BY LenProperties, ConcatProperties
<1>3. QED
  BY <1>1, <1>2 DEF HasTorn

LEMMA TornStaysAppend ==
  ASSUME NEW a \in Seq(Line), NEW x \in Line, HasTorn(a)
  PROVE  HasTorn(Append(a, x))
<1>1. <<x>> \in Seq(Line) /\ Append(a, x) = a \o <<x>>
  BY AppendIsConcat
<1>2. QED
  BY <1>1, TornStays

LEMMA TornAppended ==
  ASSUME NEW a \in Seq(Line)
  PROVE  Append(a, Torn) \in Seq(Line) /\ HasTorn(Append(a, Torn))
<1>1. Torn \in Line
  BY DEF Line
<1>2. QED
  BY <1>1, AppendProperties, LenProperties DEF HasTorn

-----------------------------------------------------------------------------
(* The inductive invariant, a server at a time.                            *)

\* What the append file has lost of a server's memory is its end, and at most
\* a line cut short takes its place.
LostTail(m, f) ==
  \E n \in 0 .. Len(m) : f \in {SubSeq(m, 1, n), Append(SubSeq(m, 1, n), Torn)}

ServerOK(s) ==
  /\ s \in up /\ ~IsTorn(s) => mem[s] = file[s] \o buf[s] \o dropped[s] \o queue[s]
  /\ s \in up /\ ragged[s] => IsTorn(s)
  /\ s \notin up => queue[s] = <<>> /\ buf[s] = <<>>
  /\ s \notin up /\ ~IsTorn(s) => LostTail(mem[s], file[s])
  /\ ragged[s] => HasTorn(file[s])
  /\ ~stopped[s] => dropped[s] = <<>>

IInv == LogTypeOK /\ \A s \in Servers : ServerOK(s)

LEMMA TypedAt ==
  ASSUME LogTypeOK, NEW s \in Servers
  PROVE  /\ mem[s] \in Seq(Line) /\ file[s] \in Seq(Line)
         /\ queue[s] \in Seq(Commands) /\ buf[s] \in Seq(Commands) /\ dropped[s] \in Seq(Commands)
         /\ queue[s] \in Seq(Line) /\ buf[s] \in Seq(Line) /\ dropped[s] \in Seq(Line)
<1>1. Commands \subseteq Line
  BY DEF Line
<1>2. /\ mem[s] \in Seq(Line) /\ file[s] \in Seq(Line)
      /\ queue[s] \in Seq(Commands) /\ buf[s] \in Seq(Commands) /\ dropped[s] \in Seq(Commands)
  BY DEF LogTypeOK
<1>3. queue[s] \in Seq(Line) /\ buf[s] \in Seq(Line) /\ dropped[s] \in Seq(Line)
  BY <1>1, <1>2, SeqMonotonic
<1>4. QED
  BY <1>2, <1>3

\* What an action leaves a server as it was leaves it sound.
LEMMA OthersKeep ==
  ASSUME NEW s, ServerOK(s), s \in up' <=> s \in up,
         mem'[s] = mem[s], queue'[s] = queue[s], buf'[s] = buf[s], file'[s] = file[s],
         ragged'[s] = ragged[s], stopped'[s] = stopped[s], dropped'[s] = dropped[s]
  PROVE  ServerOK(s)'
  BY DEF ServerOK, IsTorn, LostTail

\* Lines that leave the buffer are found in the file; a file that ends in the
\* middle of a line had a torn one before.
LEMMA LandLog ==
  ASSUME LogTypeOK, NEW s \in Servers,
         NEW lines \in Seq(Commands), NEW n \in 0 .. Len(lines), NEW part \in BOOLEAN,
         part => n < Len(lines), Land(s, lines, n, part)
  PROVE  /\ file' \in [Servers -> Seq(Line)] /\ ragged' \in [Servers -> BOOLEAN]
         /\ buf' \in [Servers -> Seq(Commands)] /\ half' \in [Servers -> BOOLEAN]
         /\ half'[s] => buf'[s] # <<>>
         /\ \A r \in Servers \ {s} : /\ file'[r] = file[r] /\ ragged'[r] = ragged[r]
                                      /\ buf'[r] = buf[r] /\ half'[r] = half[r]
         /\ ragged'[s] => ragged[s] /\ (HasTorn(file[s]) => HasTorn(file'[s]))
         /\ ~ragged[s] => file'[s] \o buf'[s] = file[s] \o lines
<1> DEFINE landing == SubSeq(lines, 1, n)
           rest    == SubSeq(lines, n + 1, Len(lines))
           swallow == ragged[s] /\ n > 0
           landed  == file[s] \o IF swallow THEN Tail(landing) ELSE landing
<1>1. Commands \subseteq Line /\ lines \in Seq(Line)
  BY SeqMonotonic DEF Line
<1>2. /\ landing \in Seq(Commands) /\ landing \in Seq(Line)
      /\ rest \in Seq(Commands) /\ rest \in Seq(Line)
      /\ landing \o rest = lines
  BY <1>1, Split
<1>3. Len(lines) \in Nat /\ n \in Nat
  BY LenProperties
<1>4. Len(landing) = n
  BY <1>1, <1>3, LenProperties, SubSeqProperties, ElementOfSeq
<1>5. part => Len(rest) > 0
  <2>1. \A i \in n + 1 .. Len(lines) : lines[i] \in Commands
    BY <1>3, ElementOfSeq
  <2>2. Len(rest) = IF n + 1 <= Len(lines) THEN Len(lines) - (n + 1) + 1 ELSE 0
    BY <1>3, <2>1, SubSeqProperties
  <2>3. QED
    BY <1>3, <2>2
<1>6. landed \in Seq(Line)
  <2>1. file[s] \in Seq(Line)
    BY TypedAt
  <2>2. CASE swallow
    <3>1. landing # <<>>
      BY <1>4, <2>2, EmptySeq
    <3>2. Tail(landing) \in Seq(Line)
      BY <1>2, <3>1, HeadTailProperties
    <3>3. QED
      BY <2>1, <2>2, <3>2, ConcatProperties
  <2>3. CASE ~swallow
    BY <1>2, <2>1, <2>3, ConcatProperties
  <2>4. QED
    BY <2>2, <2>3
<1>7. /\ file' = [file EXCEPT ![s] = landed] /\ ragged' = [ragged EXCEPT ![s] = @ /\ ~swallow]
      /\ buf' = [buf EXCEPT ![s] = rest] /\ half' = [half EXCEPT ![s] = part]
  BY DEF Land
<1>8. /\ file'[s] = landed /\ ragged'[s] = (ragged[s] /\ ~swallow)
      /\ buf'[s] = rest /\ half'[s] = part
  BY <1>7 DEF LogTypeOK
<1>9. part => rest # <<>>
  <2> HIDE DEF rest
  <2>1. Len(<<>>) = 0
    OBVIOUS
  <2>2. QED
    BY <1>5, <2>1
<1>10. ragged'[s] => ragged[s] /\ (HasTorn(file[s]) => HasTorn(file'[s]))
  <2>1. ASSUME ragged'[s], HasTorn(file[s]) PROVE HasTorn(landed)
    <3>1. ~swallow /\ HasTorn(file[s]) /\ file[s] \in Seq(Line)
      BY <1>8, <2>1, TypedAt
    <3>2. landed = file[s] \o landing
      BY <3>1
    <3> HIDE DEF landing, landed
    <3>3. QED
      BY <1>2, <3>1, <3>2, TornStays DEF landing
  <2>2. QED
    BY <1>8, <2>1
<1>11. ~ragged[s] => file'[s] \o buf'[s] = file[s] \o lines
  <2>1. ASSUME ~ragged[s] PROVE landed \o rest = file[s] \o lines
    <3>1. landed = file[s] \o landing /\ file[s] \in Seq(Line)
      BY <2>1, TypedAt
    <3>2. landing \in Seq(Line) /\ rest \in Seq(Line) /\ landing \o rest = lines
      BY <1>2
    <3> HIDE DEF landing, rest, landed
    <3>3. (file[s] \o landing) \o rest = file[s] \o (landing \o rest)
      BY <3>1, <3>2, LinesConcat, Zenon
    <3>4. QED
      BY <3>1, <3>2, <3>3
  <2>2. QED
    BY <1>8, <2>1
<1> HIDE DEF landing, rest, swallow, landed
<1>12. /\ file' \in [Servers -> Seq(Line)] /\ ragged' \in [Servers -> BOOLEAN]
       /\ buf' \in [Servers -> Seq(Commands)] /\ half' \in [Servers -> BOOLEAN]
  <2>1. file' \in [Servers -> Seq(Line)]
    BY <1>6, <1>7 DEF LogTypeOK
  <2>2. buf' \in [Servers -> Seq(Commands)]
    BY <1>2, <1>7 DEF LogTypeOK, rest
  <2>3. ragged' \in [Servers -> BOOLEAN] /\ half' \in [Servers -> BOOLEAN]
    BY <1>7 DEF LogTypeOK
  <2>4. QED
    BY <2>1, <2>2, <2>3
<1>13. ASSUME NEW r \in Servers \ {s}
       PROVE  /\ file'[r] = file[r] /\ ragged'[r] = ragged[r]
              /\ buf'[r] = buf[r] /\ half'[r] = half[r]
  BY <1>7 DEF LogTypeOK
<1>14. QED
  BY <1>8, <1>9, <1>10, <1>11, <1>12, <1>13

-----------------------------------------------------------------------------
(* Every action keeps the types.                                           *)

\* A line that is carried out and put on the queue.
LEMMA LineTypes ==
  ASSUME LogTypeOK, NEW s \in Servers, NEW c \in Commands,
         mem' = [mem EXCEPT ![s] = Append(@, c)],
         queue' = [queue EXCEPT ![s] = Append(@, c)],
         issued' = issued \/ issued' = [issued EXCEPT ![s] = @ + 1],
         UNCHANGED <<up, isOpen, buf, half, file, ragged, stopped, dropped, crashes>>
  PROVE  LogTypeOK'
<1>1. Append(mem[s], c) \in Seq(Line) /\ Append(queue[s], c) \in Seq(Commands)
  BY TypedAt, AppendProperties DEF Line
<1>2. mem' \in [Servers -> Seq(Line)] /\ queue' \in [Servers -> Seq(Commands)]
  BY <1>1 DEF LogTypeOK
<1>3. issued' \in [Servers -> Nat]
  <2>1. CASE issued' = [issued EXCEPT ![s] = @ + 1]
    BY <2>1 DEF LogTypeOK
  <2>2. CASE issued' = issued
    BY <2>2 DEF LogTypeOK
  <2>3. QED
    BY <2>1, <2>2
<1>4. QED
  BY <1>2, <1>3 DEF LogTypeOK

LEMMA ExecuteTypes ==
  ASSUME LogTypeOK, NEW s \in Servers, Execute(s)
  PROVE  /\ LogTypeOK'
         /\ mem' = [mem EXCEPT ![s] = Append(@, <<s, issued[s] + 1>>)]
         /\ issued'[s] = issued[s] + 1 /\ <<s, issued[s] + 1>> \in Line
<1> DEFINE c == <<s, issued[s] + 1>>
<1>1. /\ issued' = [issued EXCEPT ![s] = @ + 1]
      /\ mem' = [mem EXCEPT ![s] = Append(@, c)]
      /\ queue' = [queue EXCEPT ![s] = Append(@, c)]
      /\ UNCHANGED <<up, isOpen, buf, half, file, ragged, stopped, dropped, crashes>>
  BY DEF Execute, Do, LogTypeOK
<1>2. issued[s] \in Nat /\ c \in Commands /\ c \in Line /\ issued'[s] = issued[s] + 1
  BY <1>1 DEF LogTypeOK, Commands, Line
<1>3. QED
  BY <1>1, <1>2, LineTypes

LEMMA WriteTypes ==
  ASSUME LogTypeOK, NEW s \in Servers, queue[s] # <<>>,
         queue' = [queue EXCEPT ![s] = Tail(@)],
         isOpen' = [isOpen EXCEPT ![s] = TRUE],
         NEW n \in 0 .. Len(Append(buf[s], Head(queue[s]))), NEW part \in BOOLEAN,
         part => n < Len(Append(buf[s], Head(queue[s]))),
         Land(s, Append(buf[s], Head(queue[s])), n, part),
         UNCHANGED <<up, mem, issued, crashes, stopped, dropped>>
  PROVE  LogTypeOK'
<1> DEFINE lines == Append(buf[s], Head(queue[s]))
<1>1. queue[s] \in Seq(Commands) /\ buf[s] \in Seq(Commands)
  BY TypedAt
<1>2. lines \in Seq(Commands) /\ Tail(queue[s]) \in Seq(Commands)
  BY <1>1, HeadTailProperties, AppendProperties
<1> HIDE DEF lines
<1>3. /\ file' \in [Servers -> Seq(Line)] /\ ragged' \in [Servers -> BOOLEAN]
      /\ buf' \in [Servers -> Seq(Commands)] /\ half' \in [Servers -> BOOLEAN]
      /\ half'[s] => buf'[s] # <<>>
      /\ \A r \in Servers \ {s} : /\ file'[r] = file[r] /\ ragged'[r] = ragged[r]
                                   /\ buf'[r] = buf[r] /\ half'[r] = half[r]
      /\ ragged'[s] => ragged[s] /\ (HasTorn(file[s]) => HasTorn(file'[s]))
      /\ ~ragged[s] => file'[s] \o buf'[s] = file[s] \o lines
  <2>1. Land(s, lines, n, part) /\ n \in 0 .. Len(lines) /\ (part => n < Len(lines))
    BY DEF lines
  <2>2. QED
    BY <1>2, <2>1, LandLog
<1>4. queue' \in [Servers -> Seq(Commands)] /\ isOpen' \in [Servers -> BOOLEAN]
  BY <1>2 DEF LogTypeOK
<1>5. \A r \in Servers : half'[r] => buf'[r] # <<>>
  BY <1>3 DEF LogTypeOK
<1>6. QED
  BY <1>3, <1>4, <1>5 DEF LogTypeOK

LEMMA GiveUpTypes ==
  ASSUME LogTypeOK, NEW s \in Servers, queue[s] # <<>>,
         queue' = [queue EXCEPT ![s] = Tail(@)],
         stopped' = [stopped EXCEPT ![s] = TRUE],
         dropped' = [dropped EXCEPT ![s] = <<Head(queue[s])>>],
         UNCHANGED <<up, mem, issued, crashes, isOpen, buf, half, file, ragged>>
  PROVE  LogTypeOK'
<1>1. /\ Head(queue[s]) \in Commands
      /\ Tail(queue[s]) \in Seq(Commands) /\ <<Head(queue[s])>> \in Seq(Commands)
  BY TypedAt, HeadTailProperties
<1>2. queue' \in [Servers -> Seq(Commands)] /\ stopped' \in [Servers -> BOOLEAN]
  BY <1>1 DEF LogTypeOK
<1>3. dropped' \in [Servers -> Seq(Commands)]
  BY <1>1 DEF LogTypeOK
<1>4. QED
  BY <1>2, <1>3 DEF LogTypeOK

\* The ways a line goes that the append thread has taken off its queue.
LEMMA WriteLineCases ==
  ASSUME LogTypeOK, NEW s \in Servers, WriteLine(s)
  PROVE  /\ s \in up /\ ~stopped[s] /\ queue[s] # <<>>
         /\ queue' = [queue EXCEPT ![s] = Tail(@)]
         /\ UNCHANGED <<up, mem, issued, crashes>>
         /\ \/ /\ isOpen' = [isOpen EXCEPT ![s] = TRUE]
               /\ \E n \in 0 .. Len(Append(buf[s], Head(queue[s]))), part \in BOOLEAN :
                    /\ part => n < Len(Append(buf[s], Head(queue[s])))
                    /\ Land(s, Append(buf[s], Head(queue[s])), n, part)
               /\ UNCHANGED <<stopped, dropped>>
            \/ /\ stopped' = [stopped EXCEPT ![s] = TRUE]
               /\ dropped' = [dropped EXCEPT ![s] = <<Head(queue[s])>>]
               /\ UNCHANGED <<isOpen, buf, half, file, ragged>>
<1> DEFINE lines == Append(buf[s], Head(queue[s]))
<1>1. /\ s \in up /\ ~stopped[s] /\ queue[s] # <<>>
      /\ queue' = [queue EXCEPT ![s] = Tail(@)]
      /\ UNCHANGED <<up, mem, issued, crashes>>
  BY DEF WriteLine
<1>2. Len(lines) \in Nat \ {0}
  <2>1. queue[s] \in Seq(Commands) /\ buf[s] \in Seq(Commands)
    BY TypedAt
  <2>2. Head(queue[s]) \in Commands
    BY <1>1, <2>1, HeadTailProperties
  <2>3. Len(buf[s]) \in Nat /\ Len(lines) = Len(buf[s]) + 1
    BY <2>1, <2>2, LenProperties, AppendProperties
  <2>4. QED
    BY <2>3
<1>3. half[s] \in BOOLEAN
  BY DEF LogTypeOK
<1>4. \/ /\ isOpen' = [isOpen EXCEPT ![s] = TRUE]
         /\ \/ Land(s, lines, 0, half[s])
            \/ \E part \in BOOLEAN : Land(s, lines, Len(lines) - 1, part)
            \/ Land(s, lines, Len(lines), FALSE)
         /\ UNCHANGED <<stopped, dropped>>
      \/ /\ stopped' = [stopped EXCEPT ![s] = TRUE]
         /\ dropped' = [dropped EXCEPT ![s] = <<Head(queue[s])>>]
         /\ UNCHANGED <<isOpen, buf, half, file, ragged>>
  BY DEF WriteLine
<1> HIDE DEF lines
<1>5. ASSUME \/ Land(s, lines, 0, half[s])
             \/ \E part \in BOOLEAN : Land(s, lines, Len(lines) - 1, part)
             \/ Land(s, lines, Len(lines), FALSE)
      PROVE  \E n \in 0 .. Len(lines), part \in BOOLEAN :
               (part => n < Len(lines)) /\ Land(s, lines, n, part)
  <2>1. /\ 0 \in 0 .. Len(lines) /\ 0 < Len(lines)
        /\ Len(lines) - 1 \in 0 .. Len(lines) /\ Len(lines) - 1 < Len(lines)
        /\ Len(lines) \in 0 .. Len(lines) /\ FALSE \in BOOLEAN
    BY <1>2
  <2>2. QED
    BY <1>3, <1>5, <2>1, Zenon
<1>6. QED
  BY <1>1, <1>4, <1>5, Zenon DEF lines

LEMMA WriteLineTypes ==
  ASSUME LogTypeOK, NEW s \in Servers, WriteLine(s)
  PROVE  LogTypeOK'
BY WriteLineCases, WriteTypes, GiveUpTypes

LEMMA CloseFileTypes ==
  ASSUME LogTypeOK, NEW s \in Servers, CloseFile(s)
  PROVE  LogTypeOK'
<1>1. /\ isOpen' = [isOpen EXCEPT ![s] = FALSE]
      /\ Land(s, buf[s], Len(buf[s]), FALSE)
      /\ UNCHANGED <<up, mem, queue, stopped, dropped, issued, crashes>>
  BY DEF CloseFile
<1>2. buf[s] \in Seq(Commands) /\ Len(buf[s]) \in 0 .. Len(buf[s])
  <2>1. buf[s] \in Seq(Commands)
    BY TypedAt
  <2>2. Len(buf[s]) \in Nat
    BY <2>1, LenProperties
  <2>3. QED
    BY <2>1, <2>2
<1>3. /\ file' \in [Servers -> Seq(Line)] /\ ragged' \in [Servers -> BOOLEAN]
      /\ buf' \in [Servers -> Seq(Commands)] /\ half' \in [Servers -> BOOLEAN]
      /\ half'[s] => buf'[s] # <<>>
      /\ \A r \in Servers \ {s} : buf'[r] = buf[r] /\ half'[r] = half[r]
  BY <1>1, <1>2, LandLog
<1>4. isOpen' \in [Servers -> BOOLEAN] /\ \A r \in Servers : half'[r] => buf'[r] # <<>>
  BY <1>1, <1>3 DEF LogTypeOK
<1>5. QED
  BY <1>1, <1>3, <1>4 DEF LogTypeOK

LEMMA CrashTypes ==
  ASSUME LogTypeOK, NEW s \in Servers, Crash(s)
  PROVE  LogTypeOK'
<1>1. /\ crashes' = [crashes EXCEPT ![s] = @ + 1]
      /\ up' = up \ {s}
      /\ queue' = [queue EXCEPT ![s] = <<>>]
      /\ buf' = [buf EXCEPT ![s] = <<>>]
      /\ half' = [half EXCEPT ![s] = FALSE]
      /\ isOpen' = [isOpen EXCEPT ![s] = FALSE]
      /\ file' = IF half[s] /\ ~ragged[s] THEN [file EXCEPT ![s] = Append(@, Torn)] ELSE file
      /\ ragged' = [ragged EXCEPT ![s] = @ \/ half[s]]
      /\ UNCHANGED <<mem, stopped, dropped, issued>>
  BY DEF Crash
<1>2. Append(file[s], Torn) \in Seq(Line)
  BY TypedAt, TornAppended
<1>3. /\ queue' \in [Servers -> Seq(Commands)] /\ buf' \in [Servers -> Seq(Commands)]
      /\ half' \in [Servers -> BOOLEAN] /\ isOpen' \in [Servers -> BOOLEAN]
      /\ crashes' \in [Servers -> Nat] /\ up' \subseteq Servers
  BY <1>1, EmptySeq DEF LogTypeOK
<1>4. file' \in [Servers -> Seq(Line)] /\ ragged' \in [Servers -> BOOLEAN]
  BY <1>1, <1>2 DEF LogTypeOK
<1>5. \A r \in Servers : half'[r] => buf'[r] # <<>>
  BY <1>1 DEF LogTypeOK
<1>6. QED
  BY <1>1, <1>3, <1>4, <1>5 DEF LogTypeOK

LEMMA RestartTypes ==
  ASSUME LogTypeOK, NEW s \in Servers, Restart(s)
  PROVE  LogTypeOK'
<1>1. /\ up' = up \cup {s}
      /\ mem' = [mem EXCEPT ![s] = file[s]]
      /\ stopped' = [stopped EXCEPT ![s] = FALSE]
      /\ dropped' = [dropped EXCEPT ![s] = <<>>]
      /\ UNCHANGED <<queue, isOpen, buf, half, file, ragged, issued, crashes>>
  BY DEF Restart
<1>2. file[s] \in Seq(Line) /\ <<>> \in Seq(Commands)
  BY TypedAt, EmptySeq
<1>3. /\ mem' \in [Servers -> Seq(Line)] /\ stopped' \in [Servers -> BOOLEAN]
      /\ dropped' \in [Servers -> Seq(Commands)] /\ up' \subseteq Servers
  BY <1>1, <1>2 DEF LogTypeOK
<1>4. QED
  BY <1>1, <1>3 DEF LogTypeOK

-----------------------------------------------------------------------------
(* Every action keeps the invariant.                                       *)

LEMMA ExecutePreserves ==
  ASSUME IInv, NEW s \in Servers, Execute(s)
  PROVE  IInv'
<1> DEFINE c == <<s, issued[s] + 1>>
<1>1. /\ LogTypeOK /\ ServerOK(s) /\ s \in up
      /\ issued' = [issued EXCEPT ![s] = @ + 1]
      /\ mem' = [mem EXCEPT ![s] = Append(@, c)]
      /\ queue' = [queue EXCEPT ![s] = Append(@, c)]
      /\ UNCHANGED <<up, isOpen, buf, half, file, ragged, stopped, dropped, crashes>>
  BY DEF IInv, Execute, Do, LogTypeOK
<1>2. issued[s] \in Nat /\ c \in Commands /\ c \in Line
  BY <1>1 DEF LogTypeOK, Commands, Line
<1> HIDE DEF c
<1>3. /\ mem[s] \in Seq(Line) /\ file[s] \in Seq(Line)
      /\ queue[s] \in Seq(Commands) /\ queue[s] \in Seq(Line)
      /\ buf[s] \in Seq(Line) /\ dropped[s] \in Seq(Line)
  BY <1>1, TypedAt
<1>5. LogTypeOK'
  BY <1>1, ExecuteTypes
<1>6. mem'[s] = Append(mem[s], c) /\ queue'[s] = Append(queue[s], c)
  BY <1>1 DEF LogTypeOK
<1>7. IsTorn(s) => IsTorn(s)'
  BY <1>2, <1>3, <1>6, TornStaysAppend DEF IsTorn, HasTorn
<1>8. ~IsTorn(s) => mem'[s] = file[s] \o buf[s] \o dropped[s] \o queue'[s]
  <2> DEFINE logged == file[s] \o buf[s] \o dropped[s]
  <2>1. logged \in Seq(Line)
    BY <1>3, ConcatProperties
  <2>2. ~IsTorn(s) => mem[s] = logged \o queue[s]
    BY <1>1 DEF ServerOK
  <2> HIDE DEF logged
  <2>3. Append(logged \o queue[s], c) = logged \o Append(queue[s], c)
    BY <1>2, <1>3, <2>1, LinesConcat, Zenon
  <2>4. QED
    BY <1>6, <2>2, <2>3 DEF logged
<1>9. ServerOK(s)'
  BY <1>1, <1>7, <1>8 DEF ServerOK
<1>10. ASSUME NEW r \in Servers, r # s PROVE ServerOK(r)'
  <2>1. ServerOK(r) /\ mem'[r] = mem[r] /\ queue'[r] = queue[r]
    BY <1>1, <1>10 DEF IInv, LogTypeOK
  <2>2. QED
    BY <1>1, <2>1, OthersKeep
<1>11. QED
  BY <1>5, <1>9, <1>10 DEF IInv

\* The branch of WriteLine that has the file open.
LEMMA WritePreserves ==
  ASSUME IInv, NEW s \in Servers, s \in up, ~stopped[s], queue[s] # <<>>,
         queue' = [queue EXCEPT ![s] = Tail(@)],
         isOpen' = [isOpen EXCEPT ![s] = TRUE],
         NEW n \in 0 .. Len(Append(buf[s], Head(queue[s]))), NEW part \in BOOLEAN,
         part => n < Len(Append(buf[s], Head(queue[s]))),
         Land(s, Append(buf[s], Head(queue[s])), n, part),
         UNCHANGED <<up, mem, issued, crashes, stopped, dropped>>
  PROVE  IInv'
<1> DEFINE line  == Head(queue[s])
           lines == Append(buf[s], line)
<1>1. LogTypeOK /\ ServerOK(s)
  BY DEF IInv
<1>2. /\ mem[s] \in Seq(Line) /\ file[s] \in Seq(Line)
      /\ queue[s] \in Seq(Commands) /\ queue[s] \in Seq(Line)
      /\ buf[s] \in Seq(Commands) /\ buf[s] \in Seq(Line) /\ dropped[s] = <<>>
  BY <1>1, TypedAt DEF ServerOK
<1>3. /\ line \in Commands /\ line \in Line
      /\ Tail(queue[s]) \in Seq(Commands) /\ Tail(queue[s]) \in Seq(Line)
      /\ lines \in Seq(Commands) /\ lines \in Seq(Line)
  BY <1>2, HeadTailProperties, AppendProperties
<1> HIDE DEF line, lines
<1>4. /\ file' \in [Servers -> Seq(Line)] /\ ragged' \in [Servers -> BOOLEAN]
      /\ buf' \in [Servers -> Seq(Commands)] /\ half' \in [Servers -> BOOLEAN]
      /\ half'[s] => buf'[s] # <<>>
      /\ \A r \in Servers \ {s} : /\ file'[r] = file[r] /\ ragged'[r] = ragged[r]
                                   /\ buf'[r] = buf[r] /\ half'[r] = half[r]
      /\ ragged'[s] => ragged[s] /\ (HasTorn(file[s]) => HasTorn(file'[s]))
      /\ ~ragged[s] => file'[s] \o buf'[s] = file[s] \o lines
  <2>1. Land(s, lines, n, part) /\ n \in 0 .. Len(lines) /\ (part => n < Len(lines))
    BY DEF lines, line
  <2>2. QED
    BY <1>1, <1>3, <2>1, LandLog
<1>5. LogTypeOK'
  BY <1>1, WriteTypes
<1>6. queue'[s] = Tail(queue[s])
  BY <1>1 DEF LogTypeOK
<1>7. IsTorn(s)' <=> IsTorn(s)
  BY DEF IsTorn
<1>8. ASSUME ~IsTorn(s)
      PROVE  mem'[s] = file'[s] \o buf'[s] \o dropped'[s] \o queue'[s]
  <2>1. mem[s] = file[s] \o buf[s] \o dropped[s] \o queue[s] /\ ~ragged[s]
    BY <1>1, <1>8 DEF ServerOK
  <2>2. file[s] \o buf[s] \in Seq(Line) /\ file'[s] \o buf'[s] = file[s] \o lines
    BY <1>2, <1>4, <2>1, ConcatProperties
  <2>3. mem[s] = (file[s] \o buf[s]) \o queue[s]
    BY <1>2, <2>1, <2>2, ConcatEmptySeq
  <2>4. (file[s] \o buf[s]) \o queue[s] = Append(file[s] \o buf[s], line) \o Tail(queue[s])
    BY <1>2, <2>2, MoveHead DEF line
  <2>5. Append(file[s] \o buf[s], line) = file[s] \o lines
    BY <1>2, <1>3, LinesConcat, Zenon DEF lines
  <2>6. (file[s] \o lines) \o <<>> = file[s] \o lines
    BY <1>2, <1>3, ConcatProperties, ConcatEmptySeq
  <2>7. QED
    BY <1>2, <1>6, <2>2, <2>3, <2>4, <2>5, <2>6
<1>9. ServerOK(s)'
  BY <1>1, <1>4, <1>7, <1>8 DEF ServerOK
<1>10. ASSUME NEW r \in Servers, r # s PROVE ServerOK(r)'
  <2>1. ServerOK(r) /\ queue'[r] = queue[r]
    BY <1>1, <1>10 DEF IInv, LogTypeOK
  <2>2. QED
    BY <1>4, <1>10, <2>1, OthersKeep
<1>11. QED
  BY <1>5, <1>9, <1>10 DEF IInv

\* The branch of WriteLine that cannot open the file: the line it took is kept
\* apart, between what is buffered and what is queued.
LEMMA GiveUpPreserves ==
  ASSUME IInv, NEW s \in Servers, s \in up, ~stopped[s], queue[s] # <<>>,
         queue' = [queue EXCEPT ![s] = Tail(@)],
         stopped' = [stopped EXCEPT ![s] = TRUE],
         dropped' = [dropped EXCEPT ![s] = <<Head(queue[s])>>],
         UNCHANGED <<up, mem, issued, crashes, isOpen, buf, half, file, ragged>>
  PROVE  IInv'
<1> DEFINE line == Head(queue[s])
<1>1. LogTypeOK /\ ServerOK(s)
  BY DEF IInv
<1>2. /\ mem[s] \in Seq(Line) /\ file[s] \in Seq(Line)
      /\ queue[s] \in Seq(Commands) /\ queue[s] \in Seq(Line)
      /\ buf[s] \in Seq(Line) /\ dropped[s] = <<>>
  BY <1>1, TypedAt DEF ServerOK
<1>3. /\ line \in Commands /\ line \in Line
      /\ Tail(queue[s]) \in Seq(Commands) /\ <<line>> \in Seq(Commands)
  BY <1>2, HeadTailProperties DEF Line
<1> HIDE DEF line
<1>4. LogTypeOK'
  BY <1>1, GiveUpTypes
<1>5. queue'[s] = Tail(queue[s]) /\ dropped'[s] = <<line>> /\ stopped'[s]
  BY <1>1 DEF LogTypeOK, line
<1>6. IsTorn(s)' <=> IsTorn(s)
  BY DEF IsTorn
<1>7. ASSUME ~IsTorn(s)
      PROVE  mem'[s] = file'[s] \o buf'[s] \o dropped'[s] \o queue'[s]
  <2> DEFINE a == file[s] \o buf[s]
  <2>1. mem[s] = a \o dropped[s] \o queue[s]
    BY <1>1, <1>7 DEF ServerOK
  <2>2. a \in Seq(Line)
    BY <1>2, ConcatProperties
  <2> HIDE DEF a
  <2>3. mem[s] = a \o queue[s]
    BY <1>2, <2>1, <2>2, ConcatEmptySeq
  <2>4. a \o queue[s] = Append(a, line) \o Tail(queue[s])
    BY <1>2, <2>2, MoveHead DEF line
  <2>5. Append(a, line) = a \o <<line>>
    BY <1>3, <2>2, AppendIsConcat
  <2>6. file'[s] \o buf'[s] = a
    BY DEF a
  <2>7. QED
    BY <1>5, <2>3, <2>4, <2>5, <2>6
<1>8. ServerOK(s)'
  BY <1>1, <1>5, <1>6, <1>7 DEF ServerOK
<1>9. ASSUME NEW r \in Servers, r # s PROVE ServerOK(r)'
  <2>1. /\ ServerOK(r) /\ queue'[r] = queue[r]
        /\ stopped'[r] = stopped[r] /\ dropped'[r] = dropped[r]
    BY <1>1, <1>9 DEF IInv, LogTypeOK
  <2>2. QED
    BY <2>1, OthersKeep
<1>10. QED
  BY <1>4, <1>8, <1>9 DEF IInv

LEMMA WriteLinePreserves ==
  ASSUME IInv, NEW s \in Servers, WriteLine(s)
  PROVE  IInv'
BY WriteLineCases, WritePreserves, GiveUpPreserves DEF IInv

LEMMA CloseFilePreserves ==
  ASSUME IInv, NEW s \in Servers, CloseFile(s)
  PROVE  IInv'
<1>1. /\ LogTypeOK /\ ServerOK(s) /\ s \in up /\ ~stopped[s] /\ queue[s] = <<>>
      /\ isOpen' = [isOpen EXCEPT ![s] = FALSE]
      /\ Land(s, buf[s], Len(buf[s]), FALSE)
      /\ UNCHANGED <<up, mem, queue, stopped, dropped, issued, crashes>>
  BY DEF IInv, CloseFile
<1>2. buf[s] \in Seq(Commands) /\ Len(buf[s]) \in 0 .. Len(buf[s])
  <2>1. buf[s] \in Seq(Commands)
    BY <1>1, TypedAt
  <2>2. Len(buf[s]) \in Nat
    BY <2>1, LenProperties
  <2>3. QED
    BY <2>1, <2>2
<1>3. /\ file' \in [Servers -> Seq(Line)] /\ ragged' \in [Servers -> BOOLEAN]
      /\ buf' \in [Servers -> Seq(Commands)] /\ half' \in [Servers -> BOOLEAN]
      /\ half'[s] => buf'[s] # <<>>
      /\ \A r \in Servers \ {s} : /\ file'[r] = file[r] /\ ragged'[r] = ragged[r]
                                   /\ buf'[r] = buf[r] /\ half'[r] = half[r]
      /\ ragged'[s] => ragged[s] /\ (HasTorn(file[s]) => HasTorn(file'[s]))
      /\ ~ragged[s] => file'[s] \o buf'[s] = file[s] \o buf[s]
  BY <1>1, <1>2, LandLog
<1>4. LogTypeOK'
  BY <1>1, CloseFileTypes
<1>5. IsTorn(s)' <=> IsTorn(s)
  BY <1>1 DEF IsTorn
<1>6. ServerOK(s)'
  <2>1. IsTorn(s) \/ mem'[s] = file'[s] \o buf'[s] \o dropped'[s] \o queue'[s]
    BY <1>1, <1>3 DEF ServerOK
  <2>2. QED
    BY <1>1, <1>3, <1>5, <2>1 DEF ServerOK
<1>7. ASSUME NEW r \in Servers, r # s PROVE ServerOK(r)'
  BY <1>1, <1>3, <1>7, OthersKeep DEF IInv
<1>8. QED
  BY <1>4, <1>6, <1>7 DEF IInv

\* What the file is left with is a beginning of what the memory held.
LEMMA CrashPreserves ==
  ASSUME IInv, NEW s \in Servers, Crash(s)
  PROVE  IInv'
<1>1. /\ LogTypeOK /\ ServerOK(s) /\ s \in up
      /\ crashes' = [crashes EXCEPT ![s] = @ + 1]
      /\ up' = up \ {s}
      /\ queue' = [queue EXCEPT ![s] = <<>>]
      /\ buf' = [buf EXCEPT ![s] = <<>>]
      /\ half' = [half EXCEPT ![s] = FALSE]
      /\ isOpen' = [isOpen EXCEPT ![s] = FALSE]
      /\ file' = IF half[s] /\ ~ragged[s] THEN [file EXCEPT ![s] = Append(@, Torn)] ELSE file
      /\ ragged' = [ragged EXCEPT ![s] = @ \/ half[s]]
      /\ UNCHANGED <<mem, stopped, dropped, issued>>
  BY DEF IInv, Crash
<1>2. /\ mem[s] \in Seq(Line) /\ file[s] \in Seq(Line)
      /\ queue[s] \in Seq(Line) /\ buf[s] \in Seq(Line) /\ dropped[s] \in Seq(Line)
  BY <1>1, TypedAt
<1>3. Append(file[s], Torn) \in Seq(Line) /\ HasTorn(Append(file[s], Torn))
  BY <1>2, TornAppended
<1>4. LogTypeOK'
  BY <1>1, CrashTypes
<1>5. /\ s \notin up' /\ queue'[s] = <<>> /\ buf'[s] = <<>>
      /\ file'[s] = IF half[s] /\ ~ragged[s] THEN Append(file[s], Torn) ELSE file[s]
      /\ ragged'[s] = (ragged[s] \/ half[s])
  BY <1>1 DEF LogTypeOK
<1>6. IsTorn(s)' <=> IsTorn(s)
  BY <1>1 DEF IsTorn
<1>7. ASSUME ~IsTorn(s) PROVE LostTail(mem[s], file'[s])
  <2> DEFINE kept == dropped[s] \o queue[s]
             rest == buf[s] \o kept
  <2>1. mem[s] = file[s] \o buf[s] \o dropped[s] \o queue[s]
    BY <1>1, <1>7 DEF ServerOK
  <2>2. file[s] \o buf[s] \in Seq(Line) /\ kept \in Seq(Line)
    BY <1>2, ConcatProperties
  <2>3. mem[s] = (file[s] \o buf[s]) \o kept
    BY <1>2, <2>1, <2>2, LinesConcat, Zenon
  <2> HIDE DEF kept
  <2>4. mem[s] = file[s] \o rest
    <3>1. (file[s] \o buf[s]) \o kept = file[s] \o (buf[s] \o kept)
      <4>1. file[s] \in Seq(Line) /\ buf[s] \in Seq(Line) /\ kept \in Seq(Line)
        BY <1>2, <2>2
      <4>2. QED
        BY <4>1, LinesConcat, Zenon
    <3>2. QED
      BY <2>3, <3>1
  <2>5. rest \in Seq(Line)
    BY <1>2, <2>2, ConcatProperties
  <2> HIDE DEF rest
  <2>6. Len(file[s]) \in 0 .. Len(mem[s]) /\ SubSeq(mem[s], 1, Len(file[s])) = file[s]
    BY <1>2, <2>4, <2>5, Beginning
  <2>7. file'[s] \in {file[s], Append(file[s], Torn)}
    BY <1>5
  <2>8. QED
    BY <2>6, <2>7 DEF LostTail
<1>8. ragged'[s] => HasTorn(file'[s])
  BY <1>1, <1>3, <1>5 DEF ServerOK
<1>9. ServerOK(s)'
  BY <1>1, <1>5, <1>6, <1>7, <1>8 DEF ServerOK
<1>10. ASSUME NEW r \in Servers, r # s PROVE ServerOK(r)'
  <2>1. /\ ServerOK(r) /\ (r \in up' <=> r \in up) /\ queue'[r] = queue[r] /\ buf'[r] = buf[r]
        /\ file'[r] = file[r] /\ ragged'[r] = ragged[r]
    BY <1>1, <1>10 DEF IInv, LogTypeOK
  <2>2. QED
    BY <1>1, <2>1, OthersKeep
<1>11. QED
  BY <1>4, <1>9, <1>10 DEF IInv

LEMMA RestartPreserves ==
  ASSUME IInv, NEW s \in Servers, Restart(s)
  PROVE  IInv'
<1>1. /\ LogTypeOK /\ ServerOK(s) /\ s \notin up
      /\ up' = up \cup {s}
      /\ mem' = [mem EXCEPT ![s] = file[s]]
      /\ stopped' = [stopped EXCEPT ![s] = FALSE]
      /\ dropped' = [dropped EXCEPT ![s] = <<>>]
      /\ UNCHANGED <<queue, isOpen, buf, half, file, ragged, issued, crashes>>
  BY DEF IInv, Restart
<1>2. file[s] \in Seq(Line) /\ <<>> \in Seq(Commands)
  BY <1>1, TypedAt, EmptySeq
<1>3. LogTypeOK'
  BY <1>1, RestartTypes
<1>4. mem'[s] = file[s] /\ dropped'[s] = <<>> /\ buf[s] = <<>> /\ queue[s] = <<>>
  BY <1>1 DEF LogTypeOK, ServerOK
<1>5. file[s] \o <<>> = file[s]
  BY <1>2, ConcatEmptySeq
<1>6. ragged[s] => IsTorn(s)'
  BY <1>1, <1>4 DEF ServerOK, IsTorn, HasTorn
<1>7. ServerOK(s)'
  BY <1>1, <1>4, <1>5, <1>6 DEF ServerOK
<1>8. ASSUME NEW r \in Servers, r # s PROVE ServerOK(r)'
  <2>1. /\ ServerOK(r) /\ (r \in up' <=> r \in up) /\ mem'[r] = mem[r]
        /\ stopped'[r] = stopped[r] /\ dropped'[r] = dropped[r]
    BY <1>1, <1>8 DEF IInv, LogTypeOK
  <2>2. QED
    BY <1>1, <2>1, OthersKeep
<1>9. QED
  BY <1>3, <1>7, <1>8 DEF IInv

LEMMA InitEstablishes == InitLog => IInv
<1> SUFFICES ASSUME InitLog PROVE IInv
  OBVIOUS
<1>1. LogTypeOK
  BY EmptySeq DEF InitLog, LogTypeOK
<1>2. <<>> \o <<>> = <<>>
  BY EmptySeq, ConcatEmptySeq
<1>3. ASSUME NEW s \in Servers PROVE ServerOK(s)
  BY <1>2 DEF InitLog, ServerOK
<1>4. QED
  BY <1>1, <1>3 DEF IInv

LEMMA NextPreserves == IInv /\ [LogNext]_logVars => IInv'
<1> SUFFICES ASSUME IInv, [LogNext]_logVars PROVE IInv'
  OBVIOUS
<1>1. CASE UNCHANGED logVars
  BY <1>1 DEF logVars, IInv, LogTypeOK, ServerOK, IsTorn, LostTail, HasTorn
<1>2. ASSUME NEW s \in Servers, Execute(s) \/ AppendThread(s) \/ Crash(s) \/ Restart(s)
      PROVE  IInv'
  <2>1. CASE Execute(s)
    BY <2>1, ExecutePreserves
  <2>2. CASE WriteLine(s)
    BY <2>2, WriteLinePreserves
  <2>3. CASE CloseFile(s)
    BY <2>3, CloseFilePreserves
  <2>4. CASE Crash(s)
    BY <2>4, CrashPreserves
  <2>5. CASE Restart(s)
    BY <2>5, RestartPreserves
  <2>6. QED
    BY <1>2, <2>1, <2>2, <2>3, <2>4, <2>5 DEF AppendThread
<1>3. QED
  BY <1>1, <1>2 DEF LogNext

LEMMA Inductive == LogSpec => []IInv
  BY InitEstablishes, NextPreserves, PTL DEF LogSpec

-----------------------------------------------------------------------------
(* The theorems.                                                           *)

\* A line waits in the buffer when the file holds a part of it, and every log
\* holds lines, whatever is written, closed, crashed and restarted.
THEOREM TypeCorrect == LogSpec => []LogTypeOK
<1>1. IInv => LogTypeOK
  BY DEF IInv
<1>2. QED
  BY <1>1, Inductive, PTL

\* A server's memory is its file, then its buffer, then the line the append
\* thread gave up with, then its queue: DataSpace::Operation, WriteAppendFile and
\* LoadAppendFile between them repeat, reorder and invent nothing.
THEOREM LogIsMemory == LogSpec => []MemoryIsLogged
<1>1. IInv => MemoryIsLogged
  BY DEF IInv, LogTypeOK, ServerOK, MemoryIsLogged
<1>2. QED
  BY <1>1, Inductive, PTL

\* LoadAppendFile rebuilds what the memory held some commands before the crash,
\* but for a line that the crash cut short.
THEOREM RestartLosesOnlyTheTail == LogSpec => RestartLosesOnlyTail
<1>1. ASSUME IInv, [LogNext]_logVars, NEW s \in up' \ up, ~IsTorn(s)
      PROVE  \E n \in 0 .. Len(mem[s]) :
               mem'[s] \in {SubSeq(mem[s], 1, n), Append(SubSeq(mem[s], 1, n), Torn)}
  <2>1. PICK r \in Servers : Restart(r)
    BY <1>1 DEF LogNext, logVars, AppendThread, Execute, WriteLine, CloseFile, Crash
  <2>2. r = s /\ s \in Servers /\ mem'[s] = file[s]
    BY <1>1, <2>1 DEF Restart, IInv, LogTypeOK
  <2>3. LostTail(mem[s], file[s])
    BY <1>1, <2>2 DEF IInv, ServerOK
  <2>4. QED
    BY <2>2, <2>3 DEF LostTail
<1>2. IInv /\ [LogNext]_logVars =>
        [\A s \in up' \ up : ~IsTorn(s) =>
           \E n \in 0 .. Len(mem[s]) :
             mem'[s] \in {SubSeq(mem[s], 1, n), Append(SubSeq(mem[s], 1, n), Torn)}]_logVars
  BY <1>1
<1>3. QED
  BY <1>2, Inductive, PTL DEF LogSpec, RestartLosesOnlyTail
=============================================================================
