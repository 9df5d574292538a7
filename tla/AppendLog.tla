----------------------------- MODULE AppendLog -----------------------------
(***************************************************************************)
(* The append file of a server: DataSpace::Operation puts a line on the    *)
(* append queue for every command it carries out, the append thread writes *)
(* the lines to the file through a stdio buffer, and a server that starts  *)
(* replays the file.                                                       *)
(*                                                                         *)
(* A command is <<s, n>>: the n-th one that clients gave server s.  What a *)
(* server's memory holds is the sequence of the commands it has carried    *)
(* out since it started, for pushes and pops neither commute nor repeat    *)
(* (DataSpace has the commands themselves).  The queue is a FIFO here;     *)
(* LockFreeQueue says when it is one.                                      *)
(***************************************************************************)
EXTENDS Integers, Sequences

CONSTANTS
  Servers,
  Torn,       \* a line a crash has cut short, whatever it is taken for
  MaxIssued,  \* bound: commands clients give each server
  MaxCrashes  \* bound: crashes of each server

ASSUME AppendLogAssumption ==
  /\ MaxIssued \in [Servers -> Nat]
  /\ MaxCrashes \in [Servers -> Nat]
  /\ Torn \notin Servers \X Nat

VARIABLES
  up,       \* servers whose process runs
  mem,      \* per server: the commands whose effects its memory holds, in order
  queue,    \* m_afDataQueue: lines waiting for the append thread
  isOpen,   \* m_fpAppendfile # NULL
  buf,      \* lines in the stdio buffer, not yet or not wholly in the file
  half,     \* the first of them is partly in the file
  file,     \* lines of the append file
  ragged,   \* its last line has no newline: the process died within it
  stopped,  \* the append thread has returned
  dropped,  \* the line it held when it returned
  issued,   \* commands that clients gave the server
  crashes   \* crashes of the server

logVars == <<up, mem, queue, isOpen, buf, half, file, ragged, stopped, dropped,
             issued, crashes>>

Commands == Servers \X Nat
Line == Commands \cup {Torn}

-----------------------------------------------------------------------------

MutDo(s, c, ops) ==
  /\ mem' = [mem EXCEPT ![s] = Append(@, c)]
  /\ queue' = IF ops THEN [queue EXCEPT ![s] = <<c>> \o @] ELSE queue

\* A DataSpace command carried out: its effect and, with ops, its line.
Do(s, c, ops) ==
  /\ mem' = [mem EXCEPT ![s] = Append(@, c)]
  /\ queue' = IF ops THEN [queue EXCEPT ![s] = Append(@, c)] ELSE queue

\* A client's command that succeeds.
Execute(s) ==
  /\ s \in up /\ issued[s] < MaxIssued[s]
  /\ issued' = [issued EXCEPT ![s] = @ + 1]
  /\ Do(s, <<s, issued'[s]>>, TRUE)
  /\ UNCHANGED <<up, isOpen, buf, half, file, ragged, stopped, dropped, crashes>>

MutLand(s, lines, n, part) ==
  /\ file' = [file EXCEPT ![s] = @ \o SubSeq(lines, 1, n)]
  /\ buf' = [buf EXCEPT ![s] = SubSeq(lines, n + 1, Len(lines))]
  /\ half' = [half EXCEPT ![s] = @ \/ part]
  /\ UNCHANGED ragged

\* n lines leave the buffer for the file, and with part the beginning of the
\* next one.  The first of them completes a line that a crash left unfinished.
Land(s, lines, n, part) ==
  LET landing == SubSeq(lines, 1, n)
      swallow == ragged[s] /\ n > 0
  IN  /\ file' = [file EXCEPT ![s] = @ \o IF swallow THEN Tail(landing) ELSE landing]
      /\ ragged' = [ragged EXCEPT ![s] = @ /\ ~swallow]
      /\ buf' = [buf EXCEPT ![s] = SubSeq(lines, n + 1, Len(lines))]
      /\ half' = [half EXCEPT ![s] = part]

MutWriteLine(s) ==
  /\ s \in up /\ ~stopped[s] /\ queue[s] # <<>>
  /\ queue' = [queue EXCEPT ![s] = Tail(@)]
  /\ buf' = [buf EXCEPT ![s] = Append(@, Head(queue[s]))]
  /\ isOpen' = [isOpen EXCEPT ![s] = TRUE]
  /\ file' = IF isOpen[s] THEN file ELSE [file EXCEPT ![s] = <<>>]
  /\ UNCHANGED <<up, mem, half, ragged, stopped, dropped, issued, crashes>>

\* The append thread takes a line and WriteAppendFile prints it: into the
\* buffer, which when it fills up goes to the file with as much of this line
\* as fits.  When the file cannot be opened the line is lost and the thread ends.
WriteLine(s) ==
  /\ s \in up /\ ~stopped[s] /\ queue[s] # <<>>
  /\ queue' = [queue EXCEPT ![s] = Tail(@)]
  /\ LET line  == Head(queue[s])
         lines == Append(buf[s], line)
         last  == Len(lines)
     IN  \/ /\ isOpen' = [isOpen EXCEPT ![s] = TRUE]
            /\ \/ Land(s, lines, 0, half[s])
               \/ \E part \in BOOLEAN : Land(s, lines, last - 1, part)
               \/ Land(s, lines, last, FALSE)
            /\ UNCHANGED <<stopped, dropped>>
         \/ /\ ~isOpen[s]
            /\ stopped' = [stopped EXCEPT ![s] = TRUE]
            /\ dropped' = [dropped EXCEPT ![s] = <<line>>]
            /\ UNCHANGED <<isOpen, buf, half, file, ragged>>
  /\ UNCHANGED <<up, mem, issued, crashes>>

MutCloseFile(s) ==
  /\ s \in up /\ ~stopped[s] /\ queue[s] = <<>> /\ isOpen[s]
  /\ isOpen' = [isOpen EXCEPT ![s] = FALSE]
  /\ UNCHANGED <<up, mem, queue, buf, half, file, ragged, stopped, dropped, issued, crashes>>

\* With the queue empty the append thread closes the file, which flushes it.
CloseFile(s) ==
  /\ s \in up /\ ~stopped[s] /\ queue[s] = <<>> /\ isOpen[s]
  /\ isOpen' = [isOpen EXCEPT ![s] = FALSE]
  /\ Land(s, buf[s], Len(buf[s]), FALSE)
  /\ UNCHANGED <<up, mem, queue, stopped, dropped, issued, crashes>>

\* The process ends: what is queued or buffered is gone, and a line that is
\* partly in the file stays there without its end.
Crash(s) ==
  /\ s \in up /\ crashes[s] < MaxCrashes[s]
  /\ crashes' = [crashes EXCEPT ![s] = @ + 1]
  /\ up' = up \ {s}
  /\ queue' = [queue EXCEPT ![s] = <<>>]
  /\ buf' = [buf EXCEPT ![s] = <<>>]
  /\ half' = [half EXCEPT ![s] = FALSE]
  /\ isOpen' = [isOpen EXCEPT ![s] = FALSE]
  /\ file' = IF half[s] /\ ~ragged[s] THEN [file EXCEPT ![s] = Append(@, Torn)] ELSE file
  /\ ragged' = [ragged EXCEPT ![s] = @ \/ half[s]]
  /\ UNCHANGED <<mem, stopped, dropped, issued>>

\* InitServer: LoadAppendFile replays the file without logging, then the
\* append thread starts.
Restart(s) ==
  /\ s \notin up
  /\ up' = up \cup {s}
  /\ mem' = [mem EXCEPT ![s] = file[s]]
  /\ stopped' = [stopped EXCEPT ![s] = FALSE]
  /\ dropped' = [dropped EXCEPT ![s] = <<>>]
  /\ UNCHANGED <<queue, isOpen, buf, half, file, ragged, issued, crashes>>

AppendThread(s) == WriteLine(s) \/ CloseFile(s)

InitLog ==
  /\ up = Servers
  /\ mem = [s \in Servers |-> <<>>]
  /\ queue = [s \in Servers |-> <<>>]
  /\ isOpen = [s \in Servers |-> FALSE]
  /\ buf = [s \in Servers |-> <<>>]
  /\ half = [s \in Servers |-> FALSE]
  /\ file = [s \in Servers |-> <<>>]
  /\ ragged = [s \in Servers |-> FALSE]
  /\ stopped = [s \in Servers |-> FALSE]
  /\ dropped = [s \in Servers |-> <<>>]
  /\ issued = [s \in Servers |-> 0]
  /\ crashes = [s \in Servers |-> 0]

\* A server by itself.
LogNext ==
  \E s \in Servers : Execute(s) \/ AppendThread(s) \/ Crash(s) \/ Restart(s)

LogSpec == InitLog /\ [][LogNext]_logVars

\* The append thread goes round its loop every half second.
FairLogSpec == LogSpec /\ \A s \in Servers : WF_logVars(AppendThread(s))

-----------------------------------------------------------------------------
(* Properties *)

LogTypeOK ==
  /\ up \subseteq Servers
  /\ mem \in [Servers -> Seq(Line)]
  /\ queue \in [Servers -> Seq(Commands)]
  /\ isOpen \in [Servers -> BOOLEAN]
  /\ buf \in [Servers -> Seq(Commands)]
  /\ half \in [Servers -> BOOLEAN]
  /\ file \in [Servers -> Seq(Line)]
  /\ ragged \in [Servers -> BOOLEAN]
  /\ stopped \in [Servers -> BOOLEAN]
  /\ dropped \in [Servers -> Seq(Commands)]
  /\ issued \in [Servers -> Nat]
  /\ crashes \in [Servers -> Nat]
  /\ \A s \in Servers : half[s] => buf[s] # <<>>

IsTorn(s) == \E i \in DOMAIN mem[s] : mem[s][i] = Torn

\* A server's memory is what its file, its buffer, the line the append thread
\* gave up with and its queue hold, in that order: nothing is written twice, or
\* out of order, or without having been carried out, through any crash and
\* restart that did not cut a line short.
MemoryIsLogged ==
  \A s \in up : ~IsTorn(s) => mem[s] = file[s] \o buf[s] \o dropped[s] \o queue[s]

\* A restart loses the last commands only: what the replay builds is what the
\* memory was some commands ago, but for a line cut short.
RestartLosesOnlyTail ==
  [][\A s \in up' \ up : ~IsTorn(s) =>
       \E n \in 0 .. Len(mem[s]) :
         mem'[s] \in {SubSeq(mem[s], 1, n), Append(SubSeq(mem[s], 1, n), Torn)}]_logVars

Holds(m, c) == \E i \in DOMAIN m : m[i] = c

\* A command a server has carried out reaches its file, unless the process or
\* its append thread ends first.
ReachesFile ==
  \A s \in Servers : \A n \in 1 .. MaxIssued[s] :
    (s \in up /\ Holds(mem[s], <<s, n>>))
      ~> (Holds(file[s], <<s, n>>) \/ s \notin up \/ stopped[s] \/ IsTorn(s))
=============================================================================
