----------------------------- MODULE LineSender -----------------------------
(***************************************************************************)
(* Sending lines to the pool (send_all and net_send_line of                *)
(* platform/net_posix.c) as both miners use them: the handshake's lines on *)
(* a blocking socket, then submits on a non-blocking one.  A line is its   *)
(* text and then, in a second send_all, its newline.  Either may go out in *)
(* pieces, and the kernel's send buffer may be full at any piece.          *)
(***************************************************************************)
EXTENDS Integers, Sequences, SequencesExt

CONSTANTS
    LineLen,    \* the length of a line's text
    SockBuf,    \* the bytes the kernel's send buffer holds
    HandshakeLines, \* subscribe, authorize and suggest_difficulty: 3
    MaxLines    \* bound: lines sent in one connection

ASSUME SenderAssumption ==
    /\ LineLen \in Nat \ {0}
    /\ SockBuf \in Nat \ {0}
    /\ HandshakeLines \in Nat \ {0}
    /\ MaxLines \in Nat /\ MaxLines >= HandshakeLines

\* A byte on the wire carries, as a history, which line it is of and where in
\* that line it stands; the newline stands at LineLen + 1.
Byte == (1 .. MaxLines) \X (1 .. LineLen + 1)

VARIABLES
    blocking,   \* the socket still blocks: net_set_nonblocking comes later
    line,       \* how many lines were given to net_send_line
    inCall,     \* net_send_line is running
    sent,       \* `sent' of the send_all that sends the text
    results,    \* what each finished call returned
    over,       \* the program has given the connection up
    sockbuf,    \* the kernel's send buffer
    received,   \* what the pool has read
    broken      \* the connection has failed; every send returns an error

callVars == <<line, inCall, sent, results>>
wireVars == <<sockbuf, received, broken>>
vars == <<blocking, callVars, over, wireVars>>

TypeOK ==
    /\ blocking \in BOOLEAN
    /\ line \in 0 .. MaxLines
    /\ inCall \in BOOLEAN
    /\ sent \in 0 .. LineLen
    /\ results \in Seq(BOOLEAN)
    /\ Len(results) = IF inCall THEN line - 1 ELSE line
    /\ over \in BOOLEAN
    /\ sockbuf \in Seq(Byte) /\ Len(sockbuf) <= SockBuf
    /\ received \in Seq(Byte)
    /\ broken \in BOOLEAN

Init ==
    /\ blocking = TRUE
    /\ line = 0 /\ inCall = FALSE /\ sent = 0 /\ results = <<>>
    /\ over = FALSE
    /\ sockbuf = <<>> /\ received = <<>> /\ broken = FALSE

-----------------------------------------------------------------------------
(* send_all.  As in EspMiner, an operator named Bug... is a plausible      *)
(* mistake in the operator that follows it.                                *)

\* The text the loop has not sent: strlen(line) - sent.
TextLeft == LineLen - sent

\* The k bytes from data + sent on.
BugFromStart(k) == [i \in 1 .. k |-> <<line, i>>]
Piece(k) == [i \in 1 .. k |-> <<line, sent + i>>]

Room == SockBuf - Len(sockbuf)

\* send returns EAGAIN, which send_all takes for an error like any other.
BugTryAgain == FALSE
WouldBlock == ~blocking /\ Room = 0

BugErrorIgnored(ok) == results' = Append(results, TRUE)
Returned(ok) == results' = Append(results, ok)

SendText ==
    /\ inCall /\ ~broken
    /\ \E k \in 1 .. TextLeft :
          /\ k <= Room
          /\ sockbuf' = sockbuf \o Piece(k)
          /\ sent' = sent + k
    /\ UNCHANGED <<blocking, line, inCall, results, over, received, broken>>

SendNewline ==
    /\ inCall /\ ~broken
    /\ TextLeft = 0 /\ Room > 0
    /\ sockbuf' = Append(sockbuf, <<line, LineLen + 1>>)
    /\ inCall' = FALSE
    /\ Returned(TRUE)
    /\ UNCHANGED <<blocking, line, sent, over, received, broken>>

\* What was sent of the line stays sent.  The program gives up when subscribe
\* or authorize fails; it does not look at the result of any other line.  On a
\* desktop a write to a broken connection may also end it with SIGPIPE.
SendFails ==
    /\ inCall
    /\ broken \/ WouldBlock
    /\ inCall' = FALSE
    /\ Returned(FALSE)
    /\ over' \in {line < HandshakeLines, broken}
    /\ UNCHANGED <<blocking, line, sent, wireVars>>

-----------------------------------------------------------------------------
(* The miner around it, and the other end. *)

SendLine ==
    /\ ~over /\ ~inCall
    /\ line < IF blocking THEN HandshakeLines ELSE MaxLines
    /\ line' = line + 1
    /\ inCall' = TRUE
    /\ sent' = 0
    /\ UNCHANGED <<blocking, results, over, wireVars>>

\* net_set_nonblocking comes behind the handshake in both mains; the slip has it right
\* behind the connection, where the first lines may already meet a full buffer.
BugBehindConnect == TRUE
BehindHandshake == line = HandshakeLines

SetNonblocking ==
    /\ ~over /\ ~inCall
    /\ blocking /\ BehindHandshake
    /\ \/ blocking' = FALSE /\ UNCHANGED over
       \/ over' = TRUE /\ UNCHANGED blocking
    /\ UNCHANGED <<callVars, wireVars>>

\* The next net_poll_line finds the connection gone.
GiveUp ==
    /\ ~over /\ ~inCall
    /\ ~blocking /\ broken
    /\ over' = TRUE
    /\ UNCHANGED <<blocking, callVars, wireVars>>

PoolReads ==
    /\ ~broken
    /\ sockbuf # <<>>
    /\ received' = Append(received, Head(sockbuf))
    /\ sockbuf' = Tail(sockbuf)
    /\ UNCHANGED <<blocking, callVars, over, broken>>

ConnectionBreaks ==
    /\ ~broken
    /\ broken' = TRUE
    /\ UNCHANGED <<blocking, callVars, over, sockbuf, received>>

Send == SendText \/ SendNewline \/ SendFails

Next == Send \/ SendLine \/ SetNonblocking \/ GiveUp \/ PoolReads
        \/ ConnectionBreaks

Spec == Init /\ [][Next]_vars

\* The thread runs.  The pool need not read.
FairSpec == Spec /\ WF_vars(Send)

-----------------------------------------------------------------------------
(* Properties. *)

\* All that was handed to the kernel, in order.
Stream == received \o sockbuf

Before(x, y) == x[1] < y[1] \/ (x[1] = y[1] /\ x[2] < y[2])

\* However the writes are cut, no byte is sent twice or before an earlier one:
\* the loop goes on after what the kernel took (net_posix.c:57-69).
SentInOrder ==
    \A i, j \in 1 .. Len(Stream) : i < j => Before(Stream[i], Stream[j])

\* net_send_line returns true for exactly the lines that are on the wire with
\* their whole text and their newline (net_posix.h:36).
TrueMeansWhole ==
    \A m \in 1 .. Len(results) :
        results[m] <=> \A i \in 1 .. LineLen + 1 : Contains(Stream, <<m, i>>)

\* A line of the handshake fails only with the connection: the handshake waits for
\* a slow pool instead of giving up on it, as the socket is made non-blocking only
\* after the last of these lines (main.c:305-320).
HandshakeWaits ==
    ~broken => \A m \in 1 .. Len(results) : m <= HandshakeLines => results[m]

\* A pool that stops reading does not stop the miner: once the socket does not
\* block, every net_send_line returns.
MiningNeverBlocks == (inCall /\ ~blocking) ~> ~inCall

-----------------------------------------------------------------------------
(* A property that a comment of the sources states and the code violates.  *)

IsNewline(x) == x[2] = LineLen + 1

\* Each line the pool reads is the bytes of one line and a newline
\* (net_posix.h:36).  Here the text of a line that met a full buffer half way
\* stays on the wire, and the next line is sent right after it.
PoolReadsWholeLines ==
    \A i \in 1 .. Len(Stream) :
        IsNewline(Stream[i]) =>
            i = LineLen + 1 \/ IsNewline(Stream[i - LineLen - 1])
=============================================================================
