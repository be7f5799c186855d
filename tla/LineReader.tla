----------------------------- MODULE LineReader -----------------------------
(***************************************************************************)
(* Reading lines off the pool's TCP stream (platform/net_posix.c): one     *)
(* blocking net_recv_line for the subscribe reply, then net_poll_line from *)
(* the mining loop, on the same buffer.  The stream may arrive in any      *)
(* pieces, a line may span several and a piece may hold several lines.     *)
(***************************************************************************)
EXTENDS Integers, Sequences, FiniteSets, SequencesExt

CONSTANTS
    Data,       \* the bytes other than carriage return and newline
    BufSize,    \* NET_RECV_BUF_SIZE, the size of conn->buf
    OutSize,    \* the size of the caller's line: also NET_RECV_BUF_SIZE
    MaxBytes    \* bound: bytes the pool sends

CR == "cr"
LF == "lf"
Bytes == Data \cup {CR, LF}

ASSUME ReaderAssumption ==
    /\ CR \notin Data /\ LF \notin Data
    /\ BufSize \in Nat \ {0}
    /\ OutSize = BufSize
    /\ MaxBytes \in Nat

VARIABLES
    stream,     \* all bytes the pool has sent
    closed,     \* the pool has closed its end
    read,       \* how many of the bytes recv has returned
    buf,        \* conn->buf up to conn->len
    lines,      \* history: the lines handed to the caller
    result,     \* the last call's result, with the reason where it is negative
    mode        \* "handshake" (blocking), "mining" (polling), "over"

vars == <<stream, closed, read, buf, lines, result, mode>>

TypeOK ==
    /\ stream \in Seq(Bytes) /\ Len(stream) <= MaxBytes
    /\ closed \in BOOLEAN
    /\ read \in 0 .. Len(stream)
    /\ buf \in Seq(Bytes) /\ Len(buf) <= BufSize
    /\ lines \in Seq(Seq(Bytes))
    /\ result \in {"none", "line", "nothing", "closed", "error", "full", "tooLong"}
    /\ mode \in {"handshake", "mining", "over"}

Init ==
    /\ stream = <<>> /\ closed = FALSE
    /\ read = 0 /\ buf = <<>> /\ lines = <<>>
    /\ result = "none" /\ mode = "handshake"

-----------------------------------------------------------------------------
(* The pool. *)

PoolSends ==
    /\ ~closed
    /\ Len(stream) < MaxBytes
    /\ \E c \in Bytes : stream' = Append(stream, c)
    /\ UNCHANGED <<closed, read, buf, lines, result, mode>>

PoolCloses ==
    /\ ~closed
    /\ closed' = TRUE
    /\ UNCHANGED <<stream, read, buf, lines, result, mode>>

-----------------------------------------------------------------------------
(* take_line.  As in EspMiner, an operator named Bug... is a plausible     *)
(* mistake in the operator that follows it.                                *)

\* The place of the first newline, 0 if there is none.
Newline(s) == SelectInSeq(s, LAMBDA c : c = LF)

\* The line that ends before the newline at n, its carriage return stripped.
BugKeepReturn(s, n) == SubSeq(s, 1, n - 1)
LineAt(s, n) ==
    SubSeq(s, 1, IF n > 1 /\ s[n - 1] = CR THEN n - 2 ELSE n - 1)

\* What stays in the buffer after the newline at n.
Rest(s, n) == SubSeq(s, n + 1, Len(s))

\* The line and its terminating zero fit in the caller's buffer.
BugFitsStrictly(s) == Len(s) + 1 < OutSize
Fits(s) == Len(s) + 1 <= OutSize

\* The connection's buffer is s: hand out its first line if there is one.
\* Without one net_poll_line says so, and net_recv_line goes round again.
HandOut(s, line) ==
    IF Fits(line)
    THEN /\ lines' = Append(lines, line)
         /\ buf' = Rest(s, Newline(s))
         /\ result' = "line"
         /\ mode' = "mining"
    ELSE /\ buf' = s
         /\ result' = "tooLong"
         /\ mode' = "over"
         /\ UNCHANGED lines

TakeLine(s) ==
    \/ /\ Newline(s) # 0
       /\ HandOut(s, LineAt(s, Newline(s)))
    \/ /\ Newline(s) = 0
       /\ buf' = s
       /\ result' = IF mode = "mining" THEN "nothing" ELSE result
       /\ UNCHANGED <<lines, mode>>

-----------------------------------------------------------------------------
(* One call of net_poll_line, or one round of net_recv_line's loop.  The   *)
(* first line ends the handshake.  A connection that failed or closed is   *)
(* given up: the desktop miner ends and the ESP32 restarts.                *)

BugIgnoreBuffer == FALSE
Buffered == Newline(buf) # 0

BugRoomOfEmptyBuffer == BufSize
Room == BufSize - Len(buf)

CallTakes ==
    /\ mode # "over"
    /\ Buffered
    /\ TakeLine(buf)
    /\ UNCHANGED <<stream, closed, read>>

GiveUp(reason) ==
    /\ result' = reason
    /\ mode' = "over"
    /\ UNCHANGED <<stream, closed, read, buf, lines>>

CallFindsFull ==
    /\ mode # "over"
    /\ ~Buffered /\ Room = 0
    /\ GiveUp("full")

\* recv returns some of the bytes that have come, as many as there is room for.
CallReceives ==
    /\ mode # "over"
    /\ ~Buffered
    /\ \E k \in 1 .. Room :
          /\ read + k <= Len(stream)
          /\ read' = read + k
          /\ TakeLine(buf \o SubSeq(stream, read + 1, read + k))
    /\ UNCHANGED <<stream, closed>>

\* EAGAIN; a blocking recv waits instead.
CallFindsNothing ==
    /\ mode = "mining"
    /\ ~Buffered /\ Room # 0
    /\ read = Len(stream) /\ ~closed
    /\ result' = "nothing"
    /\ UNCHANGED <<stream, closed, read, buf, lines, mode>>

CallFindsEnd ==
    /\ mode # "over"
    /\ ~Buffered /\ Room # 0
    /\ \/ read = Len(stream) /\ closed /\ GiveUp("closed")
       \/ GiveUp("error")

Call ==
    CallTakes \/ CallFindsFull \/ CallReceives \/ CallFindsNothing \/ CallFindsEnd

Next == PoolSends \/ PoolCloses \/ Call

Spec == Init /\ [][Next]_vars

\* The mining loop calls again after every batch, so bytes that have come are
\* taken; the pool owes nothing.
FairSpec == Spec /\ WF_vars(CallTakes \/ CallFindsFull \/ CallReceives)

-----------------------------------------------------------------------------
(* Properties. *)

\* The lines of a byte sequence by definition: what lies between one newline
\* and the next, without a final carriage return.
Newlines(s, n) == Cardinality({i \in 1 .. n : s[i] = LF})

LineEnd(s, k) ==
    IF k = 0 THEN 0 ELSE CHOOSE i \in 1 .. Len(s) : s[i] = LF /\ Newlines(s, i) = k

Stripped(raw) == IF raw # <<>> /\ Last(raw) = CR THEN Front(raw) ELSE raw

Framed(s) ==
    [k \in 1 .. Newlines(s, Len(s)) |->
        Stripped(SubSeq(s, LineEnd(s, k - 1) + 1, LineEnd(s, k) - 1))]

\* However the stream is cut, the lines handed out, followed by those still in
\* the buffer, are the lines of the bytes received: none lost at the switch from
\* the blocking to the polling reader, none split, joined or repeated.
LinesAreFramed == lines \o Framed(buf) = Framed(SubSeq(stream, 1, read))

\* The reader gives up on a line only if it is too long for a full buffer: the
\* limits of the two buffers agree, a line that fills one fits in the other.
GivesUpOnlyWhenFull ==
    result \in {"full", "tooLong"} =>
        Len(buf) = BufSize /\ \A i \in 1 .. BufSize : buf[i] # LF

\* A whole line that was sent reaches the caller, unless the connection is
\* given up first.
LinesArrive ==
    \A n \in 1 .. MaxBytes :
        Len(Framed(stream)) >= n ~> (Len(lines) >= n \/ mode = "over")
=============================================================================
