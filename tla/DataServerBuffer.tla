-------------------------- MODULE DataServerBuffer --------------------------
(***************************************************************************)
(* The byte arithmetic of one data connection of src/src/etdc_etdserver.cc:*)
(* ETDDataServer::handle reading a header into its buffer, then pull_n or  *)
(* push_n, and the client at the other end of the connection.              *)
(*                                                                         *)
(* ETDServer.tla models who holds which lock; this module models the       *)
(* buffer: handle reads at most maxNoCmdSz bytes looking for the header,   *)
(* so bytes after the header may already be in the buffer, and pull_n     *)
(* must flush them to the file first.  curPos, rdPos, wrEnd and n are      *)
(* size_t, so their arithmetic is modulo 2^W.  Bytes are counted, not      *)
(* named: the stream is FIFO and pull_n writes the buffer in order.        *)
(*                                                                         *)
(* The record lock and the mode check are taken to succeed (ETDServer.tla  *)
(* checks them).  A command's header counts HdrLen bytes in the buffer;    *)
(* its text is the one sendFile/getFile write, and handle decodes it with  *)
(* DataHeader's parser to learn the direction and sz.                      *)
(***************************************************************************)
EXTENDS Integers

CONSTANTS
  W,          \* width of size_t, in bits
  HdrLen,     \* bytes of a "{ uuid:..., sz:... }" header
  MaxNoCmd,   \* maxNoCmdSz: the window handle reads for a header (4 KiB)
  BufSz,      \* bufSz: the buffer pull_n/push_n use (10 MiB)
  FileSize,   \* bytes the record's file has left to read (push)
  Cmds,       \* the commands a client may send: [uuid, push, sz, bytes],
              \* bytes being what the client writes after the header (pull)
  MaxCmds,    \* bound: commands per connection
  Letters,    \* DataHeader: the letters header texts use
  Fold        \* DataHeader: their lower case

Hdr == INSTANCE DataHeader

ASSUME HdrLen \in 1..MaxNoCmd          \* a header fits in the window
ASSUME MaxNoCmd < BufSz                 \* 4 KiB < 10 MiB
ASSUME BufSz < 2^(W - 1)                \* nRead fits a non-negative ssize_t

VARIABLES
  pc,       \* handle: "hdr", "pull", "push", "end" (the thread has thrown)
  curPos,   \* bytes in the buffer while looking for a header
  rdPos,    \* pull_n: start of the unwritten bytes in the buffer
  wrEnd,    \* pull_n: end of the bytes in the buffer
  n,        \* pull_n/push_n: bytes still to move (size_t)
  hdr,      \* the last header handle decoded
  wrote,    \* bytes pull_n wrote to the file for the current command
  fileLeft, \* bytes left in the file push_n reads
  avail,    \* bytes the client wrote that handle has not read
  toCli,    \* bytes push_n wrote that the client has not read
  ackIn,    \* 'y' bytes pull_n wrote that the client has not read
  cliAck,   \* the client wrote its 'y' for a push
  cpc,      \* the client: "idle", "wait" (in a command), "closed"
  cur,      \* the client's current command
  got,      \* bytes the client received for the current push
  nCmds,    \* commands the client has sent
  decoded   \* command -> what handle decodes from its header: fixed for
            \* a behaviour, computed once by Init

vars == <<pc, curPos, rdPos, wrEnd, n, hdr, wrote, fileLeft, avail, toCli, ackIn,
          cliAck, cpc, cur, got, nCmds, decoded>>
srv  == <<pc, curPos, rdPos, wrEnd, n, hdr, wrote, fileLeft>>
cli  == <<cpc, cur, got, nCmds, decoded>>

\* An off_t or a difference of size_t values, stored in a size_t.
SizeT(x) == x % (2^W)

MinOf(a, b) == IF a < b THEN a ELSE b

-----------------------------------------------------------------------------
(* The client: ETDServer::sendFile (pull) or getFile (push) at the far end *)

\* Write a header and, for a pull, the payload.  A sender whose file
\* read fails part way (bytes < sz) throws, which closes the connection.
ClientSend(c) ==
  /\ cpc = "idle"
  /\ nCmds < MaxCmds
  /\ avail' = avail + HdrLen + (IF c.push THEN 0 ELSE c.bytes)
  /\ cur' = c
  /\ cpc' = IF ~c.push /\ c.bytes < c.sz THEN "closed" ELSE "wait"
  /\ got' = 0
  /\ nCmds' = nCmds + 1
  /\ UNCHANGED <<srv, toCli, ackIn, cliAck, decoded>>

ClientClose ==
  /\ cpc = "idle"
  /\ cpc' = "closed"
  /\ UNCHANGED <<srv, avail, toCli, ackIn, cliAck, cur, got, nCmds, decoded>>

\* sendFile reads the 'y' that ends a pull.
ClientGetAck ==
  /\ cpc = "wait"
  /\ ~cur.push
  /\ ackIn > 0
  /\ ackIn' = ackIn - 1
  /\ cpc' = "idle"
  /\ UNCHANGED <<srv, avail, toCli, cliAck, cur, got, nCmds, decoded>>

\* getFile reads up to the bytes it still needs; with all of them it writes
\* its 'y'.
ClientRecv ==
  /\ cpc = "wait"
  /\ cur.push
  /\ \E k \in 1..MinOf(toCli, cur.sz - got) :
       /\ toCli' = toCli - k
       /\ got' = got + k
       /\ IF got + k = cur.sz
            THEN cliAck' = TRUE /\ cpc' = "idle"
            ELSE UNCHANGED <<cliAck, cpc>>
  /\ UNCHANGED <<srv, avail, ackIn, cur, nCmds, decoded>>

\* The data server has closed the connection and nothing is left to read.
ClientEOF ==
  /\ cpc = "wait"
  /\ pc = "end"
  /\ toCli = 0 /\ ackIn = 0
  /\ cpc' = "closed"
  /\ UNCHANGED <<srv, avail, toCli, ackIn, cliAck, cur, got, nCmds, decoded>>

-----------------------------------------------------------------------------
(* ETDDataServer::handle, pull_n, push_n *)

\* What read(fd, buf, want) returns: 0 for want = 0 or at end of stream,
\* else 1..want of what is there; nothing while the client is silent.
ReadResults(want) ==
  IF want = 0 THEN {0}
  ELSE IF avail > 0 THEN 1..MinOf(avail, want)
  ELSE IF cpc = "closed" THEN {0}
  ELSE {}

\* mutant of HdrWant: each read asks for the whole window, not what is left
HdrWantWhole == MaxNoCmd

\* The header loop reads into &buffer[curPos] at most maxNoCmdSz - curPos.
HdrWant == MaxNoCmd - curPos

\* What handle decodes from the header the client of each command writes.
\* Kept in the variable decoded (TLC then decodes each header once).
Decoded == [c \in Cmds |-> Hdr!Decode(Hdr!Header(c.uuid, c.push, c.sz))]

\* One pass of the header loop: read into &buffer[curPos] up to
\* maxNoCmdSz - curPos bytes (0 bytes: "Failed to read data from remote
\* end"); once the header is in the buffer, decode it (a missing or bad
\* key throws), put sz into the size_t n and call pull_n or push_n with
\* rdPos at the end of the header and endPos = curPos.
HdrRead ==
  /\ pc = "hdr"
  /\ \E k \in ReadResults(HdrWant) :
       LET cp == curPos + k IN
       /\ avail' = avail - k
       /\ LET h == decoded[cur] IN
          CASE k = 0 -> pc' = "end" /\ UNCHANGED <<curPos, rdPos, wrEnd, n, hdr, wrote>>
            [] cp < HdrLen -> curPos' = cp /\ UNCHANGED <<pc, rdPos, wrEnd, n, hdr, wrote>>
            [] ~h.ok -> pc' = "end" /\ curPos' = cp /\ UNCHANGED <<rdPos, wrEnd, n, hdr, wrote>>
            [] OTHER ->
                 /\ curPos' = cp
                 /\ hdr' = h
                 /\ pc' = IF h.push THEN "push" ELSE "pull"
                 /\ n' = SizeT(h.sz)
                 /\ rdPos' = HdrLen
                 /\ wrEnd' = cp
                 /\ wrote' = 0
  /\ UNCHANGED <<fileLeft, toCli, ackIn, cliAck, cli>>

\* mutant of Flushed: write(&buf[0], wrEnd), the header's bytes included
FlushedFromStart(we, rd) == we

\* write(dst, &buf[rdPos], wrEnd - rdPos): the bytes put in the file.
Flushed(we, rd) == SizeT(we - rd)

\* mutant of Consumed: n is decreased by the bytes asked for
ConsumedRequest(have, a, nRead) == nRead
\* mutant of Consumed: n is decreased by the bytes read, so the bytes that
\* came with the header are never counted
ConsumedRead(have, a, nRead) == a

\* n -= (wrEnd - rdPos): what an iteration takes off n.
Consumed(have, a, nRead) == have

\* One iteration of pull_n's while(n>0): read at most
\* min(n + rdPos - wrEnd, bufSz - wrEnd) bytes behind wrEnd; no bytes in
\* the buffer after that throws; else write buf[rdPos..wrEnd) to the file,
\* n -= (wrEnd - rdPos), and the whole buffer is free again.
PullStep ==
  /\ pc = "pull"
  /\ n # 0
  /\ LET nRead == MinOf(SizeT(n + rdPos - wrEnd), BufSz - wrEnd) IN
     \E a \in ReadResults(nRead) :
       LET have == SizeT(wrEnd + a - rdPos) IN
       /\ avail' = avail - a
       /\ IF have = 0
            THEN pc' = "end" /\ UNCHANGED <<rdPos, wrEnd, n, wrote>>
            ELSE /\ wrote' = wrote + Flushed(wrEnd + a, rdPos)
                 /\ n' = SizeT(n - Consumed(have, a, nRead))
                 /\ rdPos' = 0 /\ wrEnd' = 0
                 /\ UNCHANGED pc
  /\ UNCHANGED <<curPos, hdr, fileLeft, toCli, ackIn, cliAck, cli>>

\* pull_n's loop is done: write the 'y', and handle looks for the next
\* header from curPos = 0.
PullAck ==
  /\ pc = "pull"
  /\ n = 0
  /\ ackIn' = ackIn + 1
  /\ pc' = "hdr"
  /\ curPos' = 0
  /\ UNCHANGED <<rdPos, wrEnd, n, hdr, wrote, fileLeft, avail, toCli, cliAck, cli>>

\* One iteration of push_n: read min(n, bufSz) bytes of the file (a short
\* read throws) and write them to the client.
PushStep ==
  /\ pc = "push"
  /\ n # 0
  /\ LET nRead == MinOf(n, BufSz) IN
     IF fileLeft >= nRead
       THEN /\ fileLeft' = fileLeft - nRead
            /\ toCli' = toCli + nRead
            /\ n' = SizeT(n - nRead)
            /\ UNCHANGED pc
       ELSE pc' = "end" /\ UNCHANGED <<fileLeft, toCli, n>>
  /\ UNCHANGED <<curPos, rdPos, wrEnd, hdr, wrote, avail, ackIn, cliAck, cli>>

\* push_n reads one ack byte (its result unchecked: end of stream will do).
PushAck ==
  /\ pc = "push"
  /\ n = 0
  /\ cliAck \/ cpc = "closed"
  /\ cliAck' = FALSE
  /\ pc' = "hdr"
  /\ curPos' = 0
  /\ UNCHANGED <<rdPos, wrEnd, n, hdr, wrote, fileLeft, avail, toCli, ackIn, cli>>

-----------------------------------------------------------------------------

Init ==
  /\ pc = "hdr"
  /\ curPos = 0 /\ rdPos = 0 /\ wrEnd = 0 /\ n = 0 /\ wrote = 0
  /\ hdr = [ok |-> FALSE, uuid |-> <<>>, push |-> FALSE, sz |-> 0]
  /\ fileLeft = FileSize
  /\ avail = 0 /\ toCli = 0 /\ ackIn = 0 /\ cliAck = FALSE
  /\ cpc = "idle"
  /\ cur \in Cmds
  /\ got = 0
  /\ nCmds = 0
  /\ decoded = Decoded

\* The connection is closed at both ends.
Done ==
  /\ pc = "end"
  /\ cpc = "closed"
  /\ UNCHANGED vars

Next ==
  \/ \E c \in Cmds : ClientSend(c)
  \/ ClientClose \/ ClientGetAck \/ ClientRecv \/ ClientEOF
  \/ HdrRead \/ PullStep \/ PullAck \/ PushStep \/ PushAck
  \/ Done

\* The data-server thread and the client's reads run when they can.
Fairness ==
  /\ WF_vars(HdrRead) /\ WF_vars(PullStep) /\ WF_vars(PullAck)
  /\ WF_vars(PushStep) /\ WF_vars(PushAck)
  /\ WF_vars(ClientGetAck) /\ WF_vars(ClientRecv) /\ WF_vars(ClientEOF)

Spec == Init /\ [][Next]_vars /\ Fairness

-----------------------------------------------------------------------------
(* Properties *)

TypeOK ==
  /\ pc \in {"hdr", "pull", "push", "end"}
  /\ curPos \in 0..MaxNoCmd
  /\ rdPos \in 0..BufSz /\ wrEnd \in 0..BufSz
  /\ n \in 0..(2^W - 1)
  /\ cpc \in {"idle", "wait", "closed"}
  /\ cur \in Cmds
  /\ hdr.ok \in BOOLEAN

\* The data server serves the command the client wrote: when handle has
\* decoded the header sendFile or getFile wrote (the regex scan of
\* getKeyValuePairs, the case-insensitive lookups, std::stol), pull_n or
\* push_n runs for that uuid, in that direction, with that sz.
HeaderUnderstood ==
  [][pc = "hdr" /\ pc' \in {"pull", "push"} =>
       hdr' = [ok |-> TRUE, uuid |-> cur.uuid, push |-> cur.push, sz |-> cur.sz]]_vars

\* pull_n never puts more bytes in the file than the header's sz: the
\* bytes that came with the header and the bytes read later together stay
\* within it (the size_t arithmetic of lines 1202-1219).
WithinSz == pc = "pull" => wrote = 0 \/ wrote <= cur.sz

\* pull_n sends its 'y' only when exactly sz bytes are in the file.
AckExact == [][pc = "pull" /\ pc' = "hdr" => wrote = cur.sz]_vars

\* No client waits forever: every command it sends ends with its 'y'
\* (sendFile), all its bytes (getFile), or the connection closed by a data
\* server that threw.
CommandAnswered == cpc = "wait" ~> cpc # "wait"

====
