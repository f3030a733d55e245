--------------------------- MODULE ControlProtocol ---------------------------
(***************************************************************************)
(* One control connection of src/src/etdc_etdserver.cc: an ETDProxy on    *)
(* the client side and the ETDServerWrapper::handle loop on the daemon    *)
(* side, with the daemon's local ETDServer underneath.                    *)
(*                                                                         *)
(* The ETDProxy methods are synchronous: write one request line, then     *)
(* read and parse reply lines until the reply is complete.  The wrapper   *)
(* reads a request line, calls its ETDServer, and writes each reply line  *)
(* as two writes (the text, then "\n").  So the reply stream is modelled  *)
(* as a sequence of items: a line's text, and its end-of-line.  A read    *)
(* by the proxy takes any non-empty prefix of what is in flight.  This    *)
(* captures every way the reads can cut the stream into lines, because    *)
(* getReplies (rxLine) only returns lines with their terminator and       *)
(* leaves a partial line in the buffer.                                   *)
(*                                                                         *)
(* The local ETDServer is abstracted to the results its methods can       *)
(* return (ServerResults), since ETDServer.tla models how it computes     *)
(* them.  Each line carries the id of the call it answers: a ghost used   *)
(* only by the properties.                                                *)
(***************************************************************************)
EXTENDS Integers, Sequences, SequencesExt, FiniteSets

CONSTANTS
  Calls,       \* the calls the client makes: [op, arg] records
  Entries,     \* listPath results: "f1", "f2"; "blank" (a name of white
               \* space); "nl" (a name containing a newline)
  Addrs,       \* names of the data-channel addresses dataChannelAddr
               \* returns and sendFile is given
  SockName,    \* name -> the [proto, host, port] it stands for
  AddrDecoded, \* name -> decode_data_addr of the designator the daemon
               \* writes for it ("OK " << sn): {} when it throws, else
               \* {sockname}
  SendDecodes, \* list of names -> whether every designator the wrapper
               \* splits from the joined send-file field decodes
  RequestRuns, \* [op, arg] call -> whether the wrapper runs the request
               \* line the proxy writes for it as that very command
  FileSize,    \* size of the file requestFileRead/Write open
  RemoveResults, \* what the local removeUUID returns for the own uuid
  LongErrors,  \* TRUE: an exception message may exceed the 2 KiB reply buffer
  MaxList,     \* bound: entries of a listPath/dataChannelAddr result
  MaxCalls     \* bound: calls the client makes

VARIABLES
  req,       \* request lines in flight, client -> daemon
  rep,       \* reply items in flight, daemon -> client
  closed,    \* the wrapper closed the connection
  wpc,       \* "run" or "term": the wrapper's handle loop
  pc,        \* the proxy: "idle", or "wait" inside a call
  call,      \* the proxy's current (or last) call: [op, arg, id]
  pbuf,      \* the proxy's reply buffer: items read but not consumed
  pst,       \* the proxy's parse state within the call
  nCalls,    \* calls made so far
  served,    \* id -> what the local ETDServer returned for the call
  returned,  \* id -> what the proxy returned for the call
  heard,     \* ids of the reply items the current call has read
  codec      \* what the codecs make of the advertised addresses and of
             \* the request lines: fixed for a behaviour, computed by Init

vars == <<req, rep, closed, wpc, pc, call, pbuf, pst, nCalls, served,
          returned, heard, codec>>

(* AddrDecoded and SendDecodes are computed by DataAddress, RequestRuns  *)
(* by RequestLine, in MC_ControlProtocol for the values a model uses.     *)

\* The address the proxy's list gets from a decode result d: the name of
\* the sockname decode_data_addr returned ("garbled": one the daemon never
\* had; "undecodable": it threw).
ProxyEntry(d) ==
  LET names == {b \in Addrs : SockName[b] \in d}
  IN CASE d = {}     -> "undecodable"
       [] names = {} -> "garbled"
       [] OTHER      -> CHOOSE b \in names : TRUE

\* The wrapper's send-file: a data-channel address that does not decode
\* throws (an ERR reply, the local sendFile not called).
AddrsDecode(c) == c.op = "send" => codec.send[c.arg.addrs]

\* codec: per name, the entry ETDProxy::dataChannelAddr makes of it; per
\* send-file address list, whether the wrapper decodes it; per call,
\* whether the wrapper understands its request line.
CodecInit ==
  [dca |-> [a \in Addrs |-> ProxyEntry(AddrDecoded[a])], send |-> SendDecodes,
   runs |-> RequestRuns]

-----------------------------------------------------------------------------
(* Reply lines and the items that carry them *)

Ln(k, v, id) == [k |-> k, v |-> v, id |-> id]
Txt(l)  == [t |-> "txt", l |-> l, id |-> l.id]
Eol(id) == [t |-> "eol", l |-> Ln("none", "", id), id |-> id]

\* Each reply line is written as its text and then "\n".
Wire(lines) == FlattenSeq([i \in 1..Len(lines) |-> <<Txt(lines[i]), Eol(lines[i].id)>>])

\* A text longer than a 2 KiB reply buffer.
IsLong(item) == item.t = "txt" /\ item.l.k = "ERR" /\ item.l.v = "long"

\* getReplies: the complete lines in a buffer (every text item but a
\* trailing one has its end-of-line behind it; empty lines are skipped),
\* and the unconsumed tail the proxy moves to the front of its buffer.
Body(b) == IF b # <<>> /\ Last(b).t = "txt" THEN Front(b) ELSE b
Rest(b) == IF b # <<>> /\ Last(b).t = "txt" THEN <<Last(b)>> ELSE <<>>
Lines(b) == LET s == SelectSeq(Body(b), LAMBDA x : x.t = "txt")
            IN [i \in 1..Len(s) |-> s[i].l]

\* The bytes of reply items, for LineFraming's byte-level getReplies: a
\* line's text is two bytes (so a read can end inside it), its
\* end-of-line one "\n".
Text(l) == <<l.k, ToString(l.v)>>
Bytes(items) ==
  FlattenSeq([i \in DOMAIN items |-> IF items[i].t = "txt" THEN Text(items[i].l) ELSE <<"\n">>])

Frame == INSTANCE LineFraming

\* rxReply "^(OK|ERR)(\s+(\S.*)?)?$" and its submatch 3
IsReply(l) == l.k \in {"OK", "ERR"}
Info(l) == IF l.v \in {"", "blank"} THEN "" ELSE l.v

-----------------------------------------------------------------------------
(* ETDServerWrapper::handle: the command regexes and the replies.          *)

\* The request line the proxy formats is run by the wrapper as the command
\* it stands for (RequestLine, computed in MC_ControlProtocol): rxList
\* rejects a blank path, rxReqFileRead and rxSendFile a negative count,
\* rxSendFile an empty address list.  For the calls a model makes, a line
\* is either understood as meant or not at all (checked by an ASSUME).
Parses(c) == codec.runs[[op |-> c.op, arg |-> c.arg]]

Ok(v) == [ok |-> TRUE, val |-> v, size |-> "short"]
Err(size) == [ok |-> FALSE, val |-> "none", size |-> size]
ErrSizes(op) == IF LongErrors /\ op \in {"write", "read", "send"}
                THEN {"short", "long"} ELSE {"short"}

\* What the local ETDServer can return for a call (an exception is Err):
\* listPath throws only for an empty path; requestFileWrite returns the
\* size after open, requestFileRead size - alreadyhave (lseek to a
\* negative offset fails); sendFile returns true at once for todo <= 0,
\* throws AllAddressesFailed for no address; removeUUID of another uuid
\* throws.
ServerResults(c) ==
  CASE c.op = "list"   -> IF c.arg = "empty" THEN {Err("short")}
                          ELSE {Ok(s) : s \in BoundedSeq(Entries, MaxList)}
    [] c.op = "dca"    -> {Ok(s) : s \in BoundedSeq(Addrs, MaxList)}
    [] c.op = "write"  -> {Ok(0), Ok(FileSize)} \cup {Err(z) : z \in ErrSizes("write")}
    [] c.op = "read"   -> IF c.arg < 0 THEN {Err("short")}
                          ELSE {Ok(FileSize - c.arg)} \cup {Err(z) : z \in ErrSizes("read")}
    [] c.op = "send"   -> IF c.arg.todo <= 0 THEN {Ok(TRUE)}
                          ELSE IF c.arg.addrs = <<>> THEN {Err("short")}
                          ELSE {Ok(TRUE)} \cup {Err(z) : z \in ErrSizes("send")}
    [] c.op = "remove" -> IF c.arg = "other" THEN {Err("short")}
                          ELSE {Ok(b) : b \in RemoveResults}

\* The reply lines for a result: list/data-channel-addr send "OK <x>" per
\* entry and a bare "OK" (a name with a newline in it becomes two lines);
\* write-file sends AlreadyHave, UUID, OK; read-file Remain, UUID, OK;
\* remove-uuid and send-file one line; an exception "ERR <what>".
EntryLines(e, id) ==
  IF e = "nl" THEN <<Ln("OK", "nl", id), Ln("Junk", "", id)>>
  ELSE <<Ln("OK", e, id)>>
\* mutant of Replies: write-file/read-file send their OK before the fields
RepliesOkFirst(c, r, id) ==
  CASE ~r.ok -> <<Ln("ERR", r.size, id)>>
    [] c.op \in {"list", "dca"} ->
         FlattenSeq([i \in 1..Len(r.val) |-> EntryLines(r.val[i], id)])
           \o <<Ln("OK", "", id)>>
    [] c.op = "write" -> <<Ln("OK", "", id), Ln("Have", r.val, id), Ln("UUID", "", id)>>
    [] c.op = "read"  -> <<Ln("OK", "", id), Ln("Remain", r.val, id), Ln("UUID", "", id)>>
    [] OTHER          -> <<IF r.val THEN Ln("OK", "", id) ELSE Ln("ERR", "short", id)>>
Replies(c, r, id) ==
  CASE ~r.ok -> <<Ln("ERR", r.size, id)>>
    [] c.op \in {"list", "dca"} ->
         FlattenSeq([i \in 1..Len(r.val) |-> EntryLines(r.val[i], id)])
           \o <<Ln("OK", "", id)>>
    [] c.op = "write" -> <<Ln("Have", r.val, id), Ln("UUID", "", id), Ln("OK", "", id)>>
    [] c.op = "read"  -> <<Ln("Remain", r.val, id), Ln("UUID", "", id), Ln("OK", "", id)>>
    [] OTHER          -> <<IF r.val THEN Ln("OK", "", id) ELSE Ln("ERR", "short", id)>>

\* A request line of 2 KiB or more (a listing or a file write of a long
\* path): the reads fill the 2 KiB buffer without a line.
TooLong(c) == c.op \in {"list", "write"} /\ c.arg = "long"

\* Read one request line: a known command is run on the local ETDServer and
\* its replies written; any other line closes the connection and ends the
\* loop (the "client sent unknown command" condition).  A line too long for
\* the buffer ends the while(curPos < bufSz) loop with no reply; the
\* connection is then closed (spec section 4.4: "close the connection").
WrapperHandle ==
  /\ wpc = "run"
  /\ req # <<>>
  /\ LET c == Head(req) IN
     \E r \in ServerResults(c) :
       \* (for a line the wrapper rejects, served is what the local
       \* ETDServer would have returned: what the proxy stands in for)
       /\ served' = served @@ (c.id :> r)
       /\ \/ /\ ~TooLong(c) /\ Parses(c) /\ AddrsDecode(c)
             /\ rep' = rep \o Wire(Replies(c, r, c.id))
             /\ UNCHANGED <<closed, wpc>>
          \/ /\ ~TooLong(c) /\ Parses(c) /\ ~AddrsDecode(c)
             /\ rep' = rep \o Wire(<<Ln("ERR", "short", c.id)>>)
             /\ UNCHANGED <<closed, wpc>>
          \/ /\ ~TooLong(c) /\ ~Parses(c)
             /\ closed' = TRUE
             /\ wpc' = "term"
             /\ UNCHANGED rep
          \/ /\ TooLong(c)
             /\ closed' = TRUE
             /\ wpc' = "term"
             /\ UNCHANGED rep
  /\ req' = Tail(req)
  /\ UNCHANGED <<pc, call, pbuf, pst, nCalls, returned, heard, codec>>

-----------------------------------------------------------------------------
(* ETDProxy: the reply parsers.                                           *)

St0 == [status |-> "", list |-> <<>>, uuid |-> FALSE, field |-> FALSE,
        val |-> 0, fin |-> FALSE, err |-> FALSE, extra |-> FALSE]

Fail(st) == [st EXCEPT !.err = TRUE]

\* listPath / dataChannelAddr, one reply line: it must match rxReply; the
\* state may not change from OK to ERR; ERR throws; a bare OK (empty
\* submatch 3) is the end sentinel; anything else is an entry, which
\* dataChannelAddr passes through decode_data_addr.
ListStep(st, l, dca) ==
  CASE ~IsReply(l)                        -> Fail(st)
    [] l.k = "ERR"                        -> Fail(st)
    [] Info(l) = ""                       -> [st EXCEPT !.status = "OK", !.fin = TRUE]
    [] dca /\ l.v \notin Addrs           -> Fail(st)   \* not a designator
    [] dca /\ codec.dca[l.v] = "undecodable" -> Fail(st)
    [] dca   -> [st EXCEPT !.status = "OK", !.list = Append(@, codec.dca[l.v])]
    [] OTHER -> [st EXCEPT !.status = "OK", !.list = Append(@, l.v)]

\* requestFileWrite/Read, one reply line: UUID and the size field (given
\* twice: throw), or an OK/ERR line that ends the parse; anything else
\* ("not recognized") throws.
FieldStep(st, l, fk) ==
  CASE l.k = "UUID" -> IF st.uuid THEN Fail(st) ELSE [st EXCEPT !.uuid = TRUE]
    [] l.k = fk     -> IF st.field THEN Fail(st)
                       ELSE [st EXCEPT !.field = TRUE, !.val = l.v]
    [] IsReply(l)   -> [st EXCEPT !.status = l.k, !.fin = TRUE]
    [] OTHER        -> Fail(st)

\* The for(; !finished && line != end; ...) loop over the lines of one
\* read; a line left after the end ("unprocessed lines") is noted.
StepFor(op, st, l) ==
  CASE st.err -> st
    [] st.fin -> [st EXCEPT !.extra = TRUE]
    [] op = "list"  -> ListStep(st, l, FALSE)
    [] op = "dca"   -> ListStep(st, l, TRUE)
    [] op = "write" -> FieldStep(st, l, "Have")
    [] OTHER        -> FieldStep(st, l, "Remain")
ParseLines(op, st, ls) == FoldLeft(LAMBDA a, l : StepFor(op, a, l), st, ls)

\* After the loop: no bytes may be left; write/read need status OK and
\* both fields.
Outcome(op, st) ==
  CASE op \in {"list", "dca"} -> Ok(st.list)
    [] st.status = "OK" /\ st.uuid /\ st.field -> Ok(st.val)
    [] OTHER -> Err("short")

-----------------------------------------------------------------------------
(* ETDProxy: the calls.                                                   *)

\* A method writes its request line (lost if the daemon has closed the
\* connection; the read that follows then fails) and starts reading.
ProxyCall(c) ==
  /\ pc = "idle"
  /\ nCalls < MaxCalls
  /\ LET r == [op |-> c.op, arg |-> c.arg, id |-> nCalls + 1] IN
     /\ call' = r
     /\ req' = IF closed THEN req ELSE Append(req, r)
  /\ nCalls' = nCalls + 1
  /\ pc' = "wait"
  /\ pbuf' = <<>>
  /\ pst' = St0
  /\ heard' = {}
  /\ UNCHANGED <<rep, closed, wpc, served, returned, codec>>

Return(res) ==
  /\ pc' = "idle"
  /\ returned' = returned @@ (call.id :> res)

\* mutant of ReadEOF: a read of 0 bytes taken as "nothing yet", read again
ReadEOFRetry ==
  /\ pc = "wait"
  /\ rep = <<>>
  /\ closed
  /\ UNCHANGED vars

\* read() returned 0: "Failed to read data from remote end".
ReadEOF ==
  /\ pc = "wait"
  /\ rep = <<>>
  /\ closed
  /\ Return(Err("short"))
  /\ UNCHANGED <<req, rep, closed, wpc, call, pbuf, pst, nCalls, served, heard, codec>>

\* read() returns the next k items.  Only listPath has a 16 KiB buffer; the
\* other methods never read the whole of a long text (ReadFull).
Chunks == {k \in 1..Len(rep) : call.op = "list" \/ \A i \in 1..k : ~IsLong(rep[i])}
Taken(k) == {rep[i].id : i \in 1..k}

\* mutant of ParseRead: the unconsumed tail is dropped instead of moved
ParseReadNoMemmove ==
  /\ pc = "wait"
  /\ call.op \in {"list", "dca", "write", "read"}
  /\ \E k \in Chunks :
       LET b  == pbuf \o SubSeq(rep, 1, k)
           st == ParseLines(call.op, pst, Lines(b))
       IN
       /\ rep' = SubSeq(rep, k + 1, Len(rep))
       /\ heard' = heard \cup Taken(k)
       /\ \/ /\ st.err \/ st.extra
             /\ Return(Err("short"))
             /\ UNCHANGED <<pbuf, pst>>
          \/ /\ ~st.err /\ ~st.extra /\ st.fin
             /\ Return(IF Rest(b) # <<>> THEN Err("short") ELSE Outcome(call.op, st))
             /\ UNCHANGED <<pbuf, pst>>
          \/ /\ ~st.err /\ ~st.extra /\ ~st.fin
             /\ pbuf' = <<>>
             /\ pst' = st
             /\ UNCHANGED <<pc, returned>>
  /\ UNCHANGED <<req, closed, wpc, call, nCalls, served, codec>>

\* listPath, dataChannelAddr, requestFileWrite, requestFileRead: parse the
\* complete lines, then memmove the unconsumed tail to the front; when the
\* reply is complete the tail must be empty.
ParseRead ==
  /\ pc = "wait"
  /\ call.op \in {"list", "dca", "write", "read"}
  /\ \E k \in Chunks :
       LET b  == pbuf \o SubSeq(rep, 1, k)
           st == ParseLines(call.op, pst, Lines(b))
       IN
       /\ rep' = SubSeq(rep, k + 1, Len(rep))
       /\ heard' = heard \cup Taken(k)
       /\ \/ /\ st.err \/ st.extra
             /\ Return(Err("short"))
             /\ UNCHANGED <<pbuf, pst>>
          \/ /\ ~st.err /\ ~st.extra /\ st.fin
             /\ Return(IF Rest(b) # <<>> THEN Err("short") ELSE Outcome(call.op, st))
             /\ UNCHANGED <<pbuf, pst>>
          \/ /\ ~st.err /\ ~st.extra /\ ~st.fin
             /\ pbuf' = Rest(b)
             /\ pst' = st
             /\ UNCHANGED <<pc, returned>>
  /\ UNCHANGED <<req, closed, wpc, call, nCalls, served, codec>>

\* removeUUID, sendFile: read until the buffer holds a line (no memmove);
\* exactly one line, matching rxReply, and OK returns true; else throw.
SingleRead ==
  /\ pc = "wait"
  /\ call.op \in {"remove", "send"}
  /\ \E k \in Chunks :
       LET b  == pbuf \o SubSeq(rep, 1, k)
           ls == Lines(b)
       IN
       /\ rep' = SubSeq(rep, k + 1, Len(rep))
       /\ heard' = heard \cup Taken(k)
       /\ \/ /\ ls = <<>>
             /\ pbuf' = b
             /\ UNCHANGED <<pc, returned>>
          \/ /\ ls # <<>>
             /\ Return(IF Len(ls) = 1 /\ IsReply(ls[1]) /\ ls[1].k = "OK"
                       THEN Ok(TRUE) ELSE Err("short"))
             /\ UNCHANGED pbuf
  /\ UNCHANGED <<req, closed, wpc, call, pst, nCalls, served, codec>>

\* A reply text longer than the 2 KiB buffer: the reads fill the buffer
\* without a line and the while(curPos < bufSz) loop ends.  The parsers
\* with a curPos == 0 check throw; removeUUID and sendFile fall out of the
\* loop to "return true".  The rest of the text stays in the connection.
ReadFull ==
  /\ pc = "wait"
  /\ rep # <<>>
  /\ IsLong(Head(rep))
  /\ call.op # "list"
  /\ rep' = <<Txt(Ln("Junk", "", Head(rep).id))>> \o Tail(rep)
  /\ heard' = heard \cup {Head(rep).id}
  /\ Return(IF call.op \in {"remove", "send"} THEN Ok(TRUE) ELSE Err("short"))
  /\ UNCHANGED <<req, closed, wpc, call, pbuf, pst, nCalls, served, codec>>

-----------------------------------------------------------------------------

Init ==
  /\ req = <<>>
  /\ rep = <<>>
  /\ closed = FALSE
  /\ wpc = "run"
  /\ pc = "idle"
  /\ call = [op |-> "list", arg |-> "none", id |-> 0]
  /\ pbuf = <<>>
  /\ pst = St0
  /\ nCalls = 0
  /\ served = <<>>
  /\ returned = <<>>
  /\ heard = {}
  /\ codec = CodecInit

\* The client's calls are spent and the last one has returned.
Done ==
  /\ nCalls = MaxCalls
  /\ pc = "idle"
  /\ UNCHANGED vars

Next ==
  \/ \E c \in Calls : ProxyCall(c)
  \/ WrapperHandle
  \/ ParseRead
  \/ SingleRead
  \/ ReadFull
  \/ ReadEOF
  \/ Done

\* The proxy's reads return once bytes are there, and the wrapper's thread
\* runs when a line has arrived.
Fairness ==
  /\ WF_vars(ParseRead \/ SingleRead \/ ReadFull \/ ReadEOF)
  /\ WF_vars(WrapperHandle)

Spec == Init /\ [][Next]_vars /\ Fairness

-----------------------------------------------------------------------------
(* Properties *)

\* What a caller of the local ETDServer sees: the value, or an exception
\* (its message is not compared).
LocalView(r) == IF r.ok THEN r ELSE Err("short")

\* Spec 4.1: ETDServer and ETDProxy implement the service contract
\* identically.  Every call the proxy has returned from returned what the
\* daemon's ETDServer returned for it (a call the daemon never ran, the
\* connection being gone, must fail).
ProxyFaithful ==
  \A i \in DOMAIN returned :
    IF i \in DOMAIN served THEN returned[i] = LocalView(served[i])
    ELSE ~returned[i].ok

\* The proxy and the wrapper stay in step: a proxy call only ever reads
\* reply bytes the wrapper wrote for that call, never the rest of an
\* earlier call's reply (getReplies/memmove and the parsers' stopping
\* rules).
NoCrossTalk == heard \subseteq {call.id}

\* ETDServerWrapper::handle keeps serving: no request line an ETDProxy
\* method formats makes it close the connection as an unknown command.
WrapperServes == wpc = "run"

\* getReplies and the memmove keep the lines of the reply stream whatever
\* read() returns.  The wrapper writes a text and its "\n" in two writes, so
\* a read can end inside a text or between a text and its "\n".  For every
\* byte where the buffer can end, the lines getReplies finds up to it,
\* followed by the lines it finds in the moved tail and the bytes after
\* it, are the lines of the whole stream; and these are the lines the
\* proxy's steps take from the items (Lines).
FramingSound ==
  LET S == Bytes(pbuf \o rep)
      whole == Frame!GetReplies(S).lines
  IN /\ whole = [i \in DOMAIN Lines(pbuf \o rep) |-> Text(Lines(pbuf \o rep)[i])]
     /\ \A c \in 0..Len(S) :
          LET h == SubSeq(S, 1, c) IN
          Frame!GetReplies(h).lines
            \o Frame!GetReplies(Frame!Compact(h) \o SubSeq(S, c + 1, Len(S))).lines
            = whole

\* Every ETDProxy call returns, with a value or an exception: no reply
\* leaves a proxy reading forever.
CallReturns == pc = "wait" ~> pc = "idle"

====
