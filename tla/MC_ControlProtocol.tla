------------------------- MODULE MC_ControlProtocol -------------------------
EXTENDS ControlProtocol

\* A listing of a path, and of an empty path (which rxList rejects).
ListCalls == {[op |-> "list", arg |-> "p"], [op |-> "list", arg |-> "empty"]}
\* requestFileRead at offset 0, past the end of the 2-byte file, and below 0.
ReadCalls == {[op |-> "read", arg |-> o] : o \in {0, 3, -1}}
\* requestFileWrite, dataChannelAddr, removeUUID of the own and another uuid.
OtherCalls == {[op |-> "write", arg |-> "p"], [op |-> "dca", arg |-> "none"],
               [op |-> "remove", arg |-> "own"], [op |-> "remove", arg |-> "other"]}
\* sendFile of 1 byte to a non-empty address list.
SendOk == {[op |-> "send", arg |-> [todo |-> 1, addrs |-> <<"a1">>]]}
\* sendFile with a negative count (a negative Remain passed on), and with
\* no data address.
SendOdd == {[op |-> "send", arg |-> [todo |-> -1, addrs |-> <<"a1">>]],
            [op |-> "send", arg |-> [todo |-> 1, addrs |-> <<>>]]}

\* removeUUID of the own uuid, and a 1-byte sendFile.
RemoveOrSend == {[op |-> "remove", arg |-> "own"]} \cup SendOk
\* sendFile with the count a negative Remain (read past the end) yields.
SendNeg == {[op |-> "send", arg |-> [todo |-> -1, addrs |-> <<"a1">>]]}
\* a listing, then requestFileRead at offset 0.
ListThenRead == {[op |-> "list", arg |-> "p"], [op |-> "read", arg |-> 0]}

\* a listing and a file write of a path longer than the request buffer.
LongCalls == {[op |-> "list", arg |-> "long"], [op |-> "write", arg |-> "long"]}

\* The data-channel addresses: a DNS name, an IPv6 literal with a zone, and
\* an IPv4-mapped IPv6 literal (its dots are outside ipv6_lit).
Str(t) == [i \in 1..Len(t) |-> SubSeq(t, i, i)]
MCSockName == [a \in {"a1", "a6", "bad"} |->
                 [proto |-> Str("tcp"), port |-> 80,
                  host |-> CASE a = "a1" -> Str("h.e")
                             [] a = "a6" -> Str("fe80::1%e0")
                             [] OTHER    -> Str("::ffff:1.2.3.4")]]
MCAddrLetters == {"t", "c", "p", "h", "e", "f"}

Addr == INSTANCE DataAddress WITH Letters <- MCAddrLetters

\* ETDProxy::dataChannelAddr: decode_data_addr of each "OK <designator>".
MCAddrDecoded == [a \in DOMAIN MCSockName |-> Addr!DecodeDataAddr(Addr!Format(MCSockName[a]))]

\* ETDServerWrapper::handle, send-file: the field ETDProxy::sendFile joined
\* with ',' is split by data_sep and every piece decoded.
SendAddrsDecode(as) ==
  LET ts == Addr!Tokens(Addr!Join([i \in 1..Len(as) |-> Addr!Format(MCSockName[as[i]])]))
  IN \A i \in 1..Len(ts) : Addr!DecodeDataAddr(ts[i]) # {}
MCSendDecodes == [as \in {<<>>, <<"a1">>, <<"a1", "bad">>} |-> SendAddrsDecode(as)]
\* sendFile to a good and a bad address.
SendBadAddr == {[op |-> "send", arg |-> [todo |-> 1, addrs |-> <<"a1", "bad">>]]}

Hdr == INSTANCE DataHeader WITH Letters <- MCAddrLetters, Fold <- [c \in MCAddrLetters |-> c]
Req == INSTANCE RequestLine WITH Letters <- MCAddrLetters \cup {"l", "i", "s", "w", "r",
                                   "a", "d", "m", "o", "v", "n", "u", "N"}

\* The texts the model's call arguments stand for: a path "p" ("long" is
\* cut off by TooLong before its line is read), the empty path, the own
\* uuid "u" and another "v", and the New open mode.
PathText(p) == IF p = "empty" THEN <<>> ELSE Req!W("p")
UuidText(u) == IF u = "own" THEN Req!W("u") ELSE Req!W("v")
Joined(as) == Addr!Join([i \in 1..Len(as) |-> Addr!Format(MCSockName[as[i]])])

\* The bytes the ETDProxy method behind call c writes, and the command the
\* wrapper should run for them.
Msg(c) ==
  CASE c.op = "list"   -> Req!ListMsg(PathText(c.arg))
    [] c.op = "write"  -> Req!WriteMsg(Req!W("New"), PathText(c.arg))
    [] c.op = "read"   -> Req!ReadMsg(Req!W("p"), c.arg)
    [] c.op = "dca"    -> Req!DcaMsg
    [] c.op = "remove" -> Req!RemoveMsg(UuidText(c.arg))
    [] c.op = "send"   -> Req!SendMsg(Req!W("u"), Req!W("v"), c.arg.todo, Joined(c.arg.addrs))
Meant(c) ==
  CASE c.op = "list"   -> <<"list", PathText(c.arg)>>
    [] c.op = "write"  -> <<"write", Req!W("New"), PathText(c.arg)>>
    [] c.op = "read"   -> <<"read", Hdr!Decimal(c.arg), Req!W("p")>>
    [] c.op = "dca"    -> <<"dca">>
    [] c.op = "remove" -> <<"remove", UuidText(c.arg)>>
    [] c.op = "send"   -> <<"send", Req!W("u"), Req!W("v"), Hdr!Decimal(c.arg.todo),
                            Joined(c.arg.addrs)>>

MCCalls == ListCalls \cup ReadCalls \cup OtherCalls \cup SendOk
MCCallsAll == MCCalls \cup SendOdd \cup LongCalls \cup SendBadAddr

\* Each line is run as the command it stands for or is unknown (a single
\* line, since no path holds a '\r' or '\n').
ASSUME \A c \in MCCallsAll :
         Req!Commands(Msg(c)) \in {<<Meant(c)>>, <<<<"unknown">>>>}
MCRequestRuns == [c \in MCCallsAll |-> Req!Commands(Msg(c)) = <<Meant(c)>>]
====
