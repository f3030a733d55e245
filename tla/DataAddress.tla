------------------------------ MODULE DataAddress ------------------------------
(***************************************************************************)
(* Data-channel address designators "<proto/host:port>" of                *)
(* src/src/etdc_etdserver.cc: decode_data_addr (rxSockName, the host-name *)
(* length check), the comma-joined list ETDProxy::sendFile writes and the *)
(* data_sep split ETDServerWrapper::handle reads back.  The wire form a   *)
(* sockname is written in (operator<<, outside src/) is taken from spec   *)
(* section 6.                                                             *)
(*                                                                         *)
(* A sockname is [proto, host, port]: proto and host are sequences of     *)
(* one-character strings, port a number.                                   *)
(***************************************************************************)
EXTENDS Integers, Sequences, SequencesExt

CONSTANT Letters   \* the characters of [a-zA-Z] a designator may contain

LOCAL Hdr == INSTANCE DataHeader WITH Fold <- [c \in Letters |-> c]

Digits == Hdr!Digits
IsAlnum(c) == c \in Letters \cup Digits

\* The index of the first (last) c in s; 0 when there is none.
FirstOf(s, c) == SelectInSeq(s, LAMBDA x : x = c)
LastOf(s, c) == SelectLastInSeq(s, LAMBDA x : x = c)

-----------------------------------------------------------------------------
(* Writing *)

\* spec section 6: <protocol/host:port>, an IPv6 literal (a host with a ':')
\* in brackets.
Format(sn) ==
  <<"<">> \o sn.proto \o <<"/">>
    \o (IF FirstOf(sn.host, ":") > 0 THEN <<"[">> \o sn.host \o <<"]">> ELSE sn.host)
    \o <<":">> \o Hdr!Decimal(sn.port) \o <<">">>

\* ETDProxy::sendFile: the designators joined by ",".
Join(ss) ==
  IF ss = <<>> THEN <<>>
  ELSE FoldLeft(LAMBDA acc, t : acc \o <<",">> \o t, Head(ss), Tail(ss))

-----------------------------------------------------------------------------
(* Reading *)

\* data_sep "[^,]+": the maximal runs of characters other than ','.
Tokens(s) ==
  LET step(acc, c) ==
        IF c = "," THEN IF Last(acc) = <<>> THEN acc ELSE Append(acc, <<>>)
        ELSE [acc EXCEPT ![Len(acc)] = Append(@, c)]
      ts == FoldLeft(step, <<<<>>>>, s)
  IN IF Last(ts) = <<>> THEN Front(ts) ELSE ts

\* mutant of IsIPv6Lit: the literal without its optional %zone
IsIPv6LitNoZone(s) ==
  LET a  == Hdr!RunEnd(s, 1, LAMBDA c : c = ":" \/ IsAlnum(c))
      p  == IF a <= Len(s) /\ s[a] = "/" THEN Hdr!RunEnd(s, a + 1, LAMBDA c : c \in Digits) ELSE a
  IN a > 1 /\ (p = a \/ p - (a + 1) \in 1..3) /\ p = Len(s) + 1

\* ipv6_lit "[:0-9a-zA-Z]+(/[0-9]{1,3})?(%[a-zA-Z0-9]+)?", the whole of s.
\* The three character classes are disjoint, so the match is unique.
IsIPv6Lit(s) ==
  LET a  == Hdr!RunEnd(s, 1, LAMBDA c : c = ":" \/ IsAlnum(c))
      p  == IF a <= Len(s) /\ s[a] = "/" THEN Hdr!RunEnd(s, a + 1, LAMBDA c : c \in Digits) ELSE a
      z  == IF p <= Len(s) /\ s[p] = "%" THEN Hdr!RunEnd(s, p + 1, IsAlnum) ELSE p
  IN /\ a > 1
     /\ p = a \/ p - (a + 1) \in 1..3
     /\ z = p \/ z > p + 1
     /\ z = Len(s) + 1

\* One label of valid_host: [a-zA-Z0-9] or [a-zA-Z0-9][a-zA-Z0-9\-]{0,61}[a-zA-Z0-9].
IsLabel(l) ==
  /\ Len(l) \in 1..63
  /\ IsAlnum(l[1]) /\ IsAlnum(l[Len(l)])
  /\ \A i \in 1..Len(l) : IsAlnum(l[i]) \/ l[i] = "-"

\* valid_host: labels joined by '.'; a label has no '.', so the regex can
\* only split the host at its dots.
IsValidHost(h) ==
  /\ h # <<>> /\ h[1] # "." /\ h[Len(h)] # "."
  /\ \A i \in 1..Len(h) - 1 : h[i] = "." => h[i + 1] # "."
  /\ \A i \in 0..Len(h) :
       (i = 0 \/ h[i] = ".") =>
         LET e == SelectInSubSeq(h, i + 1, Len(h), LAMBDA c : c = ".")
         IN IsLabel(SubSeq(h, i + 1, IF e = 0 THEN Len(h) ELSE e - 1))

\* unbracket: drop the brackets around an IPv6 literal.
Unbracket(h) ==
  IF h # <<>> /\ h[1] = "[" THEN SubSeq(h, 2, Len(h) - 1) ELSE h

\* decode_data_addr: rxSockName "^<([^/]+)/(\[ipv6_lit\]|valid_host):([0-9]+)>$"
\* must match the whole string (else it throws), a DNS host name is at most
\* 255 characters.  The proto ends at the first '/' ([^/]+); the port is
\* what follows the last ':' (neither a DNS name nor a port has a ':', an
\* IPv6 literal is closed by ']').  Result: {} (thrown) or {sockname}.
DecodeDataAddr(s) ==
  LET k    == FirstOf(s, "/")
      c    == LastOf(s, ":")
      host == SubSeq(s, k + 1, c - 1)
      pt   == SubSeq(s, c + 1, Len(s) - 1)
      ipv6 == Len(host) >= 2 /\ host[1] = "[" /\ host[Len(host)] = "]"
                /\ IsIPv6Lit(SubSeq(host, 2, Len(host) - 1))
  IN IF /\ Len(s) >= 2 /\ s[1] = "<" /\ s[Len(s)] = ">"
        /\ k > 2 /\ c > k
        /\ ipv6 \/ IsValidHost(host)
        /\ ipv6 \/ Len(host) <= 255
        /\ pt # <<>> /\ \A i \in 1..Len(pt) : pt[i] \in Digits
     THEN {[proto |-> SubSeq(s, 2, k - 1), host |-> Unbracket(host),
            port |-> Hdr!DigitsValue(pt, 1, 0)]}
     ELSE {}

=============================================================================
