------------------------------ MODULE RequestLine ------------------------------
(***************************************************************************)
(* The control-connection request lines of src/src/etdc_etdserver.cc: the  *)
(* text each ETDProxy method writes (lines 474, 546, 613, 676, 743,        *)
(* 788-795), and how ETDServerWrapper::handle cuts its buffer into lines   *)
(* (getReplies, line 859) and matches each against its command regexes     *)
(* (lines 866-880) in the order of its if-else chain.                      *)
(*                                                                         *)
(* A text is a sequence of one-character strings.  The regexes are         *)
(* translated into scans over runs of \s, \S and [0-9]: every \s+ is       *)
(* followed by \S (or [0-9]) and every \S+ or [0-9]+ by \s or the end, so  *)
(* no run can give back a character to a later part of the pattern and    *)
(* the greedy run is the only match.  icase is left out: the proxy writes  *)
(* the command words in lower case.                                        *)
(***************************************************************************)
EXTENDS Integers, Sequences, SequencesExt

CONSTANT Letters   \* the characters of [a-zA-Z] a text may contain

LOCAL Hdr == INSTANCE DataHeader WITH Fold <- [c \in Letters |-> c]
LOCAL Frame == INSTANCE LineFraming

\* A string literal as a text.
W(t) == [i \in 1..Len(t) |-> SubSeq(t, i, i)]
Sp == <<" ">>
NL == <<"\n">>

-----------------------------------------------------------------------------
(* What the proxy writes *)

ListMsg(path)      == W("list ") \o path \o NL
WriteMsg(om, file) == W("write-file-") \o om \o Sp \o file \o NL
ReadMsg(file, have) == W("read-file ") \o Hdr!Decimal(have) \o Sp \o file \o NL
DcaMsg             == W("data-channel-addr") \o NL
RemoveMsg(uuid)    == W("remove-uuid ") \o uuid \o NL
\* addrs: the data addresses already joined with ',' (DataAddress!Join)
SendMsg(src, dst, todo, addrs) ==
  W("send-file ") \o src \o Sp \o dst \o Sp \o Hdr!Decimal(todo) \o Sp \o addrs \o NL

-----------------------------------------------------------------------------
(* What the wrapper makes of one line *)

NotSpace(c) == ~Hdr!IsSpace(c)
IsDigit(c)  == c \in Hdr!Digits

\* The end of a non-empty run of P-characters starting at i, or 0 when the
\* character at i is no P-character (or i is 0: an earlier part failed).
Run(l, i, P(_)) ==
  IF i = 0 THEN 0 ELSE LET e == Hdr!RunEnd(l, i, P) IN IF e > i THEN e ELSE 0

\* (\S.*)$ at i: the rest of the line, which must start with a non-blank.
Rest(l, i) == IF 0 < i /\ i <= Len(l) /\ NotSpace(l[i]) THEN {SubSeq(l, i, Len(l))} ELSE {}

\* The index just after a command word at the start of the line (0: none).
After(l, w) == IF IsPrefix(W(w), l) THEN Len(w) + 1 ELSE 0

\* ^list\s+(\S.*)$
MatchList(l) ==
  LET b == Run(l, After(l, "list"), Hdr!IsSpace) IN
  {<<"list", p>> : p \in Rest(l, b)}

\* ^write-file-(\S+)\s+(\S.*)$
MatchWrite(l) ==
  LET o == After(l, "write-file-")
      t == Run(l, o, NotSpace)
      b == Run(l, t, Hdr!IsSpace)
  IN {<<"write", SubSeq(l, o, t - 1), p>> : p \in Rest(l, b)}

\* ^read-file\s+([0-9]+)\s+(\S.*)$
MatchRead(l) ==
  LET b1 == Run(l, After(l, "read-file"), Hdr!IsSpace)
      d  == Run(l, b1, IsDigit)
      b2 == Run(l, d, Hdr!IsSpace)
  IN {<<"read", SubSeq(l, b1, d - 1), p>> : p \in Rest(l, b2)}

\* ^send-file\s+(\S+)\s+(\S+)\s+([0-9]+)\s+(\S+)$
MatchSend(l) ==
  LET b1 == Run(l, After(l, "send-file"), Hdr!IsSpace)
      s  == Run(l, b1, NotSpace)
      b2 == Run(l, s, Hdr!IsSpace)
      d  == Run(l, b2, NotSpace)
      b3 == Run(l, d, Hdr!IsSpace)
      n  == Run(l, b3, IsDigit)
      b4 == Run(l, n, Hdr!IsSpace)
      a  == Run(l, b4, NotSpace)
  IN IF a # Len(l) + 1 THEN {}
     ELSE {<<"send", SubSeq(l, b1, s - 1), SubSeq(l, b2, d - 1),
             SubSeq(l, b3, n - 1), SubSeq(l, b4, a - 1)>>}

\* ^data-channel-addr$
MatchDca(l) == IF l = W("data-channel-addr") THEN {<<"dca">>} ELSE {}

\* ^remove-uuid\s+(\S+)$
MatchRemove(l) ==
  LET b == Run(l, After(l, "remove-uuid"), Hdr!IsSpace)
      u == Run(l, b, NotSpace)
  IN IF u # Len(l) + 1 THEN {}
     ELSE {<<"remove", SubSeq(l, b, u - 1)>>}

\* The if-else chain of handle: the first regex that matches decides; no
\* match is the "unknown command" that closes the connection.
Command(l) ==
  LET ms == <<MatchList(l), MatchWrite(l), MatchRead(l), MatchSend(l),
              MatchDca(l), MatchRemove(l)>>
      hit == {i \in 1..6 : ms[i] # {}}
  IN IF hit = {} THEN <<"unknown">>
     ELSE CHOOSE m \in ms[CHOOSE i \in hit : \A j \in hit : i <= j] : TRUE

\* The commands handle runs for the bytes of one request: getReplies cuts
\* them into lines (a path with a '\r' or '\n' makes more than one).
Commands(bytes) ==
  LET ls == Frame!GetReplies(bytes).lines IN [i \in DOMAIN ls |-> Command(ls[i])]

=============================================================================
