------------------------------ MODULE LineFraming ------------------------------
(***************************************************************************)
(* How an ETDProxy method of src/src/etdc_etdserver.cc cuts the bytes of  *)
(* its reply buffer into lines: getReplies, a std::regex_iterator over    *)
(* rxLine "([^\r\n]+)[\r\n]+" (lines 455-471), and the memmove of the     *)
(* bytes after endpos to the front of the buffer (lines 529-533).         *)
(*                                                                         *)
(* A byte is a string: "\r", "\n", or any other string standing for a     *)
(* byte that is neither.                                                   *)
(***************************************************************************)
EXTENDS Integers, Sequences

IsEol(c) == c \in {"\r", "\n"}

\* The first index at or after i whose byte is (eol) or is not (~eol) an
\* end-of-line byte (Len(s) + 1: none).
RECURSIVE RunFrom(_, _, _)
RunFrom(s, i, eol) == IF i <= Len(s) /\ IsEol(s[i]) # eol THEN RunFrom(s, i + 1, eol) ELSE i

\* The matches of rxLine searched from index i on, as [pos, len, line]
\* (position() is 0-based).  The leftmost match starts at the first byte
\* that is no end-of-line; group 1 is the whole run of such bytes (the byte
\* after it is an end-of-line or there is none, so no shorter group 1 can
\* be followed by [\r\n]); [\r\n]+ then takes the whole end-of-line run.
\* A run that reaches the end of the buffer is no match, and neither is
\* anything after it.
RECURSIVE Matches(_, _)
Matches(s, i) ==
  LET b == RunFrom(s, i, FALSE)
      e == RunFrom(s, b, TRUE)
      m == RunFrom(s, e, FALSE)
  IN IF e > Len(s) THEN <<>>
     ELSE <<[pos |-> b - 1, len |-> m - b, line |-> SubSeq(s, b, e - 1)]>>
            \o Matches(s, m)

\* mutant of GetReplies: endpos = line->position(), the length left out
GetRepliesAtStart(s) ==
  LET ms == Matches(s, 1) IN
  [lines  |-> [k \in DOMAIN ms |-> ms[k].line],
   endpos |-> IF ms = <<>> THEN 0 ELSE ms[Len(ms)].pos]

\* getReplies: group 1 of every match, and endpos = position() + length()
\* of the last match (0 when there is none).
GetReplies(s) ==
  LET ms == Matches(s, 1) IN
  [lines  |-> [k \in DOMAIN ms |-> ms[k].line],
   endpos |-> IF ms = <<>> THEN 0 ELSE ms[Len(ms)].pos + ms[Len(ms)].len]

\* memmove(&buffer[0], &buffer[endpos], curPos - endpos); curPos -= endpos
Compact(s) == SubSeq(s, GetReplies(s).endpos + 1, Len(s))

=============================================================================
