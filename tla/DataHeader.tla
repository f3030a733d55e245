------------------------------ MODULE DataHeader ------------------------------
(***************************************************************************)
(* The data-connection header of src/src/etdc_etdserver.cc: how            *)
(* ETDServer::sendFile and getFile write it (lines 322, 411), and how      *)
(* ETDDataServer::handle finds and decodes it: rxCommand, the regex        *)
(* iteration of getKeyValuePairs over rxKeyValue, unSlash, the key checks  *)
(* and string2off_t (std::stol).                                           *)
(*                                                                         *)
(* A text is a sequence of one-character strings.  The regexes are         *)
(* translated into scans; where ECMAScript backtracking could matter the   *)
(* comment says why it cannot change the match.                            *)
(***************************************************************************)
EXTENDS Integers, Sequences, SequencesExt

CONSTANTS
  Letters,   \* the characters of [a-zA-Z] a text may contain
  Fold       \* their lower case: the case_insensitive_lt key order

Digit == [d \in 0..9 |-> CHOOSE c \in {"0","1","2","3","4","5","6","7","8","9"} :
                           c = ToString(d)]
Digits == {Digit[d] : d \in 0..9}
Quote == "\""
Backslash == "\\"

IsWord(c)    == c \in Letters \cup Digits \cup {"_"}       \* \w
IsKeyChar(c) == IsWord(c) \/ c = "-"                       \* [a-zA-Z0-9_-]
IsSpace(c)   == c \in {" ", "\t", "\n", "\r", "\f"}         \* \s
\* mutant of IsBare: a bare value that runs on over a comma
IsBareComma(c) == c \notin {" ", "\t"}
IsBare(c)    == c \notin {",", " ", "\t"}                  \* [^, \t\v]

\* The first index at or after i whose character fails P (Len(s) + 1: none).
RunEnd(s, i, P(_)) ==
  LET J == {j \in i..Len(s) : ~P(s[j])} IN IF J = {} THEN Len(s) + 1 ELSE Min(J)

-----------------------------------------------------------------------------
(* Writing: msg_buf << "{ uuid:" << uuid << [", push:1"] << ", sz:" << todo << "}" *)

RECURSIVE Decimal(_)
Decimal(x) ==
  IF x < 0 THEN <<"-">> \o Decimal(-x)
  ELSE IF x < 10 THEN <<Digit[x]>>
  ELSE Decimal(x \div 10) \o <<Digit[x % 10]>>

Header(uuid, push, sz) ==
  <<"{", " ", "u", "u", "i", "d", ":">> \o uuid
    \o (IF push THEN <<",", " ", "p", "u", "s", "h", ":", "1">> ELSE <<>>)
    \o <<",", " ", "s", "z", ":">> \o Decimal(sz) \o <<"}">>

-----------------------------------------------------------------------------
(* Reading *)

\* rxCommand "^(\{([^\}]*)\})": the buffer starts with '{' (asserted) and
\* the command ends at the first '}'; the fields are what lies between.
\* Absent until a '}' has arrived.
CommandEnd(buf) == SelectInSeq(buf, LAMBDA c : c = "}")
Fields(buf) == SubSeq(buf, 2, CommandEnd(buf) - 1)

\* The value of rxKeyValue's group 2 starting at v: a '"' followed later by
\* another '"' takes everything up to the LAST '"' (".*" is greedy and the
\* lookahead (?!\\) looks at that closing '"', so it never fails);
\* otherwise [^, \t\v]+.  Result: <<group 2 end (exclusive), group 3>>.
ValueAt(s, v) ==
  LET q == SelectLastInSeq(s, LAMBDA c : c = Quote) IN
  IF s[v] = Quote /\ q > v THEN <<q + 1, SubSeq(s, v + 1, q - 1)>>
  ELSE <<RunEnd(s, v, IsBare), <<>>>>

\* rxKeyValue "\b([a-zA-Z][a-zA-Z0-9_-]+)\s*:\s*(...)" tried at i: the match,
\* or none.  The key
\* is the whole run of key characters: a shorter key is followed by a key
\* character, which is neither \s nor ':'.  A value cannot start with a
\* space, so giving back spaces to \s* never helps either.
MatchAt(s, i) ==
  LET ke == RunEnd(s, i + 1, IsKeyChar)
      c  == RunEnd(s, ke, IsSpace)
      v  == RunEnd(s, c + 1, IsSpace)
      val == ValueAt(s, v)
  IN IF /\ s[i] \in Letters
        /\ i = 1 \/ ~IsWord(s[i - 1])
        /\ ke - i >= 2
        /\ c <= Len(s) /\ s[c] = ":"
        /\ v <= Len(s) /\ IsBare(s[v])
     THEN {[end |-> val[1], key |-> SubSeq(s, i, ke - 1),
            \* this_kv[3].length() ? this_kv[3] : this_kv[2], then unSlash
            val |-> Remove(IF val[2] # <<>> THEN val[2] ELSE SubSeq(s, v, val[1] - 1),
                           Backslash)]}
     ELSE {}

\* getKeyValuePairs: every match of the regex_iterator, left to right, the
\* next search starting where the previous match ended.
RECURSIVE KeyValuePairs(_, _)
KeyValuePairs(s, i) ==
  IF i > Len(s) THEN <<>>
  ELSE LET m == MatchAt(s, i) IN
       IF m = {} THEN KeyValuePairs(s, i + 1)
       ELSE LET mm == CHOOSE x \in m : TRUE IN
            <<[key |-> mm.key, val |-> mm.val]>> \o KeyValuePairs(s, mm.end)

FoldKey(k) == [j \in DOMAIN k |-> IF k[j] \in Letters THEN Fold[k[j]] ELSE k[j]]

\* kvpairs.find(key) in the case-insensitive map: the value, or none.
Lookup(kvs, key) == {kv.val : kv \in {kvs[j] : j \in {j \in DOMAIN kvs : FoldKey(kvs[j].key) = key}}}

\* no_duplicates_inserter (utilities.h): a second pair with an equal key
\* is a protocol error (spec section 6).
HasDuplicate(kvs) ==
  \E i, j \in DOMAIN kvs : i < j /\ FoldKey(kvs[i].key) = FoldKey(kvs[j].key)

\* std::stol: leading white space, an optional sign, then at least one
\* digit (else invalid_argument); anything after the digits is ignored.
RECURSIVE DigitsValue(_, _, _)
DigitsValue(s, i, acc) ==
  IF i <= Len(s) /\ s[i] \in Digits
  THEN DigitsValue(s, i + 1, 10 * acc + CHOOSE d \in 0..9 : Digit[d] = s[i])
  ELSE acc
Stol(s) ==
  LET b  == RunEnd(s, 1, IsSpace)
      sg == IF b <= Len(s) /\ s[b] \in {"+", "-"} THEN 1 ELSE 0
      d  == b + sg
  IN IF d > Len(s) \/ s[d] \notin Digits THEN [ok |-> FALSE, val |-> 0]
     ELSE [ok |-> TRUE,
           val |-> (IF sg = 1 /\ s[b] = "-" THEN -1 ELSE 1) * DigitsValue(s, d, 0)]

\* handle (lines 1066-1095): decode the command in buf; not ok when an
\* ETDCASSERT or stol throws: no uuid, no sz, push other than "1", a
\* duplicate key, or a sz that is not a number.
Decode(buf) ==
  LET kvs  == KeyValuePairs(Fields(buf), 1)
      uuid == Lookup(kvs, <<"u", "u", "i", "d">>)
      sz   == Lookup(kvs, <<"s", "z">>)
      push == Lookup(kvs, <<"p", "u", "s", "h">>)
      the(S) == CHOOSE x \in S : TRUE
  IN IF \/ HasDuplicate(kvs)
        \/ uuid = {} \/ sz = {}
        \/ push \notin {{}, {<<"1">>}}
        \/ ~Stol(the(sz)).ok
     THEN [ok |-> FALSE, uuid |-> <<>>, push |-> FALSE, sz |-> 0]
     ELSE [ok |-> TRUE, uuid |-> the(uuid), push |-> push # {}, sz |-> Stol(the(sz)).val]

=============================================================================
