------------------------ MODULE MC_DataServerBuffer ------------------------
EXTENDS DataServerBuffer

\* The letters of the header texts below; none is upper case.
MCLetters == {"a", "d", "f", "h", "i", "p", "s", "u", "z"}
MCFold == [c \in MCLetters |-> c]

\* A uuid as uuid_type::mk() makes them: hex digits and dashes.
Uuid == <<"a", "1", "-", "f">>
\* A dstUUID the control wrapper's rxSendFile accepts (\S+) that adds a
\* second sz to the header.
DupSzUuid == <<"a", ",", "s", "z", ":", "1">>

\* Commands ETDServer::sendFile (pull) and getFile (push) send: the header
\* carries todo > 0, and a pull is followed by exactly sz bytes.  A pull
\* of 0 (no ETDServer sends it, any client may) is included; 6 needs two
\* iterations of the copy loop after the header read.
Conforming == {[uuid |-> Uuid, push |-> FALSE, sz |-> s, bytes |-> s] : s \in {0, 2, 6}}
                \cup {[uuid |-> Uuid, push |-> TRUE, sz |-> s, bytes |-> 0] : s \in {2, 6}}
\* A sendFile whose file read fails after 1 of 2 bytes.
ShortSender == {[uuid |-> Uuid, push |-> FALSE, sz |-> 2, bytes |-> 1]}
\* A sendFile to a uuid whose header handle refuses (duplicate key).
DupSz == {[uuid |-> DupSzUuid, push |-> FALSE, sz |-> 2, bytes |-> 2]}

MCCmds == Conforming \cup ShortSender \cup DupSz

\* A data client that sends two bytes more than its header's sz.
Overrun == {[uuid |-> Uuid, push |-> FALSE, sz |-> 1, bytes |-> 3]}
====
