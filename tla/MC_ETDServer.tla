--------------------------- MODULE MC_ETDServer ---------------------------
(* ETDServer instantiated for TLC: two services on one daemon, two raw      *)
(* paths that normalize to the same file plus one more, single-byte copy   *)
(* buffers so that the copy loops take several rounds.                     *)
EXTENDS ETDServer

CONSTANTS a, b

MCServices == {a, b}
MCNormalize == ("/d/x" :> "/d/x") @@ ("/d//x" :> "/d/x") @@ ("/d/y" :> "/d/y")
MCInitFiles == ("/d/x" :> 2) @@ ("/d/y" :> Absent)
\* Service a sends to or gets from b; b's owner may at the same time send
\* to a, so each record can be locked by the other's data connection.
MCRequests == {<<a, FALSE, b>>, <<a, TRUE, b>>, <<b, FALSE, a>>}
\* Only a's owner transfers, with b as the peer: no record is ever wanted
\* by a thread while its own control thread holds it for a transfer.
MCRequestsOneWay == {<<a, FALSE, b>>, <<a, TRUE, b>>}
\* Each owner sends its file to the other's uuid (one of them names the
\* wrong peer): two send-file commands on two control connections.
MCRequestsCross == {<<a, FALSE, b>>, <<b, FALSE, a>>}
=============================================================================
