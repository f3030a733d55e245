--------------------------- MODULE AbstractRegistry ---------------------------
(***************************************************************************)
(* What the daemon's transfer registry (etd_state::transfers with its two  *)
(* levels of locking, spec section 5) promises, without threads, data     *)
(* connections or byte positions:                                          *)
(*  - a uuid holds at most one record, fixed in path and open mode for as  *)
(*    long as it exists;                                                   *)
(*  - a path is shared by several records only if all of them read it;     *)
(*  - a record's lock goes from free to one holder and back to free;       *)
(*  - a record is removed only while nobody holds it;                      *)
(*  - a file on disk changes only when a record for it is opened for       *)
(*    writing, or grows while a write-mode record for it is held.          *)
(* ETDServer is checked to implement this module (ETDServer!RegistrySpec). *)
(***************************************************************************)
EXTENDS Naturals, Functions, TLC

CONSTANTS
  Uuids,      \* the UUIDs that can name a record
  Paths,      \* normalized paths
  Modes,      \* open modes
  Shared,     \* the one mode whose records may share a path ("Read")
  Writers,    \* the modes under which a holder may write the file
  Holders,    \* the threads that can hold a record lock
  Free,       \* a record lock nobody holds
  InitDisk    \* the files on disk at start

VARIABLES
  reg,   \* uuid -> [path, mode, holder]
  disk   \* path -> what is on disk

vars == <<reg, disk>>

RecordsOn(p) == {u \in DOMAIN reg : reg[u].path = p}

\* A record for p opened in mode m may join those already on p.
Compatible(p, m) ==
  \A u \in RecordsOn(p) : m = Shared /\ reg[u].mode = Shared

\* Only the file at p may change.
DiskElsewhereKept(p) ==
  /\ DOMAIN disk' = DOMAIN disk
  /\ \A q \in DOMAIN disk \ {p} : disk'[q] = disk[q]

Init ==
  /\ reg = [u \in {} |-> Free]
  /\ disk = InitDisk

Open(u, p, m) ==
  /\ u \notin DOMAIN reg
  /\ Compatible(p, m)
  /\ reg' = (u :> [path |-> p, mode |-> m, holder |-> Free]) @@ reg
  /\ IF m = Shared THEN UNCHANGED disk ELSE DiskElsewhereKept(p)

Acquire(u, h) ==
  /\ u \in DOMAIN reg
  /\ reg[u].holder = Free
  /\ reg' = [reg EXCEPT ![u].holder = h]
  /\ UNCHANGED disk

Release(u) ==
  /\ u \in DOMAIN reg
  /\ reg[u].holder # Free
  /\ reg' = [reg EXCEPT ![u].holder = Free]
  /\ UNCHANGED disk

Remove(u) ==
  /\ u \in DOMAIN reg
  /\ reg[u].holder = Free
  /\ reg' = Restrict(reg, DOMAIN reg \ {u})
  /\ UNCHANGED disk

Write(u) ==
  LET p == reg[u].path IN
  /\ u \in DOMAIN reg
  /\ reg[u].holder # Free
  /\ reg[u].mode \in Writers
  /\ disk[p] \in Nat /\ disk'[p] \in Nat /\ disk'[p] >= disk[p]
  /\ DiskElsewhereKept(p)
  /\ UNCHANGED reg

Next ==
  \E u \in Uuids :
    \/ \E p \in Paths, m \in Modes : Open(u, p, m)
    \/ \E h \in Holders : Acquire(u, h)
    \/ Release(u)
    \/ Remove(u)
    \/ Write(u)

Spec == Init /\ [][Next]_vars

=============================================================================
