------------------------------ MODULE ETDServer ------------------------------
(***************************************************************************)
(* One e-transfer daemon: the shared etd_state (the transfer registry),     *)
(* the ETDServer instances that own one transfer each, and the              *)
(* ETDDataServer threads that serve data connections, all from             *)
(* src/src/etdc_etdserver.cc.                                               *)
(*                                                                         *)
(* Threads: every ETDServer is driven by one control thread (its           *)
(* ETDServerWrapper::handle loop), and every data connection opened by      *)
(* an ETDServer's sendFile/getFile is served by one ETDDataServer thread.   *)
(* The connection opened by service s is conn[s] and the data-server        *)
(* thread that serves it is ds[s].                                          *)
(*                                                                         *)
(* Every critical section under shared_state.lock only touches the         *)
(* registry and ends before the next blocking call, so each one is a       *)
(* single atomic action and the mutex itself is not a variable.  A failed  *)
(* try_lock followed by unlock+sleep changes no state: a thread in a retry *)
(* loop is modelled as waiting until the record lock is free.              *)
(*                                                                         *)
(* Byte streams are counted, not carried: a file is its size, a data       *)
(* connection the number of payload bytes in flight each way.              *)
(***************************************************************************)
EXTENDS Integers, FiniteSets, FiniteSetsExt, Functions, TLC

CONSTANTS
  Services,    \* the UUIDs of the daemon's ETDServer instances
  RawPaths,    \* paths as clients send them
  Normalize,   \* detail::normalize_path, a function RawPaths -> paths
  InitFiles,   \* the files on disk at start: path -> size, or Absent
  Absent,      \* model value: no such file
  NoOwner,     \* model value: a record lock nobody holds
  MaxGen,      \* bound: TransferRecords created over a behaviour
  MaxCalls,    \* bound: sendFile/getFile calls over a behaviour
  MaxXfer,     \* bound: byte count a client passes to sendFile/getFile
  MaxOffset,   \* bound: alreadyhave a client passes to requestFileRead
  Requests,    \* the <<service, get?, peer>> transfers clients ask for
  Leavers,     \* the services whose control connection may end
  BufSz        \* the copy loops' bufSz (10 MiB in the code), scaled down

Paths == Range(Normalize)

ASSUME /\ Normalize \in [RawPaths -> Paths]
       /\ InitFiles \in [Paths -> Nat \cup {Absent}]
       /\ MaxGen \in Nat /\ MaxCalls \in Nat
       /\ Requests \subseteq Services \X BOOLEAN \X Services
       /\ Leavers \subseteq Services
       /\ MaxXfer \in Nat \ {0} /\ MaxOffset \in Nat /\ BufSz \in Nat \ {0}

OpenModes  == {"Read", "New", "OverWrite", "Resume", "SkipExisting"}
\* allowedModes of requestFileWrite (line 104)
WriteModes == {"New", "OverWrite", "Resume", "SkipExisting"}
\* allowedWriteModes of getFile (line 384) and of the data server (line 1029)
PullModes  == {"New", "OverWrite", "Resume"}

\* The owner of a record lock: a control thread or a data-server thread.
Ctl(s) == <<"ctl", s>>
Dat(s) == <<"data", s>>
Threads == {Ctl(s) : s \in Services} \cup {Dat(s) : s \in Services}

VARIABLES
  files,      \* path -> size on disk, or Absent
  transfers,  \* shared_state.transfers: UUID -> TransferRecord
  nextGen,    \* identity of the next record created (a history variable)
  nCalls,     \* sendFile/getFile calls made so far (bounds the model)
  pc,         \* where each service's control thread is
  op,         \* the sendFile/getFile call a control thread is in
  ctlGen,     \* the record a control thread has locked (0: none)
  conn,       \* the data connection opened by each service's control thread
  ds,         \* the data-server thread serving conn[s]
  result      \* what the last sendFile/getFile returned

vars == <<files, transfers, nextGen, nCalls, pc, op, ctlGen, conn, ds, result>>

Record == [path : Paths, mode : OpenModes, pos : Int, gen : 1..MaxGen,
           owner : Threads \cup {NoOwner}]

NoConn == [open |-> FALSE, hdr |-> FALSE, uuid |-> CHOOSE s \in Services : TRUE,
           sz |-> 0, push |-> FALSE, up |-> 0,
           down |-> 0, ack |-> FALSE, acked |-> FALSE, cli |-> FALSE, srv |-> FALSE]
NoDs   == [pc |-> "none", uuid |-> CHOOSE s \in Services : TRUE, push |-> FALSE,
           n |-> 0, buf |-> 0, gen |-> 0]

TypeOK ==
  /\ files \in [Paths -> Nat \cup {Absent}]
  /\ DOMAIN transfers \subseteq Services
  /\ \A u \in DOMAIN transfers : transfers[u] \in Record
  /\ nextGen \in 1..MaxGen + 1
  /\ nCalls \in 0..MaxCalls
  /\ pc \in [Services -> {"idle", "removing", "lock", "connect", "send",
                           "ack", "recv", "sendack", "ending", "gone"}]
  /\ op \in [Services -> [get : BOOLEAN, peer : Services, todo : Int]]
  /\ ctlGen \in [Services -> 0..MaxGen]
  /\ conn \in [Services -> [open : BOOLEAN, hdr : BOOLEAN, uuid : Services, sz : Int,
                            push : BOOLEAN, up : Nat, down : Nat, ack : BOOLEAN,
                            acked : BOOLEAN, cli : BOOLEAN, srv : BOOLEAN]]
  /\ ds \in [Services -> [pc : {"none", "hdr", "lock", "pull", "pullack",
                                "release", "push", "pushack", "done"},
                          uuid : Services, push : BOOLEAN, n : Int,
                          buf : Nat, gen : 0..MaxGen]]
  /\ result \in [Services -> {"none", "ok", "err"}]

-----------------------------------------------------------------------------
(* Registry helpers *)

\* transfers.emplace(uuid, record)
Insert(u, r) == (u :> r) @@ transfers
\* transfers.erase(ptr)
Erase(u) == Restrict(transfers, DOMAIN transfers \ {u})
\* the records other than u's that reference path p (the find_if scans)
UsersOf(p) == {u \in DOMAIN transfers : transfers[u].path = p}

SetOwner(u, t) == [transfers EXCEPT ![u].owner = t]

-----------------------------------------------------------------------------
(* The etdc_file constructor (etdc_fd.cc is not part of src/): how each    *)
(* open mode treats an existing or absent file, and the size it leaves.    *)
OpensFor(m, f) ==
  CASE m \in {"New", "SkipExisting"} -> f = Absent
    [] m \in {"OverWrite", "Resume"}  -> TRUE
    [] m = "Read"                     -> f # Absent
\* Bug variant: Resume takes the on-disk size without checking that the
\* file exists.
SizeAfterOpenNoExistCheck(m, f) ==
  CASE m \in {"Resume", "Read"} -> f
    [] OTHER                    -> 0
SizeAfterOpen(m, f) ==
  CASE m = "Resume" /\ f # Absent -> f
    [] m = "Read"                 -> f
    [] OTHER                      -> 0

-----------------------------------------------------------------------------
(* ETDServer: the operations a control thread runs for its service.        *)

\* requestFileWrite: under shared_state.lock, refuse when this service is
\* busy, the mode is not a write mode or the normalized path has any record;
\* otherwise open the file and insert the record at the file's size.
RequestFileWrite(s, rp, m) ==
  LET p == Normalize[rp] IN
  /\ pc[s] = "idle"
  /\ nextGen <= MaxGen
  /\ s \notin DOMAIN transfers
  /\ m \in WriteModes
  /\ UsersOf(p) = {}
  /\ OpensFor(m, files[p])
  /\ files' = [files EXCEPT ![p] = SizeAfterOpen(m, files[p])]
  /\ transfers' = Insert(s, [path |-> p, mode |-> m, pos |-> files'[p],
                             gen |-> nextGen, owner |-> NoOwner])
  /\ nextGen' = nextGen + 1
  /\ UNCHANGED <<nCalls, pc, op, ctlGen, conn, ds, result>>

\* Bug variant: requestFileRead without the check that the path's records
\* are open for reading.
RequestFileReadAnyPath(s, rp, off) ==
  LET p == Normalize[rp] IN
  /\ pc[s] = "idle"
  /\ nextGen <= MaxGen
  /\ s \notin DOMAIN transfers
  /\ OpensFor("Read", files[p])
  /\ transfers' = Insert(s, [path |-> p, mode |-> "Read", pos |-> off,
                             gen |-> nextGen, owner |-> NoOwner])
  /\ nextGen' = nextGen + 1
  /\ UNCHANGED <<files, nCalls, pc, op, ctlGen, conn, ds, result>>

\* requestFileRead: refuse when busy or when the path has a record that is
\* not open for reading (find_if stops at the first record of the path; all
\* of them are Read whenever one is, see PathExclusive); open, seek to
\* alreadyhave (lseek past the end succeeds) and insert.
RequestFileRead(s, rp, off) ==
  LET p == Normalize[rp] IN
  /\ pc[s] = "idle"
  /\ nextGen <= MaxGen
  /\ s \notin DOMAIN transfers
  /\ \A u \in UsersOf(p) : transfers[u].mode = "Read"
  /\ OpensFor("Read", files[p])
  /\ transfers' = Insert(s, [path |-> p, mode |-> "Read", pos |-> off,
                             gen |-> nextGen, owner |-> NoOwner])
  /\ nextGen' = nextGen + 1
  /\ UNCHANGED <<files, nCalls, pc, op, ctlGen, conn, ds, result>>

\* Where removeUUID returns to: the idle control thread, or the destructor
\* (which then ends: "gone").
AfterRemove(s) == IF pc[s] = "ending" THEN "gone" ELSE "idle"

\* Bug variant: removeUUID erases the record without the try_lock.
RemoveFoundNoTryLock(s) ==
  /\ s \in DOMAIN transfers
  /\ transfers' = Erase(s)
  /\ pc' = [pc EXCEPT ![s] = AfterRemove(s)]

\* removeUUID: lock the shared state and find our record; none: return
\* false; try_lock it: on success close the fd and erase the record, on
\* failure unlock, sleep and start again (the thread is now "removing").
RemoveFound(s) ==
  /\ s \in DOMAIN transfers
  /\ transfers[s].owner = NoOwner
  /\ transfers' = Erase(s)
  /\ pc' = [pc EXCEPT ![s] = AfterRemove(s)]

RemoveUUID(s) ==
  /\ pc[s] = "idle"
  /\ s \in DOMAIN transfers
  /\ \/ RemoveFound(s)
     \/ /\ transfers[s].owner # NoOwner
        /\ pc' = [pc EXCEPT ![s] = "removing"]
        /\ UNCHANGED transfers
  /\ UNCHANGED <<files, nextGen, nCalls, op, ctlGen, conn, ds, result>>

\* A thread whose try_lock failed unlocks, sleeps and tries again: a step
\* that changes nothing (a spin), taken while the record stays locked.
Spin(u) ==
  /\ u \in DOMAIN transfers
  /\ transfers[u].owner # NoOwner
  /\ UNCHANGED vars

\* An iteration of removeUUID's while(true) loop: after a failed try_lock,
\* or the first one of the call ~ETDServer makes.  No record returns false
\* (the destructor ignores it; a waiting caller's own record cannot vanish).
RemoveRetry(s) ==
  /\ pc[s] \in {"removing", "ending"}
  /\ \/ /\ RemoveFound(s)
        /\ UNCHANGED <<files, nextGen, nCalls, op, ctlGen, conn, ds, result>>
     \/ /\ s \notin DOMAIN transfers
        /\ pc' = [pc EXCEPT ![s] = AfterRemove(s)]
        /\ UNCHANGED <<files, transfers, nextGen, nCalls, op, ctlGen, conn, ds, result>>
     \/ Spin(s)

\* ~ETDServer: the control connection ended (handle returned or threw) and
\* the wrapper, with its ETDServer, is destroyed between two commands; the
\* destructor calls removeUUID(__m_uuid) and swallows what it throws.
Teardown(s) ==
  /\ s \in Leavers
  /\ pc[s] = "idle"
  /\ pc' = [pc EXCEPT ![s] = "ending"]
  /\ UNCHANGED <<files, transfers, nextGen, nCalls, op, ctlGen, conn, ds, result>>

-----------------------------------------------------------------------------
(* ETDServer::sendFile and ETDServer::getFile, run by the control thread.  *)

\* The values read() can return when asked for `want` bytes with `avail`
\* bytes in flight on a connection whose other end is closed or not: some
\* of them, 0 at end of stream, nothing yet (it blocks) otherwise.
ReadAmounts(want, avail, closed) ==
  IF want = 0 THEN {0}
  ELSE IF avail > 0 THEN 1..Min({want, avail})
  ELSE IF closed THEN {0} ELSE {}

\* Enter sendFile/getFile with todo > 0 (a call with todo <= 0 skips the
\* while(todo>0) loop and returns true at once, touching nothing).
StartXfer(s, get, peer, n) ==
  /\ pc[s] = "idle"
  /\ nCalls < MaxCalls
  /\ pc' = [pc EXCEPT ![s] = "lock"]
  /\ op' = [op EXCEPT ![s] = [get |-> get, peer |-> peer, todo |-> n]]
  /\ nCalls' = nCalls + 1
  /\ result' = [result EXCEPT ![s] = "none"]
  /\ UNCHANGED <<files, transfers, nextGen, ctlGen, conn, ds>>

\* The control thread leaves the call: its own record lock is released by
\* the unique_lock going out of scope, the data connection (if any) closed.
Leave(s, res) ==
  /\ pc' = [pc EXCEPT ![s] = "idle"]
  /\ result' = [result EXCEPT ![s] = res]
  /\ ctlGen' = [ctlGen EXCEPT ![s] = 0]

ReleaseOwn(s) ==
  IF ctlGen[s] # 0 THEN SetOwner(s, NoOwner) ELSE transfers

\* Lock shared state, find our record (none: "not initialized yet"), then
\* try_lock it (busy: retry); holding it, check its open mode: Read for
\* sendFile, New/OverWrite/Resume for getFile.
ModeFits(get, m) == IF get THEN m \in PullModes ELSE m = "Read"

LockOwn(s) ==
  /\ pc[s] = "lock"
  /\ \/ /\ s \notin DOMAIN transfers
        /\ Leave(s, "err")
        /\ UNCHANGED transfers
     \/ /\ s \in DOMAIN transfers
        /\ transfers[s].owner = NoOwner
        /\ ~ModeFits(op[s].get, transfers[s].mode)
        /\ Leave(s, "err")
        /\ UNCHANGED transfers
     \/ /\ s \in DOMAIN transfers
        /\ transfers[s].owner = NoOwner
        /\ ModeFits(op[s].get, transfers[s].mode)
        /\ transfers' = SetOwner(s, Ctl(s))
        /\ ctlGen' = [ctlGen EXCEPT ![s] = transfers[s].gen]
        /\ pc' = [pc EXCEPT ![s] = "connect"]
        /\ UNCHANGED result
  /\ UNCHANGED <<files, nextGen, nCalls, op, conn, ds>>

LockOwnSpin(s) == pc[s] = "lock" /\ Spin(s)

\* Try every data address in turn; none connects: AllAddressesFailed.
\* conn[s] and ds[s] are reused by s's next call once the thread serving
\* the previous one has ended (a scheduling the code allows, not forces).
\* Connected: write the header "{ uuid:<peer>, [push:1,] sz:<todo>}" and
\* an ETDDataServer thread accepts the connection.
Connect(s) ==
  /\ pc[s] = "connect"
  /\ ds[s].pc \in {"none", "done"}
  /\ \/ /\ Leave(s, "err")
        /\ transfers' = ReleaseOwn(s)
        /\ UNCHANGED <<conn, ds>>
     \/ /\ conn' = [conn EXCEPT ![s] = [NoConn EXCEPT !.open = TRUE,
                        !.hdr = TRUE, !.uuid = op[s].peer, !.sz = op[s].todo,
                        !.push = op[s].get]]
        /\ ds' = [ds EXCEPT ![s] = [NoDs EXCEPT !.pc = "hdr"]]
        /\ pc' = [pc EXCEPT ![s] = IF op[s].get THEN "recv" ELSE "send"]
        /\ UNCHANGED <<transfers, ctlGen, result>>
  /\ UNCHANGED <<files, nextGen, nCalls, op>>

\* Close our end of the data connection (dstFD going out of scope).
CloseCli(s) == [conn EXCEPT ![s].cli = TRUE]

\* sendFile's copy loop: read min(todo, bufSz) bytes from the file (a short
\* read fails the call) and write them to the connection; once the peer has
\* closed, a write either fails or is swallowed by the socket.
SendChunk(s) ==
  LET r == transfers[s]
      k == Min({op[s].todo, BufSz})
  IN
  /\ pc[s] = "send"
  /\ \/ /\ r.pos + k > files[r.path]
        /\ Leave(s, "err")
        /\ transfers' = [SetOwner(s, NoOwner) EXCEPT ![s].pos = files[r.path]]
        /\ conn' = CloseCli(s)
        /\ UNCHANGED op
     \/ /\ r.pos + k <= files[r.path]
        /\ conn[s].srv
        /\ Leave(s, "err")
        /\ transfers' = [SetOwner(s, NoOwner) EXCEPT ![s].pos = r.pos + k]
        /\ conn' = CloseCli(s)
        /\ UNCHANGED op
     \/ /\ r.pos + k <= files[r.path]
        /\ transfers' = [transfers EXCEPT ![s].pos = r.pos + k]
        /\ conn' = [conn EXCEPT ![s].up = IF conn[s].srv THEN @ ELSE @ + k]
        /\ op' = [op EXCEPT ![s].todo = @ - k]
        /\ pc' = [pc EXCEPT ![s] = IF op'[s].todo > 0 THEN "send" ELSE "ack"]
        /\ UNCHANGED <<ctlGen, result>>
  /\ UNCHANGED <<files, nextGen, nCalls, ds>>

\* Wait for the receiver's acknowledgement byte; read()'s result is not
\* checked, so end of stream ends the wait as well.  Then return true.
SendAck(s) ==
  /\ pc[s] = "ack"
  /\ conn[s].ack \/ conn[s].srv
  /\ conn' = [CloseCli(s) EXCEPT ![s].ack = FALSE]
  /\ transfers' = ReleaseOwn(s)
  /\ Leave(s, "ok")
  /\ UNCHANGED <<files, nextGen, nCalls, op, ds>>

\* getFile's copy loop: read up to bufSz bytes; if any arrived write them to
\* the file.  A read of 0 (peer closed) just goes round the loop again: a
\* spin that changes nothing (RecvSpin).
RecvChunk(s) ==
  LET r == transfers[s] IN
  /\ pc[s] = "recv"
  /\ \E k \in ReadAmounts(BufSz, conn[s].down, conn[s].srv) \ {0} :
       /\ conn' = [conn EXCEPT ![s].down = @ - k]
       /\ files' = [files EXCEPT ![r.path] = Max({@, r.pos + k})]
       /\ transfers' = [transfers EXCEPT ![s].pos = r.pos + k]
       /\ op' = [op EXCEPT ![s].todo = @ - k]
       /\ pc' = [pc EXCEPT ![s] = IF op'[s].todo > 0 THEN "recv" ELSE "sendack"]
  /\ UNCHANGED <<nextGen, nCalls, ctlGen, ds, result>>

RecvSpin(s) ==
  /\ pc[s] = "recv"
  /\ ReadAmounts(BufSz, conn[s].down, conn[s].srv) = {0}
  /\ UNCHANGED vars

\* All bytes are in: write the 'y' acknowledgement and return true.
RecvAck(s) ==
  /\ pc[s] = "sendack"
  /\ conn' = [CloseCli(s) EXCEPT ![s].ack = TRUE]
  /\ transfers' = ReleaseOwn(s)
  /\ Leave(s, "ok")
  /\ UNCHANGED <<files, nextGen, nCalls, op, ds>>

-----------------------------------------------------------------------------
(* ETDDataServer::handle, push_n and pull_n: the thread ds[s] serving the   *)
(* data connection conn[s].                                                 *)

\* The thread ends: an exception left handle() and the connection closes.
DsFail(s) ==
  /\ ds' = [ds EXCEPT ![s] = [@ EXCEPT !.pc = "done", !.gen = 0]]
  /\ conn' = [conn EXCEPT ![s].srv = TRUE]

ReleaseDs(s) ==
  IF ds[s].gen # 0 THEN SetOwner(ds[s].uuid, NoOwner) ELSE transfers

\* Read until "{...}" is in the buffer; the same read may bring payload
\* bytes that follow the header (they stay in the buffer: buf).  A read of
\* 0 bytes (the client closed), or bytes that do not start with '{', throw
\* and end the thread.
DsHeader(s) ==
  /\ ds[s].pc = "hdr"
  /\ \/ /\ conn[s].hdr
        /\ \E k \in 0..Min({conn[s].up, BufSz}) :
             /\ conn' = [conn EXCEPT ![s].hdr = FALSE, ![s].up = @ - k]
             /\ ds' = [ds EXCEPT ![s] = [pc |-> "lock", uuid |-> conn[s].uuid,
                          push |-> conn[s].push, n |-> conn[s].sz, buf |-> k,
                          gen |-> 0]]
     \/ /\ ~conn[s].hdr
        /\ conn[s].up > 0 \/ conn[s].cli
        /\ DsFail(s)
  /\ UNCHANGED <<files, transfers, nextGen, nCalls, pc, op, ctlGen, result>>

\* Bug variant: the open-mode check throws without unlocking the transfer.
DsLockKeepsLockOnError(s) ==
  LET u == ds[s].uuid IN
  /\ ds[s].pc = "lock"
  /\ \/ /\ u \notin DOMAIN transfers
        /\ DsFail(s)
        /\ UNCHANGED transfers
     \/ /\ u \in DOMAIN transfers
        /\ transfers[u].owner = NoOwner
        /\ ~ModeFits(~ds[s].push, transfers[u].mode)
        /\ DsFail(s)
        /\ transfers' = SetOwner(u, Dat(s))
     \/ /\ u \in DOMAIN transfers
        /\ transfers[u].owner = NoOwner
        /\ ModeFits(~ds[s].push, transfers[u].mode)
        /\ transfers' = SetOwner(u, Dat(s))
        /\ ds' = [ds EXCEPT ![s].gen = transfers[u].gen,
                            ![s].pc = IF ds[s].push THEN "push" ELSE "pull"]
        /\ UNCHANGED conn
  /\ UNCHANGED <<files, nextGen, nCalls, pc, op, ctlGen, result>>

\* Bug variant: the data server does not check the record's open mode.
DsLockAnyMode(s) ==
  LET u == ds[s].uuid IN
  /\ ds[s].pc = "lock"
  /\ \/ /\ u \notin DOMAIN transfers
        /\ DsFail(s)
        /\ UNCHANGED transfers
     \/ /\ u \in DOMAIN transfers
        /\ transfers[u].owner = NoOwner
        /\ transfers' = SetOwner(u, Dat(s))
        /\ ds' = [ds EXCEPT ![s].gen = transfers[u].gen,
                            ![s].pc = IF ds[s].push THEN "push" ELSE "pull"]
        /\ UNCHANGED conn
  /\ UNCHANGED <<files, nextGen, nCalls, pc, op, ctlGen, result>>

\* Lock shared state and find the header's uuid (absent: throw); try_lock
\* it (busy: retry); holding it, check the mode: Read to push, New,
\* OverWrite or Resume to pull (else throw, the lock is released).
DsLock(s) ==
  LET u == ds[s].uuid IN
  /\ ds[s].pc = "lock"
  /\ \/ /\ u \notin DOMAIN transfers
        /\ DsFail(s)
        /\ UNCHANGED transfers
     \/ /\ u \in DOMAIN transfers
        /\ transfers[u].owner = NoOwner
        /\ ~ModeFits(~ds[s].push, transfers[u].mode)
        /\ DsFail(s)
        /\ UNCHANGED transfers
     \/ /\ u \in DOMAIN transfers
        /\ transfers[u].owner = NoOwner
        /\ ModeFits(~ds[s].push, transfers[u].mode)
        /\ transfers' = SetOwner(u, Dat(s))
        /\ ds' = [ds EXCEPT ![s].gen = transfers[u].gen,
                            ![s].pc = IF ds[s].push THEN "push" ELSE "pull"]
        /\ UNCHANGED conn
  /\ UNCHANGED <<files, nextGen, nCalls, pc, op, ctlGen, result>>

DsLockSpin(s) == ds[s].pc = "lock" /\ Spin(ds[s].uuid)

\* Bug variant: pull_n counts only the bytes it read, not the buffered
\* bytes it flushed with them.
DsPullForgetsBuffer(s) ==
  LET u == ds[s].uuid
      r == transfers[u]
      d == ds[s]
  IN
  /\ d.pc = "pull"
  /\ \E a \in ReadAmounts(Min({d.n - d.buf, BufSz - d.buf}), conn[s].up, conn[s].cli) :
       \/ /\ a + d.buf = 0
          /\ DsFail(s)
          /\ transfers' = SetOwner(u, NoOwner)
          /\ UNCHANGED files
       \/ /\ a + d.buf > 0
          /\ files' = [files EXCEPT ![r.path] = Max({@, r.pos + a + d.buf})]
          /\ transfers' = [transfers EXCEPT ![u].pos = r.pos + a + d.buf]
          /\ conn' = [conn EXCEPT ![s].up = @ - a]
          /\ ds' = [ds EXCEPT ![s].n = d.n - a, ![s].buf = 0,
                              ![s].pc = IF d.n - a > 0 THEN "pull" ELSE "pullack"]
  /\ UNCHANGED <<nextGen, nCalls, pc, op, ctlGen, result>>

\* One iteration of pull_n: read what is still missing beyond the buffered
\* bytes (at most what fits), flush buffer and read bytes to the file.  No
\* byte read and none buffered: "No bytes read from client", throw.
DsPull(s) ==
  LET u == ds[s].uuid
      r == transfers[u]
      d == ds[s]
  IN
  /\ d.pc = "pull"
  /\ \E a \in ReadAmounts(Min({d.n - d.buf, BufSz - d.buf}), conn[s].up, conn[s].cli) :
       \/ /\ a + d.buf = 0
          /\ DsFail(s)
          /\ transfers' = SetOwner(u, NoOwner)
          /\ UNCHANGED files
       \/ /\ a + d.buf > 0
          /\ files' = [files EXCEPT ![r.path] = Max({@, r.pos + a + d.buf})]
          /\ transfers' = [transfers EXCEPT ![u].pos = r.pos + a + d.buf]
          /\ conn' = [conn EXCEPT ![s].up = @ - a]
          /\ ds' = [ds EXCEPT ![s].n = d.n - (a + d.buf), ![s].buf = 0,
                              ![s].pc = IF d.n - (a + d.buf) > 0 THEN "pull" ELSE "pullack"]
  /\ UNCHANGED <<nextGen, nCalls, pc, op, ctlGen, result>>

\* pull_n's last step: write the 'y' acknowledgement.
DsPullAck(s) ==
  /\ ds[s].pc = "pullack"
  /\ conn' = [conn EXCEPT ![s].ack = TRUE, ![s].acked = TRUE]
  /\ ds' = [ds EXCEPT ![s].pc = "release"]
  /\ UNCHANGED <<files, transfers, nextGen, nCalls, pc, op, ctlGen, result>>

\* The command is served: leaving the loop body unlocks the transfer, and
\* handle() goes back to reading a header (curPos = 0: leftovers dropped).
DsRelease(s) ==
  /\ ds[s].pc = "release"
  /\ transfers' = ReleaseDs(s)
  /\ ds' = [ds EXCEPT ![s] = [@ EXCEPT !.pc = "hdr", !.gen = 0, !.buf = 0]]
  /\ UNCHANGED <<files, nextGen, nCalls, pc, op, ctlGen, conn, result>>

\* One iteration of push_n: read min(n, bufSz) bytes from the file (a short
\* read throws) and write them to the client (a closed client makes the
\* write fail or swallows the bytes).
DsPush(s) ==
  LET u == ds[s].uuid
      r == transfers[u]
      k == Min({ds[s].n, BufSz})
  IN
  /\ ds[s].pc = "push"
  /\ \/ /\ r.pos + k > files[r.path]
        /\ DsFail(s)
        /\ transfers' = [SetOwner(u, NoOwner) EXCEPT ![u].pos = files[r.path]]
     \/ /\ r.pos + k <= files[r.path]
        /\ conn[s].cli
        /\ DsFail(s)
        /\ transfers' = [SetOwner(u, NoOwner) EXCEPT ![u].pos = r.pos + k]
     \/ /\ r.pos + k <= files[r.path]
        /\ transfers' = [transfers EXCEPT ![u].pos = r.pos + k]
        /\ conn' = [conn EXCEPT ![s].down = IF conn[s].cli THEN @ ELSE @ + k]
        /\ ds' = [ds EXCEPT ![s].n = @ - k,
                            ![s].pc = IF ds[s].n - k > 0 THEN "push" ELSE "pushack"]
  /\ UNCHANGED <<files, nextGen, nCalls, pc, op, ctlGen, result>>

\* push_n's last step: read the acknowledgement (result unchecked), return,
\* and leave the loop body, which unlocks the transfer.
DsPushAck(s) ==
  /\ ds[s].pc = "pushack"
  /\ conn[s].ack \/ conn[s].cli
  /\ conn' = [conn EXCEPT ![s].ack = FALSE]
  /\ transfers' = ReleaseDs(s)
  /\ ds' = [ds EXCEPT ![s] = [@ EXCEPT !.pc = "hdr", !.gen = 0, !.buf = 0]]
  /\ UNCHANGED <<files, nextGen, nCalls, pc, op, ctlGen, result>>

-----------------------------------------------------------------------------

Init ==
  /\ files = InitFiles
  /\ transfers = [u \in {} |-> NoOwner]
  /\ nextGen = 1
  /\ nCalls = 0
  /\ pc = [s \in Services |-> "idle"]
  /\ op = [s \in Services |-> [get |-> FALSE, peer |-> s, todo |-> 0]]
  /\ ctlGen = [s \in Services |-> 0]
  /\ conn = [s \in Services |-> NoConn]
  /\ ds = [s \in Services |-> NoDs]
  /\ result = [s \in Services |-> "none"]

\* The bounds are spent, or every service is torn down, and every thread
\* has returned or ended: the model stops here (the daemon itself would
\* wait for the next command or connection).
BoundsSpent ==
  /\ \/ nextGen > MaxGen /\ nCalls = MaxCalls
     \/ \A s \in Services : pc[s] = "gone"
  /\ \A s \in Services : pc[s] \in {"idle", "gone"} /\ ds[s].pc \in {"none", "done"}
  /\ UNCHANGED vars

Next ==
  \/ BoundsSpent
  \/ \E s \in Services :
       \/ \E rp \in RawPaths, m \in OpenModes : RequestFileWrite(s, rp, m)
       \/ \E rp \in RawPaths, off \in 0..MaxOffset : RequestFileRead(s, rp, off)
       \/ RemoveUUID(s)
       \/ RemoveRetry(s)
       \/ Teardown(s)
       \/ \E req \in Requests, n \in 1..MaxXfer :
            req[1] = s /\ StartXfer(s, req[2], req[3], n)
       \/ LockOwn(s) \/ LockOwnSpin(s) \/ Connect(s) \/ SendChunk(s)
       \/ SendAck(s) \/ RecvChunk(s) \/ RecvSpin(s) \/ RecvAck(s)
       \/ DsHeader(s) \/ DsLock(s) \/ DsLockSpin(s) \/ DsPull(s) \/ DsPullAck(s)
       \/ DsRelease(s) \/ DsPush(s) \/ DsPushAck(s)

\* Every thread keeps running while it can (WF); a thread in a try_lock
\* retry loop gets the record lock if it is free infinitely often (SF):
\* the back-off sleep lets the holder's unlock be seen.
Fairness ==
  \A s \in Services :
    /\ SF_vars(RemoveRetry(s)) /\ SF_vars(LockOwn(s)) /\ SF_vars(DsLock(s))
    /\ WF_vars(Connect(s) \/ SendChunk(s) \/ SendAck(s) \/ RecvChunk(s) \/ RecvAck(s))
    /\ WF_vars(DsHeader(s) \/ DsPull(s) \/ DsPullAck(s) \/ DsRelease(s)
               \/ DsPush(s) \/ DsPushAck(s))

Spec == Init /\ [][Next]_vars /\ Fairness

-----------------------------------------------------------------------------
(* Properties *)

\* The registry never holds two records for one normalized path unless all
\* of them are open for reading: requestFileWrite and requestFileRead check
\* the path under shared_state.lock, after normalize_path.
PathExclusive ==
  \A u, v \in DOMAIN transfers :
    u # v /\ transfers[u].path = transfers[v].path
      => transfers[u].mode = "Read" /\ transfers[v].mode = "Read"

\* A thread that has locked a record (sendFile/getFile on the control
\* thread, push_n/pull_n on a data-server thread) uses that very record
\* until it unlocks it: removeUUID cannot close the fd and erase the record
\* under it, and the record is not replaced by a new one for the same uuid.
LockedRecordLive ==
  /\ \A s \in Services : ctlGen[s] # 0 =>
       /\ s \in DOMAIN transfers
       /\ transfers[s].gen = ctlGen[s]
       /\ transfers[s].owner = Ctl(s)
  /\ \A s \in Services : ds[s].gen # 0 =>
       /\ ds[s].uuid \in DOMAIN transfers
       /\ transfers[ds[s].uuid].gen = ds[s].gen
       /\ transfers[ds[s].uuid].owner = Dat(s)

\* The registry the daemon's threads share implements AbstractRegistry: every
\* step of removeUUID, requestFileWrite/Read, sendFile/getFile and the data
\* server's handle/push_n/pull_n either leaves the registry and the files
\* alone or is one of its steps.  A record keeps its path and mode, locks
\* pass through "free", a held record is never erased, and a file changes
\* only when a record opens it for writing or while a thread holds a
\* pull-mode record for it (the mode checks of getFile and of the data
\* server's handle, lines 294-296 and 1126-1141).
Registry == INSTANCE AbstractRegistry WITH
  Uuids <- Services, Paths <- Paths, Modes <- OpenModes, Shared <- "Read",
  Writers <- PullModes, Holders <- Threads, Free <- NoOwner,
  InitDisk <- InitFiles,
  reg <- [u \in DOMAIN transfers |->
            [path |-> transfers[u].path, mode |-> transfers[u].mode,
             holder |-> transfers[u].owner]],
  disk <- files

RegistrySpec == Registry!Spec

\* While a sendFile streams to a data server that pulls, the bytes the data
\* server still expects are exactly those in its buffer, in flight and not
\* yet sent; while a getFile reads from a data server that pushes, the bytes
\* getFile still expects are exactly those in flight and not yet pushed.
\* It ties the header's sz, the sender's todo and pull_n's flush of the
\* bytes read together with the header.
ByteAccounting ==
  \A s \in Services :
    /\ pc[s] \in {"send", "ack"} /\ conn[s].hdr =>
         conn[s].sz = conn[s].up + op[s].todo
    /\ pc[s] \in {"send", "ack"} /\ ds[s].pc \in {"lock", "pull"} =>
         ds[s].n = ds[s].buf + conn[s].up + op[s].todo
    /\ pc[s] \in {"recv", "sendack"} /\ ds[s].pc \in {"lock", "push", "pushack"} =>
         op[s].todo = ds[s].n + conn[s].down

\* sendFile returns true only after the data server acknowledged that it
\* wrote all bytes to the destination file (spec: "then reads one
\* acknowledgement byte").
SendFileAcked ==
  \A s \in Services :
    result[s] = "ok" /\ ~op[s].get => conn[s].acked

\* A removeUUID that found its record locked by a transfer returns once the
\* transfer releases the lock (spec section 5).
RemoveReturns ==
  \A s \in Services : /\ pc[s] = "removing" ~> pc[s] = "idle"
                      /\ pc[s] = "ending" ~> pc[s] = "gone"

\* Every sendFile call returns, successfully or with an error: spec section
\* 5 calls the two-level locking "deadlock-free".
SendFileReturns ==
  \A s \in Services : pc[s] \in {"send", "ack"} ~> pc[s] = "idle"

\* Every getFile call returns, successfully or with an error.
GetFileReturns ==
  \A s \in Services : pc[s] = "recv" ~> pc[s] = "idle"

=============================================================================
