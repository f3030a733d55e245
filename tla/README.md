# TLA+ models of etransfer's daemon (`src/src/etdc_etdserver.cc`)

This directory holds TLA+ models of the e-transfer daemon and the TLC
configurations that check them. Every definition is translated from
`src/src/etdc_etdserver.cc`. `PROJECT.json` maps each definition to the
source lines it models, and lists the runs, mutants, findings and hazards.

## 1. The system: components, state, operations

| Component | State | Operations (state-changing) |
|---|---|---|
| **Transfer registry** (`etd_state`) | `stateLock`, `transfers: uuid -> TransferRecord{fd, path, openMode, lock}`, `dataaddrs` | emplace / find / erase, always under `stateLock`; a record's own `lock` taken with `try_lock` |
| **ETDServer** (local service, one per control connection; its uuid is fixed for its lifetime) | `__m_uuid`, a reference to the registry | `requestFileWrite`, `requestFileRead`, `removeUUID` (also run by the destructor), `sendFile`, `getFile`; `listPath` and `dataChannelAddr` only read |
| **ETDDataServer** (one thread per accepted data connection) | the connection, a 10 MiB buffer, `curPos` | `handle`: read the `{ uuid:…, sz:…, [push:1] }` header, lock the record, check the mode, then `push_n` or `pull_n`, then go back to reading a header |
| **ETDProxy** (client side: looks like an ETDServer, talks over a control connection) | the connection | one request line per call, reply lines parsed with `rxLine` / `rxReply` |
| **ETDServerWrapper** (server side of a control connection) | a 2 KiB line buffer | per line: match a command, call the local ETDServer, turn exceptions into `ERR …`, write the reply lines, compact the buffer |
| **Address codec** | none | `decode_data_addr` parses a `<proto/host:port>` designator; `ETDProxy::sendFile` joins designators with `,`, and the wrapper splits them with `data_sep` |
| Support | `tagged.h`, `argparse_detail.h`, `etc.cc` | no run-time protocol state |

**How they interact.** A client (the `etc` tool of the spec; `src/src/etc.cc`
is only a connect-and-write test) holds an ETDProxy to
each of two daemons. Through the ETDServerWrapper, each control connection
owns an ETDServer with one uuid.

1. The client asks one side for `requestFileRead` and the other for
   `requestFileWrite`. Each inserts a TransferRecord under its uuid.
2. The client calls `sendFile` on the source, or `getFile` on the
   destination.
3. That control thread locks its *own* record and keeps it locked while it
   connects to the peer daemon's data port, writes the header, and streams
   the bytes.
4. The peer's ETDDataServer thread finds the header's uuid in *its*
   registry, `try_lock`s that record, streams the bytes, and acknowledges
   with `'y'`.
5. `removeUUID` erases the record. It retries until the record is
   unlocked. When a control connection ends, the ETDServer's destructor
   does the same.

**Behaviours that are hard.**
- Three kinds of thread contend for one record: the owner's control thread,
  data-server threads, and the owner's own `removeUUID`.
- Every lock uses `try_lock` followed by unlock, sleep and retry.
  Progress therefore depends on the back-off.
- A control thread holds a record lock across blocking network I/O while a
  remote thread waits for another lock.
- Peers may close early or reject a transfer. Results of acknowledgement
  reads are unchecked.
- The header read can overshoot into the payload. `pull_n` must flush
  those bytes first and do its arithmetic in `size_t`.
- Control replies are line-framed inside a fixed buffer. The wrapper writes
  a line's text and its `"\n"` separately, so a read can end anywhere.

**What makes each component correct.**
- Registry:
  - a path is held by one writer or by any number of readers;
  - a record is never erased, or replaced, while a thread holds its lock.
- ETDServer:
  - `removeUUID` eventually succeeds;
  - `sendFile`/`getFile` return, and report success only when the receiver
    acknowledged.
- DataServer: the bytes written to the file equal the bytes the sender
  counted, with no byte lost or duplicated across the header / buffer /
  stream split.
- Proxy/Wrapper: each call gets the reply to its own request, and the proxy
  behaves like the local ETDServer (same results and errors).

## 2. Modules

### `ETDServer.tla`: one daemon's registry, its ETDServers, and its data-server threads

It also contains the peer-side client connections, which point back into the
same daemon.

**Constants.**
- `Services`: the ETDServer uuids.
- `RawPaths` and `Normalize`: `normalize_path` as a function.
- `InitFiles`: path → size or `Absent`.
- `Requests`: the `<<service, get?, peer uuid>>` transfers clients issue.
- `Leavers`: the services whose control connection may end, so that their
  ETDServer is destroyed (`{b}` in every cfg: the peer whose record a's
  data connection locks).
- Bounds: `MaxGen` (records ever created), `MaxCalls` (transfer calls),
  `MaxXfer` (byte count of a call), `MaxOffset` (`alreadyhave`), and `BufSz`
  (the copy loops' buffer size, scaled down from 10 MiB).

**State.**

| Variable | Models |
|---|---|
| `transfers` | `shared_state.transfers`: uuid → `[path, mode, pos, gen, owner]`. `owner` is the holder of the record's `std::mutex` (`NoOwner`, `Ctl(s)` or `Dat(s)`). `gen` is a history variable that gives each record an identity. |
| `files` | file sizes |
| `pc`, `op`, `ctlGen`, `result` | each service's control thread |
| `conn[s]` | the data connection s's `sendFile`/`getFile` opened: header in flight, payload bytes in flight each way, the ack byte, which end closed |
| `ds[s]` | the ETDDataServer thread serving `conn[s]`: its place in `handle`/`push_n`/`pull_n`, remaining count `n`, and `buf` (payload bytes already in the buffer after the header) |

**Atomicity.** Each `stateLock` critical section is one action: it only
touches the registry and ends before any blocking call. A failed `try_lock`
(unlock, sleep, retry) changes nothing. It is an explicit stuttering step
(`Spin`, `LockOwnSpin`, `DsLockSpin`), enabled while the record is locked.
Likewise, getFile's read returning 0 is `RecvSpin`.

**Actions and the code they model** (line ranges are in `PROJECT.json`):

| Action | Models |
|---|---|
| `RequestFileWrite`, `RequestFileRead` | the whole method: busy check, mode check, path-in-use check, open (`OpensFor`/`SizeAfterOpen`), seek, emplace |
| `RemoveUUID` | finds the record. It then either removes it (`RemoveFound`) or finds it locked and goes to `removing`. |
| `RemoveRetry` | the `while(true)` retry; for the destructor also its first iteration, and "no record" (return false) |
| `Teardown` | `~ETDServer` (lines 437-442): between two commands the connection ends and the destructor calls `removeUUID(__m_uuid)`, swallowing what it throws; the thread is `ending` until the record is gone, then `gone` |
| `StartXfer` | enters `sendFile`/`getFile` with a `Requests` entry and `todo ∈ 1..MaxXfer` |
| `LockOwn` | the lock loop and the mode check |
| `Connect` | tries every address (all fail → error) and writes the header |
| `SendChunk`, `SendAck` | sendFile's copy loop and its unchecked ack read |
| `RecvChunk`, `RecvSpin`, `RecvAck` | getFile's copy loop and the ack it writes |
| `DsHeader` | the header read, possibly with payload bytes, or a throw on EOF / not `{` |
| `DsLock` | the lock loop and the mode check; a throw releases the lock |
| `DsPull`, `DsPullAck` | `pull_n` iterations: flush buffer plus read, "no bytes" throw, then ack |
| `DsPush`, `DsPushAck` | `push_n` |
| `DsRelease` | the lock scope ends and handle loops back to a header |

**Modelled from the spec.** `etdc_fd.cc` is not under `src/`, so
`OpensFor` (which modes open an existing or absent file) and `ReadAmounts`
(what a socket read may return) come from spec §4.

### `MC_ETDServer.tla`

It instantiates two services `a` and `b` as model values:
- three raw paths, two of which normalise to the same path;
- one 2-byte file and one absent file;
- three request sets:
  - `MCRequests` has both directions;
  - `MCRequestsOneWay` is a's send and get towards b;
  - `MCRequestsCross` is a→b and b→a sends.

### `ControlProtocol.tla`: one control connection, ETDProxy ↔ ETDServerWrapper

It models the client's ETDProxy, the daemon's `ETDServerWrapper::handle`
loop, and, underneath the wrapper, the results of the daemon's local
ETDServer.

**Constants.**
- `Calls`: the `[op, arg]` calls the client may make.
- `Entries`, `Addrs`: names `listPath` and `dataChannelAddr` may return.
  `"blank"` is a name of white space, and `"nl"` a name with a newline in it.
- `SockName`: the `[proto, host, port]` each address name stands for.
- `AddrDecoded`, `SendDecodes`: what `decode_data_addr` makes of each
  name's designator, and whether every designator of a `send-file` list
  decodes. MC_ControlProtocol computes them with DataAddress
  (`MCAddrDecoded`, `SendAddrsDecode`).
- `FileSize`, `RemoveResults`: the local `removeUUID` may return `FALSE`.
- `LongErrors`: exception texts may exceed the proxy's 2 KiB buffer.
- Bounds: `MaxList` (entries of a listing) and `MaxCalls` (calls made).

**The reply stream.** The wrapper writes each reply line as two writes,
the text and then `"\n"`. So `rep` is a sequence of items, `Txt(line)`
and `Eol`. A proxy `read()` takes any non-empty prefix of it. `getReplies`
(`rxLine`) returns only lines with their terminator, so this covers every
way the reads can cut the stream. `Lines` gives the complete lines, and
`Rest` is the tail `memmove` keeps. `FramingSound` checks this
abstraction against `LineFraming`'s byte-level `getReplies` in every
reachable state. `Bytes` writes the items out as bytes: a text is two
bytes, and its end-of-line is `"\n"`. Each line carries the id of the call it
answers. The id is a ghost, used only by the properties.

**Addresses.** `dataChannelAddr` replies `OK <designator>` per address.
The proxy decodes each with `decode_data_addr` (`AddrDecoded`, from
DataAddress). It keeps the name of the sockname that comes back
(`ProxyEntry`), so ProxyFaithful compares the lists. A `send-file`
carries its addresses joined by `,`. The wrapper splits them and decodes
each (`SendAddrsDecode`). If one does not decode, the reply is `ERR`, and
the local `sendFile` is not called. A dataChannelAddr line that is no
designator (another call's reply) fails the parse. Init computes these
tables once into the variable `codec` (`CodecInit`), and no action
changes it. This way TLC does not decode a designator again at every step.

**Request lines.** `Parses(c)` says whether the wrapper runs the line the
proxy writes for `c` as the command `c` stands for. `RequestRuns`, which
`MC_ControlProtocol` computes with `RequestLine`, fills it in. The
proxy's text is built (`Msg`), cut by `getReplies`, and matched against
the wrapper's regexes. An `ASSUME` checks that every line of the model is
either understood as meant or is an unknown command.

**Actions.**

| Action | Models |
|---|---|
| `ProxyCall(c)` | a proxy method writes its request line (lost once the daemon has closed) |
| `WrapperHandle` | one request line: whether the command regexes take it as meant (`Parses`), the local call (`ServerResults`), the replies (`Replies`), or the unknown-command close; a line of 2 KiB or more (`TooLong`, a `"long"` path) ends the `while(curPos<bufSz)` loop with no reply, and the connection is closed as spec §4.4 says (the close itself happens in the wrapper's owner, outside `src/`) |
| `ParseRead` | one read of `listPath`, `dataChannelAddr`, `requestFileWrite` or `requestFileRead`: the reply loop (`ListStep`/`FieldStep` folded over the lines), the unprocessed-lines check, memmove, and the final checks |
| `SingleRead` | one read of `removeUUID`/`sendFile`: wait for a line, then exactly one `OK` |
| `ReadFull` | a reply text longer than the 2 KiB buffer: the `while(curPos<bufSz)` loop ends; the parsers throw, `removeUUID`/`sendFile` return `true` |
| `ReadEOF` | `read()` returns 0: "Failed to read data from remote end" |

`listPath`'s 16 KiB buffer holds a long text, so for it `ReadFull` never
applies.

### `MC_ControlProtocol.tla`

It defines the call sets:
- `MCCalls`: listing a path and an empty path; reading at offset 0, past
  the end (3) and at -1; a write; `dataChannelAddr`; removing the own uuid
  and another uuid; a 1-byte `sendFile` to `<"a1">`;
- `MCSockName`: `a1` is `<tcp/h.e:80>`, `a6` is `<tcp/[fe80::1%e0]:80>`,
  and `bad` is `<tcp/[::ffff:1.2.3.4]:80>`. `ipv6_lit` has no `.`, so
  `decode_data_addr` rejects `bad`;
- `MCCallsAll`: adds `sendFile` with count -1 and with no address, and
  `LongCalls`: a listing and a file write of a path too long for the
  wrapper's request buffer, and `SendBadAddr`: a `sendFile` to `a1`
  and `bad`;
- the small sets the violation runs use.

### `DataServerBuffer.tla`: one data connection's buffer arithmetic

ETDServer.tla decides who holds which lock. This module models what
`ETDDataServer::handle`, `pull_n` and `push_n` do with the bytes, and the
client at the other end (sendFile for a pull, getFile for a push).

**Constants.**
- `W` is the width of `size_t`. `SizeT(x) == x % 2^W` is applied wherever
  the code stores into a `size_t`: `n` from the `off_t` sz, `n + rdPos -
  wrEnd`, `wrEnd - rdPos`, and `n -= …`.
- `HdrLen`, `MaxNoCmd` (`maxNoCmdSz`, 4 KiB) and `BufSz` (10 MiB) are
  scaled to 2, 4 and 5. This keeps the code's order: a header fits in the
  window, and the window is smaller than the buffer.
- `Cmds` are the `[uuid, push, sz, bytes]` commands a client may send.
  `bytes` is what a pulling client writes after its header.
- `Letters` and `Fold` are passed on to `DataHeader` (`Hdr`).

**Actions.**

| Action | Models |
|---|---|
| `HdrRead` | one pass of handle's header loop: read at most `maxNoCmdSz - curPos` (`HdrWant`); a read of 0 throws; once the header is in, decode it (`Decoded`: a bad header throws), then `n = sz`, `rdPos` = end of header, `wrEnd = curPos`, the direction from `push` |
| `PullStep` | one iteration of `pull_n`: `nRead = min(n + rdPos - wrEnd, bufSz - wrEnd)`, the read, the "no bytes" throw, the file write (`Flushed`) and `n -= (wrEnd - rdPos)` (`Consumed`) |
| `PullAck`, `PushStep`, `PushAck` | the `'y'`, `push_n`'s loop with its short-read throw, and its unchecked ack read |
| `ClientSend`, `ClientGetAck`, `ClientRecv`, `ClientEOF`, `ClientClose` | the far end: a header plus payload, the ack, getFile's reads of what it still needs, end of stream, closing |

Bytes are counted, not named: the stream is FIFO, and `pull_n` writes the
buffer in order. A header is found once `HdrLen` bytes are in. Its text is
the one `sendFile`/`getFile` write for the command (`Hdr!Header`), and
`hdr` is what handle decoded from it (`Hdr!Decode`). Init stores
`Decoded`, one decode per command, in the variable `decoded`, and no action
changes it. HdrRead then looks its header up instead of parsing it again.

### `MC_DataServerBuffer.tla`

- `Conforming`: pulls of 0, 2 and 6 bytes and pushes of 2 and 6 bytes, each
  with exactly `sz` payload bytes.
- `ShortSender`: a sendFile whose file read fails after 1 of 2 bytes, and
  which therefore closes.
- `DupSz`: a sendFile whose dstUUID is `a,sz:1`. The control wrapper
  accepts it (`\S+`), and the header then has two `sz` keys.
- All other commands use the uuid `a1-f` (hex digits and a dash, as
  `uuid_type::mk()` makes them).
- `Overrun`: sz 1 with 3 payload bytes.
- A negative sz is not given to a run. Its header makes `n = 2^W - 1`, the
  same wrap, and it is listed as a hazard (line 1095).

### `DataHeader.tla`: writing and decoding a data header

A pure module, with no variables. A text is a sequence of one-character
strings.
- `Header(uuid, push, sz)` is the `ostringstream` of `sendFile`/`getFile`.
  `Decimal` formats the `off_t`.
- `Decode(buf)` is handle's decoding:
  - `CommandEnd` and `Fields` translate `rxCommand`;
  - `MatchAt` and `KeyValuePairs` translate the `regex_iterator` over
    `rxKeyValue`. The key is the whole run of key characters after a word
    boundary; then `\s*:\s*`; then either a quoted value running to the
    *last* quote (the greedy `.*`) or a bare `[^, \t\v]+`;
  - `unSlash` is `Remove(…, "\\")`;
  - `Lookup` is the case-insensitive `kvpairs.find`;
  - `HasDuplicate` is `no_duplicates_inserter`. It lives in `utilities.h`,
    not in `src/`, so it is taken from spec §6: a duplicate key is an
    error;
  - `Stol` is `std::stol` as `string2off_t` uses it: leading space, a sign,
    at least one digit, the rest ignored.
- ECMAScript backtracking cannot change a match here, and the comments say
  why at each scan.

Two behaviours of this parser are outside what the runs give it. Both are
listed as hazards.
- Two quoted values merge into one: `{uuid:"a", sz:"2"}` has no `sz`.
- A dstUUID `a,push:1` turns a pull into a push.

### `DataAddress.tla`: data-channel address designators

A pure module, with no variables. It uses `DataHeader`'s `Decimal`,
`RunEnd` and digits.
- `DecodeDataAddr(s)` is `decode_data_addr`. The result is `{}` when it
  throws, else `{[proto, host, port]}`. It translates `rxSockName`:
  - the proto is `[^/]+` up to the first `/`;
  - the host is a bracketed `ipv6_lit` (`IsIPv6Lit`: `[:0-9a-zA-Z]+`, an
    optional `/` and 1 to 3 digits, an optional `%` and an alphanumeric
    zone), or a `valid_host` (`IsValidHost`: dot-separated labels that
    `IsLabel` checks);
  - the port is `[0-9]+`.

  It also translates the 255-character check on a DNS name. The
  character classes do not overlap, so the match is unique. The port is
  what follows the last `:`.
- `Join` is `ETDProxy::sendFile`'s list, and `Tokens` is the wrapper's
  `data_sep` (`[^,]+`).
- `Format`, the sockname's wire form, and `Unbracket` are defined outside
  `src/`. Both come from spec §6: `<protocol/host:port>`, with an IPv6
  literal in brackets.

### `LineFraming.tla`: cutting reply bytes into lines

A pure module, with no variables. A byte is a string: `"\r"`, `"\n"`, or
any other string for a byte that is neither.
- `Matches(s, i)` is the `std::regex_iterator` over `rxLine`
  (`([^\r\n]+)[\r\n]+`) searched from `i`. Each match records
  `position()`, `length()` and group 1. Group 1 is a whole run of bytes that
  are not line ends. A run that reaches the end of the buffer is no match,
  so nothing after it is either.
- `GetReplies(s)` is `getReplies`: the group-1 texts, and `endpos`, the end
  of the last match.
- `Compact(s)` is the `memmove` of the bytes after `endpos` to the front of
  the buffer.

### `RequestLine.tla`: request lines as text

A pure module. A text is a sequence of one-character strings.
- `ListMsg`, `WriteMsg`, `ReadMsg`, `DcaMsg`, `RemoveMsg` and `SendMsg` are
  the `msgBuf <<` lines of the six ETDProxy methods.
- `MatchList` … `MatchRemove` are the wrapper's six command regexes. Each
  is a scan over runs of `\s`, `\S` and `[0-9]` (`Run`). Every run is
  followed by a character of another class, so the greedy run is the only
  match. `Command` takes the first regex that matches, in the order of the
  if-else chain; with none, the command is `unknown`.
- `Commands(bytes)` first cuts the request with LineFraming's
  `GetReplies`, as the wrapper does (line 859).

It reproduces two divergences, which are listed as hazards without a run:
a path loses its leading white space, and a path with a newline becomes two
commands. icase matching is left out, because the proxy writes lower case.

### `AbstractRegistry.tla`: what the registry promises

This is the registry with no threads, connections or byte positions.
- `reg` maps a uuid to its path, its mode and its lock holder.
- `disk` maps a path to what is on disk.

Its steps:
- `Open`: a new uuid, on a path where only readers may join readers.
- `Acquire`, `Release`: a lock goes free → holder → free.
- `Remove`: only a free record.
- `Write`: a file grows only while a pull-mode record for it is held.

`ETDServer` defines `Registry == INSTANCE AbstractRegistry WITH ...`:
- `reg` maps each record of `transfers` to its path, mode and owner;
- `disk` is `files`.

`RegistrySpec` (`Registry!Spec`) is a `PROPERTY` of `etd_safety`. Every
concrete step is either one abstract step or leaves both alone. It states
three things that no invariant of `ETDServer` states:
- the mode checks of `getFile` and of the data server's `handle` keep bytes
  out of a file that is open for reading;
- a lock is never handed directly from one thread to another;
- a record's path and mode never change.

### Why there is no two-daemon module

A third-party transfer involves two daemons, each with its own `stateLock`
and registry. `ETDServer` already has every lock a transfer takes: the
control thread's record lock on one side and the data server's record lock
on the other. Its services use distinct uuids, and no action reads two
records at once. So a second registry would only split `transfers` in two
and change no interleaving. It would also relax `PathExclusive` to a
per-daemon check. `etc.cc` does not drive transfers (see section 5).

## 3. Runs

| Run | cfg | Checks | Shows |
|---|---|---|---|
| `etd_safety` (pass) | `ETDServer.cfg`, `MCRequests` | `TypeOK`, `PathExclusive`, `LockedRecordLive`, `ByteAccounting`, `RegistrySpec` | With sends and gets in both directions, and with removes and b's teardown racing transfers: a path is never held by a writer together with any other record; a record locked by a thread is never erased or replaced while that thread uses it; every payload byte is in the header buffer, in flight, or written to the file; and the registry implements `AbstractRegistry`. About 906k distinct states in about 55 s. |
| `etd_remove_liveness` (pass) | `ETDServerLive.cfg`, `MCRequestsOneWay` | `RemoveReturns` | A `removeUUID` that met a locked record eventually removes it, and so does the one `~ETDServer` makes. `MaxGen = 2` (a record for b and one for a's transfer) keeps it to about 40 s. |
| `sendfile_unacked` (violation) | `SendFileAcked.cfg` | `SendFileAcked` | sendFile returns OK although the data server rejected the transfer and never acknowledged (code bug, line 338). |
| `getfile_spins` (violation) | `GetFileReturns.cfg` | `GetFileReturns` | getFile spins forever on a closed data connection while holding its record lock (code bug, line 422). |
| `sendfile_deadlock` (violation) | `SendFileReturns.cfg`, `MCRequestsCross` | `SendFileReturns` | a→b and b→a sends on one daemon wait on each other forever. Spec §5 says the protocol is deadlock-free (spec gap). |
| `cp_safety` (pass) | `ControlProtocol.cfg`, `MCCalls` | `ProxyFaithful`, `NoCrossTalk`, `FramingSound` | Three calls of any kind, with the reply stream cut in every way: each call returns what the local ETDServer returned, or fails when the daemon never ran it, and reads only its own reply. The advertised addresses, a DNS name and an IPv6 literal with a zone, come back from `dataChannelAddr` through the proxy unchanged. Byte by byte, `getReplies` and the `memmove` find the same lines wherever a read ends, and those are the lines the item-level steps use. About 78k states in about 25 s. |
| `cp_liveness` (pass) | `ControlProtocolLive.cfg`, `MCCallsAll` | `CallReturns` | With blank and newline names, bad addresses, long errors, false removes, rejected request lines and request lines too long for the wrapper's buffer, every proxy call still returns. About 130k states in about 16 s. |
| `proxy_result_differs` (violation) | `ProxyResultDiffers.cfg`, `RemoveOrSend` | `ProxyFaithful` | TLC reports the shorter of two counterexamples. An ERR reply longer than 2 KiB makes `ETDProxy::sendFile` return true (code bug, line 826; `removeUUID` has the same loop). The other counterexample, of the same length, is a local `removeUUID` returning false, which becomes an exception through the proxy (line 775; spec §4.1 says the two are identical). |
| `list_blank_entry` (violation) | `ListBlankEntry.cfg` | `NoCrossTalk` | A white-space file name ends `listPath` early. The next call reads the rest of the listing (code bug, line 524). |
| `dsb_pull_push` (pass) | `DataServerBuffer.cfg`, `Conforming ∪ ShortSender ∪ DupSz` | `TypeOK`, `WithinSz`, `AckExact`, `CommandAnswered`, `HeaderUnderstood` | Up to three commands on one connection, with the header read taking payload along and reads cut anywhere. The file never gets more than sz bytes; `'y'` is sent only when exactly sz bytes are written; no client waits forever, even after a header with a duplicate key; and every header is decoded to the uuid, direction and sz the client wrote. |
| `pull_overrun` (violation) | `PullOverrun.cfg`, `Overrun` | `WithinSz` | Header `sz:1` followed by 3 bytes. The header read takes 2 of them, `n + rdPos - wrEnd` wraps, `pull_n` reads one more byte and writes 3, and `n` wraps to 14 (code bug, line 1202). |
| `session_dropped` (violation) | `SessionDropped.cfg` | `WrapperServes` | `sendFile` with count -1 is an unknown command to the wrapper, which closes the connection. The proxy accepts a negative `Remain`, and the local `sendFile` returns true for it (line 875). |

**Bounds, and why they are enough.**
- `MaxGen = 3` records: a record can be removed and re-created under the
  same uuid (the stale-uuid case), and two records can share a path. The
  liveness run uses `MaxGen = 2`. With `MaxGen = 3` and the teardown it
  takes over 5 minutes.
- `MaxCalls = 2`: one call can follow a failed or finished one on the same
  connection slots.
- `MaxXfer = 2` with `BufSz = 1`: every copy loop iterates more than once,
  and the header read can carry a payload byte.
- `MaxOffset = 1`: exercises seeking.
- The file of size 2 makes both a full read and a short read (a seek past
  the data) reachable.
- ControlProtocol: `MaxCalls = 3`, so a call can follow one that left
  bytes behind, and then be followed again. `MaxList = 2` in the safety run
  gives listings of 0, 1 and 2 entries. The liveness run uses
  `MaxList = 1`: a `"nl"` entry is still two lines, and with `MaxList = 2`
  the run takes over 6 minutes.
- DataServerBuffer: `W = 4` (size_t values 0..15) is wide enough to hold
  every count of the conforming runs, so any wrap is a real one.
  - sz 6 makes `pull_n` iterate after the header read, which can bring 0,
    1 or 2 payload bytes.
  - Three commands with a file of 8 bytes make a later push hit a short
    file read.

**Mutants.** Each property is checked to be violated by a plausible bug
(`PROJECT.json` lists them):

| Mutant | Property violated |
|---|---|
| Resume without an existence check | `TypeOK` |
| `requestFileRead` without the mode check | `PathExclusive` |
| `removeUUID` without `try_lock` | `LockedRecordLive` |
| `pull_n` not counting the buffered bytes | `ByteAccounting` |
| a mode-check throw that keeps the lock | `RemoveReturns` |
| a parser that drops the unconsumed tail instead of `memmove` | `ProxyFaithful` |
| write-file/read-file replies with `OK` before the fields | `NoCrossTalk` |
| a read of 0 bytes taken as "nothing yet" and retried | `CallReturns` |
| handle's header read asking for the whole window each time | `TypeOK` (DataServerBuffer) |
| a bare header value that runs on over a comma | `HeaderUnderstood` |
| `pull_n` writing from `&buf[0]` | `WithinSz` |
| `n -= nRead` (the bytes asked for) | `AckExact` |
| `n -= aRead` (buffered bytes never counted) | `CommandAnswered` |
| the data server's `handle` taking a record without the mode check | `RegistrySpec` |
| `ipv6_lit` without its `%zone` part | `ProxyFaithful` |
| `getReplies` returning `endpos = line->position()` (the length left out) | `FramingSound` |

## 4. Fairness

The code's threads are OS threads.
- A thread that can run eventually runs, so there is weak fairness on each
  control thread's streaming steps and on each data-server thread's steps.
- The `try_lock` retry loops sleep 9–42 µs between attempts. That sleep is
  what lets a contender find the lock free when the holder releases it, so
  the retry actions (`RemoveRetry`, `LockOwn`, `DsLock`) get *strong*
  fairness. Spec §5 relies on the same argument ("the sleeping back-off
  desynchronizes contenders").
- ControlProtocol: a blocking `read()` returns once bytes are there or the
  peer has closed. So there is weak fairness on the proxy's read actions,
  and on the wrapper handling a line that has arrived.
- DataServerBuffer: weak fairness on the data-server thread's steps and on
  the client's reads. A client is not obliged to send a command or close.
- Clients are not obliged to issue requests (no fairness on
  `RequestFile*`/`StartXfer`).

## 5. Not modelled, and why

- `listPath` and `dataChannelAddr` only read state. In ControlProtocol
  their results are the values `ServerResults` allows.
- Data headers are parsed by `DataHeader`, with these gaps: `\v`, line
  terminators inside a value, and `stol`'s `out_of_range` (the values
  stay small). The control command regexes are translated in `RequestLine`.
- Data addresses: `port()`'s range check (the ports stay small), and
  protocol names containing `,`. A rejected address (`bad`) is only in
  the liveness run. With it in `ControlProtocol.cfg`, ProxyFaithful fails,
  because an IPv6 literal with an embedded IPv4 address does not decode.
  It is listed as a hazard.
- The wrapper's request buffer is modelled only as "the line fits" or
  "it does not" (`TooLong`). In ControlProtocol a request is a call
  record. Its text is used only to compute `RequestRuns`.
- `etdc_fd`, sockets and `normalize_path` are not in `src/`. They are
  abstracted as above.
- `tagged.h` and `argparse_detail.h` are compile-time machinery.
- `etc.cc` is a `main()` that connects a udt client to a fixed address and
  writes once. It writes `sizeof(data)` bytes, and `data` is a pointer
  (a hazard). It has no protocol or concurrency to model.
- Hazards with no run. All twelve run slots hold runs that show other
  disagreements, so these are listed in `PROJECT.json` with a note:
  - a path with leading white space loses it in the wrapper's regexes;
  - a path containing a newline becomes two request lines, and the second
    one is run as a command;
  - a `close` that throws in `removeUUID` leaves the record in the map,
    and `~ETDServer` swallows the exception, so the record leaks.
- argparse's `reversed()` of a C array starts one element early
  (`argparse_detail.h:117`). Nothing in `src/` calls it, so it is not
  listed as a hazard.
- ControlProtocol has no type invariant. Its results are records that the
  actions build, so a type check would hold however the code behaved.
- A torn-down service always leaves no record in this model, because
  `RemoveFound`'s `close` never fails. In the code a throwing `close`
  (line 242) leaves the record, and `~ETDServer` swallows the exception
  (the line 242 hazard). So no property claims that a teardown cleans up.
- Holding `stateLock` during `open()` (line 144) only matters for the time
  the open takes, which this model does not measure. It is listed as a
  hazard.
