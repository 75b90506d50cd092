-------------------------------- MODULE Vfs --------------------------------
(***************************************************************************)
(* The in-memory file system of one sandbox (vfs.rs) as its guest and its  *)
(* host drive it: the host injects the agent's code, the guest calls the   *)
(* WASI host functions one after the other, and the host collects stdout,  *)
(* stderr and a snapshot of the files (sandbox_pool.rs).  A host function  *)
(* that walks a list of iovecs is one step per iovec: no other step of the *)
(* sandbox is possible until the list is done, because the host functions  *)
(* never await.                                                            *)
(*                                                                         *)
(* Bytes are numbered in the order in which they are written, 0 being the  *)
(* fill byte of Vec::resize, so that two bytes are equal only if they are  *)
(* the same write.  A canonical path is the sequence of its components;    *)
(* "/" is <<>>.                                                            *)
(***************************************************************************)
EXTENDS Integers, FiniteSets, FiniteSetsExt, SequencesExt

CONSTANTS
  Components,   \* the strings between the slashes of a path
  GuestPaths,   \* raw paths the guest opens: a path is split at each "/"
  OpenModes,    \* [creat, excl, trunc, append : BOOLEAN, rights : SUBSET Rights]
  IovLists,     \* lists of iovec lengths; -n is a buffer of n outside guest memory
  Offsets,      \* offsets passed to fd_seek
  CodeSizes,    \* lengths of the agent's code
  MAX_FDS, WRITE_QUOTA_BYTES, StdoutCap, StderrCap,
  AllPaths,     \* raw paths over which Canonicalise is compared with its reference
  MaxOpens, MaxBytes, MaxPos   \* bounds: opens, bytes written, file positions

Rights == {"FD_READ", "FD_WRITE", "FD_SEEK"}

ASSUME VfsAssumption ==
  /\ {"tmp", "home", "workspace", "main.wasm"} \subseteq Components
  /\ GuestPaths \subseteq Seq(Components) /\ AllPaths \subseteq Seq(Components)
  /\ OpenModes \subseteq [creat : BOOLEAN, excl : BOOLEAN, trunc : BOOLEAN,
                          append : BOOLEAN, rights : SUBSET Rights]
  /\ IovLists \subseteq Seq(Int) \ {<<>>}
  /\ Offsets \subseteq Int /\ CodeSizes \subseteq Nat
  /\ MAX_FDS \in Nat \ {0}
  /\ WRITE_QUOTA_BYTES \in Nat /\ StdoutCap \in Nat /\ StderrCap \in Nat
  /\ MaxOpens \in Nat /\ MaxBytes \in Nat /\ MaxPos \in Nat

FIRST_GUEST_FD == 3
Stdio == {1, 2}

VARIABLES
  phase,          \* "fresh", "running", "failed" or "collected"
  root,           \* path -> [dir, data]
  open_fds,       \* fd -> [path, position, rights, append, is_dir]
  next_fd,
  bytes_written,  \* what the quota guard counts
  ring,           \* stdout and stderr: 1..2 -> sequence of bytes
  call,           \* the host function in progress: [op, fd, iovs]
  result,         \* what execute returns: [files, out]
  last,           \* history: number of the last byte written
  wrote,          \* history: path -> writes since its creation or truncation
  stored,         \* history: bytes that reached a file
  said,           \* history: all bytes sent to stdout and stderr
  burst,          \* history: where in said the first chunk begins that is longer
                  \* than the ring, NoBurst before there is one
  closed          \* history: descriptors that were closed

vfs == <<phase, root, open_fds, next_fd, bytes_written, ring, call, result,
          last, wrote, stored, said, burst, closed>>

fileVars == <<root, wrote>>
fdVars == <<open_fds, next_fd, closed>>
ringVars == <<ring, said, burst>>
quotaVars == <<bytes_written, stored>>

NoBurst == -1
NoCall == [op |-> "none", fd |-> 0, iovs |-> <<>>]
NoResult == [files |-> <<>>, out |-> [f \in Stdio |-> <<>>]]
Directory == [dir |-> TRUE, data |-> <<>>]
EmptyFile == [dir |-> FALSE, data |-> <<>>]
PosixDirs == {<<"tmp">>, <<"home">>, <<"workspace">>}
CodePath == <<"workspace", "main.wasm">>

VfsInit ==
  /\ phase = "fresh"
  /\ root = [p \in PosixDirs |-> Directory]
  /\ open_fds = <<>>
  /\ next_fd = FIRST_GUEST_FD
  /\ bytes_written = 0
  /\ ring = [f \in Stdio |-> <<>>]
  /\ call = NoCall
  /\ result = NoResult
  /\ last = 0
  /\ wrote = <<>>
  /\ stored = 0
  /\ said = [f \in Stdio |-> <<>>]
  /\ burst = [f \in Stdio |-> NoBurst]
  /\ closed = {}

\* HashMap::insert.
Insert(map, key, value) ==
  [k \in DOMAIN map \cup {key} |-> IF k = key THEN value ELSE map[k]]

-----------------------------------------------------------------------------
(* Paths. *)

\* Mutant: popping an empty list is not an error.
TakeComponentClamped(acc, component) ==
  CASE component \in {"", "."} -> acc
    [] component = ".." ->
         [acc EXCEPT !.parts = IF @ = <<>> THEN @ ELSE Front(@)]
    [] OTHER -> [acc EXCEPT !.parts = Append(@, component)]

\* One component of a raw path, applied to the components kept so far.
TakeComponent(acc, component) ==
  CASE ~acc.ok \/ component \in {"", "."} -> acc
    [] acc.ok /\ component = ".." ->
         IF acc.parts = <<>> THEN [acc EXCEPT !.ok = FALSE]
                             ELSE [acc EXCEPT !.parts = Front(@)]
    [] OTHER -> [acc EXCEPT !.parts = Append(@, component)]

\* The components from left to right; after[i] is what the first i leave.
Canonicalise(raw) ==
  LET after[i \in 0 .. Len(raw)] ==
        IF i = 0 THEN [ok |-> TRUE, parts |-> <<>>]
                 ELSE TakeComponent(after[i - 1], raw[i])
  IN  after[Len(raw)]

\* The parent of a path is in the map; "/" needs no entry.  That it is a
\* directory is not asked.
ParentExists(p) == Len(p) <= 1 \/ Front(p) \in DOMAIN root

-----------------------------------------------------------------------------
(* path_open *)

Admits(p, mode) ==
  IF p \in DOMAIN root THEN ~(mode.creat /\ mode.excl)
                       ELSE mode.creat /\ ParentExists(p)

\* The open starts the file's content anew.
Clears(p, mode) ==
  \/ p \notin DOMAIN root
  \/ mode.trunc /\ ~root[p].dir

\* Mutant: CREAT replaces whatever is there.
RootReplaced(p, mode) ==
  IF mode.creat THEN Insert(root, p, EmptyFile) ELSE root

RootOpened(p, mode) ==
  IF Clears(p, mode) THEN Insert(root, p, EmptyFile) ELSE root

\* History: an open that creates or truncates forgets the earlier writes.
WroteOpened(p, mode) ==
  IF p \notin DOMAIN root \/ (mode.trunc /\ ~root[p].dir)
  THEN Insert(wrote, p, {}) ELSE wrote

TableFull == Cardinality(DOMAIN open_fds) >= MAX_FDS

\* Mutant: the lowest free number instead of the monotonic counter.
LowestFreeFd ==
  Min({fd \in FIRST_GUEST_FD .. next_fd : fd \notin DOMAIN open_fds})

NewFd == next_fd

\* The node is created or truncated before a descriptor is allocated, so both
\* stay when the table is full.
PathOpen(raw, mode) ==
  LET p == Canonicalise(raw).parts IN
  /\ phase = "running" /\ call = NoCall
  /\ Canonicalise(raw).ok
  /\ Admits(p, mode)
  /\ root' = RootOpened(p, mode)
  /\ wrote' = WroteOpened(p, mode)
  /\ \/ TableFull /\ UNCHANGED fdVars
     \/ /\ ~TableFull /\ next_fd <= FIRST_GUEST_FD + MaxOpens
        /\ open_fds' = Insert(open_fds, NewFd,
                         [path |-> p, position |-> 0, rights |-> mode.rights,
                          append |-> mode.append, is_dir |-> root'[p].dir])
        /\ next_fd' = next_fd + 1
        /\ UNCHANGED closed
  /\ UNCHANGED <<phase, quotaVars, ringVars, call, result, last>>

\* NOTSUP (escape), NOENT or the O_EXCL error: nothing changes.
PathOpenRefused(raw, mode) ==
  /\ phase = "running" /\ call = NoCall
  /\ Canonicalise(raw).ok => ~Admits(Canonicalise(raw).parts, mode)
  /\ UNCHANGED vfs

-----------------------------------------------------------------------------
(* fd_write *)

Chunk(n) == [i \in 1 .. n |-> last + i]

\* Mutant: the buffer is cut at the end of the write.
OverlayCut(data, pos, chunk) ==
  [i \in 1 .. pos + Len(chunk) |->
     IF i > pos THEN chunk[i - pos] ELSE IF i <= Len(data) THEN data[i] ELSE 0]

\* Vec::resize to the position and to the end of the write, then the copy.
Overlay(data, pos, chunk) ==
  [i \in 1 .. Max({Len(data), pos + Len(chunk)}) |->
     IF i \in pos + 1 .. pos + Len(chunk) THEN chunk[i - pos]
     ELSE IF i <= Len(data) THEN data[i] ELSE 0]

\* Mutant: APPEND starts at the end once, but does not follow other writers.
WritePositionOnce(h) ==
  IF h.append /\ h.position = 0 THEN Len(root[h.path].data) ELSE h.position

WritePosition(h) == IF h.append THEN Len(root[h.path].data) ELSE h.position

OverQuota(n) == bytes_written + n > WRITE_QUOTA_BYTES

Writable(fd) ==
  /\ fd \in DOMAIN open_fds
  /\ "FD_WRITE" \in open_fds[fd].rights
  /\ ~root[open_fds[fd].path].dir

\* The guest makes a call, or the call in progress has iovecs left.
Processes(op, fd, iovs) ==
  /\ phase = "running"
  /\ call \in {NoCall, [op |-> op, fd |-> fd, iovs |-> iovs]}

\* The bound on bytes, for all iovecs that are left.
Fits(iovs) == last + FoldLeft(LAMBDA t, n : t + Max({0, n}), 0, iovs) <= MaxBytes

GoesOn(op, fd, iovs) ==
  call' = IF Len(iovs) = 1 THEN NoCall
          ELSE [op |-> op, fd |-> fd, iovs |-> Tail(iovs)]

\* What vfs.fd_write does when it succeeds.
Store(fd, n) ==
  LET h == open_fds[fd]
      pos == WritePosition(h)
  IN  /\ bytes_written' = bytes_written + n
      /\ root' = [root EXCEPT ![h.path].data = Overlay(@, pos, Chunk(n))]
      /\ open_fds' = [open_fds EXCEPT ![fd].position = pos + n]
      /\ wrote' = [wrote EXCEPT ![h.path] =
                     @ \union {<<pos, 0>>}
                       \union {<<pos + i, last + i>> : i \in 1 .. n}]
      /\ stored' = stored + n
      /\ last' = last + n

FdWriteIov(fd, iovs) ==
  LET n == Head(iovs) IN
  /\ Processes("write", fd, iovs) /\ fd \notin Stdio /\ Fits(iovs)
  /\ n >= 0 /\ ~OverQuota(n) /\ Writable(fd)
  /\ Store(fd, n)
  /\ GoesOn("write", fd, iovs)
  /\ UNCHANGED <<phase, next_fd, closed, ringVars, result>>

\* INVAL or BADF ends the call and leaves the iovecs before it written.  Over
\* quota the charge is taken back; for a descriptor that cannot be written it
\* is not.
FdWriteFails(fd, iovs) ==
  LET n == Head(iovs) IN
  /\ Processes("write", fd, iovs)
  /\ \/ n < 0 /\ UNCHANGED bytes_written
     \/ /\ n >= 0 /\ fd \notin Stdio
        /\ OverQuota(n) /\ UNCHANGED bytes_written
     \/ /\ n >= 0 /\ fd \notin Stdio
        /\ ~OverQuota(n) /\ ~Writable(fd)
        /\ bytes_written' = bytes_written + n
  /\ call' = NoCall
  /\ UNCHANGED <<phase, fileVars, fdVars, stored, ringVars, result, last>>

Capacity(fd) == IF fd = 1 THEN StdoutCap ELSE StderrCap

\* Mutant: the newest bytes are the ones dropped.
RingWriteDropsNewest(buf, capacity, chunk) ==
  LET room == capacity - Len(buf)
  IN  IF Len(chunk) <= room THEN buf \o chunk
      ELSE buf \o SubSeq(chunk, 1, Max({0, room}))

\* RingBuffer::write.  capacity - buf.len() wraps around in a release build
\* once the buffer is longer than its capacity: there is then always room.
RingWrite(buf, capacity, chunk) ==
  IF Len(buf) > capacity \/ Len(chunk) <= capacity - Len(buf)
  THEN buf \o chunk
  ELSE LET needed == Len(chunk) - (capacity - Len(buf))
       IN  SubSeq(buf, Min({needed, Len(buf)}) + 1, Len(buf)) \o chunk

FdWriteRing(fd, iovs) ==
  LET n == Head(iovs) IN
  /\ Processes("write", fd, iovs) /\ fd \in Stdio /\ Fits(iovs)
  /\ n >= 0
  /\ ring' = [ring EXCEPT ![fd] = RingWrite(@, Capacity(fd), Chunk(n))]
  /\ said' = [said EXCEPT ![fd] = @ \o Chunk(n)]
  /\ burst' = [burst EXCEPT ![fd] = IF @ = NoBurst /\ n > Capacity(fd) THEN Len(said[fd]) ELSE @]
  /\ last' = last + n
  /\ GoesOn("write", fd, iovs)
  /\ UNCHANGED <<phase, fileVars, fdVars, quotaVars, result>>

-----------------------------------------------------------------------------
(* fd_read, fd_seek, fd_close *)

Readable(fd) ==
  /\ fd \in DOMAIN open_fds
  /\ "FD_READ" \in open_fds[fd].rights
  /\ ~open_fds[fd].is_dir
  /\ ~root[open_fds[fd].path].dir

BytesRead(h, n) == Max({0, Min({n, Len(root[h.path].data) - h.position})})

\* A short read ends the call.
FdReadIov(fd, iovs) ==
  LET n == Head(iovs)
      got == BytesRead(open_fds[fd], n)
  IN  /\ Processes("read", fd, iovs)
      /\ n >= 0 /\ Readable(fd)
      /\ open_fds' = [open_fds EXCEPT ![fd].position = @ + got]
      /\ IF got < n THEN call' = NoCall ELSE GoesOn("read", fd, iovs)
      /\ UNCHANGED <<phase, fileVars, next_fd, closed, quotaVars, ringVars, result, last>>

\* BADF: nothing changes (descriptor 0, never in the table, is at its end).
\* INVAL: the buffer is checked after the read, which has moved the position.
FdReadFails(fd, iovs) ==
  LET n == Head(iovs) IN
  /\ Processes("read", fd, iovs)
  /\ \/ ~Readable(fd) /\ UNCHANGED open_fds
     \/ /\ n < 0 /\ Readable(fd)
        /\ open_fds' = [open_fds EXCEPT ![fd].position = @ + BytesRead(open_fds[fd], -n)]
  /\ call' = NoCall
  /\ UNCHANGED <<phase, fileVars, next_fd, closed, quotaVars, ringVars, result, last>>

SeekBase(whence, h) ==
  CASE whence = "SET" -> 0
    [] whence = "CUR" -> h.position
    [] whence = "END" -> Len(root[h.path].data)

\* A refused seek (no right, a directory, before the start) changes nothing.
FdSeek(fd, offset, whence) ==
  /\ phase = "running" /\ call = NoCall
  /\ fd \in DOMAIN open_fds
  /\ "FD_SEEK" \in open_fds[fd].rights
  /\ ~root[open_fds[fd].path].dir
  /\ SeekBase(whence, open_fds[fd]) + offset \in 0 .. MaxPos
  /\ open_fds' = [open_fds EXCEPT ![fd].position =
                    SeekBase(whence, open_fds[fd]) + offset]
  /\ UNCHANGED <<phase, fileVars, next_fd, closed, quotaVars, ringVars, call,
                 result, last>>

\* Closing an unknown descriptor is ignored.
FdClose(fd) ==
  /\ phase = "running" /\ call = NoCall
  /\ open_fds' = [f \in DOMAIN open_fds \ {fd} |-> open_fds[f]]
  /\ closed' = closed \union ({fd} \intersect DOMAIN open_fds)
  /\ UNCHANGED <<phase, fileVars, next_fd, quotaVars, ringVars, call, result, last>>

-----------------------------------------------------------------------------
(* The host. *)

\* execute writes the code to CodePath through descriptor 3 and closes it.
\* Code over the quota fails the execution, the empty file being left behind.
Inject(n) ==
  /\ phase = "fresh"
  /\ next_fd' = next_fd + 1
  /\ root' = Insert(root, CodePath,
                    [dir |-> FALSE, data |-> IF OverQuota(n) THEN <<>> ELSE Chunk(n)])
  /\ IF OverQuota(n)
     THEN /\ phase' = "failed"
          /\ wrote' = Insert(wrote, CodePath, {})
          /\ UNCHANGED <<quotaVars, last, closed>>
          /\ open_fds' = Insert(open_fds, next_fd,
                           [path |-> CodePath, position |-> 0,
                            rights |-> {"FD_READ", "FD_WRITE"},
                            append |-> FALSE, is_dir |-> FALSE])
     ELSE /\ phase' = "running"
          /\ wrote' = Insert(wrote, CodePath, {<<i, last + i>> : i \in 1 .. n})
          /\ bytes_written' = bytes_written + n
          /\ stored' = stored + n
          /\ last' = last + n
          /\ closed' = closed \union {next_fd}
          /\ UNCHANGED open_fds
  /\ UNCHANGED <<ringVars, call, result>>

Files == {p \in DOMAIN root : ~root[p].dir}
Snapshot == [p \in Files |-> root[p].data]

\* The guest ends (return of _start, proc_exit, a trap or the quota of ticks)
\* and execute drains the rings and takes the snapshot.
Collect ==
  /\ phase = "running" /\ call = NoCall
  /\ phase' = "collected"
  /\ result' = [files |-> Snapshot, out |-> ring]
  /\ ring' = [f \in Stdio |-> <<>>]
  /\ UNCHANGED <<fileVars, fdVars, quotaVars, said, burst, call, last>>

\* The VFS is dropped with its slot.
Done == phase \in {"failed", "collected"} /\ UNCHANGED vfs

\* One iovec of fd_write or fd_read.
FdIo(fd, iovs) ==
  \/ FdWriteIov(fd, iovs) \/ FdWriteRing(fd, iovs) \/ FdWriteFails(fd, iovs)
  \/ FdReadIov(fd, iovs) \/ FdReadFails(fd, iovs)

GuestFds == 0 .. FIRST_GUEST_FD + MaxOpens

VfsNext ==
  \/ \E n \in CodeSizes : Inject(n)
  \/ \E raw \in GuestPaths, mode \in OpenModes :
       PathOpen(raw, mode) \/ PathOpenRefused(raw, mode)
  \/ call = NoCall /\ \E fd \in GuestFds, iovs \in IovLists : FdIo(fd, iovs)
  \/ call # NoCall /\ FdIo(call.fd, call.iovs)
  \/ \E fd \in GuestFds, offset \in Offsets, whence \in {"SET", "CUR", "END"} :
       FdSeek(fd, offset, whence)
  \/ \E fd \in GuestFds : FdClose(fd)
  \/ Collect
  \/ Done

VfsSpec == VfsInit /\ [][VfsNext]_vfs

-----------------------------------------------------------------------------
(* Properties. *)

Bytes == Nat
Handle == [path : Seq(Components), position : Nat, rights : SUBSET Rights,
           append : BOOLEAN, is_dir : BOOLEAN]

\* Types, and the bounds of the code: never more than MAX_FDS descriptors.
VfsTypeOK ==
  /\ phase \in {"fresh", "running", "failed", "collected"}
  /\ \A p \in DOMAIN root :
       /\ p \in Seq(Components)
       /\ root[p].dir \in BOOLEAN /\ root[p].data \in Seq(Bytes)
  /\ \A fd \in DOMAIN open_fds : fd \in Nat /\ open_fds[fd] \in Handle
  /\ Cardinality(DOMAIN open_fds) <= MAX_FDS
  /\ next_fd \in Nat /\ bytes_written \in Nat /\ stored \in Nat
  /\ ring \in [Stdio -> Seq(Bytes)]
  /\ call.op \in {"none", "write", "read"}
  /\ call.fd \in Nat /\ call.iovs \in Seq(Int)
  /\ last \in Bytes

\* Canonicalise against a definition that pops nothing: the path escapes if some
\* prefix of it has more ".." than names, and otherwise the component at a level
\* is the last name with which the path enters that level, for as many levels as
\* it is deep at its end.  Nested, redundant and trailing components (vfs.rs
\* canonicalise) are covered up to the length of AllPaths.
CanonicaliseCorrect ==
  phase = "fresh" =>
    \A raw \in AllPaths :
      LET IsName(i) == raw[i] \notin {"", ".", ".."}
          Depth(j) == Cardinality({k \in 1 .. j : IsName(k)})
                        - Cardinality({k \in 1 .. j : raw[k] = ".."})
          n == Len(raw)
          Enters(level) == {i \in 1 .. n : IsName(i) /\ Depth(i) = level}
          c == Canonicalise(raw)
      IN  /\ c.ok <=> \A j \in 1 .. n : Depth(j) >= 0
          /\ c.ok => c.parts = [level \in 1 .. Depth(n) |-> raw[Max(Enters(level))]]

\* An open descriptor always names an entry of the map, of the kind it had when
\* it was opened: later opens of the same path, with CREAT or TRUNC, never turn
\* a directory into a file under a descriptor.
HandlesValid ==
  \A fd \in DOMAIN open_fds :
    /\ open_fds[fd].path \in DOMAIN root
    /\ open_fds[fd].is_dir = root[open_fds[fd].path].dir

\* A descriptor that was closed never comes back to life, so a stale number the
\* guest kept cannot reach another file.
FdsNotReused == closed \intersect DOMAIN open_fds = {}

\* The descriptor table stays sound over any sequence of opens and closes: within
\* MAX_FDS, every entry for what it was opened as, and no number with two lives.
DescriptorsSound == VfsTypeOK /\ HandlesValid /\ FdsNotReused

\* What a file holds, and what the caller of execute receives in the snapshot,
\* is exactly what the writes since its creation or last truncation left: at
\* each offset the last byte written there, or 0 in a gap, and nothing past the
\* furthest write.  Several descriptors, with positions made stale by appends,
\* seeks and truncations, write the same file.
FilesAreTheirWrites ==
  LET files == IF phase = "collected" THEN result.files ELSE Snapshot IN
  /\ DOMAIN files = DOMAIN wrote
  /\ \A p \in DOMAIN files :
       /\ Len(files[p]) = Max({0} \union {w[1] : w \in wrote[p]})
       /\ \A i \in DOMAIN files[p] :
            files[p][i] = Max({0} \union {w[2] : w \in {v \in wrote[p] : v[1] = i}})

\* A write through an APPEND descriptor leaves every byte of the file where it
\* is, however the file grew or shrank since that descriptor last wrote.
AppendKeeps ==
  [][\A fd \in DOMAIN open_fds \intersect DOMAIN open_fds' :
       LET h == open_fds[fd] IN
       (h.append /\ stored' > stored /\ open_fds'[fd].position # h.position)
         => IsPrefix(root[h.path].data, root'[h.path].data)]_vfs

\* What is kept of an output stream is its newest end, and exactly how much: as
\* much as the "fixed-capacity" ring holds ("drops oldest data when at
\* capacity"), until one chunk is longer than that.  From then on the ring is
\* above its capacity, the subtraction wraps and nothing is dropped any more:
\* everything from that chunk on is kept.
OutputIsNewest ==
  \A f \in Stdio :
    LET out == IF phase = "collected" THEN result.out[f] ELSE ring[f] IN
    /\ IsSuffix(out, said[f])
    /\ Len(out) = IF burst[f] = NoBurst THEN Min({Capacity(f), Len(said[f])})
                  ELSE Len(said[f]) - burst[f]

=============================================================================
