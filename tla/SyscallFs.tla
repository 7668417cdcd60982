------------------------------ MODULE SyscallFs ------------------------------
(***************************************************************************)
(* The file-system system calls of src/kernel/src/syscall/syscall_fs.c,    *)
(* made by the threads of one process on its shared resource table.       *)
(*                                                                         *)
(* The resource table, the VFS and the heap are collaborators outside     *)
(* src/ (spec 3 and 6): resource_get, resource_create and resource_remove *)
(* are atomic table operations, and a resource is an object the table     *)
(* points at, which a thread keeps using through its pointer after the id *)
(* is removed.  Every VFS call may fail with an I/O error when IOCanFail. *)
(* A path names a node of the process's one directory.                    *)
(*                                                                         *)
(* open, close, seek and stat are one step each.  read and write take two *)
(* steps: the VFS transfer at the resource's offset, and then, with no    *)
(* lock, resource->offset += count, between which other threads run.      *)
(***************************************************************************)
EXTENDS Integers, SequencesExt

CONSTANTS
  Threads,      \* the threads of the process
  Ids,          \* resource ids the calls name
  AT_FDCWD,
  Dir,          \* proc->cwd, the directory every path is looked up in
  Files,        \* file nodes
  PathNode,     \* [path -> node]: what vfs_lookup finds for a path
  InitFiles,    \* the files that exist when the process starts
  MaxSize,      \* file capacity: a write beyond it comes up short
  MaxCalls,     \* system calls each thread makes
  IOCanFail,    \* whether lookup, attr, truncate and rw may fail
  OpenCalls,    \* [dir, path, acc, flags] arguments of open
  Counts,       \* count arguments of read and write
  SeekCalls,    \* [offset, whence] arguments of seek
  StatCalls,    \* [dir, path, emptyPath, statbuf] arguments of stat
  None

Paths == DOMAIN PathNode
Nodes == Files \cup {Dir}
Positions == 0..(MaxSize - 1)

\* syscall_fs_open's flag check (line 29) and accmode switch (lines 36-47).
SupportedFlags == {"O_DIRECTORY", "O_APPEND", "O_CREAT", "O_TRUNC", "O_EXCL"}
AccModeTable == [O_RDONLY |-> "READ_ONLY", O_WRONLY |-> "WRITE_ONLY", O_RDWR |-> "READ_WRITE",
                 O_EXEC |-> "REFERENCE", O_SEARCH |-> "REFERENCE"]
AccMode(acc) == AccModeTable[acc]
Writable == {"WRITE_ONLY", "READ_WRITE"}
Readable == {"READ_ONLY", "READ_WRITE"}

VARIABLES
  rt,       \* proc->resource_table: [id -> resource object or None]
  res,      \* the resource objects created, in order: [node, offset, mode]
  exists,   \* [file -> BOOLEAN]
  size,     \* [file -> size]
  data,     \* [file -> [position -> who wrote it]]
  pc,       \* [thread -> "idle" | "read" | "write"]: offset update pending
  obj,      \* [thread -> resource object read/write holds]
  rid,      \* [thread -> the resource_id read/write was called with]
  cnt,      \* [thread -> read_count / write_count]
  ret,      \* [thread -> errno]: the last syscall_return_t's errno; its
            \* value is the id, count or offset the state already shows
  paths,    \* safe_path buffers still allocated
  calls,    \* [thread -> number of system calls made]
  op        \* [thread -> the last call and the arguments the properties
            \* judge it by] (history)

vars == <<rt, res, exists, size, data, pc, obj, rid, cnt, ret, paths, calls, op>>

Init ==
  /\ rt = [i \in Ids |-> None]
  /\ res = <<>>
  /\ exists = [f \in Files |-> f \in InitFiles]
  /\ size = [f \in Files |-> IF f \in InitFiles THEN 1 ELSE 0]
  /\ data = [f \in Files |-> [p \in Positions |-> IF p = 0 /\ f \in InitFiles THEN "init" ELSE None]]
  /\ pc = [t \in Threads |-> "idle"]
  /\ obj = [t \in Threads |-> None]
  /\ rid = [t \in Threads |-> None]
  /\ cnt = [t \in Threads |-> 0]
  /\ ret = [t \in Threads |-> "OK"]
  /\ paths = 0
  /\ calls = [t \in Threads |-> 0]
  /\ op = [t \in Threads |-> [name |-> "none"]]

\* A thread enters a system call.
Call(t, call) ==
  /\ pc[t] = "idle" /\ calls[t] < MaxCalls
  /\ calls' = [calls EXCEPT ![t] = @ + 1]
  /\ op' = [op EXCEPT ![t] = call]
Return(t, value, errno) == ret' = [ret EXCEPT ![t] = errno]

\* The I/O outcomes of a VFS call.
IOErr == IF IOCanFail THEN {"OK", "EIO"} ELSE {"OK"}
\* Which VFS call of a system call fails first, if any: the calls after
\* it are never made.
Failing(steps) == IF IOCanFail THEN {"none"} \cup steps ELSE {"none"}
IOOf(fail, step) == IF fail = step THEN "EIO" ELSE "OK"

\* resource_get: the object an id names, None when the id is not open.
ResourceGet(id) == IF id \in Ids THEN rt[id] ELSE None
\* The directory a call's dir_resource_id names (lines 52-61, 244-254).
Parent(dir) ==
  IF dir = AT_FDCWD THEN Dir ELSE IF ResourceGet(dir) = None THEN None ELSE res[ResourceGet(dir)].node

Exists(n) == n = Dir \/ exists[n]
NodeSize(n) == IF n = Dir THEN 0 ELSE size[n]

\* Line 89: O_TRUNC truncates a regular file opened for writing.
Truncates(a, node, mode) == "O_TRUNC" \in a.flags /\ mode \in Writable /\ node \in Files

(***************************************************************************)
(* vfs_lookup and vfs_lookup_ext(VFS_LOOKUP_CREATE_FILE, exclusive) of    *)
(* the node a path names under parent: "OK" or the error; lookup_ext      *)
(* creates a missing file.                                                 *)
(***************************************************************************)
LookupErr(parent, node, create, exclusive, io) ==
  IF parent = None THEN "EBADF"
  ELSE IF parent # Dir THEN "ENOTDIR"
  ELSE IF io # "OK" THEN io
  ELSE IF Exists(node) THEN (IF create /\ exclusive THEN "EEXIST" ELSE "OK")
  ELSE IF create THEN "OK" ELSE "ENOENT"

(***************************************************************************)
(* syscall_fs_open (lines 16-110).  Its early returns, in the order the   *)
(* code takes them, as <<the condition that returns, errno>>; the first   *)
(* that holds is where the call stops.  safe_path (line 22) is never      *)
(* freed.  lookup_ext's creation, the O_TRUNC truncate and the            *)
(* resource_create happen only when the call gets that far.               *)
(***************************************************************************)
OpenChecks(a, node, mode, lookup, truncErr, attrErr) ==
  << <<a.flags \ SupportedFlags # {}, "ENOTSUP">>,
     <<a.acc \notin DOMAIN AccModeTable, "EINVAL">>,
     <<Parent(a.dir) = None, "EBADF">>,
     <<"O_CREAT" \in a.flags /\ "O_DIRECTORY" \in a.flags, "EINVAL">>,
     <<"O_CREAT" \notin a.flags /\ "O_EXCL" \in a.flags, "EINVAL">>,
     <<lookup # "OK", lookup>>,
     <<"O_DIRECTORY" \in a.flags /\ node # Dir, "ENOTDIR">>,
     <<Truncates(a, node, mode) /\ truncErr # "OK", truncErr>>,
     <<"O_APPEND" \in a.flags /\ attrErr # "OK", attrErr>> >>

Open(t) ==
  /\ paths' = paths + 1
  /\ \E a \in OpenCalls, fail \in Failing({"lookup", "truncate", "attr"}) :
     LET lio == IOOf(fail, "lookup")
         tio == IOOf(fail, "truncate")
         aio == IOOf(fail, "attr")
         node == PathNode[a.path]
         mode == IF a.acc \in DOMAIN AccModeTable THEN AccMode(a.acc) ELSE None
         lookup == LookupErr(Parent(a.dir), node, "O_CREAT" \in a.flags, "O_EXCL" \in a.flags, lio)
         checks == OpenChecks(a, node, mode, lookup, tio, aio)
         stop == SelectInSeq(checks, LAMBDA c : c[1])
         reached(k) == stop = 0 \/ stop >= k
         created == reached(6) /\ lookup = "OK" /\ ~Exists(node)
         truncated == reached(8) /\ Truncates(a, node, mode) /\ tio = "OK"
         size1 == IF truncated \/ created THEN 0 ELSE NodeSize(node)
     IN /\ Call(t, [name |-> "open", truncating |->
                         IF "O_TRUNC" \in a.flags /\ a.acc \in {"O_WRONLY", "O_RDWR"} THEN node ELSE None])
        /\ exists' = IF created THEN [exists EXCEPT ![node] = TRUE] ELSE exists
        /\ size' = IF truncated THEN [size EXCEPT ![node] = 0] ELSE size
        /\ data' = IF truncated THEN [data EXCEPT ![node] = [p \in Positions |-> None]] ELSE data
        /\ IF stop = 0
             THEN \E id \in Ids :
                    /\ rt[id] = None
                    /\ res' = Append(res, [node |-> node, mode |-> mode, flags |-> a.flags,
                                           offset |-> IF "O_APPEND" \in a.flags THEN size1 ELSE 0])
                    /\ rt' = [rt EXCEPT ![id] = Len(res) + 1]
                    /\ Return(t, id, "OK")
             ELSE Return(t, 0, checks[stop][2]) /\ UNCHANGED <<rt, res>>
  /\ UNCHANGED <<pc, obj, rid, cnt>>

\* syscall_fs_close (lines 112-120): resource_remove fails for an id that
\* is not open.
Close(t) ==
  /\ \E id \in Ids :
       /\ Call(t, [name |-> "close"])
       /\ IF rt[id] = None THEN Return(t, 0, "EBADF") /\ UNCHANGED rt
          ELSE rt' = [rt EXCEPT ![id] = None] /\ Return(t, 0, "OK")
  /\ UNCHANGED <<res, exists, size, data, pc, obj, rid, cnt, paths>>

(***************************************************************************)
(* The first step of syscall_fs_read (lines 122-143) and syscall_fs_write *)
(* (lines 150-172): resource_get and the mode check, then node->ops->rw   *)
(* at resource->offset with a heap bounce buffer that is freed before the *)
(* step ends.  rw on a directory fails; an I/O error may come after part  *)
(* of the transfer; a write stops at the file capacity.                   *)
(***************************************************************************)
Transfer(t, kind, modes) ==
  /\ \E id \in Ids, count \in Counts, io \in IOErr :
     LET r == ResourceGet(id) IN
     /\ Call(t, [name |-> kind])
     /\ IF r = None \/ res[r].mode \notin modes
          THEN Return(t, 0, "EBADF") /\ UNCHANGED <<pc, obj, rid, cnt, size, data>>
          ELSE LET node == res[r].node
                   off == res[r].offset
                   room == IF kind = "read" THEN NodeSize(node) - off ELSE MaxSize - off
                   full == IF node = Dir THEN 0 ELSE Max({0, Min({count, room})})
                   err == IF node = Dir THEN "EISDIR" ELSE io
               IN \E n \in IF err = "OK" THEN {full} ELSE 0..full :
                    /\ pc' = [pc EXCEPT ![t] = kind]
                    /\ obj' = [obj EXCEPT ![t] = r]
                    /\ rid' = [rid EXCEPT ![t] = id]
                    /\ cnt' = [cnt EXCEPT ![t] = n]
                    /\ Return(t, n, err)
                    /\ IF kind = "write" /\ n > 0
                         THEN /\ data' = [data EXCEPT ![node] =
                                            [p \in Positions |-> IF p >= off /\ p < off + n THEN t ELSE @[p]]]
                              /\ size' = [size EXCEPT ![node] = Max({@, off + n})]
                         ELSE UNCHANGED <<size, data>>
  /\ UNCHANGED <<rt, res, exists, paths>>

Read(t) == Transfer(t, "read", Readable)
WriteReadModes(t) == Transfer(t, "write", Readable)
Write(t) == Transfer(t, "write", Writable)

\* The second step, lines 144-147 and 173-176: resource->offset +=
\* read_count (write_count) through the pointer taken in the first step.
Advanced(t) == obj[t]

TransferEnd(t) ==
  /\ pc[t] # "idle"
  /\ res' = [res EXCEPT ![Advanced(t)].offset = @ + cnt[t]]
  /\ pc' = [pc EXCEPT ![t] = "idle"]
  /\ obj' = [obj EXCEPT ![t] = None]
  /\ rid' = [rid EXCEPT ![t] = None]
  /\ cnt' = [cnt EXCEPT ![t] = 0]
  /\ UNCHANGED <<rt, exists, size, data, ret, paths, calls, op>>

(***************************************************************************)
(* syscall_fs_seek (lines 179-223): no resource or a REFERENCE one is      *)
(* EBADF; the new offset is relative to the current offset, the file size *)
(* (attr, which may fail) or zero; an unknown whence or a negative result *)
(* is EINVAL and leaves the offset alone.                                 *)
(***************************************************************************)
SeekTarget(r, s) ==
  CASE s.whence = "SEEK_CUR" -> res[r].offset + s.offset
    [] s.whence = "SEEK_END" -> s.offset + NodeSize(res[r].node)
    [] s.whence = "SEEK_SET" -> s.offset

\* Line 213: a negative new offset is refused.
SeekInvalidNever(target) == FALSE
SeekInvalid(target) == target < 0

Seek(t) ==
  /\ \E id \in Ids, s \in SeekCalls, attr \in IOErr :
     LET r == ResourceGet(id) IN
     /\ Call(t, [name |-> "seek", id |-> id])
     /\ IF r = None \/ res[r].mode = "REFERENCE" THEN Return(t, 0, "EBADF") /\ UNCHANGED res
        ELSE IF s.whence \notin {"SEEK_CUR", "SEEK_END", "SEEK_SET"} THEN Return(t, 0, "EINVAL") /\ UNCHANGED res
        ELSE IF s.whence = "SEEK_END" /\ attr # "OK" THEN Return(t, 0, attr) /\ UNCHANGED res
        ELSE IF SeekInvalid(SeekTarget(r, s)) THEN Return(t, 0, "EINVAL") /\ UNCHANGED res
        ELSE /\ res' = [res EXCEPT ![r].offset = SeekTarget(r, s)]
             /\ Return(t, SeekTarget(r, s), "OK")
  /\ UNCHANGED <<rt, exists, size, data, pc, obj, rid, cnt, paths>>

(***************************************************************************)
(* syscall_fs_stat (lines 225-302), in the order of its early returns.    *)
(* safe_path is freed on every return but the failed vfs_lookup (lines    *)
(* 266-270) and success (line 302).  The attributes copied to *statbuf    *)
(* are not modelled.                                                       *)
(***************************************************************************)
StatChecks(s, parent, lookup, attr) ==
  << <<~s.statbuf, "EINVAL">>,
     <<parent = None, "EBADF">>,
     <<s.path = "" /\ ~s.emptyPath, "ENOENT">>,
     <<s.path # "" /\ lookup # "OK", lookup>>,
     <<attr # "OK", attr>> >>

Stat(t) ==
  /\ \E s \in StatCalls, fail \in Failing({"lookup", "attr"}) :
     LET lio == IOOf(fail, "lookup")
         aio == IOOf(fail, "attr")
         parent == Parent(s.dir)
         lookup == IF s.path = "" THEN "OK" ELSE LookupErr(parent, PathNode[s.path], FALSE, FALSE, lio)
         checks == StatChecks(s, parent, lookup, aio)
         stop == SelectInSeq(checks, LAMBDA c : c[1])
     IN /\ Call(t, [name |-> "stat"])
        /\ paths' = IF stop \in {0, 4} THEN paths + 1 ELSE paths
        /\ Return(t, 0, IF stop = 0 THEN "OK" ELSE checks[stop][2])
  /\ UNCHANGED <<rt, res, exists, size, data, pc, obj, rid, cnt>>

Next ==
  \E t \in Threads :
    Open(t) \/ Close(t) \/ Read(t) \/ Write(t) \/ TransferEnd(t) \/ Seek(t) \/ Stat(t)

\* A system call in progress runs to its end; nothing forces a thread to
\* make another.
Spec == Init /\ [][Next]_vars /\ \A t \in Threads : WF_vars(TransferEnd(t))

-----------------------------------------------------------------------------
(***************************************************************************)
(* Properties.                                                             *)
(***************************************************************************)
Modes == {"READ_ONLY", "WRITE_ONLY", "READ_WRITE", "REFERENCE"}

TypeOK ==
  /\ rt \in [Ids -> DOMAIN res \cup {None}]
  /\ \A k \in DOMAIN res : res[k].node \in Nodes /\ res[k].mode \in Modes /\ res[k].offset \in Nat
  /\ exists \in [Files -> BOOLEAN]
  /\ size \in [Files -> 0..MaxSize]
  /\ pc \in [Threads -> {"idle", "read", "write"}]
  /\ \A t \in Threads : pc[t] # "idle" => obj[t] \in DOMAIN res /\ cnt[t] \in Nat
  /\ calls \in [Threads -> 0..MaxCalls]

\* The thread t made a system call in this step.
Called(t) == calls'[t] = calls[t] + 1

\* A file's bytes change only through a write on a resource opened for
\* writing (the mode checks of syscall_fs_write, line 156), and a file
\* shrinks only through an O_TRUNC open with write access (line 89), even
\* when another thread closes and reopens resource ids in between.
FileChangesNeedWriteAccess ==
  [][\A f \in Files :
       /\ \A p \in Positions : data'[f][p] \notin {data[f][p], None} =>
            \E t \in Threads : Called(t) /\ op'[t].name = "write"
                               /\ res[obj'[t]].node = f /\ res[obj'[t]].mode \in Writable
       /\ size'[f] < size[f] =>
            \E t \in Threads : Called(t) /\ op'[t].name = "open" /\ op'[t].truncating = f
    ]_<<data, size>>

=============================================================================
