----------------------------- MODULE MCSyscallFs -----------------------------
(***************************************************************************)
(* SyscallFs instantiated for TLC: two threads of one process, two        *)
(* resource ids, a directory with an existing file "a" and a file "b"     *)
(* that O_CREAT makes, files of at most 2 bytes.                          *)
(***************************************************************************)
EXTENDS SyscallFs, TLC

CONSTANTS t1, t2, D, fa, fb

MCPathNode == ("." :> D) @@ ("a" :> fa) @@ ("b" :> fb)

OpenCall(dir, path, acc, flags) == [dir |-> dir, path |-> path, acc |-> acc, flags |-> flags]

\* One call for each way open can end: every early return, creation,
\* O_TRUNC with and without write access, O_APPEND, a directory, a
\* REFERENCE resource, and a lookup relative to an open resource.
MCOpenCalls ==
  { OpenCall(AT_FDCWD, "a", "O_RDWR", {}),
    OpenCall(AT_FDCWD, "a", "O_RDONLY", {"O_TRUNC"}),
    OpenCall(AT_FDCWD, "a", "O_WRONLY", {"O_TRUNC", "O_APPEND"}),
    OpenCall(AT_FDCWD, "b", "O_RDWR", {"O_CREAT", "O_EXCL"}),
    OpenCall(AT_FDCWD, ".", "O_RDONLY", {"O_DIRECTORY"}),
    OpenCall(AT_FDCWD, "a", "O_EXEC", {}),
    OpenCall(0, "b", "O_RDONLY", {}),
    OpenCall(AT_FDCWD, "a", "O_BAD", {}),
    OpenCall(AT_FDCWD, "a", "O_RDONLY", {"O_NONBLOCK"}),
    OpenCall(AT_FDCWD, ".", "O_RDONLY", {"O_CREAT", "O_DIRECTORY"}),
    OpenCall(AT_FDCWD, "a", "O_RDONLY", {"O_EXCL"}),
    OpenCall(AT_FDCWD, "a", "O_RDONLY", {"O_DIRECTORY"}) }

MCSeekCalls ==
  { [offset |-> -1, whence |-> "SEEK_CUR"], [offset |-> 0, whence |-> "SEEK_END"],
    [offset |-> 1, whence |-> "SEEK_SET"], [offset |-> 0, whence |-> "SEEK_BAD"] }

MCStatCalls ==
  { [dir |-> AT_FDCWD, path |-> "a", emptyPath |-> FALSE, statbuf |-> TRUE],
    [dir |-> 0, path |-> "", emptyPath |-> TRUE, statbuf |-> TRUE],
    [dir |-> AT_FDCWD, path |-> "", emptyPath |-> FALSE, statbuf |-> TRUE],
    [dir |-> AT_FDCWD, path |-> "a", emptyPath |-> FALSE, statbuf |-> FALSE] }
\* The two threads are interchangeable.
MCSymmetry == Permutations({t1, t2})
====
