---------------------------- MODULE WinFsRequest ----------------------------
(***************************************************************************)
(* The life cycle of the file system requests of the Windows port          *)
(* (win/fs.c): every uv_fs_ function, the copy of its paths and buffers,   *)
(* uv__fs_work on a thread of the pool, uv__fs_done and uv_fs_req_cleanup. *)
(* What an operation does is in WinFsOps; here it is its result and the    *)
(* memory it leaves with the request.                                      *)
(***************************************************************************)
EXTENDS Integers, FiniteSets

CONSTANTS Reqs,
          AccessModes,      \* the modes of uv_fs_access, as sets of bits
          MaxFsCalls        \* bound

VARIABLES
    s,      \* the requests, and loop->active_reqs
    os,     \* the allocated blocks, and whether something else was freed
    run,    \* the request whose callback runs
    hist    \* the calls so far

vars == <<s, os, run, hist>>

None == "none"

\* The bits of req->flags; W_OK has the value of UV_FS_FREE_PATHS.
FREE_PATHS == 2
FREE_PTR == 8
CLEANEDUP == 16

Ecanceled == -125
Failed == -1

Idle == [op |-> None, cb |-> FALSE, st |-> "idle", flags |-> {CLEANEDUP}, path |-> None,
         bufs |-> None, ptr |-> None, result |-> 0]

Init ==
    /\ s = [r |-> [r \in Reqs |-> Idle], active |-> {}]
    /\ os = [heap |-> {}, bad |-> FALSE]
    /\ run = None
    /\ hist = 0

Alloc(o, b) == [o EXCEPT !.heap = @ \cup {b}]
Free(o, bs) == [o EXCEPT !.heap = @ \ bs, !.bad = @ \/ ~(bs \subseteq o.heap)]

\* uv_fs_req_init
ReqInit(st, r, op, cb) ==
    [st EXCEPT !.r[r] = [Idle EXCEPT !.op = op, !.cb = cb, !.flags = {}]]

\* Mutant of CopiesPath: the program's string is kept.
CopiesPathNever(op, cb) == FALSE

\* The functions ask for a copy of the path when the operation outlives the call;
\* uv_fs_mkdtemp changes it.
CopiesPath(op, cb) == cb \/ op = "mkdtemp"

\* fs__capture_path: one block holds the wide paths and the copy.
Captured(st, r) ==
    [st EXCEPT !.r[r].path = IF CopiesPath(st.r[r].op, st.r[r].cb) THEN "block" ELSE "program",
               !.r[r].flags = @ \cup {FREE_PATHS}]

-----------------------------------------------------------------------------
\* fs__chown and fs__fchown do nothing.
Results(op) ==
    CASE op = "scandir" -> {Failed, 0, 1} [] op \in {"chown", "fchown"} -> {0} [] OTHER -> {Failed, 0}

\* The operations that leave memory in req->ptr; an empty directory does not.
Leaves(op, res) == (res = 0 /\ op \in {"readlink", "realpath"}) \/ res = 1

\* ... and mark it.
Marked(rec, res) == IF Leaves(rec.op, res) THEN {FREE_PTR} ELSE {}

\* uv__fs_work: the fs__ function of the type of the request.
Worked(rec, res) ==
    [rec EXCEPT !.result = res,
                !.ptr = IF Leaves(rec.op, res) THEN "heap"
                        ELSE IF res = 0 /\ rec.op \in {"stat", "lstat", "fstat"} THEN "statbuf"
                        ELSE None,
                !.flags = @ \cup Marked(rec, res)]

WorkedHeap(o, r, rec, res) == IF Leaves(rec.op, res) THEN Alloc(o, <<r, "ptr">>) ELSE o

\* QUEUE_FS_TP_JOB with a callback, the operation itself without.
Submit(st, o, r) ==
    IF st.r[r].cb
    THEN s' = [st EXCEPT !.r[r].st = "queued", !.active = @ \cup {r}] /\ os' = o
    ELSE \E res \in Results(st.r[r].op) :
             /\ s' = [st EXCEPT !.r[r] = [Worked(@, res) EXCEPT !.st = "over"]]
             /\ os' = WorkedHeap(o, r, st.r[r], res)

Call(r) == run = None /\ s.r[r].st = "idle" /\ hist < MaxFsCalls /\ hist' = hist + 1 /\ UNCHANGED run

\* A function that takes a path, or two, and fails when they cannot be captured.
PathRequest(r, op, cb) ==
    /\ Call(r)
    /\ LET st == ReqInit(s, r, op, cb)
       IN \/ Submit(Captured(st, r), Alloc(os, <<r, "paths">>), r)
          \/ s' = [st EXCEPT !.r[r].st = "over"] /\ UNCHANGED os

uv_fs_open(r, cb) == PathRequest(r, "open", cb)
uv_fs_unlink(r, cb) == PathRequest(r, "unlink", cb)
uv_fs_mkdir(r, cb) == PathRequest(r, "mkdir", cb)
uv_fs_mkdtemp(r, cb) == PathRequest(r, "mkdtemp", cb)
uv_fs_rmdir(r, cb) == PathRequest(r, "rmdir", cb)
uv_fs_scandir(r, cb) == PathRequest(r, "scandir", cb)
uv_fs_link(r, cb) == PathRequest(r, "link", cb)
uv_fs_symlink(r, cb) == PathRequest(r, "symlink", cb)
uv_fs_readlink(r, cb) == PathRequest(r, "readlink", cb)
uv_fs_realpath(r, cb) == PathRequest(r, "realpath", cb)
uv_fs_chown(r, cb) == PathRequest(r, "chown", cb)
uv_fs_stat(r, cb) == PathRequest(r, "stat", cb)
uv_fs_lstat(r, cb) == PathRequest(r, "lstat", cb)
uv_fs_rename(r, cb) == PathRequest(r, "rename", cb)
uv_fs_chmod(r, cb) == PathRequest(r, "chmod", cb)
uv_fs_utime(r, cb) == PathRequest(r, "utime", cb)

\* uv_fs_access keeps the mode in req->flags.
uv_fs_access(r, cb) ==
    /\ Call(r)
    /\ LET st == ReqInit(s, r, "access", cb)
       IN \/ \E mode \in AccessModes :
                 Submit([Captured(st, r) EXCEPT !.r[r].flags = mode], Alloc(os, <<r, "paths">>), r)
          \/ s' = [st EXCEPT !.r[r].st = "over"] /\ UNCHANGED os

\* A function that takes a descriptor.
FdRequest(r, op, cb) == Call(r) /\ Submit(ReqInit(s, r, op, cb), os, r)

uv_fs_close(r, cb) == FdRequest(r, "close", cb)
uv_fs_fchown(r, cb) == FdRequest(r, "fchown", cb)
uv_fs_fstat(r, cb) == FdRequest(r, "fstat", cb)
uv_fs_fsync(r, cb) == FdRequest(r, "fsync", cb)
uv_fs_fdatasync(r, cb) == FdRequest(r, "fdatasync", cb)
uv_fs_ftruncate(r, cb) == FdRequest(r, "ftruncate", cb)
uv_fs_sendfile(r, cb) == FdRequest(r, "sendfile", cb)
uv_fs_fchmod(r, cb) == FdRequest(r, "fchmod", cb)
uv_fs_futime(r, cb) == FdRequest(r, "futime", cb)

\* A function that takes buffers: none is an error before the request is touched,
\* more than four are copied to the heap, if there is memory.
BufsRequest(r, op, cb) ==
    /\ Call(r)
    /\ LET st == ReqInit(s, r, op, cb)
       IN \/ UNCHANGED <<s, os>>
          \/ Submit([st EXCEPT !.r[r].bufs = "small"], os, r)
          \/ Submit([st EXCEPT !.r[r].bufs = "heap"], Alloc(os, <<r, "bufs">>), r)
          \/ s' = [st EXCEPT !.r[r].st = "over"] /\ UNCHANGED os

uv_fs_read(r, cb) == BufsRequest(r, "read", cb)
uv_fs_write(r, cb) == BufsRequest(r, "write", cb)

-----------------------------------------------------------------------------
\* A thread of the pool runs the operation.
Work(r) ==
    /\ s.r[r].st = "queued"
    /\ \E res \in Results(s.r[r].op) :
           /\ s' = [s EXCEPT !.r[r] = [Worked(@, res) EXCEPT !.st = "worked"]]
           /\ os' = WorkedHeap(os, r, s.r[r], res)
    /\ UNCHANGED <<run, hist>>

\* uv_cancel of a request that no thread has taken.
Cancel(r) ==
    /\ s.r[r].st = "queued" /\ hist < MaxFsCalls
    /\ s' = [s EXCEPT !.r[r].st = "cancelled"]
    /\ hist' = hist + 1
    /\ UNCHANGED <<os, run>>

\* Mutant of Unregistered: the request of a cancelled operation stays registered.
UnregisteredWorked(st, r) ==
    IF st.r[r].st = "worked" THEN [st EXCEPT !.active = @ \ {r}] ELSE st

\* uv__req_unregister
Unregistered(st, r) == [st EXCEPT !.active = @ \ {r}]

\* uv__fs_done
Done(r) ==
    /\ run = None /\ s.r[r].st \in {"worked", "cancelled"}
    /\ s' = [Unregistered(s, r) EXCEPT
                !.r[r].st = "over",
                !.r[r].result = IF s.r[r].st = "cancelled" THEN Ecanceled ELSE @]
    /\ run' = r
    /\ UNCHANGED <<os, hist>>

CbReturns ==
    /\ run # None
    /\ run' = None
    /\ UNCHANGED <<s, os, hist>>

\* The blocks uv_fs_req_cleanup frees.
Freed(rec) ==
    (IF FREE_PATHS \in rec.flags THEN {"paths"} ELSE {})
    \cup (IF FREE_PTR \in rec.flags /\ rec.ptr # None THEN {"ptr"} ELSE {})
    \cup (IF rec.bufs = "heap" THEN {"bufs"} ELSE {})

\* ... and how it leaves the request.
Cleaned(rec) ==
    [rec EXCEPT !.path = None, !.bufs = None, !.ptr = None, !.flags = @ \cup {CLEANEDUP}]

\* uv_fs_req_cleanup, once or twice, in the callback or later.
Cleanup(r) ==
    /\ s.r[r].st = "over"
    /\ IF CLEANEDUP \in s.r[r].flags
       THEN s' = [s EXCEPT !.r[r] = Idle] /\ UNCHANGED os
       ELSE /\ s' = [s EXCEPT !.r[r] = Cleaned(@)]
            /\ os' = Free(os, {<<r, b>> : b \in Freed(s.r[r])})
    /\ UNCHANGED <<run, hist>>

Program ==
    \E r \in Reqs :
        \/ \E cb \in BOOLEAN :
               \/ uv_fs_open(r, cb) \/ uv_fs_close(r, cb) \/ uv_fs_read(r, cb) \/ uv_fs_write(r, cb)
               \/ uv_fs_unlink(r, cb) \/ uv_fs_mkdir(r, cb) \/ uv_fs_mkdtemp(r, cb)
               \/ uv_fs_rmdir(r, cb) \/ uv_fs_scandir(r, cb) \/ uv_fs_link(r, cb)
               \/ uv_fs_symlink(r, cb) \/ uv_fs_readlink(r, cb) \/ uv_fs_realpath(r, cb)
               \/ uv_fs_chown(r, cb) \/ uv_fs_fchown(r, cb) \/ uv_fs_stat(r, cb)
               \/ uv_fs_lstat(r, cb) \/ uv_fs_fstat(r, cb) \/ uv_fs_rename(r, cb)
               \/ uv_fs_fsync(r, cb) \/ uv_fs_fdatasync(r, cb) \/ uv_fs_ftruncate(r, cb)
               \/ uv_fs_sendfile(r, cb) \/ uv_fs_access(r, cb) \/ uv_fs_chmod(r, cb)
               \/ uv_fs_fchmod(r, cb) \/ uv_fs_utime(r, cb) \/ uv_fs_futime(r, cb)
        \/ Cancel(r) \/ Cleanup(r)

LoopStep == CbReturns \/ \E r \in Reqs : Done(r)

Next == Program \/ LoopStep \/ \E r \in Reqs : Work(r)

Spec == Init /\ [][Next]_vars

-----------------------------------------------------------------------------
\* The type invariant.
TypeOK ==
    /\ run \in Reqs \cup {None} /\ s.active \subseteq Reqs
    /\ \A r \in Reqs :
           /\ s.r[r].st \in {"idle", "queued", "worked", "cancelled", "over"}
           /\ s.r[r].flags \subseteq {1, FREE_PATHS, 4, FREE_PTR, CLEANEDUP}
           /\ s.r[r].path \in {None, "block", "program"} /\ s.r[r].bufs \in {None, "small", "heap"}

\* A request that was cleaned up owns no memory and nothing was freed twice, although
\* it may be cleaned up twice, cancelled, or fail before or after its copies were made
\* (uv_fs_req_cleanup works from req->flags).
NothingLost ==
    /\ ~os.bad
    /\ \A r \in Reqs : CLEANEDUP \in s.r[r].flags => \A b \in os.heap : b[1] # r

\* The path that the thread of the pool and the callback find in the request is the
\* request's own copy: the program's string need not outlive the call.
PathAlive ==
    \A r \in Reqs : s.r[r].st # "idle" /\ s.r[r].cb /\ s.r[r].path # None
                        => s.r[r].path = "block" /\ <<r, "paths">> \in os.heap

\* loop->active_reqs, which keeps uv_run going, holds exactly the requests that still
\* have a callback to come; uv_cancel takes none out.
RegisteredExact == s.active = {r \in Reqs : s.r[r].st \in {"queued", "worked", "cancelled"}}
=============================================================================
