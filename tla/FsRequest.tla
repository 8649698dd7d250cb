----------------------------- MODULE FsRequest ------------------------------
(***************************************************************************)
(* Requests of the file system and of name resolution on POSIX: the memory *)
(* of a request, and the transfer of several buffers.                      *)
(***************************************************************************)
EXTENDS Integers, FiniteSets, Sequences

CONSTANTS
    Reqs,
    MaxEntries,       \* of a directory
    CancelLargeReads, \* the program cancels requests with a copy of the buffers
    CleanupAtLast,    \* ... cleans up after the last entry, before UV_EOF
    MaxRequestCalls,   \* bound
    Lens,         \* the lengths of the buffers: a set of sequences
    Offs,         \* the offsets; -1 is the position of the descriptor
    Sizes,        \* the end of the file, or of the disk for a write
    Modes,        \* pairs of a kind of system call and iovmax
    ShortCalls,   \* a call that others follow may move less than it was asked for
    MaxInterrupts \* bound

VARIABLES
    s,      \* the structures of libtuv
    os,     \* what the system holds
    run,    \* the place of the threads in the code
    hist    \* history, and what the bounds count

vars == <<s, os, run, hist>>

-----------------------------------------------------------------------------
(***************************************************************************)
(* The life cycle of the requests that run on the thread pool: the file    *)
(* system requests (fs.c, the scandir part of uv-common.c), getaddrinfo.c  *)
(* and getnameinfo.c.  What the operating system does for a request is its *)
(* result; the memory a request owns is modelled block by block.           *)
(***************************************************************************)
\* s: the requests, and loop->active_reqs
\* os: the allocated blocks, and whether a bad one was freed
\* run: the request whose callback runs
\* hist: the calls so far

None == "none"
Ecanceled == -125
NoReq == [op |-> None, async |-> FALSE, st |-> "idle", path |-> None, bufs |-> None,
          ptr |-> None, nbufs |-> 0, result |-> 0, parts |-> {}]

Init ==
    /\ s = [r |-> [r \in Reqs |-> NoReq], active |-> {}]
    /\ os = [heap |-> {}, bad |-> FALSE]
    /\ run = None
    /\ hist = 0

Block(r, b, i) == <<r, b, i>>
Alloc(o, bs) == [o EXCEPT !.heap = @ \cup bs]
Free(o, bs) == [o EXCEPT !.heap = @ \ bs, !.bad = @ \/ ~(bs \subseteq o.heap)]

Call(r) == s.r[r].st = "idle" /\ hist < MaxRequestCalls /\ hist' = hist + 1 /\ UNCHANGED run

\* The INIT macro: only a request with a callback is registered.
INIT(st, r, op, async) ==
    [st EXCEPT !.r[r] = [NoReq EXCEPT !.op = op, !.async = async, !.bufs = st.r[r].bufs],
               !.active = IF async THEN @ \cup {r} ELSE @]

\* Mutant of Unregistered: the request stays in active_reqs.
UnregisteredNot(st, r) == st

\* uv__req_unregister
Unregistered(st, r) == [st EXCEPT !.active = @ \ {r}]

-----------------------------------------------------------------------------
\* uv__fs_work: what a request owns once its operation returned res.
Worked(st, r, res) ==
    [st EXCEPT !.r[r] =
        [@ EXCEPT !.result = res,
                  !.bufs = None,
                  !.ptr = CASE st.r[r].op = "stat" /\ res = 0 -> "stat"
                            [] st.r[r].op = "scandir" /\ res > 0 -> "dents"
                            [] OTHER -> @]]

WorkedHeap(o, r, rec, res) ==
    CASE rec.op = "scandir" /\ res > 0 ->
             Alloc(o, {Block(r, "dents", 0)} \cup {Block(r, "dent", i) : i \in 1..res})
      [] rec.bufs = "heap" -> Free(o, {Block(r, "bufs", 0)})
      [] OTHER -> o

Results(op) == IF op = "scandir" THEN -1..MaxEntries ELSE {-1, 0}

\* The POST macro; without a callback the work is done at once.
POST(st, o, r, async) ==
    IF async THEN s' = [st EXCEPT !.r[r].st = "queued"] /\ os' = o
    ELSE \E res \in Results(st.r[r].op) :
             /\ s' = [Worked(st, r, res) EXCEPT !.r[r].st = "over"]
             /\ os' = WorkedHeap(o, r, st.r[r], res)

\* uv_fs_close, fdatasync, fstat, fsync, ftruncate, futime
FileRequest(r, async) ==
    /\ Call(r)
    /\ \E op \in {"file", "stat"} : POST(INIT(s, r, op, async), os, r, async)

\* The PATH and PATH2 macros, that fail when there is no memory for the copy.
PATH(r, op, async) ==
    \/ LET st == INIT(s, r, op, async)
       IN POST([st EXCEPT !.r[r].path = IF async THEN "heap" ELSE "user"],
               IF async THEN Alloc(os, {Block(r, "path", 0)}) ELSE os, r, async)
    \/ /\ async
       /\ s' = [Unregistered(INIT(s, r, op, async), r) EXCEPT !.r[r].st = "over"]
       /\ UNCHANGED os

\* uv_fs_mkdir, uv_fs_open
PathRequest(r, async) == Call(r) /\ PATH(r, "path", async)

\* uv_fs_scandir, rename, rmdir, stat, unlink, utime
EntryRequest(r, async) == Call(r) /\ \E op \in {"scandir", "path", "stat"} : PATH(r, op, async)

\* uv_fs_read; more than four buffers are copied to the heap.
ReadRequest(r, async) ==
    /\ Call(r)
    /\ \/ \E large \in BOOLEAN :
              POST([INIT(s, r, "bufs", async) EXCEPT !.r[r].bufs = IF large THEN "heap" ELSE "small"],
                   IF large THEN Alloc(os, {Block(r, "bufs", 0)}) ELSE os, r, async)
       \/ LET st == INIT(s, r, "bufs", async)
          IN /\ s' = [IF async THEN Unregistered(st, r) ELSE st
                      EXCEPT !.r[r].st = "over", !.r[r].bufs = None]
             /\ UNCHANGED os

\* uv_fs_write is the same.
WriteRequest(r, async) == ReadRequest(r, async)

\* Mutant of Parts: the host name comes first in the block.
PartsHostFirst(ps) ==
    IF "hostname" \in ps THEN "hostname" ELSE IF "hints" \in ps THEN "hints" ELSE "service"

\* The first part of the block that uv_getaddrinfo copies its arguments to.
Parts(ps) ==
    IF "hints" \in ps THEN "hints" ELSE IF "service" \in ps THEN "service" ELSE "hostname"

\* uv__getaddrinfo_done, up to the callback: it frees the first part it finds.
AddrinfoFreed(o, r, ps) ==
    Free(o, {Block(r, IF "hints" \in ps THEN "hints"
                      ELSE IF "service" \in ps THEN "service" ELSE "hostname", 0)})

\* uv_getaddrinfo; it is registered in any case, and without a callback done at once.
Getaddrinfo(r, async) ==
    /\ Call(r)
    /\ \E ps \in SUBSET {"hints", "service", "hostname"} :
           /\ ps \cap {"service", "hostname"} # {}
           /\ LET st == [s EXCEPT !.r[r] = [NoReq EXCEPT !.op = "addrinfo", !.async = async,
                                                         !.parts = ps, !.st = "queued"],
                                  !.active = @ \cup {r}]
                  o  == Alloc(os, {Block(r, Parts(ps), 0)})
              IN IF async THEN s' = st /\ os' = o
                 ELSE /\ s' = [Unregistered(st, r) EXCEPT !.r[r] = NoReq]
                      /\ os' = AddrinfoFreed(o, r, ps)

\* uv_getnameinfo, which owns no memory.
Getnameinfo(r, async) ==
    /\ Call(r)
    /\ LET st == [s EXCEPT !.r[r] = [NoReq EXCEPT !.op = "nameinfo", !.async = async, !.st = "queued"],
                           !.active = @ \cup {r}]
       IN s' = IF async THEN st ELSE [Unregistered(st, r) EXCEPT !.r[r] = NoReq]
    /\ UNCHANGED os

-----------------------------------------------------------------------------
\* A thread of the pool runs uv__fs_work, uv__getaddrinfo_work or uv__getnameinfo_work.
Work(r) ==
    /\ s.r[r].st = "queued"
    /\ \E res \in Results(s.r[r].op) :
           /\ s' = [Worked(s, r, res) EXCEPT !.r[r].st = "worked"]
           /\ os' = WorkedHeap(os, r, s.r[r], res)
    /\ UNCHANGED <<run, hist>>

\* uv_cancel of a request that no thread has taken.
Cancel(r) ==
    /\ s.r[r].st = "queued" /\ hist < MaxRequestCalls
    /\ s.r[r].bufs = "heap" => CancelLargeReads
    /\ s' = [s EXCEPT !.r[r].st = "cancelled"]
    /\ hist' = hist + 1
    /\ UNCHANGED <<os, run>>

\* Mutant of FsDone: nobody takes a request that was cancelled.
FsDoneWorked(r) ==
    /\ run = None /\ s.r[r].st = "worked"
    /\ s.r[r].op \notin {"addrinfo", "nameinfo"}
    /\ s' = [Unregistered(s, r) EXCEPT !.r[r].st = "over"]
    /\ run' = r
    /\ UNCHANGED <<os, hist>>

\* uv__fs_done
FsDone(r) ==
    /\ run = None /\ s.r[r].st \in {"worked", "cancelled"}
    /\ s.r[r].op \notin {"addrinfo", "nameinfo"}
    /\ s' = [Unregistered(s, r) EXCEPT
                !.r[r].st = "over",
                !.r[r].result = IF s.r[r].st = "cancelled" THEN Ecanceled ELSE @]
    /\ run' = r
    /\ UNCHANGED <<os, hist>>

\* uv__getaddrinfo_done and uv__getnameinfo_done
NameDone(r) ==
    /\ run = None /\ s.r[r].st \in {"worked", "cancelled"}
    /\ s.r[r].op \in {"addrinfo", "nameinfo"}
    /\ s' = [Unregistered(s, r) EXCEPT !.r[r] = NoReq]
    /\ os' = IF s.r[r].op = "addrinfo" THEN AddrinfoFreed(os, r, s.r[r].parts) ELSE os
    /\ run' = r
    /\ UNCHANGED hist

CbReturns ==
    /\ run # None
    /\ run' = None
    /\ UNCHANGED <<s, os, hist>>

-----------------------------------------------------------------------------
\* uv_fs_scandir_next, called until it returns UV_EOF.
ScandirNext(r) ==
    /\ s.r[r].st = "over" /\ s.r[r].ptr = "dents"
    /\ LET rec == s.r[r]
           o == IF rec.nbufs > 0 THEN Free(os, {Block(r, "dent", rec.nbufs)}) ELSE os
       IN IF rec.nbufs = rec.result
          THEN /\ s' = [s EXCEPT !.r[r].ptr = None]
               /\ os' = Free(o, {Block(r, "dents", 0)})
          ELSE s' = [s EXCEPT !.r[r].nbufs = @ + 1] /\ os' = o
    /\ UNCHANGED <<run, hist>>

\* The index from which uv__fs_scandir_cleanup frees the entries.
CleanupFrom(rec) == IF rec.nbufs > 0 /\ rec.nbufs # rec.result THEN rec.nbufs - 1 ELSE rec.nbufs

\* uv_fs_req_cleanup and uv__fs_scandir_cleanup; nbufs counts from 0, the blocks from 1.
Cleanup(r) ==
    /\ s.r[r].st = "over"
    /\ LET rec == s.r[r]
           path == IF rec.path = "heap" THEN {Block(r, "path", 0)} ELSE {}
           dents == IF rec.ptr # "dents" THEN {}
                    ELSE {Block(r, "dents", 0)}
                         \cup {Block(r, "dent", i) : i \in CleanupFrom(rec) + 1 .. rec.result}
       IN /\ (rec.ptr = "dents" /\ rec.nbufs = rec.result) => CleanupAtLast
          /\ os' = Free(os, path \cup dents)
          /\ s' = [s EXCEPT !.r[r] = [NoReq EXCEPT !.bufs = rec.bufs]]
    /\ UNCHANGED <<run, hist>>

Program ==
    \E r \in Reqs :
        \/ \E a \in BOOLEAN :
               \/ FileRequest(r, a) \/ PathRequest(r, a) \/ EntryRequest(r, a)
               \/ ReadRequest(r, a) \/ WriteRequest(r, a)
               \/ Getaddrinfo(r, a) \/ Getnameinfo(r, a)
        \/ Cancel(r) \/ ScandirNext(r) \/ Cleanup(r)

LoopStep == CbReturns \/ \E r \in Reqs : FsDone(r) \/ NameDone(r)

Next == Program \/ LoopStep \/ \E r \in Reqs : Work(r)

\* A thread takes a queued request, and the loop runs.
Fairness == WF_vars(LoopStep) /\ \A r \in Reqs : WF_vars(Work(r))

Spec == Init /\ [][Next]_vars

-----------------------------------------------------------------------------
\* The type invariant.
TypeOK ==
    /\ run \in Reqs \cup {None} /\ s.active \subseteq Reqs
    /\ \A r \in Reqs :
           /\ s.r[r].st \in {"idle", "queued", "worked", "cancelled", "over"}
           /\ s.r[r].path \in {None, "heap", "user"} /\ s.r[r].bufs \in {None, "heap", "small"}

\* No block is freed twice or by a pointer into its middle (uv_getaddrinfo copies
\* three arguments to one block), and the entry that uv_fs_scandir_next gave to
\* the program stays allocated until the next call for the request.
FreedOnce ==
    /\ ~os.bad
    /\ \A r \in Reqs : s.r[r].ptr = "dents" /\ s.r[r].nbufs > 0
                           => Block(r, "dent", s.r[r].nbufs) \in os.heap

\* A request that is cleaned up, or done for names, owns no memory: nothing leaks,
\* whether it ran, failed, was cancelled or iterated half way.
NothingLost == \A r \in Reqs : s.r[r].st = "idle" => \A b \in os.heap : b[1] # r

\* loop->active_reqs, which keeps the loop alive, holds exactly the requests whose
\* callback is still to come, also after a submission that failed half way.
RegisteredExact == s.active = {r \in Reqs : s.r[r].st \in {"queued", "worked", "cancelled"}}

-----------------------------------------------------------------------------
(***************************************************************************)
(* uv_fs_read and uv_fs_write of several buffers (fs.c): uv__fs_work tries *)
(* again after EINTR, uv__fs_buf_iter passes at most iovmax buffers to one *)
(* call, and where preadv is missing uv__fs_read goes buffer by buffer.    *)
(* The kernel transfers what it is asked for, up to the end of the file    *)
(* (or of the disk), or less, or is interrupted.                           *)
(***************************************************************************)
\* s: the request and the locals of uv__fs_buf_iter and uv__fs_read
\* os: the file, the kernel's position and what is supported
\* run: the place in the code
\* hist: the file position of every byte of the buffers, and the interrupts

Total(lens) ==
    LET sum[i \in 0..Len(lens)] == IF i = 0 THEN 0 ELSE sum[i - 1] + lens[i]
    IN sum[Len(lens)]
Before(i) == Total(SubSeq(s.lens, 1, i))
Least(a, b) == IF a < b THEN a ELSE b

TransferInit ==
    \E lens \in Lens, off \in Offs, op \in {"read", "write"}, m \in Modes, size \in Sizes :
        /\ s = [op |-> op, lens |-> lens, off |-> off, bufs |-> 0, nbufs |-> Len(lens),
                left |-> 0, total |-> 0, index |-> 0, nread |-> 0, r |-> 0, copy |-> "held"]
        /\ os = [size |-> size, pos |-> 1, mode |-> m[1], iovmax |-> m[2]]
        /\ run = "work"
        /\ hist = [at |-> [b \in 1..Total(lens) |-> -1], eintr |-> 0, start |-> off]

\* uv__fs_buf_iter begins; after EINTR with what the last try left in the request.
BufIter ==
    /\ run = "work"
    /\ s' = [s EXCEPT !.left = s.nbufs, !.total = 0]
    /\ run' = "loop"
    /\ UNCHANGED <<os, hist>>

\* The next call is for at most iovmax buffers.
Chunk ==
    /\ run = "loop" /\ s.left > 0
    /\ s' = [s EXCEPT !.nbufs = Least(s.left, os.iovmax), !.index = 0, !.nread = 0,
                      !.r = IF s.op = "read" THEN 1 ELSE 0]
    /\ run' = IF s.off < 0 \/ Least(s.left, os.iovmax) = 1 \/ os.mode = "vector"
              THEN "call" ELSE "each"
    /\ UNCHANGED <<os, hist>>

\* The kernel moves len bytes from buffer byte b on, at file position off.
Move(b, n, off) ==
    /\ hist' = [hist EXCEPT !.at = [i \in DOMAIN @ |-> IF i > b /\ i <= b + n THEN off + i - b - 1
                                                       ELSE @[i]]]
    /\ os' = IF s.off < 0 THEN [os EXCEPT !.pos = @ + n] ELSE os

\* What a system call returns: the bytes moved, -1 for an error or -4 for EINTR.  One
\* that others follow, last is FALSE, may stop short or be interrupted after some bytes
\* were moved only if ShortCalls.
Movable(len, off) == IF off > os.size THEN 0 ELSE Least(len, os.size - off)
Returns(len, off, last) ==
    {IF s.op = "write" /\ Movable(len, off) = 0 /\ len > 0 THEN -1 ELSE Movable(len, off)}
    \cup (IF last \/ s.nread = 0 \/ ShortCalls THEN {-4} ELSE {})
    \cup (IF last \/ ShortCalls THEN 1..(Movable(len, off) - 1) ELSE {})

\* One system call that returns r.
Syscall(b, len, off, r) ==
    IF r # -4 THEN Move(b, IF r < 0 THEN 0 ELSE r, off)
    ELSE /\ hist.eintr < MaxInterrupts
         /\ hist' = [hist EXCEPT !.eintr = @ + 1]
         /\ UNCHANGED os

\* read, readv, pread, preadv, and the same for writing
Vector ==
    /\ run = "call"
    /\ LET len == Before(s.bufs + s.nbufs) - Before(s.bufs)
           off == IF s.off < 0 THEN os.pos ELSE s.off
       IN \E r \in Returns(len, off, s.left = s.nbufs) :
              Syscall(Before(s.bufs), len, off, r) /\ s' = [s EXCEPT !.r = r]
    /\ run' = "result"

\* The loop of uv__fs_read or uv__fs_write without preadv: one buffer, unless it
\* is empty.
Each ==
    /\ run = "each"
    /\ LET i == s.bufs + s.index
           len == s.lens[i + 1]
           more(r) == s.index + 1 < s.nbufs /\ (IF s.op = "read" THEN r > 0 ELSE r >= 0)
       IN IF len > 0
          THEN \E r \in Returns(len, s.off + s.nread, s.left = s.index + 1) :
                   /\ Syscall(Before(i), len, s.off + s.nread, r)
                   /\ s' = [s EXCEPT !.index = @ + 1, !.nread = IF r > 0 THEN @ + r ELSE @, !.r = r]
                   /\ run' = IF more(r) THEN "each" ELSE "sum"
          ELSE /\ s' = [s EXCEPT !.index = @ + 1]
               /\ run' = IF more(s.r) THEN "each" ELSE "sum"
               /\ UNCHANGED <<os, hist>>

EachEnds ==
    /\ run = "sum"
    /\ s' = [s EXCEPT !.r = IF s.nread > 0 THEN s.nread ELSE @]
    /\ run' = "result"
    /\ UNCHANGED <<os, hist>>

\* Mutant of Advanced: the file offset does not follow.
AdvancedOff(st) ==
    [st EXCEPT !.bufs = @ + st.nbufs, !.left = @ - st.nbufs, !.total = @ + st.r]

\* After a call that moved something.
Advanced(st) ==
    [st EXCEPT !.off = IF @ >= 0 THEN @ + st.r ELSE @,
               !.bufs = @ + st.nbufs, !.left = @ - st.nbufs, !.total = @ + st.r]

\* uv__fs_buf_iter after the call
Result ==
    /\ run = "result"
    /\ IF s.r <= 0
       THEN s' = [s EXCEPT !.total = IF @ = 0 THEN s.r ELSE @] /\ run' = "out"
       ELSE s' = Advanced(s) /\ run' = "loop"
    /\ UNCHANGED <<os, hist>>

LoopEnds ==
    /\ run = "loop" /\ s.left = 0
    /\ run' = "out"
    /\ UNCHANGED <<s, os, hist>>

\* Mutant of Retries: the request is given up as well when it is tried again.
RetriesFreed(st) == [st EXCEPT !.copy = "freed"]

\* ... that was interrupted leaves the request as it is, for the next try.
Retries(st) == st

\* The end of uv__fs_buf_iter and of the loop of uv__fs_work.
Out ==
    /\ run = "out"
    /\ IF s.total = -4 THEN s' = Retries(s) /\ run' = "work"
       ELSE s' = [s EXCEPT !.copy = "freed", !.bufs = 0, !.nbufs = 0] /\ run' = "done"
    /\ UNCHANGED <<os, hist>>

Finished == run = "done" /\ UNCHANGED vars

TransferNext == BufIter \/ Chunk \/ Vector \/ Each \/ EachEnds \/ Result \/ LoopEnds \/ Out \/ Finished

TransferSpec == TransferInit /\ [][TransferNext]_vars /\ WF_vars(TransferNext)

-----------------------------------------------------------------------------
\* The type invariant.
TransferTypeOK ==
    /\ run \in {"work", "loop", "call", "each", "sum", "result", "out", "done"}
    /\ s.total \in -4..Total(s.lens) /\ s.bufs + s.left <= Len(s.lens) + s.nbufs

\* The result is the number of bytes moved, and these are the first bytes of the
\* buffers, from consecutive places of the file from the given offset on; a request
\* that failed moved nothing.  However the transfer was cut into calls.
TransferExact ==
    run = "done" =>
        LET n == IF s.total < 0 THEN 0 ELSE s.total
            first == IF hist.start < 0 THEN 1 ELSE hist.start
        IN hist.at = [b \in DOMAIN hist.at |-> IF b <= n THEN first + b - 1 ELSE -1]

\* The copy of the buffers is freed when the request is done, never before a retry.
CopyHeld == s.copy = "freed" <=> run = "done"
=============================================================================
