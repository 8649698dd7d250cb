------------------------------ MODULE WinFsOps ------------------------------
(***************************************************************************)
(* Operations of the file system on Windows (win/fs.c): those that are     *)
(* several calls, the text of links, and transfers of several buffers.     *)
(***************************************************************************)
EXTENDS Integers, FiniteSets, Sequences, SequencesExt

CONSTANTS
    Files,        \* what may be at the path before the operation
    Flags,        \* the flags of uv_fs_open: sets of names
    LateFailures, \* a call fails after another one changed the file
    MaxTries,     \* TMP_MAX
    MaxEntries,   \* of a directory
    Targets,  \* the targets of links: sequences of characters
    Moves,   \* the file is moved between the two calls of fs__realpath_handle
    Lens,         \* the lengths of the buffers: a set of sequences
    Offs,         \* the offsets; -1 is the position of the descriptor
    Size,         \* the end of the file, or of the disk for a write
    BufSize,      \* max_buf_size of fs__sendfile
    Short         \* a call may move less than the file allows

VARIABLES
    s,      \* the request and the locals of the operation
    os,     \* the file, and what is open
    run,    \* the place in the code
    hist    \* what was done so far

vars == <<s, os, run, hist>>

-----------------------------------------------------------------------------
(***************************************************************************)
(* What the file system operations of the Windows port do (win/fs.c): one  *)
(* operation on one path, with the Win32 calls it makes and the failure of *)
(* each of them.                                                           *)
(***************************************************************************)
\* s: the request, and the locals of the operation
\* os: the file at the path, and the one a link at the path leads to
\* run: the place in the code
\* hist: both before the operation, and the entries that scandir stored

Missing == [kind |-> "none", rp |-> "no", ro |-> FALSE, data |-> FALSE]
NewFile(ro) == [kind |-> "file", rp |-> "no", ro |-> ro, data |-> FALSE]
NewDir == [kind |-> "dir", rp |-> "no", ro |-> FALSE, data |-> FALSE]

\* What a link may lead to, when its target exists.
LinkTarget(f) ==
    IF f.rp \notin {"link", "junction"} THEN Missing
    ELSE [Missing EXCEPT !.kind = f.kind, !.data = f.kind = "file"]

PathOps == {"open", "unlink", "rmdir", "mkdir", "mkdtemp", "stat", "lstat", "rename", "access",
            "chmod", "utime", "link", "junction", "symlink", "readlink", "realpath", "scandir"}
FdOps == {"close", "fstat", "fsync", "ftruncate", "fchmod", "futime"}

\* A path operation with its arguments, or an operation on a descriptor: one that is
\* open, one that is not, or -1.
Init ==
    \E op \in PathOps \cup FdOps, f \in Files, fl \in Flags, w \in BOOLEAN,
       fd \in {"good", "stale", "-1"} : \E t \in {Missing, LinkTarget(f)} :
        /\ IF op = "open" THEN ~w ELSE fl = {}
        /\ op \in FdOps => f = NewFile(FALSE)
        /\ op \in PathOps => fd = "good"
        /\ s = [op |-> op, flags |-> fl, write |-> w, fd |-> fd, h |-> {}, obj |-> Missing,
                result |-> "none", mode |-> "none", tries |-> MaxTries, made |-> FALSE,
                used |-> 0, size |-> 0]
        /\ os = [f |-> f, t |-> t]
        /\ run = op
        /\ hist = [f |-> f, t |-> t, entries |-> 0]

\* The operation ends: SET_REQ_RESULT, SET_REQ_WIN32_ERROR or SET_REQ_UV_ERROR.
Ends(st, res) == s' = [st EXCEPT !.result = res] /\ run' = "done" /\ UNCHANGED hist
Goes(st, pc) == s' = st /\ run' = pc /\ UNCHANGED hist

\* CloseHandle
Closed(st, h) == [st EXCEPT !.h = @ \ {h}]

\* What is at the path o when its link is followed.
Target(o) ==
    CASE o.f.rp \in {"link", "junction"} -> o.t
      [] o.f.rp = "mount" -> NewDir
      [] OTHER -> o.f

\* What CreateFileW opens at the path.
Followed(follow) == IF follow THEN Target(os) ELSE os.f

\* CreateFileW of what exists
CreateFile(pc, h, follow) ==
    /\ UNCHANGED os
    /\ \/ /\ Followed(follow).kind # "none"
          /\ Goes([s EXCEPT !.h = @ \cup {h}, !.obj = Followed(follow)], pc)
       \/ Ends(s, "error")

\* The result of fs__readlink_handle for an opened object.
ReadlinkHandle(obj) ==
    CASE obj.rp \in {"link", "junction"} -> {"ok", "error"}
      [] obj.rp = "mount" -> {"unsupported", "error"}
      [] OTHER -> {"notreparse", "error"}

-----------------------------------------------------------------------------

\* fs__open: the flags O_CREAT, O_EXCL and O_TRUNC.
Disposition(fl) ==
    CASE {"creat", "excl"} \subseteq fl -> "CREATE_NEW"
      [] {"creat", "trunc"} \subseteq fl -> "CREATE_ALWAYS"
      [] "creat" \in fl -> "OPEN_ALWAYS"
      [] "trunc" \in fl -> "TRUNCATE_EXISTING"
      [] OTHER -> "OPEN_EXISTING"

\* The rights that are asked for: O_APPEND takes the one to write data for the one to
\* append, O_TEMPORARY asks to delete.
Rights(fl) ==
    (IF fl \cap {"wronly", "rdwr"} = {} THEN {} ELSE {"append"} \cup IF "append" \in fl THEN {} ELSE {"write"})
    \cup (IF "append" \in fl THEN {"append"} ELSE {})
    \cup (IF "temporary" \in fl THEN {"delete"} ELSE {})

\* What CreateFileW does to the file f that the path leads to, or the error: a directory
\* cannot be replaced, a read-only file not be written, replaced or deleted; dangling is
\* that a directory's link leads nowhere.
CreateEffect(d, f, rights, ro, dangling) ==
    CASE d = "OPEN_EXISTING" /\ f.kind = "none" -> "notfound"
      [] d = "CREATE_NEW" /\ f.kind # "none" -> "exists"
      [] d = "CREATE_ALWAYS" /\ f.kind = "dir" -> "exists"
      [] d = "TRUNCATE_EXISTING" /\ (f.kind # "file" \/ "write" \notin rights) -> "notfound"
      [] dangling -> "notfound"
      [] f.kind = "file" /\ f.ro /\ (rights # {} \/ d = "CREATE_ALWAYS") -> "denied"
      [] (f.kind = "none" \/ d = "CREATE_ALWAYS") /\ ro /\ "delete" \in rights -> "denied"
      [] d \in {"OPEN_EXISTING", "OPEN_ALWAYS"} /\ f.kind # "none" -> "opens"
      [] f.kind = "file" -> "truncates"
      [] OTHER -> "creates"

\* O_WRONLY with O_RDWR, and O_SEQUENTIAL with O_RANDOM, are an error.
Invalid(fl) == {"wronly", "rdwr"} \subseteq fl \/ {"sequential", "random"} \subseteq fl

\* The path after the file it leads to has become f.
Become(o, f) == IF o.f.rp = "link" THEN [o EXCEPT !.t = f] ELSE [o EXCEPT !.f = f]

\* fs__open up to CreateFileW, which follows a link
Open ==
    /\ run = "open"
    /\ LET fl == s.flags
           d  == Disposition(fl)
           ro == {"readonly", "creat"} \subseteq fl
           f  == Target(os)
           e  == CreateEffect(d, f, Rights(fl), ro, f = Missing /\ os.f.kind = "dir")
       IN IF Invalid(fl) THEN Ends(s, "EINVAL") /\ UNCHANGED os
          ELSE /\ os' = CASE e = "creates" -> Become(os, NewFile(ro))
                          [] e = "truncates" ->
                               Become(os, [f EXCEPT !.data = FALSE,
                                                    !.ro = IF d = "CREATE_ALWAYS" THEN ro ELSE @])
                          [] OTHER -> os
               /\ CASE e \in {"opens", "truncates", "creates"} -> Goes([s EXCEPT !.h = {"file"}], "open.fd")
                    [] e = "exists" /\ "creat" \in fl /\ "excl" \notin fl -> Ends(s, "EISDIR")
                    [] OTHER -> Ends(s, "error")

\* _open_osfhandle, that owns the handle from then on, or fails for want of descriptors;
\* a temporary file is deleted with its handle.
OpenFd ==
    /\ run = "open.fd"
    /\ \/ Ends([s EXCEPT !.h = @ \ {"file"}], "ok") /\ UNCHANGED os
       \/ /\ LateFailures \/ (os.f = hist.f /\ os.t = hist.t /\ "temporary" \notin s.flags)
          /\ Ends(Closed(s, "file"), "EMFILE")
          /\ os' = IF "temporary" \in s.flags THEN Become(os, Missing) ELSE os

\* fs__unlink
Unlink ==
    \/ run = "unlink" /\ CreateFile("unlink.info", "file", FALSE)
    \/ /\ run = "unlink.info"
       /\ UNCHANGED os
       /\ \/ Goes(s, "unlink.dir") \/ Ends(Closed(s, "file"), "error")

\* A directory is only deleted when it is a link.
Deletable(obj, r) == obj.kind # "dir" \/ (obj.rp # "no" /\ r = "ok")

UnlinkDir ==
    /\ run = "unlink.dir"
    /\ UNCHANGED os
    /\ \E r \in ReadlinkHandle(s.obj) :
           IF Deletable(s.obj, r) THEN Goes(s, IF s.obj.ro THEN "unlink.attr" ELSE "unlink.delete")
           ELSE Ends(Closed(s, "file"), IF s.obj.rp = "no" \/ r = "unsupported" THEN "EPERM" ELSE r)

\* The read-only attribute is removed, then the file.
UnlinkFile ==
    \/ /\ run = "unlink.attr"
       /\ \/ os' = [os EXCEPT !.f.ro = FALSE] /\ Goes(s, "unlink.delete")
          \/ UNCHANGED os /\ Ends(Closed(s, "file"), "error")
    \/ /\ run = "unlink.delete"
       /\ \/ os' = [os EXCEPT !.f = Missing] /\ Ends(Closed(s, "file"), "ok")
          \/ /\ hist.f.ro => LateFailures
             /\ UNCHANGED os /\ Ends(Closed(s, "file"), "error")

-----------------------------------------------------------------------------
\* fs__stat_handle: the type of the file, or the error.
StatHandle(obj, r) ==
    CASE obj.rp # "no" /\ r = "ok" -> "link"
      [] obj.rp # "no" /\ r # "notreparse" -> r
      [] OTHER -> obj.kind

\* fs__stat_impl, for fs__stat and fs__lstat
StatOpen ==
    /\ run \in {"stat", "lstat"}
    /\ CreateFile("stat.info", "file", run = "stat")

\* fs__lstat opened a reparse point that is no link.
StatAgain(r) == r = "unsupported" /\ s.op = "lstat" /\ "again" \notin s.h

\* The end of a call of fs__stat_impl that has opened a handle; the second call goes back
\* to the first.
StatEnds(st, res) ==
    IF "again" \in s.h THEN Goes([Closed(st, "again") EXCEPT !.result = res], "stat.return")
    ELSE Ends(Closed(st, "file"), res)

StatInfo ==
    /\ run = "stat.info"
    /\ UNCHANGED os
    /\ \E r \in ReadlinkHandle(s.obj) \cup {"queryfails"} :
           LET m == IF r = "queryfails" THEN r ELSE StatHandle(s.obj, r)
           IN IF m \in {"file", "dir", "link"} THEN StatEnds([s EXCEPT !.mode = m], "ok")
              ELSE IF StatAgain(m) THEN Goes(s, "stat.again")
              ELSE StatEnds(s, m)

\* The second fs__stat_impl
StatSecond ==
    /\ run = "stat.again"
    /\ UNCHANGED os
    /\ \/ Goes([s EXCEPT !.h = @ \cup {"again"}, !.obj = Followed(TRUE)], "stat.info")
       \/ Goes([s EXCEPT !.result = "error"], "stat.return")

\* Mutant of StatReturn: the first handle is forgotten.
StatReturnForgets == run = "stat.return" /\ Ends(s, s.result) /\ UNCHANGED os

\* The first fs__stat_impl closes its handle too.
StatReturn == run = "stat.return" /\ Ends(Closed(s, "file"), s.result) /\ UNCHANGED os

\* VERIFY_FD and uv__get_osfhandle
BadFd == s.fd # "good"

\* fs__close
Close ==
    /\ run = "close"
    /\ UNCHANGED os
    /\ IF BadFd THEN Ends(s, "EBADF") ELSE Ends(s, "ok")

\* fs__fstat, fs__futime, fs__sync_impl and fs__ftruncate
FdCall ==
    /\ run \in {"fstat", "futime", "fsync", "ftruncate"}
    /\ UNCHANGED os
    /\ IF s.fd = "-1" THEN Ends(s, "EBADF")
       ELSE \/ s.fd = "good" /\ Ends(s, "ok")
            \/ Ends(s, "error")

\* fs__fchmod reads the attributes and writes them back.
Fchmod ==
    \/ /\ run = "fchmod"
       /\ UNCHANGED os
       /\ IF s.fd = "-1" THEN Ends(s, "EBADF")
          ELSE \/ s.fd = "good" /\ Goes(s, "fchmod.set")
               \/ Ends(s, "error")
    \/ /\ run = "fchmod.set"
       /\ \/ os' = [os EXCEPT !.f.ro = ~s.write] /\ Ends(s, "ok")
          \/ UNCHANGED os /\ Ends(s, "error")

\* An operation that is one call, after which f is at the path.
OneCall(op, possible, f) ==
    /\ run = op
    /\ \/ possible /\ os' = [os EXCEPT !.f = f] /\ Ends(s, "ok")
       \/ UNCHANGED os /\ Ends(s, "error")

Rmdir == OneCall("rmdir", os.f.kind = "dir", Missing)
Mkdir == OneCall("mkdir", os.f.kind = "none", NewDir)
Chmod == OneCall("chmod", os.f.kind # "none", [os.f EXCEPT !.ro = ~s.write])
Rename == OneCall("rename", os.f.kind # "none", Missing)
Link == OneCall("link", os.f.kind # "none", os.f)

\* fs__symlink without a junction; systems without CreateSymbolicLinkW have ENOSYS.
Symlink ==
    \/ OneCall("symlink", os.f.kind = "none", [Missing EXCEPT !.kind = "file", !.rp = "link"])
    \/ run = "symlink" /\ Ends(s, "ENOSYS") /\ UNCHANGED os

\* fs__access; s.write is W_OK
Access ==
    /\ run = "access"
    /\ UNCHANGED os
    /\ \/ Ends(s, "error")
       \/ /\ os.f.kind # "none"
          /\ IF ~s.write \/ ~os.f.ro \/ os.f.kind = "dir" THEN Ends(s, "ok") ELSE Ends(s, "EPERM")

\* fs__utime
Utime ==
    \/ run = "utime" /\ CreateFile("utime.set", "file", TRUE)
    \/ /\ run = "utime.set"
       /\ UNCHANGED os
       /\ \/ Ends(Closed(s, "file"), "ok") \/ Ends(Closed(s, "file"), "error")

\* fs__mkdtemp: a provider of random numbers, then names until one is free.
Mkdtemp ==
    \/ /\ run = "mkdtemp"
       /\ UNCHANGED os
       /\ \/ Ends(s, "EINVAL")
          \/ Ends(s, "error")
          \/ Goes([s EXCEPT !.h = {"provider"}], "mkdtemp.try")
    \/ /\ run = "mkdtemp.try"
       /\ \/ UNCHANGED os /\ Ends(Closed(s, "provider"), "error")
          \/ os' = [os EXCEPT !.f = NewDir] /\ Ends(Closed([s EXCEPT !.made = TRUE], "provider"), "ok")
          \/ /\ UNCHANGED os
             /\ IF s.tries = 1 THEN Ends(Closed([s EXCEPT !.tries = 0], "provider"), "error")
                ELSE Goes([s EXCEPT !.tries = @ - 1], run)

\* fs__readlink
Readlink ==
    \/ run = "readlink" /\ CreateFile("readlink.get", "file", FALSE)
    \/ /\ run = "readlink.get"
       /\ UNCHANGED os
       /\ \E r \in ReadlinkHandle(s.obj) :
              IF r = "ok" THEN Ends(Closed(s, "file"), "ok") ELSE Ends(Closed(s, "file"), "error")

\* fs__realpath
Realpath ==
    \/ run = "realpath" /\ CreateFile("realpath.get", "file", TRUE)
    \/ run = "realpath" /\ Ends(s, "ENOSYS") /\ UNCHANGED os
    \/ /\ run = "realpath.get"
       /\ UNCHANGED os
       /\ \/ Ends(Closed(s, "file"), "ok") \/ Ends(Closed(s, "file"), "error")

\* Mutant of Undone: the directory of a junction that failed stays.
UndoneNot(o, made) == o

\* The end of fs__create_junction after an error.
Undone(o, made) == IF made THEN [o EXCEPT !.f = Missing] ELSE o

\* fs__create_junction, called by fs__symlink: a relative target, a new directory,
\* its handle, the reparse point.
Junction ==
    \/ /\ run = "junction"
       /\ \/ UNCHANGED os /\ Ends(s, "EINVAL")
          \/ UNCHANGED os /\ Ends(s, "error")
          \/ /\ os.f.kind = "none"
             /\ os' = [os EXCEPT !.f = NewDir] /\ Goes([s EXCEPT !.made = TRUE], "junction.open")
    \/ /\ run = "junction.open"
       /\ \/ UNCHANGED os /\ Goes([s EXCEPT !.h = {"dir"}], "junction.set")
          \/ os' = Undone(os, s.made) /\ Ends(s, "error")
    \/ /\ run = "junction.set"
       /\ \/ os' = [os EXCEPT !.f.rp = "junction"] /\ Ends(Closed(s, "dir"), "ok")
          \/ os' = Undone(os, s.made) /\ Ends(Closed(s, "dir"), "error")

-----------------------------------------------------------------------------
\* fs__scandir opens the directory and reads the first chunk of entries.
Scandir ==
    \/ run = "scandir" /\ CreateFile("scandir.first", "dir", TRUE)
    \/ /\ run = "scandir.first"
       /\ UNCHANGED os
       /\ IF s.obj.kind = "dir" THEN Goes(s, "scandir.entry") ELSE Ends(Closed(s, "dir"), "ENOTDIR")

\* The end of fs__scandir after an error.
Discarded(st) == [Closed(st, "dir") EXCEPT !.used = 0, !.size = 0]

\* The array of entries, 1 long at first and doubled when it is full.
Grown(st) ==
    IF st.used >= st.size THEN [st EXCEPT !.size = IF @ = 0 THEN 1 ELSE @ * 2] ELSE st

\* One entry of the chunk: skipped, stored, or the error of a conversion or allocation.
ScandirEntry ==
    /\ run = "scandir.entry"
    /\ UNCHANGED os
    /\ \/ Goes(s, "scandir.chunk")
       \/ Ends(Discarded(s), "error")
       \/ /\ hist.entries < MaxEntries
          /\ s' = [Grown(s) EXCEPT !.used = @ + 1]
          /\ hist' = [hist EXCEPT !.entries = @ + 1]
          /\ run' \in {"scandir.entry", "scandir.chunk"}

\* The next chunk: more entries, no more, or an error.
ScandirChunk ==
    /\ run = "scandir.chunk"
    /\ UNCHANGED os
    /\ \/ Goes(s, "scandir.entry")
       \/ Ends(Closed(s, "dir"), "ok")
       \/ Ends(Discarded(s), "error")

Finished == run = "done" /\ UNCHANGED vars

Next ==
    \/ Open \/ OpenFd \/ Unlink \/ UnlinkDir \/ UnlinkFile
    \/ StatOpen \/ StatInfo \/ StatSecond \/ StatReturn
    \/ Close \/ FdCall \/ Fchmod
    \/ Rmdir \/ Mkdir \/ Chmod \/ Rename \/ Link \/ Symlink \/ Access \/ Utime \/ Mkdtemp
    \/ Readlink \/ Realpath \/ Junction
    \/ Scandir \/ ScandirEntry \/ ScandirChunk \/ Finished

Spec == Init /\ [][Next]_vars

-----------------------------------------------------------------------------
\* The type invariant.
TypeOK ==
    /\ s.tries \in 0..MaxTries /\ s.used \in 0..MaxEntries
    /\ {os.f.kind, os.t.kind} \subseteq {"none", "file", "dir"}

Over(op) == run = "done" /\ s.op = op

\* Whatever call fails, an operation leaves no handle and no directory entry behind:
\* fs__lstat has two handles when it tries again, fs__scandir a growing array.
NothingLeft ==
    run = "done" =>
        /\ s.h = {}
        /\ s.result # "ok" => s.used = 0 /\ s.size = 0
        /\ Over("scandir") /\ s.result = "ok" => s.used = hist.entries

\* The array of fs__scandir has room for every entry that was stored.
EntriesFit == s.used <= s.size

\* The result is what happened to the file: done, or not touched at all.  The calls of
\* fs__create_junction and fs__unlink change it one after the other.
ResultTold ==
    run = "done" =>
        IF s.result # "ok" THEN os.f = hist.f /\ os.t = hist.t
        ELSE /\ s.op \in {"unlink", "rmdir", "rename"} => os.f = Missing
             /\ s.op \in {"mkdir", "mkdtemp"} => os.f = NewDir
             /\ s.op = "junction" => os.f = [NewDir EXCEPT !.rp = "junction"]

\* fs__unlink deletes no directory but one that is a link, also not a mount point,
\* and reports EPERM for it.
UnlinkSafe ==
    Over("unlink") /\ hist.f.kind = "dir" /\ hist.f.rp \notin {"link", "junction"} => os.f.kind = "dir"

\* fs__lstat tells a link from what only looks like one: a mount point is a directory,
\* a reparse point without data a file, and none of them an error.
LinksTold ==
    Over("lstat") =>
        /\ s.result # "unsupported"
        /\ s.result = "ok" => s.mode = IF hist.f.rp \in {"link", "junction"} THEN "link" ELSE hist.f.kind

\* fs__open gives the flags their meaning, for the file that the path leads to: O_EXCL with
\* O_CREAT never opens what exists, without O_CREAT nothing is made, the content goes
\* exactly with O_TRUNC; and the link itself stays.
OpenExact ==
    LET before == Target(hist)
    IN Over("open") /\ s.result = "ok" =>
        /\ {"creat", "excl"} \subseteq s.flags => before.kind = "none"
        /\ "creat" \notin s.flags => before.kind # "none"
        /\ before.kind = "file" => Target(os).data = (before.data /\ "trunc" \notin s.flags)
        /\ hist.f.rp # "no" => os.f = hist.f \/ hist.f.rp = "nodata"

-----------------------------------------------------------------------------
(***************************************************************************)
(* The text of links on Windows (win/fs.c): what fs__create_junction       *)
(* writes, what fs__readlink_handle makes of it and of the text of a       *)
(* symbolic link, and the final path that fs__realpath_handle returns.     *)
(* "b" is the backslash, "s" the slash, "U" stands for the letters UNC.    *)
(***************************************************************************)
Prefix == <<"b", "?", "?", "b">>      \* JUNCTION_PREFIX
LongPath == <<"b", "b", "?", "b">>    \* LONG_PATH_PREFIX
UncPath == LongPath \o <<"U", "b">>   \* UNC_PATH_PREFIX; its "U" is three characters

LinkInit ==
    /\ s \in [op : {"junction", "symlink", "realpath"}, target : Targets, tag : {"none"},
              text : {<<>>}, used : {0}, size : {0}, result : {<<>>}, pc : {"start"}]
    /\ os = 0 /\ run = 0 /\ hist = 0

IsSlash(c) == c \in {"b", "s"}
StartsWith(t, p) == Len(t) >= Len(p) /\ SubSeq(t, 1, Len(p)) = p
From(t, i) == SubSeq(t, i, Len(t))
Drive(t) == Len(t) >= 2 /\ t[1] = "a" /\ t[2] = ":" /\ (Len(t) = 2 \/ t[3] = "b")

IsAbsolute(t) ==
    StartsWith(t, LongPath) \/ (Len(t) >= 3 /\ t[1] = "a" /\ t[2] = ":" /\ IsSlash(t[3]))

RECURSIVE Copied(_, _)
\* The loop over the target: several slashes become one backslash, the last ones go.
Copied(t, slash) ==
    IF t = <<>> THEN <<>>
    ELSE IF IsSlash(Head(t)) THEN Copied(Tail(t), TRUE)
    ELSE (IF slash THEN <<"b">> ELSE <<>>) \o <<Head(t)>> \o Copied(Tail(t), FALSE)

Bare(t) == IF StartsWith(t, LongPath) THEN From(t, 5) ELSE t

\* The substitute name and the print name.
SubstituteName(t) == Prefix \o Copied(Bare(t), FALSE) \o <<"b">>
PrintName(t) == LET c == Copied(Bare(t), FALSE) IN IF Len(c) = 2 THEN c \o <<"b">> ELSE c

\* The pessimistic calculation, in characters.
NeededSize(t) == Len(Prefix) + 2 * (Len(t) + 2)

\* fs__create_junction; each name has a terminator.
CreateJunction ==
    /\ s.pc = "start" /\ s.op = "junction"
    /\ IF ~IsAbsolute(s.target) THEN s' = [s EXCEPT !.pc = "einval"]
       ELSE s' = [s EXCEPT !.tag = "junction", !.text = SubstituteName(s.target), !.pc = "made",
                           !.used = Len(SubstituteName(s.target)) + Len(PrintName(s.target)) + 2,
                           !.size = NeededSize(s.target)]

\* CreateSymbolicLinkW makes absolute targets names of the NT namespace.
CreateSymlink ==
    /\ s.pc = "start" /\ s.op = "symlink"
    /\ s' = [s EXCEPT !.tag = "symlink", !.pc = "made",
                      !.text = CASE Drive(s.target) /\ Len(s.target) > 2 -> Prefix \o s.target
                                 [] StartsWith(s.target, <<"b", "b">>) /\ ~StartsWith(s.target, LongPath)
                                      -> Prefix \o <<"U", "b">> \o From(s.target, 3)
                                 [] OTHER -> s.target]

\* Mutant of Unprefixed: a drive without a slash after it counts as well.
UnprefixedAny(t) == IF StartsWith(t, Prefix) THEN From(t, 5) ELSE t

\* fs__readlink_handle: a symbolic link without the prefix that was added.
Unprefixed(t) ==
    IF ~StartsWith(t, Prefix) THEN t
    ELSE IF Drive(From(t, 5)) THEN From(t, 5)
    ELSE IF StartsWith(From(t, 5), <<"U", "b">>) THEN <<"b", "b">> \o From(t, 7)
    ELSE t

\* ... and the junctions that count as links.
LooksLikeLink(t) == StartsWith(t, Prefix) /\ Drive(From(t, 5))

LinkRead ==
    /\ s.pc = "made"
    /\ s' = IF s.tag = "symlink" THEN [s EXCEPT !.result = Unprefixed(s.text), !.pc = "read"]
            ELSE IF LooksLikeLink(s.text) THEN [s EXCEPT !.result = From(s.text, 5), !.pc = "read"]
            ELSE [s EXCEPT !.pc = "unsupported"]

\* GetFinalPathNameByHandleW
Final(t) == IF StartsWith(t, <<"b", "b">>) THEN UncPath \o From(t, 3) ELSE LongPath \o t

\* fs__realpath_handle asks for the length, then for the path, which may be a longer one
\* by then: the buffer is left as it was.
RealpathLength ==
    /\ s.pc = "start" /\ s.op = "realpath"
    /\ s' = [s EXCEPT !.size = Len(Final(s.target)), !.pc = "length"]

RealpathGet ==
    /\ s.pc = "length"
    /\ \E moved \in IF Moves THEN BOOLEAN ELSE {FALSE} :
           LET w == Final(s.target)
           IN s' = [s EXCEPT !.used = Len(w) + (IF moved THEN 1 ELSE 0), !.pc = "read",
                             !.result = IF StartsWith(w, UncPath) THEN <<"b", "b">> \o From(w, 7)
                                        ELSE From(w, 5)]

LinkNext ==
    /\ CreateJunction \/ CreateSymlink \/ LinkRead \/ RealpathLength \/ RealpathGet
    /\ UNCHANGED <<os, run, hist>>

LinkSpec == LinkInit /\ [][LinkNext]_vars

-----------------------------------------------------------------------------
\* The type invariant.
LinkTypeOK == s.pc \in {"start", "made", "length", "read", "einval", "unsupported"} /\ s.used \in Nat

\* The target with single backslashes and none at the end.
Plain(t) ==
    LET keep == {i \in 1..Len(t) : ~IsSlash(t[i]) \/ (i < Len(t) /\ ~IsSlash(t[i + 1]))}
        nth(n) == CHOOSE i \in keep : Cardinality({j \in keep : j <= i}) = n
    IN [n \in 1..Cardinality(keep) |-> IF IsSlash(t[nth(n)]) THEN "b" ELSE t[nth(n)]]

\* uv_fs_readlink gives back what uv_fs_symlink was given: the same text for a symbolic
\* link, the same directory for a junction; only a junction that is not on a drive is
\* refused.  uv_fs_realpath returns the path as the program would write it.
LinksReadBack ==
    /\ s.pc = "read" /\ s.op = "symlink" => s.result = s.target
    /\ s.pc = "read" /\ s.op = "junction" => s.result = Plain(Bare(s.target)) \o <<"b">>
    /\ s.pc = "read" /\ s.op = "realpath" => s.result = s.target
    /\ s.pc = "unsupported" => ~Drive(Plain(Bare(s.target)))

\* The names of a junction fit in the buffer that was calculated from the length of the
\* target, and the final path in the one whose length was asked for.
NamesFit == s.used <= s.size

-----------------------------------------------------------------------------
(***************************************************************************)
(* fs__read, fs__write and fs__sendfile of the Windows port (win/fs.c): a  *)
(* request with several buffers is one ReadFile or WriteFile for each of   *)
(* them, uv_fs_sendfile a loop of _read and _write.                        *)
(***************************************************************************)
\* s: the request and the locals of the operation
\* os: the position of the descriptor
\* run: the place in the code
\* hist: the place in the file of every byte of the buffers, or of the output

Total(lens) ==
    LET sum[i \in 0..Len(lens)] == IF i = 0 THEN 0 ELSE sum[i - 1] + lens[i]
    IN sum[Len(lens)]
Least(a, b) == IF a < b THEN a ELSE b

\* fs__sendfile copies the total length.
TransferInit ==
    \E lens \in Lens, off \in Offs, op \in {"read", "write", "sendfile"} :
        /\ s = [op |-> op, lens |-> lens, off |-> off, index |-> 1, bytes |-> 0,
                left |-> Total(lens), n |-> 0, result |-> "none"]
        /\ os = [pos |-> 1]
        /\ run = "start"
        /\ hist = IF op = "sendfile" THEN <<>> ELSE [b \in 1..Total(lens) |-> -1]

Begin ==
    /\ run = "start"
    /\ \/ /\ os' = IF s.op = "sendfile" /\ s.off # -1 THEN [os EXCEPT !.pos = s.off] ELSE os
          /\ s' = s
          /\ run' = IF s.op = "sendfile" THEN "send" ELSE "call"
       \/ \* VERIFY_FD, uv__get_osfhandle or _lseeki64
          s' = [s EXCEPT !.result = "error"] /\ run' = "done" /\ UNCHANGED os
    /\ UNCHANGED hist

\* Mutant of Place: every buffer is at the offset of the request.
PlaceFirst == s.off

\* offset_ for the next buffer
Place == s.off + s.bytes

\* What a call for len bytes at place moves.
Moved(len, place) ==
    LET most == IF place > Size THEN 0 ELSE Least(len, Size - place)
    IN IF Short THEN Least(1, most)..most ELSE {most}

\* ReadFile or WriteFile of one buffer: at the end of the file a read with an offset
\* fails, one without moves nothing; a full disk is an error.
Buffer ==
    /\ run = "call"
    /\ LET len == s.lens[s.index]
           first == Total(SubSeq(s.lens, 1, s.index - 1))
           place == IF s.off = -1 THEN os.pos ELSE Place
       IN \E n \in Moved(len, place) :
              LET eof == n = 0 /\ len > 0
                  ok == ~eof \/ (s.op = "read" /\ s.off = -1)
              IN /\ hist' = [b \in DOMAIN hist |-> IF b > first /\ b <= first + n
                                                   THEN place + b - first - 1 ELSE hist[b]]
                 /\ os' = IF s.off = -1 THEN [os EXCEPT !.pos = @ + n] ELSE os
                 /\ s' = [s EXCEPT !.bytes = @ + n, !.index = @ + 1]
                 /\ run' = IF ~ok THEN (IF s.op = "read" THEN "eof" ELSE "failed")
                           ELSE IF s.index < Len(s.lens) THEN "call" ELSE "ok"

\* ... or it fails.
BufferFails ==
    /\ run = "call"
    /\ s' = [s EXCEPT !.index = @ + 1]
    /\ run' = "failed"
    /\ UNCHANGED <<os, hist>>

\* The end of fs__read and fs__write: bytes, or the error of the last call.
Tells(st, how) == how \in {"ok", "eof"} \/ st.bytes > 0

Result ==
    /\ run \in {"ok", "eof", "failed"}
    /\ s' = [s EXCEPT !.result = IF Tells(s, run) THEN "bytes" ELSE "error"]
    /\ run' = "done"
    /\ UNCHANGED <<os, hist>>

\* _read of the next piece
SendRead ==
    /\ run = "send"
    /\ IF s.left = 0 THEN s' = [s EXCEPT !.result = "bytes"] /\ run' = "done"
       ELSE \/ \E n \in Moved(Least(s.left, BufSize), os.pos) :
                   IF n = 0 THEN s' = [s EXCEPT !.result = "bytes"] /\ run' = "done"
                   ELSE s' = [s EXCEPT !.left = @ - n, !.n = n] /\ run' = "write"
            \/ s' = [s EXCEPT !.result = "error"] /\ run' = "done"
    /\ os' = [os EXCEPT !.pos = @ + s'.n]
    /\ UNCHANGED hist

\* The bytes that one _write adds to the result.
Sent(n) == n

\* _write of the piece, all of it or less
SendWrite ==
    /\ run = "write"
    /\ \/ \E n \in IF Short THEN 1..s.n ELSE {s.n} :
              /\ hist' = hist \o [i \in 1..n |-> os.pos - s.n + i - 1]
              /\ s' = [s EXCEPT !.bytes = @ + Sent(n), !.n = 0]
              /\ run' = "send"
       \/ s' = [s EXCEPT !.result = "error"] /\ run' = "done" /\ UNCHANGED hist
    /\ UNCHANGED os

TransferFinished == run = "done" /\ UNCHANGED vars

TransferNext == Begin \/ Buffer \/ BufferFails \/ Result \/ SendRead \/ SendWrite \/ TransferFinished

TransferSpec == TransferInit /\ [][TransferNext]_vars

-----------------------------------------------------------------------------
\* The type invariant.
TransferTypeOK ==
    /\ run \in {"start", "call", "ok", "eof", "failed", "send", "write", "done"}
    /\ s.bytes \in 0..Total(s.lens) + BufSize /\ s.left \in 0..Total(s.lens)

First == IF s.off = -1 THEN 1 ELSE s.off

\* The result of fs__read and fs__write is the number of bytes that moved, and these
\* are the first bytes of the buffers, at consecutive places from the offset on; an
\* error says that nothing moved.
TransferExact ==
    run = "done" /\ s.op # "sendfile" =>
        LET n == IF s.result = "bytes" THEN s.bytes ELSE 0
        IN hist = [b \in DOMAIN hist |-> IF b <= n THEN First + b - 1 ELSE -1]

\* What uv_fs_sendfile copied is the input from the offset on, without a gap, and the
\* result its length.
SendExact ==
    run = "done" /\ s.op = "sendfile" /\ s.result = "bytes" =>
        hist = [b \in 1..s.bytes |-> First + b - 1]
=============================================================================
