----------------------------- MODULE WinProcess -----------------------------
(***************************************************************************)
(* Child processes on Windows (win/process.c, process-stdio.c): uv_spawn   *)
(* with the handles it makes for the child, the wait on a thread of the    *)
(* system's pool, the exit callback and closing.  Then, each by itself:    *)
(* the texts that uv_spawn computes.                                       *)
(***************************************************************************)
EXTENDS Integers, Sequences, SequencesExt, FiniteSets, TLC

CONSTANTS Stdio,     \* what the program asks for: sequences of the ways below
          MaxKills,  \* a bound
          Chars, MaxArgLen, MaxArgs,   \* the characters of arguments; bounds
          MinArgs,   \* 0 if the program may give no arguments
          Names, Required, MaxVars,    \* all variables, the required ones; a bound
          Files, Cwds,            \* the names that are looked for, the current directories
          PathChars, MaxPathLen,  \* the characters of PATH; a bound
          LoneQuotes              \* PATH may hold an entry that is one quote

VARIABLES s, os, run, hist

vars == <<s, os, run, hist>>
textVars == <<s>>   \* of the texts: the input, and what was computed from it

Ways == {"ignore", "pipe", "fd", "bad fd", "stream"}

\* os.open: the handles that this process has opened for the child, as <<i, what>>
Init ==
    /\ s = [proc |-> FALSE, wait |-> FALSE, pending |-> FALSE, active |-> FALSE, signal |-> 0,
            closing |-> FALSE, ends |-> FALSE, closed |-> FALSE]
    /\ os = [open |-> {}, parent |-> {}, buffer |-> FALSE, child |-> "none", cb |-> "none", posted |-> FALSE]
    /\ run = [pc |-> "spawn", i |-> 1, io |-> <<>>, err |-> FALSE]
    /\ hist = [kills |-> 0, exits |-> 0, missed |-> FALSE]

-----------------------------------------------------------------------------
(***************************************************************************)
(* uv_spawn: the strings it builds first may fail; then the table of       *)
(* handles, which is made one by one; then the process.                    *)
(***************************************************************************)
Spawn(io) ==
    /\ run.pc = "spawn"
    /\ \/ run' = [run EXCEPT !.pc = "done", !.err = TRUE] /\ UNCHANGED os
       \/ /\ run' = [run EXCEPT !.pc = "stdio",
                                !.io = io \o [i \in 1 .. (IF Len(io) < 3 THEN 3 - Len(io) ELSE 0) |-> "ignore"]]
          /\ os' = [os EXCEPT !.buffer = TRUE]
    /\ UNCHANGED <<s, hist>>

Opened(o, i) ==
    CASE run.io[i] = "ignore" -> IF i <= 3 THEN [o EXCEPT !.open = @ \cup {i}] ELSE o
      [] run.io[i] = "pipe"   -> [o EXCEPT !.open = @ \cup {i}, !.parent = @ \cup {i}]
      [] run.io[i] = "bad fd" -> o
      [] OTHER                -> [o EXCEPT !.open = @ \cup {i}]

\* uv__stdio_destroy
Destroyed(o) == [o EXCEPT !.open = {}, !.buffer = FALSE]

\* Mutant of Undo: the handles made so far are left open.
UndoNot(o) == [o EXCEPT !.buffer = FALSE]

\* The error path of uv__stdio_create
Undo(o) == Destroyed(o)

\* uv__stdio_create, entry i; the pipe of a failing pair is cleaned up at once.
StdioCreate ==
    /\ run.pc = "stdio" /\ run.i <= Len(run.io)
    /\ \/ os' = Opened(os, run.i) /\ run' = [run EXCEPT !.i = @ + 1]
       \/ os' = Undo(os) /\ run' = [run EXCEPT !.pc = "done", !.err = TRUE]
    /\ UNCHANGED <<s, hist>>

\* search_path and CreateProcess; the wait is registered and the handle becomes active.
CreateProcess ==
    /\ run.pc = "stdio" /\ run.i > Len(run.io)
    /\ \/ /\ s' = [s EXCEPT !.proc = TRUE, !.wait = TRUE, !.active = TRUE]
          /\ os' = [os EXCEPT !.child = "running", !.cb = "waits"]
          /\ run' = [run EXCEPT !.pc = "done"]
       \/ run' = [run EXCEPT !.pc = "done", !.err = TRUE] /\ UNCHANGED <<s, os>>
    /\ UNCHANGED hist

\* What uv_spawn does whether it succeeded or failed
SpawnEnds ==
    /\ run.pc = "done"
    /\ os' = IF os.buffer THEN Destroyed(os) ELSE os
    /\ run' = [run EXCEPT !.pc = "idle"]
    /\ UNCHANGED <<s, hist>>

-----------------------------------------------------------------------------
ChildExits ==
    /\ os.child = "running"
    /\ os' = [os EXCEPT !.child = "exited"]
    /\ UNCHANGED <<s, run, hist>>

\* exit_wait_callback runs on the pool's thread ...
WaitFires ==
    /\ os.child = "exited" /\ os.cb = "waits"
    /\ os' = [os EXCEPT !.cb = "runs"]
    /\ UNCHANGED <<s, run, hist>>

\* ... sets the flag ...
WaitMarks ==
    /\ os.cb = "runs"
    /\ s' = [s EXCEPT !.pending = TRUE]
    /\ os' = [os EXCEPT !.cb = "posts"]
    /\ hist' = [hist EXCEPT !.missed = @ \/ s.closed]
    /\ UNCHANGED run

\* ... and posts the completion.
WaitPosts ==
    /\ os.cb = "posts"
    /\ os' = [os EXCEPT !.cb = "done", !.posted = TRUE]
    /\ UNCHANGED <<s, run, hist>>

\* Mutant of Exited: a handle that was closed meanwhile is forgotten.
ExitedForgets(h) == h

Exited(h) == [h EXCEPT !.ends = TRUE]

\* uv_process_proc_exit
ProcExit ==
    /\ run.pc = "idle" /\ os.posted
    /\ os' = [os EXCEPT !.posted = FALSE]
    /\ LET h == [s EXCEPT !.pending = FALSE]
       IN IF s.closing
          THEN s' = Exited(h) /\ UNCHANGED <<run, hist>>
          ELSE /\ s' = [h EXCEPT !.wait = FALSE, !.active = FALSE]
               /\ run' = [run EXCEPT !.pc = "cb"]
               /\ hist' = [hist EXCEPT !.exits = @ + 1, !.missed = @ \/ s.closed]

Returns ==
    /\ run.pc = "cb"
    /\ run' = [run EXCEPT !.pc = "idle"]
    /\ UNCHANGED <<s, os, hist>>

\* uv_process_kill: a process that has exited gives an error.
Kill ==
    /\ run.pc \in {"idle", "cb"} /\ ~s.closing /\ s.proc /\ hist.kills < MaxKills
    /\ hist' = [hist EXCEPT !.kills = @ + 1]
    /\ IF os.child = "running"
       THEN s' = [s EXCEPT !.signal = 1] /\ os' = [os EXCEPT !.child = "exited"]
       ELSE UNCHANGED <<s, os>>
    /\ UNCHANGED run

\* UnregisterWaitEx returns when the callback is not running.
Unwaited == s.wait => os.cb \notin {"runs", "posts"}

\* uv_process_close
Close ==
    /\ run.pc \in {"idle", "cb"} /\ ~s.closing /\ Unwaited
    /\ s' = [s EXCEPT !.closing = TRUE, !.active = FALSE, !.wait = FALSE, !.ends = ~s.pending]
    /\ os' = [os EXCEPT !.cb = IF @ = "waits" THEN "done" ELSE @]
    /\ UNCHANGED <<run, hist>>

\* uv_process_endgame
Endgame ==
    /\ run.pc = "idle" /\ s.ends /\ ~s.closed
    /\ s' = [s EXCEPT !.closed = TRUE, !.proc = FALSE]
    /\ hist' = [hist EXCEPT !.missed = @ \/ s.pending \/ os.cb \in {"runs", "posts"} \/ os.posted]
    /\ UNCHANGED <<os, run>>

LoopStep == StdioCreate \/ CreateProcess \/ SpawnEnds \/ ProcExit \/ Returns \/ Endgame

KernelStep == WaitFires \/ WaitMarks \/ WaitPosts

Next ==
    \/ (\E io \in Stdio : Spawn(io)) \/ Kill \/ Close \/ ChildExits
    \/ LoopStep \/ KernelStep

Spec == Init /\ [][Next]_vars /\ WF_vars(LoopStep) /\ WF_vars(KernelStep)

-----------------------------------------------------------------------------
\* The type invariant.
TypeOK ==
    /\ s.signal \in 0 .. 1 /\ os.child \in {"none", "running", "exited"}
    /\ os.cb \in {"none", "waits", "runs", "posts", "done"} /\ run.io \in Seq(Ways)
    /\ hist.exits \in 0 .. 1

\* When uv_spawn has returned, no handle made for the child is open in this process,
\* whatever failed: the child would never see the end of its input.
NoChildHandles == run.pc \in {"idle", "cb"} => os.open = {} /\ ~os.buffer

\* The exit request is neither posted nor about to be when the handle is closed.
ExitNeverLate == ~hist.missed

ProcessOwes ==
    \/ s.closing /\ ~s.closed
    \/ s.active /\ os.child = "exited" /\ hist.exits = 0

\* The exit of a child reaches its callback, unless the handle is closed first; a closed
\* handle ends.
ExitReported == ProcessOwes ~> ~ProcessOwes
-----------------------------------------------------------------------------
(***************************************************************************)
(* The command line of a child on Windows (win/process.c): a child gets    *)
(* one string, which its run-time library splits into arguments again.     *)
(* "q" is the double quote, "b" the backslash, "_" a blank, "0" the end.   *)
(***************************************************************************)
Args == UNION {[1 .. n -> BoundedSeq(Chars, MaxArgLen)] : n \in MinArgs .. MaxArgs}

LineInit == s \in [args : Args, verbatim : BOOLEAN, line : {<<>>}, size : {0}, done : {FALSE}]

Has(arg, cs) == \E i \in 1 .. Len(arg) : arg[i] \in cs

\* Mutant of QuoteHit: backslashes before the closing quote are not doubled.
QuoteHitNot == FALSE

\* quote_hit at the start of the loop, which goes backwards
QuoteHit == TRUE

RECURSIVE Escape(_, _, _)
\* The loop over the characters i .. 1; what it puts out is reversed at the end.
Escape(arg, i, hit) ==
    IF i = 0 THEN <<>>
    ELSE LET c == arg[i]
         IN CASE hit /\ c = "b" -> Append(Escape(arg, i - 1, hit), "b") \o <<"b">>
              [] c = "q"        -> Append(Escape(arg, i - 1, TRUE), "b") \o <<"q">>
              [] OTHER          -> Append(Escape(arg, i - 1, FALSE), c)

\* quote_cmd_arg
QuoteCmdArg(arg) ==
    IF arg = <<>> THEN <<"q", "q">>
    ELSE IF ~Has(arg, {"_", "q"}) THEN arg
    ELSE IF ~Has(arg, {"q", "b"}) THEN <<"q">> \o arg \o <<"q">>
    ELSE <<"q">> \o Escape(arg, Len(arg), QuoteHit) \o <<"q">>

RECURSIVE Total(_)
Total(args) == IF args = <<>> THEN 0 ELSE Len(Head(args)) + 1 + Total(Tail(args))

\* The size of the buffer in make_program_args
BufferSize(args) == Total(args) * 2 + Len(args) * 2

RECURSIVE Joined(_, _)
\* The arguments, quoted or verbatim, each with a blank or, the last one, the terminator
\* after it: without arguments there is no terminator.
Joined(args, verbatim) ==
    IF args = <<>> THEN <<>>
    ELSE (IF verbatim THEN Head(args) ELSE QuoteCmdArg(Head(args)))
         \o (IF Len(args) > 1 THEN <<"_">> ELSE <<"0">>) \o Joined(Tail(args), verbatim)

\* make_program_args
MakeProgramArgs ==
    /\ ~s.done
    /\ s' = [s EXCEPT !.line = Joined(s.args, s.verbatim), !.size = BufferSize(s.args),
                      !.done = TRUE]

LineNext == MakeProgramArgs

LineSpec == LineInit /\ [][LineNext]_vars

-----------------------------------------------------------------------------
RECURSIVE Parse(_, _, _, _, _)
\* How a C run-time library splits a line: cur is the argument being read, in says that
\* there is one, quoted that a quote is open. Backslashes count only before a quote.
Parse(line, cur, in, quoted, done) ==
    IF line = <<>> THEN IF in THEN Append(done, cur) ELSE done
    ELSE LET c     == Head(line)
             rest  == Tail(line)
             slash == CHOOSE n \in 0 .. Len(line) :
                         /\ \A i \in 1 .. n : line[i] = "b"
                         /\ n = Len(line) \/ line[n + 1] # "b"
             after == SubSeq(line, slash + 1, Len(line))
             few   == [i \in 1 .. slash \div 2 |-> "b"]
         IN IF c = "b" /\ after # <<>> /\ Head(after) = "q"
            THEN IF slash % 2 = 1 THEN Parse(Tail(after), cur \o few \o <<"q">>, TRUE, quoted, done)
                                  ELSE Parse(Tail(after), cur \o few, TRUE, ~quoted, done)
            ELSE IF c = "q" THEN Parse(rest, cur, TRUE, ~quoted, done)
            ELSE IF c = "_" /\ ~quoted
                 THEN Parse(rest, <<>>, FALSE, FALSE, IF in THEN Append(done, cur) ELSE done)
                 ELSE Parse(rest, Append(cur, c), TRUE, quoted, done)

\* The type invariant.
LineTypeOK == s.args \in Seq(Seq(Chars)) /\ s.line \in Seq(Chars \cup {"q", "b", "_", "0"})

\* The child gets the arguments it was given: splitting the line by the rules of the C
\* run-time library gives them back, whatever quotes, blanks and backslashes they hold,
\* unless the program has asked for verbatim arguments.
ArgsArrive == s.done /\ ~s.verbatim => Parse(Front(s.line), <<>>, FALSE, FALSE, <<>>) = s.args

\* The line ends with its terminator and fits, quoted or verbatim, into the buffer that
\* make_program_args allocates.
LineFits == s.done => s.line # <<>> /\ Last(s.line) = "0" /\ Len(s.line) <= s.size

-----------------------------------------------------------------------------
(***************************************************************************)
(* The environment of a child on Windows (win/process.c): the program's    *)
(* variables, sorted, and merged with the ones that Windows requires and   *)
(* that the program did not set. Variables are numbered in their order.    *)
(***************************************************************************)
\* given: the program's environment block, has: the required variables of this process
EnvInit == s \in [given : BoundedSeq(Names, MaxVars), has : SUBSET Required,
               size : {0}, block : {<<>>}, used : {0}, done : {FALSE}]

RequiredVars == SetToSortSeq(Required, LAMBDA a, b : a < b)

\* The sizes of an entry that was given and of one that is added
Size(v) == v + 1
Added(v) == 10 * v

\* qsort_wcscmp
Sorted(env) == SortSeq(env, LAMBDA a, b : a < b)

\* env_strncmp of the required variable i with the entry p; 1 or -1 past the end of either
Compare(env, p, req, i) ==
    IF i > Len(req) THEN 1
    ELSE IF p > Len(env) THEN -1
    ELSE IF req[i] < env[p] THEN -1 ELSE IF req[i] > env[p] THEN 1 ELSE 0

RECURSIVE ThirdPassNot(_, _, _, _)
\* Mutant of ThirdPass: a required variable that was given is not skipped.
ThirdPassNot(env, p, req, i) ==
    IF i > Len(req) THEN 0
    ELSE IF Compare(env, p, req, i) < 0
         THEN (IF req[i] \in s.has THEN Added(req[i]) ELSE 0) + ThirdPassNot(env, p, req, i + 1)
         ELSE ThirdPassNot(env, p + 1, req, i)

RECURSIVE ThirdPass(_, _, _, _)
\* What the missing variables add to env_len
ThirdPass(env, p, req, i) ==
    LET cmp == Compare(env, p, req, i)
    IN IF i > Len(req) THEN 0
       ELSE IF cmp < 0
            THEN (IF req[i] \in s.has THEN Added(req[i]) ELSE 0) + ThirdPass(env, p, req, i + 1)
            ELSE ThirdPass(env, p + 1, req, IF cmp = 0 THEN i + 1 ELSE i)

\* Mutant of Step: after an equal one both lists go on, the given entry is not copied.
StepDrops(cmp, v) == IF cmp < 0 THEN <<>> ELSE IF cmp = 0 THEN <<>> ELSE <<v>>

\* What one round of the final pass copies from the program's variables
Step(cmp, v) == IF cmp < 0 THEN <<>> ELSE <<v>>

RECURSIVE FinalPass(_, _, _, _)
\* The final pass: the entries of the block, in order
FinalPass(env, p, req, i) ==
    LET cmp == Compare(env, p, req, i)
    IN IF p > Len(env) /\ i > Len(req) THEN <<>>
       ELSE IF cmp < 0
            THEN (IF req[i] \in s.has THEN <<-req[i]>> ELSE <<>>) \o FinalPass(env, p, req, i + 1)
            ELSE Step(cmp, env[p]) \o FinalPass(env, p + 1, req, IF cmp = 0 THEN i + 1 ELSE i)

RECURSIVE Used(_)
\* What the entries occupy; an added variable is written with a minus.
Used(block) ==
    IF block = <<>> THEN 0
    ELSE (IF Head(block) > 0 THEN Size(Head(block)) ELSE Added(-Head(block))) + Used(Tail(block))

MakeProgramEnv ==
    /\ ~s.done
    /\ LET env == Sorted(s.given)
           block == FinalPass(env, 1, RequiredVars, 1)
       IN s' = [s EXCEPT !.size = Used(env) + ThirdPass(env, 1, RequiredVars, 1),
                         !.block = block, !.used = Used(block), !.done = TRUE]

EnvNext == MakeProgramEnv

EnvSpec == EnvInit /\ [][EnvNext]_vars

-----------------------------------------------------------------------------
\* The type invariant.
EnvTypeOK == s.given \in Seq(Names) /\ s.has \in SUBSET Required

\* The final pass writes exactly what the earlier passes counted (its assertion on
\* env_len): the two merges decide alike for every variable.
EnvFits == s.done => s.used = s.size

\* The block is sorted, as Windows wants it; it has the program's variables, each as often
\* as it was given, and once each the required variables that were not.
EnvMerged ==
    s.done =>
        LET name(i) == IF s.block[i] < 0 THEN -s.block[i] ELSE s.block[i]
        IN /\ \A i \in 1 .. Len(s.block) - 1 : name(i) <= name(i + 1)
           /\ SelectSeq(s.block, LAMBDA v : v > 0) = Sorted(s.given)
           /\ SelectSeq(s.block, LAMBDA v : v < 0)
                = SetToSortSeq({-v : v \in s.has \ ToSet(s.given)}, LAMBDA a, b : a > b)

-----------------------------------------------------------------------------
(***************************************************************************)
(* Where uv_spawn looks for a program on Windows (win/process.c,           *)
(* search_path): the places it tries, in order, each as a string. "b" is   *)
(* the backslash, "q" a quote; "d" and "e" are letters (and drives).       *)
(***************************************************************************)
Slash == {"b", "/"}

\* PATH as its entries: what stands between semicolons
RECURSIVE Split(_)
Split(p) ==
    IF p = <<>> THEN <<<<>>>>
    ELSE LET r == Split(Tail(p))
         IN IF Head(p) = ";" THEN <<<<>>>> \o r ELSE <<<<Head(p)>> \o Head(r)>> \o Tail(r)

Paths == {p \in BoundedSeq(PathChars, MaxPathLen) : LoneQuotes \/ ~Contains(Split(p), <<"q">>)}

SearchInit == s \in [file : Files, cwd : Cwds, path : Paths, tried : {<<>>}, wild : {FALSE}, done : {FALSE}]

-----------------------------------------------------------------------------
\* A separator follows what does not end with one.
Ended(p) == IF p # <<>> /\ Last(p) \notin Slash \cup {":"} THEN Append(p, "b") ELSE p

SameDrive(dir, cwd) == Len(cwd) >= 2 /\ SubSeq(cwd, 1, 2) = SubSeq(dir, 1, 2)

\* Which part of cwd search_path_join_test puts before dir, and what it leaves of dir
CwdFor(dir, cwd) ==
    LET n == Len(dir)
    IN IF n > 2 /\ dir[1] = "b" /\ dir[2] = "b" THEN <<<<>>, dir>>
       ELSE IF n >= 1 /\ dir[1] \in Slash THEN <<SubSeq(cwd, 1, 2), dir>>
       ELSE IF n >= 2 /\ dir[2] = ":" /\ (n < 3 \/ dir[3] \notin Slash)
            THEN IF SameDrive(dir, cwd) THEN <<cwd, SubSeq(dir, 3, n)>> ELSE <<<<>>, dir>>
       ELSE IF n > 2 /\ dir[2] = ":" THEN <<<<>>, dir>>
       ELSE <<cwd, dir>>

\* search_path_join_test, as far as the name it tests
Join(dir, name, ext, cwd) ==
    LET c == CwdFor(dir, cwd)
    IN Ended(c[1]) \o Ended(c[2]) \o name
         \o (IF ext = <<>> THEN <<>> ELSE IF Last(name) # "." THEN <<".">> \o ext ELSE ext)

\* Mutant of Exts: .exe is tried before .com.
ExtsSwapped(has) == (IF has THEN <<<<>>>> ELSE <<>>) \o <<<<"exe">>, <<"com">>>>

\* path_search_walk_ext
Exts(has) == (IF has THEN <<<<>>>> ELSE <<>>) \o <<<<"com">>, <<"exe">>>>

Walk(dir, name, cwd, has) ==
    LET e == Exts(has) IN [i \in 1 .. Len(e) |-> Join(dir, name, e[i], cwd)]

\* The start of the name in file, and whether it has an extension that is not empty
NameStart(file) ==
    CHOOSE i \in 1 .. Len(file) + 1 :
        /\ \A j \in i .. Len(file) : file[j] \notin Slash \cup {":"}
        /\ i = 1 \/ file[i - 1] \in Slash \cup {":"}

HasExt(name) ==
    LET dots == {i \in 1 .. Len(name) : name[i] = "."}
    IN dots # {} /\ (CHOOSE i \in dots : \A j \in dots : i <= j) < Len(name)

\* The end of the slice that starts at i: the next semicolon or the end
SliceEnd(path, i) ==
    CHOOSE j \in i .. Len(path) + 1 :
        /\ j = Len(path) + 1 \/ path[j] = ";"
        /\ \A k \in i .. j - 1 : path[k] # ";"

\* A slice without its quotes. A slice that is one quote loses it twice: the length wraps.
Unquoted(d) ==
    LET d1 == IF d[1] = "q" THEN Tail(d) ELSE d
    IN IF d1 = <<>> THEN <<"wraps">> ELSE IF Last(d1) = "q" THEN Front(d1) ELSE d1

\* Skip the separator that dir_end points to; at the beginning only if there is one.
NextStart(path, end) == IF end # 1 \/ path[1] = ";" THEN end + 1 ELSE end

RECURSIVE Scan(_, _)
\* The loop over PATH; end is dir_end, the places are numbered from 1.
Scan(path, end) ==
    IF end > Len(path) THEN <<>>
    ELSE LET start == NextStart(path, end)
             e     == SliceEnd(path, start)
         IN (IF e = start THEN <<>> ELSE <<Unquoted(SubSeq(path, start, e - 1))>>)
              \o (IF e = end THEN <<<<"stuck">>>> ELSE Scan(path, e))

SearchPath ==
    /\ ~s.done
    /\ LET n    == NameStart(s.file)
           name == SubSeq(s.file, n, Len(s.file))
           has  == HasExt(name)
           dirs == IF n # 1 THEN <<SubSeq(s.file, 1, n - 1)>> ELSE <<<<>>>> \o Scan(s.path, 1)
           ok   == SelectSeq(dirs, LAMBDA d : d \notin {<<"wraps">>, <<"stuck">>})
       IN s' = [s EXCEPT !.done = TRUE, !.wild = Len(ok) < Len(dirs),
                         !.tried = IF s.file \in {<<>>, <<".">>} THEN <<>>
                                   ELSE FlattenSeq([i \in 1 .. Len(ok) |-> Walk(ok[i], name, s.cwd, has)])]

SearchNext == SearchPath

SearchSpec == SearchInit /\ [][SearchNext]_vars

-----------------------------------------------------------------------------
\* The type invariant.
SearchTypeOK == s.done \in BOOLEAN /\ s.path \in Seq(PathChars)

\* Every slice of PATH lies in PATH.
SlicesInside == ~s.wild

\* What the comment of search_path promises: without a path in the name the current
\* directory, then the entries of PATH in their order; in each the name itself if it has an
\* extension, then with .com and .exe appended.
SearchesInOrder ==
    (s.done /\ ~s.wild /\ s.tried # <<>>) =>
        LET own   == \E i \in 1 .. Len(s.file) : s.file[i] \in Slash \cup {":"}
            strip(d) == IF d = <<"q", "q">> THEN <<>>
                        ELSE LET a == IF d[1] = "q" THEN Tail(d) ELSE d
                             IN IF Last(a) = "q" THEN Front(a) ELSE a
            dirs  == <<<<>>>> \o SelectSeq(Split(s.path), LAMBDA d : d # <<>>)
            has   == HasExt(SubSeq(s.file, NameStart(s.file), Len(s.file)))
            exts  == IF has THEN 3 ELSE 2
        IN /\ Len(s.tried) = IF own THEN exts ELSE exts * Len(dirs)
           /\ \A i \in 1 .. Len(s.tried) :
                LET d == dirs[(i - 1) \div exts + 1]
                    k == ((i - 1) % exts) + (IF has THEN 0 ELSE 1)
                    e == IF k = 0 THEN <<>> ELSE IF k = 1 THEN <<"com">> ELSE <<"exe">>
                IN ~own => s.tried[i] = Join(IF d = <<>> THEN d ELSE strip(d), s.file, e, s.cwd)

\* "It tries to return an absolute filename": what is tested starts with a drive and a
\* separator, or is a UNC path, unless the directory names another drive without a path.
AbsoluteNames ==
    \A i \in 1 .. Len(s.tried) :
        LET t == s.tried[i]
        IN \/ Len(t) > 2 /\ t[2] = ":" /\ t[3] \in Slash
           \/ Len(t) > 1 /\ t[1] = "b" /\ t[2] = "b"
           \/ Len(t) > 1 /\ t[2] = ":" /\ t[1] # s.cwd[1]
=============================================================================
