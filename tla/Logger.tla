------------------------------- MODULE Logger -------------------------------
(***************************************************************************)
(* The log statements of a process with several threads: the level test of *)
(* the LOG_ macros, the temporary Logger that each statement builds in its *)
(* own buffer, the write to stdout in its destructor, the exception that   *)
(* LOG_FATAL throws from there, and what reaches the file behind stdout    *)
(* when the process ends early.                                            *)
(*                                                                         *)
(* stdio is what the C library buffers for stdout, file what it has handed *)
(* to the kernel.                                                          *)
(***************************************************************************)
EXTENDS LogStream, FiniteSets

CONSTANTS
    Threads,        \* thread ids, which gettid gives
    Levels,         \* the levels of the statements, of 0..NUM_LOG_LEVELS - 1
    Settings,       \* what the program sets g_log_level to
    Items,          \* what statements stream
    LineNumber,     \* __LINE__ of the statements
    MaxItems,       \* bound on the items of one statement
    MaxLines        \* bound on the statements

ASSUME LoggerAssumption ==
    /\ Threads \subseteq Signed \ {0}
    /\ Items \subseteq Item
    /\ LineNumber \in Signed
    /\ MaxItems \in Nat /\ MaxLines \in Nat

FATAL == 5
NUM_LOG_LEVELS == 6

ASSUME LevelAssumption ==
    /\ Levels \subseteq 0 .. NUM_LOG_LEVELS - 1
    /\ Settings \subseteq 0 .. NUM_LOG_LEVELS

VARIABLES
    ndebug,         \* built without assertions
    g_log_level,
    t_cachedTid,    \* of each thread, 0 before the first use
    pc,             \* where each thread is in its statement
    impl_,          \* each thread's Logger: level, stream and, as history, the
                    \* number of items its statement has streamed
    exception,      \* the text of the exception each thread is unwinding for
    stdio, file,
    process         \* "running", or how it ended

vars == <<ndebug, g_log_level, t_cachedTid, pc, impl_, exception, stdio, file, process>>

None == [level |-> 0, stream |-> NewStream, items |-> 0]

Init ==
    /\ ndebug \in BOOLEAN
    /\ g_log_level = NUM_LOG_LEVELS
    /\ t_cachedTid = [t \in Threads |-> 0]
    /\ pc = [t \in Threads |-> "idle"]
    /\ impl_ = [t \in Threads |-> None]
    /\ exception = [t \in Threads |-> <<>>]
    /\ stdio = <<>> /\ file = <<>>
    /\ process = "running"

-----------------------------------------------------------------------------
(* What Logger itself streams.                                             *)
log_level_name == <<"TRACE", "DEBUG", "INFO", "WARN", "ERROR", "FATAL">>
log_level_font_style_start == <<"black", "blue", "green", "yellow", "red", "magenta">>

ASSUME LiteralAssumption ==
    Range(log_level_name) \cup Range(log_level_font_style_start)
        \cup {"time ", " ", "func", " - ", "file", ":", "\n", "reset"} \subseteq Char

FormatFileTime(stream) == stream ++ Str(<<"time ">>)

(* Every constructor of Logger passes 0 for save_errno.                    *)
Impl(level, tid, save_errno) ==
    LET stream == FormatFileTime(NewStream ++ Str(<<log_level_font_style_start[level + 1]>>))
                    ++ Integer(tid) ++ Str(<<" ">>)
                    ++ Str(<<log_level_name[level + 1]>>) ++ Str(<<" ">>)
    IN  IF save_errno = 0 THEN stream
        ELSE stream ++ Str(<<"strerror">>)
                    ++ Str(<<" (errno=">>) ++ Integer(save_errno) ++ Str(<<") ">>)

Opening(level, tid) == Impl(level, tid, 0) ++ Str(<<"func">>) ++ Str(<<" ">>)

Finish(stream) ==
    stream ++ Str(<<" - ">>) ++ Str(<<"file">>) ++ Str(<<":">>) ++ Integer(LineNumber)
           ++ Str(<<"\n">>) ++ Str(<<"reset">>)

-----------------------------------------------------------------------------
Busy == {t \in Threads : pc[t] # "idle"}

Step(t, from, to) ==
    /\ process = "running"
    /\ pc[t] = from
    /\ pc' = [pc EXCEPT ![t] = to]

(* abort() and std::terminate() do not flush stdio.                        *)
Abort(how) == process' = how /\ stdio' = <<>>

(* Thread t's Logger has streamed something and is now impl.  A failed     *)
(* assertion ends the process.  What happens after a write behind the      *)
(* buffer is undefined; the model stops there.                             *)
Streams(t, impl) ==
    /\ impl_' = [impl_ EXCEPT ![t] = impl]
    /\ IF ~ndebug /\ impl.stream.failed THEN Abort("asserted")
       ELSE /\ process' = IF impl.stream.over THEN "overrun" ELSE "running"
            /\ UNCHANGED stdio
    /\ UNCHANGED <<ndebug, g_log_level, exception, file>>

\* Mutated form: the cache is shared by the threads.
SharedTid(t) == IF \A u \in Threads : t_cachedTid[u] = 0 THEN t
                ELSE CHOOSE tid \in Threads : \E u \in Threads : t_cachedTid[u] = tid

CurrentTid(t) == IF t_cachedTid[t] = 0 THEN t ELSE t_cachedTid[t]

(* LOG_level and the constructor; a statement that fails the test does     *)
(* nothing.  While a thread unwinds its destructors may log.               *)
Construct(t, level) ==
    /\ Step(t, "idle", "streaming")
    /\ Cardinality(Busy) + Len(stdio) + Len(file) < MaxLines
    /\ level <= g_log_level
    /\ t_cachedTid' = [t_cachedTid EXCEPT ![t] = CurrentTid(t)]
    /\ Streams(t, [level |-> level, items |-> 0,
                   stream |-> [Opening(level, CurrentTid(t)) EXCEPT !.meant = Opening(level, t).meant]])

(* operator<<.                                                             *)
Insert(t, x) ==
    /\ Step(t, "streaming", "streaming")
    /\ impl_[t].items < MaxItems
    /\ Streams(t, [impl_[t] EXCEPT !.stream = @ ++ x, !.items = @ + 1])
    /\ UNCHANGED t_cachedTid

(* ~Logger: Finish, then fwrite; the rest of it is for FATAL.              *)
Complete(t) ==
    /\ Step(t, "streaming", "fwrite")
    /\ Streams(t, [impl_[t] EXCEPT !.stream = Finish(@)])
    /\ UNCHANGED t_cachedTid

Write(t) ==
    /\ Step(t, "fwrite", IF impl_[t].level = FATAL THEN "fflush" ELSE "idle")
    /\ stdio' = Append(stdio, impl_[t])
    /\ impl_' = [impl_ EXCEPT ![t] = IF @.level = FATAL THEN @ ELSE None]
    /\ UNCHANGED <<ndebug, g_log_level, t_cachedTid, exception, file, process>>

\* Mutated form: the exception is thrown without flushing.
NoFlush(t) ==
    /\ Step(t, "fflush", "throw")
    /\ UNCHANGED <<ndebug, g_log_level, t_cachedTid, impl_, exception, stdio, file, process>>

Flush(t) ==
    /\ Step(t, "fflush", "throw")
    /\ file' = file \o stdio
    /\ stdio' = <<>>
    /\ UNCHANGED <<ndebug, g_log_level, t_cachedTid, impl_, exception, process>>

(* A second exception during stack unwinding ends in std::terminate.       *)
Throw(t) ==
    /\ Step(t, "throw", "idle")
    /\ exception' = [exception EXCEPT ![t] = impl_[t].stream.text]
    /\ IF exception[t] = <<>> THEN UNCHANGED <<process, stdio>> ELSE Abort("terminated")
    /\ impl_' = [impl_ EXCEPT ![t] = None]
    /\ UNCHANGED <<ndebug, g_log_level, t_cachedTid, file>>

Catch(t) ==
    /\ Step(t, "idle", "idle")
    /\ exception[t] # <<>>
    /\ exception' = [exception EXCEPT ![t] = <<>>]
    /\ UNCHANGED <<ndebug, g_log_level, t_cachedTid, impl_, stdio, file, process>>

(* Nobody catches it but Thread's RunInThread.                             *)
Uncaught(t) ==
    /\ Step(t, "idle", "idle")
    /\ exception[t] # <<>>
    /\ Abort("terminated")
    /\ UNCHANGED <<ndebug, g_log_level, t_cachedTid, impl_, exception, file>>

(* The C library empties its buffer when it likes.                         *)
StdioFlush ==
    /\ process = "running" /\ stdio # <<>>
    /\ file' = file \o stdio
    /\ stdio' = <<>>
    /\ UNCHANGED <<ndebug, g_log_level, t_cachedTid, pc, impl_, exception, process>>

(* The program sets g_log_level.                                           *)
SetLogLevel(level) ==
    /\ process = "running"
    /\ g_log_level' = level
    /\ UNCHANGED <<ndebug, t_cachedTid, pc, impl_, exception, stdio, file, process>>

Next ==
    \/ \E t \in Threads :
        \/ \E level \in Levels : Construct(t, level)
        \/ \E x \in Items : Insert(t, x)
        \/ Complete(t) \/ Write(t) \/ Flush(t) \/ Throw(t) \/ Catch(t) \/ Uncaught(t)
    \/ StdioFlush
    \/ \E level \in Settings : SetLogLevel(level)

Spec == Init /\ [][Next]_vars

-----------------------------------------------------------------------------
Line == [level : 0..NUM_LOG_LEVELS, stream : Stream, items : Nat]

TypeOK ==
    /\ ndebug \in BOOLEAN
    /\ g_log_level \in 0..NUM_LOG_LEVELS
    /\ t_cachedTid \in [Threads -> Threads \cup {0}]
    /\ pc \in [Threads -> {"idle", "streaming", "fwrite", "fflush", "throw"}]
    /\ impl_ \in [Threads -> Line]
    /\ exception \in [Threads -> Seq(Char)]
    /\ stdio \in Seq(Line) /\ file \in Seq(Line)
    /\ process \in {"running", "asserted", "overrun", "terminated"}

(* Any integer or pointer a statement may go on to stream is formatted as  *)
(* its usual numeral by convert and convertHex, the most negative value of *)
(* the type included, which has no positive counterpart.                   *)
NumeralsAreExact ==
    \A t \in Threads : pc[t] = "streaming" => DecimalsAreExact /\ PointersAreExact

Short(stream) == Len(stream.meant) + kMaxNumericSize <= SIZE /\ ~stream.cut

(* A statement that leaves kMaxNumericSize characters of its buffer free   *)
(* is written as it stands, whatever the other threads log meanwhile, and  *)
(* neither runs into an assertion nor past the end of the buffer, with or  *)
(* without assertions.  Doubles that take kMaxNumericSize characters are   *)
(* excepted: operator<<(double) advances over characters that snprintf did *)
(* not write.                                                              *)
ShortLinesAreWhole ==
    /\ TypeOK
    /\ \A line \in Range(file \o stdio) :
         Short(line.stream) => line.stream.text = line.stream.meant
    /\ \A t \in Threads : impl_[t].stream.failed \/ impl_[t].stream.over => ~Short(impl_[t].stream)

(* With assertions a statement that would write past the end of its        *)
(* buffer, a NUL behind a number included, is ended by an assertion of its *)
(* own before it does, unless it has streamed a double with too many       *)
(* digits.                                                                 *)
AssertedInTime ==
    \A t \in Threads : impl_[t].stream.over /\ ~ndebug =>
        impl_[t].stream.cut \/ (impl_[t].stream.failed /\ process = "asserted")

(* Once LOG_FATAL has thrown, its line, which is also the exception's      *)
(* text, is in the file behind stdout and stays there: it is not lost when *)
(* the exception ends the process or another thread aborts it.             *)
FatalSurvives ==
    \A t \in Threads : exception[t] # <<>> =>
        \E line \in Range(file) : line.level = FATAL /\ line.stream.text = exception[t]
=============================================================================
