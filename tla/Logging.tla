------------------------------- MODULE Logging -------------------------------
(***************************************************************************)
(* LoggerImpl and LogInterceptor: two sinks with a level each behind one   *)
(* logger with a level of its own, set up once and adjusted before and     *)
(* after.  A record is written to a sink when its level reaches both the   *)
(* logger's and the sink's.                                                *)
(***************************************************************************)
EXTENDS Naturals

VARIABLES
  level_, console_level_,          \* the levels the application asked for
  initialised,                     \* init0 has run, or aborted for want of a directory
  logger, file_sink, console_sink, \* the levels in force
  late,                            \* history: a setter was called after init
  dumped                           \* the interceptor's last record was written to the file

logVars == <<level_, console_level_, initialised, logger, file_sink, console_sink, late, dumped>>

Trace == 0
Debug == 1
Info == 2
Warn == 3
Error == 4
LogLevel == Trace .. Error

Finer(a, b) == IF a < b THEN a ELSE b
Coarser(a, b) == IF a < b THEN b ELSE a

setLevel(l) ==
  /\ initialised # "aborted"
  /\ level_' = l
  /\ logger' = IF initialised = "yes" THEN l ELSE logger
  /\ late' = (late \/ initialised = "yes")
  /\ UNCHANGED <<console_level_, initialised, file_sink, console_sink, dumped>>

setConsoleLevel(l) ==
  /\ initialised # "aborted"
  /\ console_level_' = l
  /\ console_sink' = IF initialised = "yes" THEN l ELSE console_sink
  /\ late' = (late \/ initialised = "yes")
  /\ UNCHANGED <<level_, initialised, logger, file_sink, dumped>>

takesCoarser ==  \* mutant: the logger gets the coarser of the two levels
  /\ initialised = "no"
  /\ initialised' = "yes"
  /\ console_sink' = console_level_ /\ file_sink' = level_
  /\ logger' = Coarser(level_, console_level_)
  /\ UNCHANGED <<level_, console_level_, late, dumped>>

(* init() runs init0 once; a log directory that cannot be made aborts.     *)
(* The logger's switch has no case for Error and falls back to Info.       *)
init ==
  /\ initialised = "no"
  /\ \/ /\ initialised' = "yes"
        /\ console_sink' = console_level_ /\ file_sink' = level_
        /\ LET l == Finer(level_, console_level_) IN logger' = IF l = Error THEN Info ELSE l
     \/ initialised' = "aborted" /\ UNCHANGED <<logger, file_sink, console_sink>>
  /\ UNCHANGED <<level_, console_level_, late, dumped>>

(* The interceptor returns unless the logger is at trace or debug, and     *)
(* logs what it sees of the call at debug.                                 *)
Intercept ==
  /\ initialised = "yes"
  /\ dumped' = (logger \in {Trace, Debug} /\ file_sink <= Debug)
  /\ UNCHANGED <<level_, console_level_, initialised, logger, file_sink, console_sink, late>>

LogInit ==
  /\ level_ = Info /\ console_level_ = Warn /\ initialised = "no"
  /\ logger = Info /\ file_sink = Info /\ console_sink = Info
  /\ late = FALSE /\ dumped = FALSE

LogNext == init \/ Intercept \/ \E l \in LogLevel : setLevel(l) \/ setConsoleLevel(l)

(* What each sink writes is what was asked for when the logger was set up. *)
(* A setter called later can make the file coarser but never finer than    *)
(* that, and no sequence of calls makes a sink write more than the last    *)
(* level asked for.  The interceptor writes calls only to a file that was  *)
(* set up at debug or finer.                                               *)
LevelsHonoured ==
  initialised = "yes" =>
    /\ ~late => /\ Coarser(logger, file_sink) = level_
                /\ Coarser(logger, console_sink) = console_level_
    /\ Coarser(logger, file_sink) >= Coarser(level_, file_sink)
    /\ Coarser(logger, console_sink) >= console_level_
    /\ dumped => file_sink <= Debug
=============================================================================
