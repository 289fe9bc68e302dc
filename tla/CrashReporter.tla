---------------------------- MODULE CrashReporter ----------------------------
(***************************************************************************)
(* The crash reporter of src/common/errors.c and the logger of             *)
(* src/common/log.c, in a process of several threads such as               *)
(* examples/minimal_cluster/runtime_example.c: the thread Main installs    *)
(* the reporter, and shuts the log down when it has joined the others.     *)
(* Any thread may fault, in its own code or inside the allocator, whose    *)
(* lock it then keeps: a step of the handler that allocates waits for it.  *)
(* (A lock held by a thread that runs is released soon and not modelled.)  *)
(* The handler's steps interleave with everything else.  The user answers  *)
(* the prompt; uploading is left out.                                      *)
(***************************************************************************)
EXTENDS Naturals, FiniteSets

CONSTANTS Main, Other, FatalSignal, Nobody

ASSUME CrashAssumption == Main \notin Other /\ IsFiniteSet(Other) /\ Nobody \notin Other \cup {Main}

VARIABLES action,     \* disposition of each signal
          handling,   \* handling_event
          log,        \* log_file: open, closed (fclose returned), null
          report,     \* the report on disk: none, partial, whole
          heap,       \* faulted thread that keeps the allocator's lock
          at, sig,    \* where each thread is; the signal it handles
          alive,
          caught, faults, refused, closes, torn, misused
   \* history: first fault went to the handler; faults so far; a report could not be
   \* created or written; times the log was closed; main faulted between fclose and
   \* NULL; log_file was used after fclose

crashVars == <<action, handling, log, report, heap, at, sig, alive,
               caught, faults, refused, closes, torn, misused>>
history == <<caught, faults, refused, closes, torn, misused>>

CrashThread == Other \cup {Main}

CrashInit ==
  /\ action = [s \in FatalSignal |-> "default"] /\ handling = FALSE
  /\ log = "open" /\ report = "none" /\ heap = Nobody
  /\ at = [t \in CrashThread |-> "run"] /\ sig \in [CrashThread -> {CHOOSE s \in FatalSignal : TRUE}]
  /\ alive = TRUE
  /\ caught = FALSE /\ faults = 0 /\ refused = FALSE /\ closes = 0
  /\ torn = FALSE /\ misused = FALSE

Move(t, from, to) == alive /\ at[t] = from /\ at' = [at EXCEPT ![t] = to]

(* error_reporter_install, before any fault was handled; again, it changes
   nothing. *)
error_reporter_install ==
  /\ alive /\ at[Main] = "run" /\ faults = 0
  /\ action' = [s \in FatalSignal |-> "report"]
  /\ UNCHANGED <<handling, log, report, heap, at, sig, alive, history>>

(* A fault outside the handler, in the thread's own code, inside the
   allocator, or in log_shutdown at the end of main, before log_file is NULL
   or after: the kernel acts by the disposition. *)
Fault(t) ==
  /\ alive /\ at[t] \in {"run", "log", "ending", "exit"}
  /\ heap' \in {heap, IF heap = Nobody /\ at[t] = "run" THEN t ELSE heap}
  /\ \E s \in FatalSignal :
       /\ sig' = [sig EXCEPT ![t] = s]
       /\ IF action[s] = "report"
          THEN at' = [at EXCEPT ![t] = "entry"] /\ UNCHANGED alive
          ELSE alive' = FALSE /\ UNCHANGED at
       /\ caught' = IF faults = 0 THEN action[s] = "report" ELSE caught
  /\ faults' = faults + 1 /\ torn' = (torn \/ at[t] = "ending")
  /\ UNCHANGED <<action, handling, log, report, refused, closes, misused>>

(* A fault of the handler itself: its own signal is blocked and kills, for
   another one handle_crash_event returns at once and the raise kills. *)
FaultAgain(t) ==
  /\ alive /\ at[t] \in {"note", "write", "ask", "closing"}
  /\ alive' = FALSE /\ faults' = faults + 1
  /\ UNCHANGED <<action, handling, log, report, heap, at, sig, caught, refused, closes, torn, misused>>

-----------------------------------------------------------------------------
(* log_write: log_file is tested, and read again by fprintf. *)
log_write(t) ==
  \/ /\ log # "null" /\ Move(t, "run", "log")
     /\ UNCHANGED <<action, handling, log, report, heap, sig, alive, history>>
  \/ /\ log # "null" /\ Move(t, "log", "run")
     /\ misused' = (misused \/ log = "closed")
     /\ UNCHANGED <<action, handling, log, report, heap, sig, alive, caught, faults, refused, closes, torn>>

(* log_shutdown: fclose, then NULL; a thread that finds NULL goes on. *)
Close(t, from, closing, next) ==
  /\ IF log = "null" THEN Move(t, from, next) /\ UNCHANGED <<log, closes>>
     ELSE Move(t, from, closing) /\ log' = "closed" /\ closes' = closes + 1
  /\ UNCHANGED <<action, handling, report, heap, sig, alive, caught, faults, refused, torn, misused>>

SetNull(t, closing, next) ==
  /\ Move(t, closing, next) /\ log' = "null"
  /\ UNCHANGED <<action, handling, report, heap, sig, alive, history>>

(* A thread returns. *)
Finish(t) ==
  /\ t \in Other /\ Move(t, "run", "ended")
  /\ UNCHANGED <<action, handling, log, report, heap, sig, alive, history>>

(* Mutant of MainEnds: main does not wait for the others. *)
MainEndsEarly ==
  \/ at[Main] = "run" /\ Close(Main, "run", "ending", "exit")
  \/ SetNull(Main, "ending", "exit")
  \/ /\ Move(Main, "exit", "ended") /\ alive' = FALSE
     /\ UNCHANGED <<action, handling, log, report, heap, sig, history>>

(* The end of main: join, log_shutdown, return. *)
MainEnds ==
  \/ (\A t \in Other : at[t] = "ended") /\ Close(Main, "run", "ending", "exit")
  \/ SetNull(Main, "ending", "exit")
  \/ /\ Move(Main, "exit", "ended") /\ alive' = FALSE
     /\ UNCHANGED <<action, handling, log, report, heap, sig, history>>

-----------------------------------------------------------------------------
(* Mutant of Enter: the flag is tested, then set. *)
EnterTestThenSet(t) ==
  /\ \/ handling /\ Move(t, "entry", "reset") /\ UNCHANGED handling
     \/ ~handling /\ Move(t, "entry", "set") /\ UNCHANGED handling
     \/ Move(t, "set", "note") /\ handling' = TRUE
  /\ UNCHANGED <<action, log, report, heap, sig, alive, history>>

(* handle_crash_event takes handling_event, or returns. *)
Enter(t) ==
  /\ \/ handling /\ Move(t, "entry", "reset") /\ UNCHANGED handling
     \/ ~handling /\ Move(t, "entry", "note") /\ handling' = TRUE
  /\ UNCHANGED <<action, log, report, heap, sig, alive, history>>

(* Its log_error, and asprintf and fopen of create_report_file, which need
   the allocator; the name holds pid and second, an earlier report of the
   same second is truncated. *)
Create(t) ==
  /\ heap = Nobody /\ Move(t, "note", "write") /\ report' = "partial"
  /\ misused' = (misused \/ log = "closed")
  /\ UNCHANGED <<action, handling, log, heap, sig, alive, caught, faults, refused, closes, torn>>

CreateFails(t) ==
  /\ heap = Nobody /\ Move(t, "note", "reset") /\ handling' = FALSE /\ refused' = TRUE
  /\ misused' = (misused \/ log = "closed")
  /\ UNCHANGED <<action, log, report, heap, sig, alive, caught, faults, closes, torn>>

(* Mutant of Write: the report is not closed, what is buffered is lost. *)
WriteUnflushed(t) ==
  /\ heap = Nobody /\ Move(t, "write", "ask")
  /\ UNCHANGED <<action, handling, log, report, heap, sig, alive, history>>

(* The backtrace, the log's tail, fclose; that a write fails is not noticed. *)
Write(t) ==
  /\ heap = Nobody /\ Move(t, "write", "ask")
  /\ \/ report' = "whole" /\ UNCHANGED refused
     \/ refused' = TRUE /\ UNCHANGED report
  /\ UNCHANGED <<action, handling, log, heap, sig, alive, caught, faults, closes, torn, misused>>

(* prompt_user_yesno and log_info, then log_shutdown. *)
Shutdown(t) == Close(t, "ask", "closing", "clear") \/ SetNull(t, "closing", "clear")

ClearFlag(t) ==
  /\ Move(t, "clear", "reset") /\ handling' = FALSE
  /\ UNCHANGED <<action, log, report, heap, sig, alive, history>>

(* Mutant of Reset: the handler stays installed. *)
ResetForgotten(t) ==
  /\ Move(t, "reset", "raise")
  /\ UNCHANGED <<action, handling, log, report, heap, sig, alive, history>>

Reset(t) ==
  /\ Move(t, "reset", "raise") /\ action' = [action EXCEPT ![sig[t]] = "default"]
  /\ UNCHANGED <<handling, log, report, heap, sig, alive, history>>

(* raise: the signal is delivered when the handler returns. *)
Raise(t) ==
  /\ Move(t, "raise", IF action[sig[t]] = "report" THEN "entry" ELSE "raise")
  /\ alive' = (action[sig[t]] = "report")
  /\ UNCHANGED <<action, handling, log, report, heap, sig, history>>

Handler(t) ==
  Enter(t) \/ Create(t) \/ CreateFails(t) \/ Write(t) \/ Shutdown(t) \/ ClearFlag(t) \/ Reset(t) \/ Raise(t)

CrashNext ==
  \/ error_reporter_install \/ MainEnds
  \/ \E t \in CrashThread :
       Fault(t) \/ FaultAgain(t) \/ log_write(t) \/ Finish(t) \/ Handler(t)

CrashSpec == CrashInit /\ [][CrashNext]_crashVars

-----------------------------------------------------------------------------
Reporting(t) == at[t] \in {"note", "write", "ask", "closing", "clear"}

(***************************************************************************)
(* handling_event is set exactly while a thread makes a report, and never  *)
(* do two: two faults at once do not write the same file or close the log  *)
(* together, and on every way out the flag is cleared, so that a later     *)
(* fault is not turned away (handle_crash_event).                          *)
(***************************************************************************)
OneReporter ==
  Cardinality({t \in CrashThread : Reporting(t)}) = IF handling THEN 1 ELSE 0

(***************************************************************************)
(* A process killed by a fault leaves a whole report when the handler was  *)
(* installed and the file could be created and written, unless a second    *)
(* fault came while the first was handled: that one finds handling_event   *)
(* set, and its raise kills the process under the first                    *)
(* (crash_signal_handler).                                                 *)
(***************************************************************************)
ReportWhole == ~alive /\ caught /\ faults = 1 /\ ~refused => report = "whole"

(***************************************************************************)
(* In a run without faults log_file is never used after fclose: the        *)
(* threads are joined before main shuts the log down.  With faults, no     *)
(* lock keeps the handler from closing it under a thread that writes, but  *)
(* it is never closed twice, however many threads fault and whether or not *)
(* main is at its end, unless main faults inside its own log_shutdown,     *)
(* between fclose and NULL (log_write, log_shutdown, handle_crash_event).  *)
(***************************************************************************)
LogUsedOpen == (misused => faults > 0) /\ (closes > 1 => torn)

(***************************************************************************)
(* A fault the handler takes ends the process, unless a thread faulted     *)
(* inside the allocator and waits there for itself for ever                *)
(* (crash_signal_handler, create_report_file).                             *)
(***************************************************************************)
FaultKills ==
  (\E t \in CrashThread : at[t] = "entry") ~>
    (~alive \/ \E t \in CrashThread : heap = t /\ at[t] \in {"note", "write"})
=============================================================================
