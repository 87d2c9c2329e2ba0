------------------------------ MODULE DiagLog ------------------------------
(***************************************************************************)
(* utilities/diag.hpp: the log that every hook writes to, on whatever      *)
(* thread of the host it runs.  A line is numbered first; then the thread  *)
(* tries the lock a fixed number of times and, if it does not get it,      *)
(* drops the line, so that no thread of the host waits for a writer that   *)
(* has stopped.  A fault of the thread that has the lock runs the          *)
(* exception handler, which writes to the log itself.  The thread that     *)
(* unloads the module closes the file without taking the lock.             *)
(*                                                                         *)
(* What a line says is left out, and so are the console and the debugger.  *)
(***************************************************************************)
EXTENDS Naturals, FiniteSets

CONSTANTS
  Writers, NoOne,
  Closer,     \* the one that unloads the module
  Attempts,   \* how often the lock is tried (64)
  MaxLines    \* bound of the model: lines written in all

ASSUME DiagLogAssumption ==
  /\ Closer \in Writers /\ NoOne \notin Writers
  /\ Attempts \in Nat \ {0} /\ MaxLines \in Nat

VARIABLES
  pc,         \* thread -> where it is in write, or idle, or stopped
  line,       \* thread -> the number of the line it writes, or 0
  tries,      \* thread -> failed attempts at the lock
  lock,       \* g_log_lock, with who has it
  sequence,   \* g_log_sequence
  dropped,    \* g_log_dropped
  handle,     \* g_log_file is not null
  open,       \* the file it names is open
  written,    \* numbers of the lines in the file
  closing,    \* what the closer is at in shutdown
  refused,    \* history: lines of a handler inside write
  unfiled,    \* history: lines for which there was no file, or no longer
  met,        \* history: a line was between its test of the handle and its end when the file was closed
  strayed     \* history: a line was written to a handle that is closed

logVars == <<pc, line, tries, lock, sequence, dropped, handle, open, written, closing, refused,
          unfiled, met, strayed>>

shared == <<lock, sequence, dropped, handle, open, written, refused, unfiled, met, strayed>>

LogInit ==
  /\ pc = [t \in Writers |-> "idle"] /\ line = [t \in Writers |-> 0]
  /\ tries = [t \in Writers |-> 0]
  /\ lock = NoOne /\ sequence = 0 /\ dropped = 0
  /\ handle \in BOOLEAN /\ open = handle
  /\ written = {} /\ closing = "no" /\ refused = 0 /\ unfiled = 0
  /\ met = FALSE /\ strayed = FALSE

----------------------------------------------------------------------------
(* write                                                                     *)

Goes(t, from, to) == pc[t] = from /\ pc' = [pc EXCEPT ![t] = to]
Done(t) == line' = [line EXCEPT ![t] = 0]

\* The line is numbered before the lock is taken.
Number(t) ==
  /\ Goes(t, "idle", "acquire") /\ sequence < MaxLines
  /\ sequence' = sequence + 1
  /\ line' = [line EXCEPT ![t] = sequence + 1] /\ tries' = [tries EXCEPT ![t] = 0]

Begin(t) ==
  /\ t = Closer => closing = "no"
  /\ Number(t)
  /\ UNCHANGED <<lock, dropped, handle, open, written, closing, refused, unfiled, met, strayed>>

Lock(t) ==
  /\ Goes(t, "acquire", "test") /\ tries[t] < Attempts
  /\ lock = NoOne /\ lock' = t
  /\ UNCHANGED <<line, tries, sequence, dropped, handle, open, written, closing, refused,
                 unfiled, met, strayed>>

Try(t) ==
  /\ pc[t] = "acquire" /\ lock # NoOne /\ tries[t] < Attempts
  /\ tries' = [tries EXCEPT ![t] = tries[t] + 1]
  /\ UNCHANGED <<pc, line, closing, shared>>

\* Wrong variant: the dropped line is not counted.
DropSilently(t) ==
  /\ Goes(t, "acquire", "idle") /\ tries[t] = Attempts /\ Done(t)
  /\ UNCHANGED <<tries, closing, shared>>

\* Wrong variant: the thread waits for the lock.
WaitForLock(t) ==
  /\ pc[t] = "acquire" /\ tries[t] = Attempts
  /\ tries' = [tries EXCEPT ![t] = 0]
  /\ UNCHANGED <<pc, line, closing, shared>>

Drop(t) ==
  /\ Goes(t, "acquire", "idle") /\ tries[t] = Attempts /\ Done(t)
  /\ dropped' = dropped + 1
  /\ UNCHANGED <<tries, lock, sequence, handle, open, written, closing, refused, unfiled,
                 met, strayed>>

TestFile(t) ==
  /\ IF handle THEN Goes(t, "test", "write") /\ UNCHANGED <<line, unfiled>>
     ELSE Goes(t, "test", "release") /\ Done(t) /\ unfiled' = unfiled + 1
  /\ met' = (met \/ (handle /\ ~open))
  /\ UNCHANGED <<tries, lock, sequence, dropped, handle, open, written, closing, refused, strayed>>

\* WriteFile and the flush. To a handle that is closed nothing is written; the name of the
\* handle is read again, or not, so that it may be gone by now.
WriteLine(t) ==
  /\ Goes(t, "write", "release") /\ Done(t)
  /\ \/ open /\ written' = written \cup {line[t]} /\ UNCHANGED <<unfiled, strayed>>
     \/ ~open /\ strayed' = TRUE /\ unfiled' = unfiled + 1 /\ UNCHANGED written
     \/ ~handle /\ unfiled' = unfiled + 1 /\ UNCHANGED <<written, strayed>>
  /\ UNCHANGED <<tries, lock, sequence, dropped, handle, open, closing, refused, met>>

Release(t) ==
  /\ Goes(t, "release", "idle") /\ lock' = NoOne
  /\ UNCHANGED <<line, tries, sequence, dropped, handle, open, written, closing, refused,
                 unfiled, met, strayed>>

----------------------------------------------------------------------------
(* Faults                                                                    *)

Holds(t) == pc[t] \in {"test", "write", "release"}

\* Wrong variant: the refused line releases the lock.
RefuseAndRelease(t) ==
  /\ Holds(t) /\ sequence < MaxLines
  /\ sequence' = sequence + 1 /\ refused' = refused + 1 /\ lock' = NoOne
  /\ UNCHANGED <<pc, line, tries, dropped, handle, open, written, closing, unfiled, met, strayed>>

\* The handler runs on the thread that has the lock: its line is numbered, and refused by
\* the flag of the thread without a count.
WriteInHandler(t) ==
  /\ Holds(t) /\ sequence < MaxLines
  /\ sequence' = sequence + 1 /\ refused' = refused + 1
  /\ UNCHANGED <<pc, line, tries, lock, dropped, handle, open, written, closing, unfiled,
                 met, strayed>>

\* The thread is ended by its host, or stopped, with the lock or without.
Stop(t) ==
  /\ t # Closer /\ pc[t] \notin {"idle", "stopped"}
  /\ pc' = [pc EXCEPT ![t] = "stopped"]
  /\ UNCHANGED <<line, tries, closing, shared>>

----------------------------------------------------------------------------
(* shutdown                                                                  *)

\* Two last lines, if there is a file ...
LastLine(from, to) ==
  /\ closing = from /\ handle /\ closing' = to
  /\ Number(Closer)
  /\ UNCHANGED <<lock, dropped, handle, open, written, refused, unfiled, met, strayed>>

\* ... then it is closed, whoever writes to it, ...
CloseFile ==
  /\ closing = "second" /\ pc[Closer] = "idle" /\ closing' = "closed"
  /\ open' = FALSE /\ met' = (met \/ \E t \in Writers : pc[t] = "write")
  /\ UNCHANGED <<pc, line, tries, lock, sequence, dropped, handle, written, refused, unfiled, strayed>>

\* ... and forgotten.
ForgetFile ==
  /\ closing = "closed" /\ closing' = "done" /\ handle' = FALSE
  /\ UNCHANGED <<pc, line, tries, lock, sequence, dropped, open, written, refused, unfiled, met, strayed>>

WriteStep(t) == Lock(t) \/ Try(t) \/ Drop(t) \/ TestFile(t) \/ WriteLine(t) \/ Release(t)

Shutdown == LastLine("no", "first") \/ LastLine("first", "second") \/ CloseFile \/ ForgetFile

LogNext ==
  \/ \E t \in Writers : Begin(t) \/ WriteStep(t) \/ WriteInHandler(t) \/ Stop(t)
  \/ Shutdown

\* The host's threads run, unless they are stopped; none has to begin a line.
Fairness == \A t \in Writers : WF_logVars(WriteStep(t))

LogSpec == LogInit /\ [][LogNext]_logVars /\ Fairness

----------------------------------------------------------------------------
(* Properties                                                                *)

Missing == (1..sequence) \ written
InHand == {t \in Writers : line[t] # 0}

\* Every number that is not in the file is the number of a line that a thread has in hand,
\* that was dropped and counted, that the handler wrote, or for which there was no file:
\* the count that shutdown prints explains the gaps only up to the last two.
LinesAccounted ==
  /\ Cardinality(Missing) = dropped + refused + unfiled + Cardinality(InHand)
  /\ \A t \in InHand : line[t] \in Missing

\* One thread at a time uses the file, and the handle is used after it is closed only if
\* shutdown, which takes no lock, came between the test and the write, or between the close
\* and the end of the name.
FileIsSafe ==
  /\ \A t, u \in Writers : Holds(t) /\ Holds(u) => t = u
  /\ strayed => met

\* A thread that writes a line comes to its end or is stopped, also when another stopped
\* with the lock.
WritesEnd == \A t \in Writers : pc[t] # "idle" ~> pc[t] \in {"idle", "stopped"}
============================================================================
