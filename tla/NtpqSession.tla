----------------------------- MODULE NtpqSession -----------------------------
(***************************************************************************)
(* ntpq as a library and shell command (rtems-ntpq.c): one environment, a  *)
(* buffer with a stream that fills it, for the queries of all tasks.       *)
(* ntpq_lock is held by each library call; a query holds it while its      *)
(* handler talks to the server.  The shell command goes on without it, and *)
(* prints the library's buffer.                                            *)
(*                                                                         *)
(* Buffers and streams are numbered in the order of their creation, so     *)
(* that one that is gone differs from its successor.                       *)
(***************************************************************************)
EXTENDS Naturals

CONSTANTS
  Callers,
  MaxCreate,     \* bound: how many environments are created
  MaxQuery       \* bound: how many commands are given

ASSUME BoundsAssumption == MaxCreate \in Nat /\ MaxQuery \in Nat

None == 0        \* the null pointer, and no command

VARIABLES
  buffer,        \* rtems_ntpq_output_buf
  sized,         \* is rtems_ntpq_output_buf_size more than 0?
  outputfp,      \* rtems_ntpq_outputfp
  openStream,    \* the stream that is open, or None
  content,       \* the command whose output the buffer has, or None
  errorText,     \* the command rtems_ntpq_error_str is about, or None
  session,       \* the environments that a kept socket, or kept associations,
                 \* were opened in; None in it: while there was none
  lock,          \* the tasks that hold ntpq_lock: at most one
  at,            \* where the shell command of each task is
  command,       \* the number of its command
  answer,        \* the output copied for the caller of its query
  pointer,       \* the buffer its shell is about to print
  printed,       \* history: what its last command printed, or None
  created, given \* how many environments and commands there were

sessionVars == <<buffer, sized, outputfp, openStream, content, errorText, session, lock, at,
          command, answer, pointer, printed, created, given>>

SessionInit ==
  /\ buffer = None /\ sized = FALSE /\ outputfp = None /\ openStream = None
  /\ content = None /\ errorText = None /\ session = {}
  /\ lock = {}
  /\ at = [t \in Callers |-> "prompt"]
  /\ command = [t \in Callers |-> None] /\ answer = [t \in Callers |-> None]
  /\ pointer = [t \in Callers |-> None] /\ printed = [t \in Callers |-> None]
  /\ created = 0 /\ given = 0

Goto(t, place) == at' = [at EXCEPT ![t] = place]

-----------------------------------------------------------------------------
(* The library calls                                                       *)

\* Faulty: does not wait for the one who holds the mutex.
MutexIgnored(t) == TRUE

\* rtems_recursive_mutex_lock
MutexFree(t) == lock = {}

\* A command number is taken when a task enters a library call.
Enter(t) ==
  /\ at[t] = "prompt" /\ given < MaxQuery
  /\ given' = given + 1
  /\ command' = [command EXCEPT ![t] = given + 1]
  /\ printed' = [printed EXCEPT ![t] = None]

\* rtems_ntpq_verror; the shell prints the text later, without the mutex.
Error(t) == errorText' = given + 1 /\ Goto(t, "error")

\* rtems_ntpq_init: socket and associations of the last session go.
ForgetSession == session' = {}

\* rtems_ntpq_create: an open environment is an error ...
CreateAgain(t) ==
  /\ Enter(t) /\ MutexFree(t) /\ buffer # None
  /\ Error(t)
  /\ UNCHANGED <<buffer, sized, outputfp, openStream, content, session, lock, answer,
                 pointer, created>>

\* ... and so is no memory for the buffer, whose size stays set, ...
CreateNoMemory(t) ==
  /\ Enter(t) /\ MutexFree(t) /\ buffer = None
  /\ sized' = TRUE
  /\ Error(t)
  /\ UNCHANGED <<buffer, outputfp, openStream, content, session, lock, answer,
                 pointer, created>>

\* Faulty: the buffer stays.
KeepBuffer == buffer' = created + 1

\* free(rtems_ntpq_output_buf)
DropBuffer == buffer' = None

\* ... or no stream for it, which undoes the buffer; ...
CreateNoStream(t) ==
  /\ Enter(t) /\ MutexFree(t) /\ buffer = None /\ created < MaxCreate
  /\ created' = created + 1
  /\ DropBuffer /\ sized' = FALSE /\ outputfp' = None
  /\ Error(t)
  /\ UNCHANGED <<openStream, content, session, lock, answer, pointer>>

\* ... otherwise there is a buffer, zeroed, with its stream.
Create(t) ==
  /\ Enter(t) /\ MutexFree(t) /\ buffer = None /\ created < MaxCreate
  /\ created' = created + 1
  /\ buffer' = created + 1 /\ sized' = TRUE
  /\ outputfp' = created + 1 /\ openStream' = created + 1
  /\ content' = None /\ ForgetSession
  /\ UNCHANGED <<errorText, lock, at, answer, pointer>>

\* What rtems_ntpq_destroy does with the session.
EndSession == ForgetSession

\* rtems_ntpq_destroy: outputfp keeps the pointer to the closed stream.
Destroy(t) ==
  /\ Enter(t) /\ MutexFree(t)
  /\ IF buffer # None
     THEN buffer' = None /\ sized' = FALSE /\ openStream' = None /\ content' = None
     ELSE UNCHANGED <<buffer, sized, openStream, content>>
  /\ EndSession
  /\ UNCHANGED <<outputfp, errorText, lock, at, answer, pointer, created>>

\* rtems_ntpq_query: rtems_ntpq_create_check fails, or there is no argument.
QueryRefused(t) ==
  /\ Enter(t) /\ MutexFree(t)
  /\ Error(t)
  /\ UNCHANGED <<buffer, sized, outputfp, openStream, content, session, lock, answer,
                 pointer, created>>

\* Faulty: what an earlier query left in the buffer stays.
KeepContent == UNCHANGED content

\* fflush(rtems_ntpq_outputfp) and memset(rtems_ntpq_output_buf, 0, ...)
ClearContent == content' = None

\* rtems_ntpq_query: the command is unknown or an argument wrong.
QueryInvalid(t) ==
  /\ Enter(t) /\ MutexFree(t) /\ outputfp # None
  /\ ClearContent
  /\ Error(t)
  /\ UNCHANGED <<buffer, sized, outputfp, openStream, session, lock, answer, pointer,
                 created>>

\* rtems_ntpq_query: with a pointer to a stream, open or not, the handler is
\* called while the mutex is held.
QueryStarts(t) ==
  /\ Enter(t) /\ MutexFree(t) /\ outputfp # None
  /\ lock' = lock \cup {t}
  /\ Goto(t, "query")
  /\ ClearContent
  /\ UNCHANGED <<buffer, sized, outputfp, openStream, errorText, session, answer,
                 pointer, created>>

\* A size without a buffer makes memset() write through the null pointer: the
\* command goes on (QueryStarts), or stays there with the mutex.
QueryFaults(t) ==
  /\ Enter(t) /\ MutexFree(t) /\ outputfp # None
  /\ buffer = None /\ sized
  /\ lock' = lock \cup {t}
  /\ Goto(t, "fault")
  /\ UNCHANGED <<buffer, sized, outputfp, openStream, content, errorText, session,
                 answer, pointer, created>>

\* The handler may connect to a server and ask it, also when its stream is closed,
\* and may lose the server it had; what it writes reaches the buffer of the stream,
\* if there is one.
Handler(t) ==
  /\ at[t] = "query"
  /\ Goto(t, "handled")
  /\ session' \in {{}, session, session \cup {buffer}}
  /\ content' \in {content, IF openStream # None THEN command[t] ELSE content}
  /\ UNCHANGED <<buffer, sized, outputfp, openStream, errorText, lock, command, answer,
                 pointer, printed, created, given>>

\* memcpy(output, ...) of what the buffer has, nothing of none, and the mutex is
\* given back.
QueryReturns(t) ==
  /\ at[t] = "handled"
  /\ answer' = [answer EXCEPT ![t] = content]
  /\ lock' = lock \ {t}
  /\ Goto(t, "answered")
  /\ UNCHANGED <<buffer, sized, outputfp, openStream, content, errorText, session, command,
                 pointer, printed, created, given>>

-----------------------------------------------------------------------------
(* rtems_shell_ntpq_command behind the library call                        *)

\* rtems_ntpq_output: the mutex is held while the pointer is read ...
GetOutput(t) ==
  /\ at[t] = "answered" /\ MutexFree(t)
  /\ pointer' = [pointer EXCEPT ![t] = buffer]
  /\ Goto(t, "print")
  /\ UNCHANGED <<buffer, sized, outputfp, openStream, content, errorText, session, lock,
                 command, answer, printed, created, given>>

\* ... and not while what it points to is printed.
PrintOutput(t) ==
  /\ at[t] = "print"
  /\ printed' = [printed EXCEPT ![t] =
                   IF pointer[t] = buffer /\ buffer # None THEN content ELSE None]
  /\ Goto(t, "prompt")
  /\ UNCHANGED <<buffer, sized, outputfp, openStream, content, errorText, session, lock,
                 command, answer, pointer, created, given>>

\* printf("%s\n", rtems_ntpq_error_text())
PrintError(t) ==
  /\ at[t] = "error"
  /\ printed' = [printed EXCEPT ![t] = errorText]
  /\ Goto(t, "prompt")
  /\ UNCHANGED <<buffer, sized, outputfp, openStream, content, errorText, session, lock,
                 command, answer, pointer, created, given>>

\* No step is left when the bound is reached, or while one stays with the mutex.
SessionNext == \E t \in Callers :
  \/ CreateAgain(t) \/ CreateNoMemory(t) \/ CreateNoStream(t) \/ Create(t)
  \/ Destroy(t)
  \/ QueryRefused(t) \/ QueryInvalid(t) \/ QueryStarts(t) \/ QueryFaults(t)
  \/ Handler(t) \/ QueryReturns(t)
  \/ GetOutput(t) \/ PrintOutput(t) \/ PrintError(t)

SessionSpec == SessionInit /\ [][SessionNext]_sessionVars

-----------------------------------------------------------------------------
(* Properties                                                              *)

Commands == 0..MaxQuery

\* Every variable has its type, and ntpq_lock is with the one task whose query
\* runs.
SessionTypeOK ==
  /\ buffer \in 0..MaxCreate /\ sized \in BOOLEAN
  /\ outputfp \in 0..MaxCreate /\ openStream \in 0..MaxCreate
  /\ content \in Commands /\ errorText \in Commands /\ session \subseteq 0..MaxCreate
  /\ lock = {t \in Callers : at[t] \in {"query", "fault", "handled"}}
  /\ \A t, u \in lock : t = u
  /\ at \in [Callers -> {"prompt", "query", "fault", "handled", "answered", "print",
                         "error"}]
  /\ command \in [Callers -> Commands] /\ answer \in [Callers -> Commands]
  /\ pointer \in [Callers -> 0..MaxCreate] /\ printed \in [Callers -> Commands]
  /\ created \in 0..MaxCreate /\ given \in 0..MaxQuery

\* There is a buffer exactly while the stream that fills it is open, whatever
\* call failed halfway, and socket and associations are of the environment there
\* is: one that is opened inherits no session, not even that of a command which
\* ran while none was open, and one that is closed leaves none behind.
EnvironmentIsWhole ==
  /\ buffer = openStream
  /\ buffer # None => outputfp = buffer
  /\ session \subseteq {buffer}

\* A query hands its caller its own output, or none: never what another query or
\* task left in the buffer.
AnswerIsOwn ==
  \A t \in Callers :
    at[t] \in {"answered", "print"} => answer[t] \in {None, command[t]}

-----------------------------------------------------------------------------
(* What the repository says and the code does not keep                     *)

\* "Call this function before making a query" (rtems_ntpq_create in ntpq.h), which
\* rtems_ntpq_create_check is there to enforce: a query that passes has an
\* environment.
QueryHasEnvironment == \A t \in Callers : at[t] = "query" => openStream # None

\* "we protect usage with single mutex from the user interface" (rtems-ntpq.c):
\* a task's command prints its own output or its own error.
PrintsOwn ==
  \A t \in Callers : at[t] = "prompt" => printed[t] \in {None, command[t]}
=============================================================================
