-------------------------- MODULE ServiceLifecycle --------------------------
(***************************************************************************)
(* The start and stop commands of web/saaoe_cli.py, the server processes   *)
(* they manage and the file saaoe.pid.json that connects the two.          *)
(*                                                                         *)
(* Nothing excludes two commands at once.  A command keeps what it has     *)
(* read of the file or of the process table while others change both, and  *)
(* a process identifier may meanwhile belong to another program.           *)
(*                                                                         *)
(* A creation time is a number that no two processes share, so equal means *)
(* within the five seconds of _matched_process.  Configuration, preflight  *)
(* and log file are left out: they end the command before it has changed   *)
(* anything.                                                               *)
(***************************************************************************)
EXTENDS Naturals

CONSTANTS
  Commands,   \* command-line processes
  Pids,
  NoPid,
  MaxBirths   \* bound on the processes created, for model checking

ASSUME NoPidIsNotAPid     == NoPid \notin Pids
ASSUME MaxBirthsIsNatural == MaxBirths \in Nat

VARIABLES
  births,     \* processes created so far; the last creation time
  processes,  \* processes[i]: the process that has identifier i
  port,       \* the process that listens on SAAOE_PORT
  PID_FILE,   \* the metadata, or that there is none or an unreadable one
  commands,   \* commands[c]: what command c does
  disturbed   \* history: two commands have overlapped, or one was killed

vars == <<births, processes, port, PID_FILE, commands, disturbed>>

Absent     == [state |-> "absent"]
Unreadable == [state |-> "unreadable"]
Metadata(pid, create_time) ==
  [state |-> "written", pid |-> pid, create_time |-> create_time]

NoProcess == [program |-> "none", create_time |-> 0]
Idle == [pc |-> "idle"]

Init ==
  /\ births = 0
  /\ processes = [i \in Pids |-> NoProcess]
  /\ port = NoPid
  /\ PID_FILE = Absent
  /\ commands = [c \in Commands |-> Idle]
  /\ disturbed = FALSE

-----------------------------------------------------------------------------
(* Processes *)

Alive(pid, create_time) ==
  /\ processes[pid].program # "none"
  /\ processes[pid].create_time = create_time

\* A free identifier goes to a new process.
Create(pid, program) ==
  /\ births < MaxBirths
  /\ processes[pid] = NoProcess
  /\ births' = births + 1
  /\ processes' = [processes EXCEPT ![pid] =
                     [program |-> program, create_time |-> births + 1]]

\* The process ends, and what it listened on is free.
Kill(pid) ==
  /\ processes' = [processes EXCEPT ![pid] = NoProcess]
  /\ port' = IF port = pid THEN NoPid ELSE port

\* Variant: the identifier alone tells the process.
MatchedByPid(meta) ==
  meta.state = "written" /\ processes[meta.pid].program # "none"

\* The recorded process: identifier, creation time and command line agree.
_matched_process(meta) ==
  /\ meta.state = "written"
  /\ Alive(meta.pid, meta.create_time)
  /\ processes[meta.pid].program = "server"

\* run: a server that gets the port serves, one that does not ends.
Serve(pid) ==
  /\ processes[pid].program = "server"
  /\ port = NoPid
  /\ port' = pid
  /\ UNCHANGED <<births, processes, PID_FILE, commands, disturbed>>

\* Any process may end by itself.
Exit(pid) ==
  /\ processes[pid] # NoProcess
  /\ Kill(pid)
  /\ UNCHANGED <<births, PID_FILE, commands, disturbed>>

\* Programs that have nothing to do with the service come and go.
OtherProgram(pid) ==
  /\ Create(pid, "other")
  /\ UNCHANGED <<port, PID_FILE, commands, disturbed>>

-----------------------------------------------------------------------------
(* start *)

At(c, pc)      == commands[c].pc = pc
Goto(c, pc)    == commands' = [commands EXCEPT ![c].pc = pc]
Finish(c)      == commands' = [commands EXCEPT ![c] = Idle]
OthersIdle(c)  == \A d \in Commands \ {c} : At(d, "idle")

\* pid and create_time are those of the server that a start has created;
\* meta is what has been read, handle the creation time of the process that
\* was found for it.
Command(pc) ==
  [pc |-> pc, pid |-> NoPid, create_time |-> 0, meta |-> Absent, handle |-> 0]

\* The port is free and the preflight passes.
StartCommand(c) ==
  /\ At(c, "idle")
  /\ port = NoPid
  /\ commands' = [commands EXCEPT ![c] = Command("popen")]
  /\ disturbed' = (disturbed \/ ~OthersIdle(c))
  /\ UNCHANGED <<births, processes, port, PID_FILE>>

Popen(c) ==
  /\ At(c, "popen")
  /\ \E pid \in Pids :
       /\ Create(pid, "server")
       /\ commands' = [commands EXCEPT ![c].pc = "record", ![c].pid = pid,
                                       ![c].create_time = births + 1]
  /\ UNCHANGED <<port, PID_FILE, disturbed>>

\* write_text truncates the file before it writes.
TruncateMetadata(c) ==
  /\ At(c, "record")
  /\ PID_FILE' = Unreadable
  /\ Goto(c, "write")
  /\ UNCHANGED <<births, processes, port, disturbed>>

WriteMetadata(c) ==
  /\ At(c, "write")
  /\ PID_FILE' = Metadata(commands[c].pid, commands[c].create_time)
  /\ Goto(c, "poll")
  /\ UNCHANGED <<births, processes, port, disturbed>>

\* Whoever answers /healthz, the start has succeeded.
StartSucceeds(c) ==
  /\ At(c, "poll")
  /\ port # NoPid
  /\ Finish(c)
  /\ UNCHANGED <<births, processes, port, PID_FILE, disturbed>>

\* Variant: a failed start cleans the file up and leaves the process.
StartFailsUnlinking(c) ==
  /\ At(c, "poll")
  /\ Goto(c, "unlink")
  /\ UNCHANGED <<births, processes, port, PID_FILE, disturbed>>

\* The child has ended, or HEALTH_TIMEOUT_SECONDS are over.
StartFails(c) ==
  /\ At(c, "poll")
  /\ Goto(c, "read")
  /\ UNCHANGED <<births, processes, port, PID_FILE, disturbed>>

-----------------------------------------------------------------------------
(* stop, which start calls when it fails *)

StopCommand(c) ==
  /\ At(c, "idle")
  /\ commands' = [commands EXCEPT ![c] = Command("read")]
  /\ disturbed' = (disturbed \/ ~OthersIdle(c))
  /\ UNCHANGED <<births, processes, port, PID_FILE>>

\* _metadata
ReadMetadata(c) ==
  /\ At(c, "read")
  /\ PID_FILE # Absent
  /\ commands' = [commands EXCEPT ![c].pc = "match", ![c].meta = PID_FILE]
  /\ UNCHANGED <<births, processes, port, PID_FILE, disturbed>>

NothingRecorded(c) ==
  /\ At(c, "read")
  /\ PID_FILE = Absent
  /\ Finish(c)
  /\ UNCHANGED <<births, processes, port, PID_FILE, disturbed>>

Match(c) ==
  /\ At(c, "match")
  /\ _matched_process(commands[c].meta)
  /\ commands' = [commands EXCEPT
       ![c].pc = "terminate",
       ![c].handle = processes[commands[c].meta.pid].create_time]
  /\ UNCHANGED <<births, processes, port, PID_FILE, disturbed>>

\* "stale runtime metadata": the command ends and leaves the file.
StaleMetadata(c) ==
  /\ At(c, "match")
  /\ ~_matched_process(commands[c].meta)
  /\ Finish(c)
  /\ UNCHANGED <<births, processes, port, PID_FILE, disturbed>>

\* The process handle refuses to signal a later process of its identifier.
HandleAlive(c) == Alive(commands[c].meta.pid, commands[c].handle)

\* Variant: a graceful stop that was not obeyed is taken for one that was.
TerminateOnce(c) ==
  /\ At(c, "terminate")
  /\ HandleAlive(c)
  /\ Goto(c, "unlink")
  /\ \/ Kill(commands[c].meta.pid)
     \/ UNCHANGED <<processes, port>>
  /\ UNCHANGED <<births, PID_FILE, disturbed>>

\* terminate and wait: the process obeys within 8 seconds, or it does not.
Terminate(c) ==
  /\ At(c, "terminate")
  /\ HandleAlive(c)
  /\ \/ Kill(commands[c].meta.pid) /\ Goto(c, "unlink")
     \/ Goto(c, "rematch") /\ UNCHANGED <<processes, port>>
  /\ UNCHANGED <<births, PID_FILE, disturbed>>

\* The process ended before the signal: an exception ends the command.
TerminateRaises(c) ==
  /\ At(c, "terminate")
  /\ ~HandleAlive(c)
  /\ Finish(c)
  /\ UNCHANGED <<births, processes, port, PID_FILE, disturbed>>

\* Re-validated, and killed if it is still there.
ForceKill(c) ==
  LET meta == commands[c].meta IN
  /\ At(c, "rematch")
  /\ IF _matched_process(meta) THEN Kill(meta.pid)
                               ELSE UNCHANGED <<processes, port>>
  /\ Goto(c, "unlink")
  /\ UNCHANGED <<births, PID_FILE, disturbed>>

\* Variant: the file is emptied and not removed.
UnlinkMetadataEmptying(c) ==
  /\ At(c, "unlink")
  /\ PID_FILE' = [state |-> "empty"]
  /\ Finish(c)
  /\ UNCHANGED <<births, processes, port, disturbed>>

UnlinkMetadata(c) ==
  /\ At(c, "unlink")
  /\ PID_FILE' = Absent
  /\ Finish(c)
  /\ UNCHANGED <<births, processes, port, disturbed>>

-----------------------------------------------------------------------------
\* The command is interrupted, as by Ctrl-C; servers have their own session.
Interrupt(c) ==
  /\ ~At(c, "idle")
  /\ Finish(c)
  /\ disturbed' = TRUE
  /\ UNCHANGED <<births, processes, port, PID_FILE>>

\* The next step of a command that is not interrupted.
Proceed(c) ==
  \/ Popen(c) \/ TruncateMetadata(c) \/ WriteMetadata(c)
  \/ StartSucceeds(c) \/ StartFails(c)
  \/ ReadMetadata(c) \/ NothingRecorded(c) \/ Match(c) \/ StaleMetadata(c)
  \/ Terminate(c) \/ TerminateRaises(c) \/ ForceKill(c) \/ UnlinkMetadata(c)

Next ==
  \/ \E c \in Commands :
       StartCommand(c) \/ StopCommand(c) \/ Proceed(c) \/ Interrupt(c)
  \/ \E pid \in Pids : Serve(pid) \/ Exit(pid) \/ OtherProgram(pid)

Spec == Init /\ [][Next]_vars

-----------------------------------------------------------------------------
(* Properties *)

Process == [program : {"server", "other"}, create_time : Nat \ {0}] \cup {NoProcess}
Written == [state : {"written"}, pid : Pids, create_time : Nat \ {0}]
File    == {Absent, Unreadable} \cup Written
Running ==
  [ pc : { "popen", "record", "write", "poll", "read", "match", "terminate",
           "rematch", "unlink" },
    pid : Pids \cup {NoPid}, create_time : Nat, meta : File, handle : Nat ]

\* Processes, the file and commands keep their types.
TypeOK ==
  /\ births \in Nat
  /\ processes \in [Pids -> Process]
  /\ port \in Pids \cup {NoPid}
  /\ PID_FILE \in File
  /\ commands \in [Commands -> {Idle} \cup Running]
  /\ disturbed \in BOOLEAN

\* "`stop` terminates only the recorded SAAOE process": however commands
\* overlap and identifiers are reused, a process that a command ends is a
\* server, and the very one that was recorded when the command read the file.
OnlyRecordedIsEnded ==
  [][\A c \in Commands, pid \in Pids :
       /\ commands'[c] # commands[c]
       /\ processes[pid] # NoProcess
       /\ processes'[pid] # processes[pid]
       => /\ processes[pid].program = "server"
          /\ commands[c].meta = Metadata(pid, processes[pid].create_time)]_vars

\* A stop that goes on to remove the file has really stopped the process it
\* read of, also when that one ignored the signal or ended by itself.
StopIsHonest ==
  \A c \in Commands :
    At(c, "unlink") =>
      ~Alive(commands[c].meta.pid, commands[c].meta.create_time)

\* As long as commands run one after the other and to their end, there is never
\* a second server, and no server gets lost: one that is alive between two
\* commands is the recorded one, so status tells of it and stop can end it, and it
\* is the one that listens, so the next start is refused.
NoOrphan ==
  ~disturbed =>
    /\ \A i, j \in Pids :
         processes[i].program = "server" /\ processes[j].program = "server" => i = j
    /\ (\A c \in Commands : At(c, "idle")) =>
         \A pid \in Pids :
           processes[pid].program = "server" =>
             /\ PID_FILE = Metadata(pid, processes[pid].create_time)
             /\ port = pid
=============================================================================
