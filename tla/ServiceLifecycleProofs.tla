------------------------ MODULE ServiceLifecycleProofs ------------------------
(* Theorems about ServiceLifecycle for every value of its constants. *)
EXTENDS ServiceLifecycle, TLAPS

\* Every creation time that anybody has noted is in the past.
Past ==
  /\ \A i \in Pids : processes[i].create_time <= births
  /\ PID_FILE.state = "written" => PID_FILE.create_time <= births

\* What a command may rely on at its step.
CommandConsistent(c) ==
  LET q == commands[c] IN
  /\ q.pc \in {"record", "write"} =>
       q.pid \in Pids /\ q.create_time \in Nat \ {0} /\ q.create_time <= births
  /\ q.pc # "idle" /\ q.meta.state = "written" => q.meta.create_time <= births
  /\ q.pc \in {"terminate", "rematch", "unlink"} => q.meta \in Written
  /\ q.pc = "terminate" => q.handle = q.meta.create_time
  /\ q.pc \in {"terminate", "rematch"} =>
       (Alive(q.meta.pid, q.meta.create_time) => processes[q.meta.pid].program = "server")
  /\ q.pc = "unlink" => ~Alive(q.meta.pid, q.meta.create_time)

\* Only servers listen.
PortConsistent == port # NoPid => processes[port].program = "server"

IInv == TypeOK /\ Past /\ PortConsistent /\ \A c \in Commands : CommandConsistent(c)

\* How one step may change the process table.
Evolves ==
  /\ births' \in Nat /\ births <= births'
  /\ \A i \in Pids :
       \/ processes'[i] = processes[i]
       \/ processes'[i] = NoProcess
       \/ processes[i] = NoProcess /\ processes'[i].create_time > births

-----------------------------------------------------------------------------
(* Types *)

Pcs == {"popen", "record", "write", "poll", "read", "match", "terminate",
        "rematch", "unlink"}

LEMMA PlainValues ==
  /\ NoProcess \in Process /\ NoProcess.program = "none" /\ NoProcess.create_time = 0
  /\ Idle.pc = "idle"
  /\ Absent \in File /\ Unreadable \in File
  /\ Absent.state # "written" /\ Unreadable.state # "written"
  /\ \A pc \in Pcs : Command(pc) \in Running /\ Command(pc).pc = pc
                     /\ Command(pc).meta = Absent
BY DEF NoProcess, Process, Idle, Absent, Unreadable, File, Command, Running, Pcs

LEMMA WrittenMetadata ==
  ASSUME NEW i \in Pids, NEW t \in Nat \ {0}
  PROVE  /\ Metadata(i, t) \in Written /\ Metadata(i, t) \in File
         /\ Metadata(i, t).state = "written"
         /\ Metadata(i, t).pid = i /\ Metadata(i, t).create_time = t
BY DEF Metadata, Written, File

LEMMA FileIsWritten ==
  ASSUME NEW f \in File, f.state = "written"
  PROVE  f \in Written /\ f = Metadata(f.pid, f.create_time)
BY DEF File, Absent, Unreadable, Written, Metadata

LEMMA BusyIsRunning ==
  ASSUME TypeOK, NEW c \in Commands, commands[c].pc # "idle"
  PROVE  commands[c] \in Running
BY DEF TypeOK, Idle

LEMMA GotoTyped ==
  ASSUME TypeOK, NEW c \in Commands, commands[c].pc # "idle", NEW pc \in Pcs, Goto(c, pc)
  PROVE  /\ commands' \in [Commands -> {Idle} \cup Running]
         /\ commands'[c] = [commands[c] EXCEPT !.pc = pc]
         /\ \A d \in Commands \ {c} : commands'[d] = commands[d]
<1>1. commands[c] \in Running
  BY BusyIsRunning
<1>2. [commands[c] EXCEPT !.pc = pc] \in Running
  BY <1>1 DEF Running, Pcs
<1>3. commands' = [commands EXCEPT ![c] = [commands[c] EXCEPT !.pc = pc]]
  BY DEF Goto
<1> QED
  BY <1>2, <1>3 DEF TypeOK

LEMMA FinishTyped ==
  ASSUME TypeOK, NEW c \in Commands, Finish(c)
  PROVE  /\ commands' \in [Commands -> {Idle} \cup Running]
         /\ commands'[c] = Idle
         /\ \A d \in Commands \ {c} : commands'[d] = commands[d]
BY DEF Finish, TypeOK

LEMMA KillTyped ==
  ASSUME TypeOK, NEW i \in Pids, Kill(i)
  PROVE  /\ processes' \in [Pids -> Process] /\ port' \in Pids \cup {NoPid}
         /\ processes'[i] = NoProcess
         /\ \A j \in Pids \ {i} : processes'[j] = processes[j]
BY PlainValues DEF Kill, TypeOK

LEMMA CreateTyped ==
  ASSUME TypeOK, NEW i \in Pids, NEW program \in {"server", "other"}, Create(i, program)
  PROVE  /\ processes' \in [Pids -> Process] /\ births' = births + 1
         /\ births' \in Nat
         /\ processes[i] = NoProcess
         /\ processes'[i] = [program |-> program, create_time |-> births + 1]
         /\ \A j \in Pids \ {i} : processes'[j] = processes[j]
<1>1. [program |-> program, create_time |-> births + 1] \in Process
  BY DEF TypeOK, Process
<1> QED
  BY <1>1 DEF Create, TypeOK

\* The steps of a command.
LEMMA ProceedTyped ==
  ASSUME TypeOK, NEW c \in Commands, CommandConsistent(c), Proceed(c)
  PROVE  TypeOK' /\ \A d \in Commands \ {c} : commands'[d] = commands[d]
<1> DEFINE Others == \A d \in Commands \ {c} : commands'[d] = commands[d]
<1> HIDE DEF Others
<1>1. CASE Popen(c)
  <2>1. PICK i \in Pids : /\ Create(i, "server")
                          /\ commands' = [commands EXCEPT ![c].pc = "record", ![c].pid = i,
                                                          ![c].create_time = births + 1]
    BY <1>1 DEF Popen
  <2>2. commands[c] \in Running
    BY <1>1, BusyIsRunning DEF Popen, At
  <2>3. [commands[c] EXCEPT !.pc = "record", !.pid = i, !.create_time = births + 1] \in Running
    <3>1. births + 1 \in Nat
      BY DEF TypeOK
    <3>2. \A t \in Nat :
            [commands[c] EXCEPT !.pc = "record", !.pid = i, !.create_time = t] \in Running
      BY <2>2 DEF Running
    <3> QED
      BY <3>1, <3>2
  <2>4. /\ commands'[c] = [commands[c] EXCEPT !.pc = "record", !.pid = i,
                                              !.create_time = births + 1]
        /\ Others /\ commands' \in [Commands -> {Idle} \cup Running]
    BY <2>1, <2>3 DEF TypeOK, Others
  <2> QED
    BY <1>1, <2>1, <2>4, CreateTyped DEF Popen, TypeOK, Others
<1>2. CASE TruncateMetadata(c)
  <2>1. commands' \in [Commands -> {Idle} \cup Running] /\ Others
    BY <1>2, GotoTyped DEF TruncateMetadata, At, Pcs, Others
  <2> QED
    BY <1>2, <2>1, PlainValues DEF TruncateMetadata, TypeOK, Others
<1>3. CASE WriteMetadata(c)
  <2>1. commands' \in [Commands -> {Idle} \cup Running] /\ Others
    BY <1>3, GotoTyped DEF WriteMetadata, At, Pcs, Others
  <2>2. PID_FILE' \in File
    BY <1>3, WrittenMetadata DEF WriteMetadata, CommandConsistent, At
  <2> QED
    BY <1>3, <2>1, <2>2 DEF WriteMetadata, TypeOK, Others
<1>4. CASE StartSucceeds(c) \/ NothingRecorded(c) \/ StaleMetadata(c) \/ TerminateRaises(c)
  <2>1. Finish(c) /\ UNCHANGED <<births, processes, port, PID_FILE, disturbed>>
    BY <1>4 DEF StartSucceeds, NothingRecorded, StaleMetadata, TerminateRaises
  <2>2. commands' \in [Commands -> {Idle} \cup Running] /\ Others
    BY <2>1, FinishTyped DEF Others
  <2> QED
    BY <2>1, <2>2 DEF TypeOK, Others
<1>5. CASE StartFails(c)
  <2>1. commands' \in [Commands -> {Idle} \cup Running] /\ Others
    BY <1>5, GotoTyped DEF StartFails, At, Pcs, Others
  <2> QED
    BY <1>5, <2>1 DEF StartFails, TypeOK, Others
<1>6. CASE ReadMetadata(c)
  <2>1. commands[c] \in Running
    BY <1>6, BusyIsRunning DEF ReadMetadata, At
  <2>2. [commands[c] EXCEPT !.pc = "match", !.meta = PID_FILE] \in Running
    BY <2>1 DEF Running, TypeOK
  <2>3. commands' = [commands EXCEPT ![c] = [commands[c] EXCEPT !.pc = "match",
                                                                !.meta = PID_FILE]]
    BY <1>6 DEF ReadMetadata
  <2>4. commands' \in [Commands -> {Idle} \cup Running] /\ Others
    BY <2>2, <2>3 DEF TypeOK, Others
  <2> QED
    BY <1>6, <2>4 DEF ReadMetadata, TypeOK, Others
<1>7. CASE Match(c)
  <2>1. commands[c] \in Running
    BY <1>7, BusyIsRunning DEF Match, At
  <2> DEFINE t == processes[commands[c].meta.pid].create_time
  <2>2. t \in Nat
    <3>1. commands[c].meta \in Written
      BY <1>7, <2>1, FileIsWritten DEF Match, _matched_process, Running
    <3>2. processes[commands[c].meta.pid] \in Process
      BY <3>1 DEF Written, TypeOK
    <3> QED
      BY <3>2, PlainValues DEF Process
  <2>3. [commands[c] EXCEPT !.pc = "terminate", !.handle = t] \in Running
    BY <2>1, <2>2 DEF Running
  <2>4. commands' = [commands EXCEPT ![c] = [commands[c] EXCEPT !.pc = "terminate",
                                                                !.handle = t]]
    BY <1>7 DEF Match
  <2>5. commands' \in [Commands -> {Idle} \cup Running] /\ Others
    BY <2>3, <2>4 DEF TypeOK, Others
  <2> QED
    BY <1>7, <2>5 DEF Match, TypeOK, Others
<1>8. CASE Terminate(c) \/ ForceKill(c)
  <2>1. /\ \E pc \in Pcs : Goto(c, pc)
        /\ commands[c].pc # "idle"
        /\ Kill(commands[c].meta.pid) \/ UNCHANGED <<processes, port>>
        /\ UNCHANGED <<births, PID_FILE, disturbed>>
    BY <1>8 DEF Terminate, ForceKill, At, Pcs
  <2>2. commands' \in [Commands -> {Idle} \cup Running] /\ Others
    BY <2>1, GotoTyped DEF Others
  <2>3. commands[c].meta.pid \in Pids
    BY <1>8 DEF Terminate, ForceKill, At, CommandConsistent, Written
  <2> QED
    BY <2>1, <2>2, <2>3, KillTyped DEF TypeOK, Others
<1>9. CASE UnlinkMetadata(c)
  <2>1. commands' \in [Commands -> {Idle} \cup Running] /\ Others
    BY <1>9, FinishTyped DEF UnlinkMetadata, Others
  <2> QED
    BY <1>9, <2>1, PlainValues DEF UnlinkMetadata, TypeOK, Others
<1> QED
  BY <1>1, <1>2, <1>3, <1>4, <1>5, <1>6, <1>7, <1>8, <1>9 DEF Proceed, Others

\* The commands that begin and end, and what happens without one.
LEMMA RestTyped ==
  /\ \A c \in Commands :
       TypeOK /\ (StartCommand(c) \/ StopCommand(c) \/ Interrupt(c)) =>
         /\ TypeOK' /\ \A d \in Commands \ {c} : commands'[d] = commands[d]
         /\ commands'[c] \in {Idle, Command("popen"), Command("read")}
         /\ UNCHANGED <<births, processes, port, PID_FILE>>
  /\ TypeOK /\ (\E i \in Pids : Serve(i) \/ Exit(i) \/ OtherProgram(i)) =>
       TypeOK' /\ UNCHANGED <<commands, PID_FILE, disturbed>>
<1>1. ASSUME NEW c \in Commands, TypeOK, StartCommand(c) \/ StopCommand(c) \/ Interrupt(c)
      PROVE  /\ TypeOK' /\ \A d \in Commands \ {c} : commands'[d] = commands[d]
             /\ commands'[c] \in {Idle, Command("popen"), Command("read")}
             /\ UNCHANGED <<births, processes, port, PID_FILE>>
  <2>1. Command("popen") \in Running /\ Command("read") \in Running
    BY PlainValues DEF Pcs
  <2>2. (disturbed \/ ~OthersIdle(c)) \in BOOLEAN
    OBVIOUS
  <2>3. disturbed' \in BOOLEAN
    BY <1>1, <2>2 DEF StartCommand, StopCommand, Interrupt
  <2> QED
    BY <1>1, <2>1, <2>3 DEF StartCommand, StopCommand, Interrupt, Finish, TypeOK
<1>2. ASSUME TypeOK, NEW i \in Pids, Serve(i) \/ Exit(i) \/ OtherProgram(i)
      PROVE  TypeOK' /\ UNCHANGED <<commands, PID_FILE, disturbed>>
  <2>1. CASE Serve(i)
    BY <1>2, <2>1 DEF Serve, TypeOK
  <2>2. CASE Exit(i)
    BY <1>2, <2>2, KillTyped DEF Exit, TypeOK
  <2>3. CASE OtherProgram(i)
    BY <1>2, <2>3, CreateTyped DEF OtherProgram, TypeOK
  <2> QED
    BY <1>2, <2>1, <2>2, <2>3
<1> QED
  BY <1>1, <1>2

-----------------------------------------------------------------------------
(* Consistency *)

LEMMA InitIInv == Init => IInv
<1> SUFFICES ASSUME Init PROVE IInv
  OBVIOUS
<1>1. TypeOK
  BY PlainValues DEF Init, TypeOK
<1>2. Past /\ PortConsistent
  BY PlainValues DEF Init, Past, PortConsistent
<1>3. ASSUME NEW c \in Commands PROVE CommandConsistent(c)
  <2>1. commands[c].pc = "idle"
    BY PlainValues DEF Init
  <2> QED
    BY <2>1 DEF CommandConsistent
<1> QED
  BY <1>1, <1>2, <1>3 DEF IInv

LEMMA NextEvolves ==
  ASSUME IInv, Next
  PROVE  Evolves /\ Past'
<1>1. ASSUME UNCHANGED <<births, processes>>,
             PID_FILE' = PID_FILE \/ PID_FILE'.state # "written"
               \/ PID_FILE'.create_time <= births
      PROVE  Evolves /\ Past'
  BY <1>1 DEF IInv, TypeOK, Past, Evolves
<1>2. ASSUME NEW i \in Pids, Kill(i), UNCHANGED <<births, PID_FILE>>
      PROVE  Evolves /\ Past'
  BY <1>2, KillTyped, PlainValues DEF IInv, TypeOK, Past, Evolves
<1>3. ASSUME NEW i \in Pids, NEW program \in {"server", "other"}, Create(i, program),
             UNCHANGED PID_FILE
      PROVE  Evolves /\ Past'
  <2>1. /\ processes[i] = NoProcess /\ births' = births + 1 /\ births \in Nat
        /\ processes'[i].create_time = births + 1
        /\ \A j \in Pids \ {i} : processes'[j] = processes[j]
    BY <1>3, CreateTyped DEF IInv, TypeOK
  <2>2. \A j \in Pids : processes[j].create_time \in Nat
    BY PlainValues DEF IInv, TypeOK, Process
  <2>3. PID_FILE.state = "written" => PID_FILE.create_time \in Nat
    BY FileIsWritten DEF IInv, TypeOK, Written
  <2> QED
    BY <1>3, <2>1, <2>2, <2>3 DEF IInv, Past, Evolves
<1>4. ASSUME NEW c \in Commands, Proceed(c) PROVE Evolves /\ Past'
  <2>0. CommandConsistent(c)
    BY DEF IInv
  <2>1. CASE Popen(c)
    BY <1>3, <2>1 DEF Popen
  <2>2. CASE TruncateMetadata(c) \/ UnlinkMetadata(c)
    BY <1>1, <2>2, PlainValues DEF TruncateMetadata, UnlinkMetadata
  <2>3. CASE WriteMetadata(c)
    BY <1>1, <2>0, <2>3, WrittenMetadata DEF WriteMetadata, CommandConsistent, At
  <2>4. CASE Terminate(c) \/ ForceKill(c)
    <3>1. commands[c].meta.pid \in Pids
      BY <2>0, <2>4 DEF Terminate, ForceKill, At, CommandConsistent, Written
    <3> QED
      BY <1>1, <1>2, <2>4, <3>1 DEF Terminate, ForceKill
  <2> QED
    BY <1>1, <1>4, <2>1, <2>2, <2>3, <2>4
       DEF Proceed, StartSucceeds, StartFails, ReadMetadata, NothingRecorded, Match,
           StaleMetadata, TerminateRaises
<1>5. ASSUME NEW i \in Pids, Serve(i) \/ Exit(i) \/ OtherProgram(i) PROVE Evolves /\ Past'
  BY <1>1, <1>2, <1>3, <1>5 DEF Serve, Exit, OtherProgram
<1> QED
  BY <1>1, <1>4, <1>5, RestTyped DEF Next, IInv

\* A process that is gone does not come back, and its identifier is told apart by
\* the creation time; so what a command knows of it stays true.
LEMMA CommandsStayConsistent ==
  ASSUME IInv, Evolves, NEW c \in Commands, commands'[c] = commands[c]
  PROVE  CommandConsistent(c)'
<1>1. CommandConsistent(c) /\ births \in Nat /\ births' \in Nat /\ births <= births'
  BY DEF IInv, TypeOK, Evolves
<1>2. commands[c].pc # "idle" =>
        /\ commands[c].create_time \in Nat
        /\ commands[c].meta \in File
        /\ commands[c].meta.state = "written" => commands[c].meta \in Written
  BY BusyIsRunning, FileIsWritten DEF IInv, Running
<1>3. \A f \in Written : f.create_time \in Nat /\ f.pid \in Pids /\ f.state = "written"
  BY DEF Written
<1>4. ASSUME NEW f \in Written, f.create_time <= births,
             Alive(f.pid, f.create_time)'
      PROVE  Alive(f.pid, f.create_time) /\ processes'[f.pid] = processes[f.pid]
  BY <1>1, <1>3, <1>4, PlainValues DEF Alive, Evolves
<1> QED
  BY <1>1, <1>2, <1>3, <1>4 DEF CommandConsistent

\* The step that a command takes leaves it where it may rely on what it has read.
LEMMA ProceedConsistent ==
  ASSUME IInv, NEW c \in Commands, Proceed(c)
  PROVE  CommandConsistent(c)'
<1>1. CommandConsistent(c) /\ TypeOK /\ births \in Nat
  BY DEF IInv, TypeOK
<1>2. commands'[c] = Idle => CommandConsistent(c)'
  BY PlainValues DEF CommandConsistent
<1>3. commands[c] \in Running
  BY <1>1, BusyIsRunning
     DEF Proceed, Popen, TruncateMetadata, WriteMetadata, StartSucceeds, StartFails,
         ReadMetadata, NothingRecorded, Match, StaleMetadata, Terminate,
         TerminateRaises, ForceKill, UnlinkMetadata, At
<1>4. CASE Popen(c)
  <2>1. PICK i \in Pids : /\ Create(i, "server")
                          /\ commands' = [commands EXCEPT ![c].pc = "record", ![c].pid = i,
                                                          ![c].create_time = births + 1]
    BY <1>4 DEF Popen
  <2>2. births' = births + 1
    BY <2>1 DEF Create
  <2>3. commands'[c] = [commands[c] EXCEPT !.pc = "record", !.pid = i,
                                           !.create_time = births + 1]
    BY <1>1, <2>1 DEF TypeOK
  <2>4. /\ commands'[c].pc = "record" /\ commands'[c].pid = i
        /\ commands'[c].create_time = births + 1 /\ commands'[c].meta = commands[c].meta
    BY <1>3, <2>3 DEF Running
  <2>5. commands[c].pc # "idle" /\
        (commands[c].meta.state = "written" =>
           commands[c].meta.create_time \in Nat /\ commands[c].meta.create_time <= births)
    BY <1>1, <1>3, <1>4, FileIsWritten DEF Popen, At, CommandConsistent, Running, Written
  <2> QED
    BY <1>1, <2>2, <2>4, <2>5 DEF CommandConsistent
<1>5. CASE TruncateMetadata(c) \/ WriteMetadata(c) \/ StartFails(c)
  <2>1. PICK pc \in Pcs :
          Goto(c, pc) /\ pc \in {"write", "poll", "read"} /\ UNCHANGED <<births, processes>>
          /\ (pc = "write" => commands[c].pc = "record") /\ commands[c].pc # "idle"
    BY <1>5 DEF TruncateMetadata, WriteMetadata, StartFails, Pcs, At
  <2>2. commands'[c] = [commands[c] EXCEPT !.pc = pc]
    BY <1>1, <2>1, GotoTyped
  <2>3. /\ commands'[c].pc = pc /\ commands'[c].pid = commands[c].pid
        /\ commands'[c].create_time = commands[c].create_time
        /\ commands'[c].meta = commands[c].meta
    BY <1>3, <2>2 DEF Running
  <2> QED
    BY <1>1, <2>1, <2>3 DEF CommandConsistent
<1>6. CASE ReadMetadata(c)
  <2>1. commands'[c] = [commands[c] EXCEPT !.pc = "match", !.meta = PID_FILE]
    BY <1>1, <1>6 DEF ReadMetadata, TypeOK
  <2>2. commands'[c].pc = "match" /\ commands'[c].meta = PID_FILE /\ births' = births
    BY <1>3, <1>6, <2>1 DEF Running, ReadMetadata
  <2> QED
    BY <2>2 DEF CommandConsistent, IInv, Past
<1>7. CASE Match(c)
  <2> DEFINE t == processes[commands[c].meta.pid].create_time
  <2>1. commands'[c] = [commands[c] EXCEPT !.pc = "terminate", !.handle = t]
    BY <1>1, <1>7 DEF Match, TypeOK
  <2>2. /\ commands'[c].pc = "terminate" /\ commands'[c].meta = commands[c].meta
        /\ commands'[c].handle = t /\ UNCHANGED <<births, processes>>
    BY <1>3, <1>7, <2>1 DEF Running, Match
  <2>3. /\ commands[c].meta \in Written /\ t = commands[c].meta.create_time
        /\ processes[commands[c].meta.pid].program = "server"
    BY <1>3, <1>7, FileIsWritten DEF Match, _matched_process, Alive, Running
  <2>4. commands[c].meta.create_time <= births
    BY <1>1, <1>7 DEF CommandConsistent, Match, _matched_process, At
  <2> QED
    BY <2>2, <2>3, <2>4 DEF CommandConsistent
<1>8. CASE Terminate(c)
  <2> DEFINE m == commands[c].meta
  <2>1. m \in Written /\ m.pid \in Pids /\ m.create_time <= births /\ commands[c].pc # "idle"
    BY <1>1, <1>8 DEF CommandConsistent, Terminate, At, Written
  <2>2. PICK pc \in {"unlink", "rematch"} :
          /\ Goto(c, pc) /\ births' = births
          /\ pc = "unlink" => Kill(m.pid)
          /\ pc = "rematch" => UNCHANGED processes
    BY <1>8 DEF Terminate
  <2>3. commands'[c] = [commands[c] EXCEPT !.pc = pc]
    BY <1>1, <2>1, <2>2, GotoTyped DEF Pcs
  <2>4. commands'[c].pc = pc /\ commands'[c].meta = m
    BY <1>3, <2>3 DEF Running
  <2>5. pc = "unlink" => ~Alive(m.pid, m.create_time)'
    BY <1>1, <2>1, <2>2, <2>4, KillTyped, PlainValues DEF Alive
  <2>6. pc = "rematch" =>
          (Alive(m.pid, m.create_time)' => processes'[m.pid].program = "server")
    BY <1>1, <1>8, <2>2, <2>4 DEF CommandConsistent, Terminate, At, Alive
  <2> QED
    BY <2>1, <2>2, <2>4, <2>5, <2>6 DEF CommandConsistent, Alive
<1>9. CASE ForceKill(c)
  <2> DEFINE m == commands[c].meta
  <2>1. m \in Written /\ m.pid \in Pids /\ m.create_time <= births /\ commands[c].pc # "idle"
    BY <1>1, <1>9 DEF CommandConsistent, ForceKill, At, Written
  <2>2. Goto(c, "unlink") /\ births' = births
    BY <1>9 DEF ForceKill
  <2>3. commands'[c] = [commands[c] EXCEPT !.pc = "unlink"]
    BY <1>1, <2>1, <2>2, GotoTyped DEF Pcs
  <2>4. commands'[c].pc = "unlink" /\ commands'[c].meta = m
    BY <1>3, <2>3 DEF Running
  <2>5. CASE _matched_process(m)
    <3>1. Kill(m.pid)
      BY <1>9, <2>5 DEF ForceKill
    <3>2. ~Alive(m.pid, m.create_time)'
      BY <1>1, <2>1, <2>4, <3>1, KillTyped, PlainValues DEF Alive
    <3> QED
      BY <2>1, <2>2, <2>4, <3>2 DEF CommandConsistent, Alive
  <2>6. CASE ~_matched_process(m)
    <3>1. processes' = processes /\ m.state = "written"
      BY <1>9, <2>1, <2>6 DEF ForceKill, Written
    <3>2. ~Alive(m.pid, m.create_time)
      BY <1>1, <1>9, <2>6, <3>1 DEF CommandConsistent, ForceKill, At, _matched_process
    <3> QED
      BY <2>1, <2>2, <2>4, <3>1, <3>2 DEF CommandConsistent, Alive
  <2> QED
    BY <2>5, <2>6
<1>10. ASSUME Finish(c) PROVE CommandConsistent(c)'
  BY <1>1, <1>2, <1>10, FinishTyped
<1> QED
  BY <1>4, <1>5, <1>6, <1>7, <1>8, <1>9, <1>10
     DEF Proceed, StartSucceeds, NothingRecorded, StaleMetadata, TerminateRaises,
         UnlinkMetadata

LEMMA NextPort == IInv /\ Next => PortConsistent'
<1> SUFFICES ASSUME IInv, Next PROVE PortConsistent'
  OBVIOUS
<1>1. UNCHANGED <<processes, port>> => PortConsistent'
  BY DEF IInv, PortConsistent
<1>2. ASSUME NEW i \in Pids, Kill(i) PROVE PortConsistent'
  <2>1. port' = (IF port = i THEN NoPid ELSE port) /\ TypeOK
    BY <1>2 DEF Kill, IInv
  <2>2. port' # NoPid => port' \in Pids \ {i} /\ port' = port
    BY <2>1 DEF TypeOK
  <2> QED
    BY <1>2, <2>1, <2>2, KillTyped DEF IInv, PortConsistent
<1>3. ASSUME NEW i \in Pids, NEW program \in {"server", "other"}, Create(i, program),
             UNCHANGED port
      PROVE  PortConsistent'
  BY <1>3, CreateTyped, PlainValues DEF IInv, PortConsistent, TypeOK
<1>4. ASSUME NEW c \in Commands, Proceed(c) PROVE PortConsistent'
  <2>1. CASE Popen(c)
    BY <1>3, <2>1 DEF Popen
  <2>2. CASE Terminate(c) \/ ForceKill(c)
    <3>1. commands[c].meta.pid \in Pids
      BY <2>2 DEF IInv, Terminate, ForceKill, At, CommandConsistent, Written
    <3> QED
      BY <1>1, <1>2, <2>2, <3>1 DEF Terminate, ForceKill
  <2> QED
    BY <1>1, <1>4, <2>1, <2>2
       DEF Proceed, TruncateMetadata, WriteMetadata, StartSucceeds, StartFails,
           ReadMetadata, NothingRecorded, Match, StaleMetadata, TerminateRaises,
           UnlinkMetadata
<1>5. ASSUME NEW i \in Pids, Serve(i) \/ Exit(i) \/ OtherProgram(i) PROVE PortConsistent'
  BY <1>2, <1>3, <1>5 DEF Serve, Exit, OtherProgram, PortConsistent
<1> QED
  BY <1>1, <1>4, <1>5, RestTyped DEF Next, IInv

LEMMA NextIInv == IInv /\ [Next]_vars => IInv'
<1>1. ASSUME IInv, Next PROVE IInv'
  <2>1. Evolves /\ Past' /\ PortConsistent'
    BY <1>1, NextEvolves, NextPort
  <2>2. CASE \E c \in Commands : Proceed(c)
    <3>1. PICK c \in Commands : Proceed(c)
      BY <2>2
    <3>2. TypeOK' /\ \A d \in Commands \ {c} : commands'[d] = commands[d]
      BY <1>1, <3>1, ProceedTyped DEF IInv
    <3>3. CommandConsistent(c)'
      BY <1>1, <3>1, ProceedConsistent
    <3>4. \A d \in Commands \ {c} : CommandConsistent(d)'
      BY <1>1, <2>1, <3>2, CommandsStayConsistent
    <3> QED
      BY <2>1, <3>2, <3>3, <3>4 DEF IInv
  <2>3. CASE \E c \in Commands : StartCommand(c) \/ StopCommand(c) \/ Interrupt(c)
    <3>1. PICK c \in Commands : StartCommand(c) \/ StopCommand(c) \/ Interrupt(c)
      BY <2>3
    <3>2. /\ TypeOK' /\ \A d \in Commands \ {c} : commands'[d] = commands[d]
          /\ commands'[c] \in {Idle, Command("popen"), Command("read")}
      BY <1>1, <3>1, RestTyped DEF IInv
    <3>3. CommandConsistent(c)'
      BY <3>2, PlainValues DEF CommandConsistent, Pcs
    <3>4. \A d \in Commands \ {c} : CommandConsistent(d)'
      BY <1>1, <2>1, <3>2, CommandsStayConsistent
    <3> QED
      BY <2>1, <3>2, <3>3, <3>4 DEF IInv
  <2>4. CASE \E i \in Pids : Serve(i) \/ Exit(i) \/ OtherProgram(i)
    <3>1. TypeOK' /\ commands' = commands
      BY <1>1, <2>4, RestTyped DEF IInv
    <3>2. \A d \in Commands : CommandConsistent(d)'
      BY <1>1, <2>1, <3>1, CommandsStayConsistent
    <3> QED
      BY <2>1, <3>1, <3>2 DEF IInv
  <2> QED
    BY <1>1, <2>2, <2>3, <2>4 DEF Next
<1>2. ASSUME IInv, UNCHANGED vars PROVE IInv'
  BY <1>2 DEF IInv, vars, TypeOK, Past, PortConsistent, CommandConsistent, Alive, At
<1> QED
  BY <1>1, <1>2

LEMMA Consistent == Spec => []IInv
BY InitIInv, NextIInv, PTL DEF Spec

-----------------------------------------------------------------------------
(* Theorems *)

\* Processes, the runtime file and commands keep their types, for any number of
\* commands and identifiers.
THEOREM TypeCorrect == Spec => []TypeOK
<1>1. IInv => TypeOK
  BY DEF IInv
<1> QED
  BY <1>1, Consistent, PTL

\* stop removes the runtime file only when the process that it has read of is gone.
THEOREM StopsAreHonest == Spec => []StopIsHonest
<1>1. IInv => StopIsHonest
  BY DEF IInv, CommandConsistent, StopIsHonest, At
<1> QED
  BY <1>1, Consistent, PTL

\* terminate and kill reach only the server that was recorded when stop read the
\* file, whatever other commands do and however identifiers are used again.
THEOREM OnlyTheRecordedEnds == Spec => OnlyRecordedIsEnded
<1>1. ASSUME IInv, Next, NEW c \in Commands, NEW i \in Pids,
             commands'[c] # commands[c], processes[i] # NoProcess,
             processes'[i] # processes[i]
      PROVE  /\ processes[i].program = "server"
             /\ commands[c].meta = Metadata(i, processes[i].create_time)
  <2>0. TypeOK /\ \A d \in Commands : CommandConsistent(d)
    BY <1>1 DEF IInv
  <2>1. Proceed(c)
    <3>1. ASSUME NEW d \in Commands, Proceed(d) PROVE d = c
      BY <1>1, <2>0, <3>1, ProceedTyped
    <3>2. ASSUME NEW d \in Commands, StartCommand(d) \/ StopCommand(d) \/ Interrupt(d)
          PROVE  FALSE
      BY <1>1, <2>0, <3>2, RestTyped
    <3>3. ASSUME NEW j \in Pids, Serve(j) \/ Exit(j) \/ OtherProgram(j) PROVE FALSE
      BY <1>1, <2>0, <3>3, RestTyped
    <3> QED
      BY <1>1, <3>1, <3>2, <3>3 DEF Next
  <2>2. ~Popen(c)
    <3>1. SUFFICES ASSUME Popen(c) PROVE FALSE
      OBVIOUS
    <3>2. PICK j \in Pids : Create(j, "server")
      BY <3>1 DEF Popen
    <3> QED
      BY <1>1, <2>0, <3>2, CreateTyped
  <2>3. Terminate(c) \/ ForceKill(c)
    BY <1>1, <2>1, <2>2
       DEF Proceed, TruncateMetadata, WriteMetadata, StartSucceeds, StartFails,
           ReadMetadata, NothingRecorded, Match, StaleMetadata, TerminateRaises,
           UnlinkMetadata
  <2> DEFINE m == commands[c].meta
  <2>4. m \in Written /\ m.pid \in Pids /\ m \in File /\ m.state = "written"
    BY <2>0, <2>3 DEF Terminate, ForceKill, At, CommandConsistent, Written, File
  <2>5. Kill(m.pid) /\ Alive(m.pid, m.create_time) /\ processes[m.pid].program = "server"
    <3>1. CASE Terminate(c)
      BY <1>1, <2>0, <3>1 DEF Terminate, HandleAlive, At, CommandConsistent
    <3>2. CASE ForceKill(c)
      BY <1>1, <3>2 DEF ForceKill, _matched_process
    <3> QED
      BY <2>3, <3>1, <3>2
  <2>6. i = m.pid
    BY <1>1, <2>0, <2>4, <2>5, KillTyped
  <2> QED
    BY <2>4, <2>5, <2>6, FileIsWritten DEF Alive
<1>2. IInv /\ [Next]_vars =>
        [\A c \in Commands, pid \in Pids :
           /\ commands'[c] # commands[c]
           /\ processes[pid] # NoProcess
           /\ processes'[pid] # processes[pid]
           => /\ processes[pid].program = "server"
              /\ commands[c].meta = Metadata(pid, processes[pid].create_time)]_vars
  BY <1>1
<1> QED
  BY <1>2, Consistent, PTL DEF Spec, OnlyRecordedIsEnded

-----------------------------------------------------------------------------
(* No server is lost while commands run one after the other *)

IsServer(i) == processes[i].program = "server"
NoServer    == \A i \in Pids : ~IsServer(i)

\* A server, if there is one, is what f records.
OnlyServerIs(f) == \A i \in Pids : IsServer(i) => f = Metadata(i, processes[i].create_time)

\* Between two commands, a server is recorded and serves: so the next start is refused
\* as long as there is one.
Settled ==
  \A i \in Pids :
    IsServer(i) => port = i /\ PID_FILE = Metadata(i, processes[i].create_time)

\* What a command that runs alone knows of the servers.
KnowsOfServers(c) ==
  LET q == commands[c] IN
  /\ q.pc \in {"popen", "unlink"} => NoServer
  /\ q.pc \in {"record", "write"} => OnlyServerIs(Metadata(q.pid, q.create_time))
  /\ q.pc \in {"poll", "read"} => OnlyServerIs(PID_FILE)
  /\ q.pc \in {"match", "terminate", "rematch"} => OnlyServerIs(q.meta)

\* No server appears and none that serves stops to.
NoNewServer ==
  \A i \in Pids :
    IsServer(i)' => IsServer(i) /\ processes'[i] = processes[i] /\ (port = i => port' = i)

LEMMA FewerServers ==
  /\ UNCHANGED <<processes, port>> => NoNewServer
  /\ \A i \in Pids : TypeOK /\ Kill(i) => NoNewServer
  /\ \A i \in Pids : TypeOK /\ Create(i, "other") /\ UNCHANGED port => NoNewServer
<1>1. UNCHANGED <<processes, port>> => NoNewServer
  BY DEF NoNewServer, IsServer
<1>2. ASSUME NEW i \in Pids, TypeOK, Kill(i) PROVE NoNewServer
  <2>1. port' = IF port = i THEN NoPid ELSE port
    BY <1>2 DEF Kill
  <2> QED
    BY <1>2, <2>1, KillTyped, PlainValues DEF NoNewServer, IsServer
<1>3. ASSUME NEW i \in Pids, TypeOK, Create(i, "other"), UNCHANGED port PROVE NoNewServer
  <2>1. processes'[i].program = "other"
    BY <1>3, CreateTyped
  <2> QED
    BY <1>3, <2>1, CreateTyped DEF NoNewServer, IsServer
<1> QED
  BY <1>1, <1>2, <1>3

LEMMA KnowledgeStays ==
  ASSUME NoNewServer
  PROVE  /\ NoServer => NoServer'
         /\ \A f : OnlyServerIs(f) => \A i \in Pids :
              IsServer(i)' => f = Metadata(i, processes'[i].create_time)
         /\ Settled /\ PID_FILE' = PID_FILE => Settled'
<1>1. NoServer => NoServer'
  BY DEF NoNewServer, NoServer
<1>2. ASSUME NEW f, OnlyServerIs(f), NEW i \in Pids, IsServer(i)'
      PROVE  f = Metadata(i, processes'[i].create_time)
  BY <1>2 DEF NoNewServer, OnlyServerIs
<1>3. ASSUME Settled, PID_FILE' = PID_FILE PROVE Settled'
  BY <1>3 DEF NoNewServer, Settled, Metadata
<1> QED
  BY <1>1, <1>2, <1>3

\* How things are as long as commands run one after the other and to their end.
Orderly ==
  /\ \A c, d \in Commands : ~At(c, "idle") /\ ~At(d, "idle") => c = d
  /\ (\A c \in Commands : At(c, "idle")) => Settled
  /\ \A c \in Commands : KnowsOfServers(c)

LEMMA AloneGoesOn ==
  ASSUME NEW c \in Commands, OthersIdle(c),
         \A d \in Commands \ {c} : commands'[d] = commands[d],
         commands'[c].pc # "idle", KnowsOfServers(c)'
  PROVE  Orderly'
<1>1. \A d \in Commands \ {c} : commands'[d].pc = "idle"
  BY DEF OthersIdle, At
<1>2. \A d \in Commands \ {c} : KnowsOfServers(d)'
  BY <1>1 DEF KnowsOfServers
<1> QED
  BY <1>1, <1>2 DEF Orderly, At

LEMMA AloneEnds ==
  ASSUME NEW c \in Commands, OthersIdle(c),
         \A d \in Commands \ {c} : commands'[d] = commands[d],
         commands'[c] = Idle, Settled'
  PROVE  Orderly'
<1>1. \A d \in Commands : commands'[d].pc = "idle"
  BY PlainValues DEF OthersIdle, At
<1>2. \A d \in Commands : KnowsOfServers(d)'
  BY <1>1 DEF KnowsOfServers
<1> QED
  BY <1>1, <1>2 DEF Orderly, At

\* A command that runs alone keeps its knowledge.
LEMMA ProceedOrderly ==
  ASSUME IInv, Orderly, NEW c \in Commands, Proceed(c)
  PROVE  Orderly'
<1>1. TypeOK /\ CommandConsistent(c) /\ KnowsOfServers(c)
  BY DEF IInv, Orderly
<1>2. ~At(c, "idle")
  BY DEF Proceed, Popen, TruncateMetadata, WriteMetadata, StartSucceeds, StartFails,
         ReadMetadata, NothingRecorded, Match, StaleMetadata, Terminate,
         TerminateRaises, ForceKill, UnlinkMetadata, At
<1>3. OthersIdle(c)
  BY <1>2 DEF Orderly, OthersIdle
<1>4. /\ commands[c] \in Running
      /\ \A d \in Commands \ {c} : commands'[d] = commands[d]
  BY <1>1, <1>2, BusyIsRunning, ProceedTyped DEF At
<1>5. ASSUME commands'[c].pc # "idle", KnowsOfServers(c)' PROVE Orderly'
  BY <1>3, <1>4, <1>5, AloneGoesOn
<1>6. ASSUME commands'[c] = Idle, Settled' PROVE Orderly'
  BY <1>3, <1>4, <1>6, AloneEnds
<1>7. NoServer /\ UNCHANGED processes => Settled'
  BY DEF NoServer, Settled, IsServer
<1>8. CASE Popen(c)
  <2>1. PICK i \in Pids : /\ Create(i, "server")
                          /\ commands' = [commands EXCEPT ![c].pc = "record", ![c].pid = i,
                                                          ![c].create_time = births + 1]
    BY <1>8 DEF Popen
  <2>2. commands'[c] = [commands[c] EXCEPT !.pc = "record", !.pid = i,
                                           !.create_time = births + 1]
    BY <1>1, <2>1 DEF TypeOK
  <2>3. commands'[c].pc = "record" /\ commands'[c].pid = i
        /\ commands'[c].create_time = births + 1
    BY <1>4, <2>2 DEF Running
  <2>4. \A j \in Pids : IsServer(j)' => j = i /\ processes'[j].create_time = births + 1
    BY <1>1, <1>8, <2>1, CreateTyped DEF KnowsOfServers, Popen, At, NoServer, IsServer
  <2>5. OnlyServerIs(Metadata(commands[c].pid, commands[c].create_time))'
    BY <2>3, <2>4 DEF OnlyServerIs, Metadata
  <2>6. KnowsOfServers(c)'
    BY <2>3, <2>5 DEF KnowsOfServers
  <2> QED
    BY <1>5, <2>3, <2>6
<1>9. CASE TruncateMetadata(c)
  <2>1. commands'[c] = [commands[c] EXCEPT !.pc = "write"] /\ UNCHANGED processes
    BY <1>1, <1>2, <1>9, GotoTyped DEF TruncateMetadata, At, Pcs
  <2>2. /\ commands'[c].pc = "write" /\ commands'[c].pid = commands[c].pid
        /\ commands'[c].create_time = commands[c].create_time
    BY <1>4, <2>1 DEF Running
  <2>3. OnlyServerIs(Metadata(commands[c].pid, commands[c].create_time))
    BY <1>1, <1>9 DEF KnowsOfServers, TruncateMetadata, At
  <2>4. KnowsOfServers(c)'
    BY <2>1, <2>2, <2>3 DEF KnowsOfServers, OnlyServerIs, IsServer
  <2> QED
    BY <1>5, <2>2, <2>4
<1>10. CASE WriteMetadata(c)
  <2>1. commands'[c] = [commands[c] EXCEPT !.pc = "poll"] /\ UNCHANGED processes
    BY <1>1, <1>2, <1>10, GotoTyped DEF WriteMetadata, At, Pcs
  <2>2. commands'[c].pc = "poll"
    BY <1>4, <2>1 DEF Running
  <2>3. OnlyServerIs(PID_FILE')
    BY <1>1, <1>10 DEF KnowsOfServers, WriteMetadata, At
  <2>4. KnowsOfServers(c)'
    BY <2>1, <2>2, <2>3 DEF KnowsOfServers, OnlyServerIs, IsServer
  <2> QED
    BY <1>5, <2>2, <2>4
<1>11. CASE StartSucceeds(c)
  <2>1. /\ commands'[c] = Idle /\ UNCHANGED <<processes, port, PID_FILE>>
        /\ OnlyServerIs(PID_FILE) /\ port \in Pids /\ IsServer(port)
    BY <1>1, <1>11, FinishTyped
       DEF StartSucceeds, KnowsOfServers, At, TypeOK, IInv, PortConsistent, IsServer
  <2>2. ASSUME NEW i \in Pids, IsServer(i) PROVE i = port
    <3>1. Metadata(i, processes[i].create_time) = Metadata(port, processes[port].create_time)
      BY <2>1, <2>2 DEF OnlyServerIs
    <3> QED
      BY <3>1 DEF Metadata
  <2>3. Settled'
    BY <2>1, <2>2 DEF Settled, OnlyServerIs, IsServer
  <2> QED
    BY <1>6, <2>1, <2>3
<1>12. CASE StartFails(c)
  <2>1. /\ commands'[c] = [commands[c] EXCEPT !.pc = "read"]
        /\ UNCHANGED <<processes, PID_FILE>>
    BY <1>1, <1>2, <1>12, GotoTyped DEF StartFails, At, Pcs
  <2>2. commands'[c].pc = "read"
    BY <1>4, <2>1 DEF Running
  <2>3. KnowsOfServers(c)'
    BY <1>1, <1>12, <2>1, <2>2 DEF KnowsOfServers, StartFails, At, OnlyServerIs, IsServer
  <2> QED
    BY <1>5, <2>2, <2>3
<1>13. CASE ReadMetadata(c)
  <2>1. /\ commands'[c] = [commands[c] EXCEPT !.pc = "match", !.meta = PID_FILE]
        /\ UNCHANGED processes /\ OnlyServerIs(PID_FILE)
    BY <1>1, <1>13 DEF ReadMetadata, TypeOK, KnowsOfServers, At
  <2>2. commands'[c].pc = "match" /\ commands'[c].meta = PID_FILE
    BY <1>4, <2>1 DEF Running
  <2>3. KnowsOfServers(c)'
    BY <2>1, <2>2 DEF KnowsOfServers, OnlyServerIs, IsServer
  <2> QED
    BY <1>5, <2>2, <2>3
<1>14. CASE NothingRecorded(c)
  <2>1. /\ commands'[c] = Idle /\ UNCHANGED processes
        /\ OnlyServerIs(PID_FILE) /\ PID_FILE = Absent
    BY <1>1, <1>14, FinishTyped DEF NothingRecorded, KnowsOfServers, At
  <2>2. NoServer
    BY <2>1 DEF NoServer, OnlyServerIs, Absent, Metadata
  <2> QED
    BY <1>6, <1>7, <2>1, <2>2
<1>15. CASE Match(c)
  <2> DEFINE t == processes[commands[c].meta.pid].create_time
  <2>1. /\ commands'[c] = [commands[c] EXCEPT !.pc = "terminate", !.handle = t]
        /\ UNCHANGED processes /\ OnlyServerIs(commands[c].meta)
    BY <1>1, <1>15 DEF Match, TypeOK, KnowsOfServers, At
  <2>2. commands'[c].pc = "terminate" /\ commands'[c].meta = commands[c].meta
    BY <1>4, <2>1 DEF Running
  <2>3. KnowsOfServers(c)'
    BY <2>1, <2>2 DEF KnowsOfServers, OnlyServerIs, IsServer
  <2> QED
    BY <1>5, <2>2, <2>3
<1> DEFINE m == commands[c].meta
<1>16. ASSUME OnlyServerIs(m),
              m.state # "written" \/ ~Alive(m.pid, m.create_time)
                \/ processes[m.pid].program # "server"
       PROVE  NoServer
  <2>1. ASSUME NEW i \in Pids, IsServer(i) PROVE FALSE
    <3>1. m = Metadata(i, processes[i].create_time)
      BY <1>16, <2>1 DEF OnlyServerIs
    <3> QED
      BY <1>16, <2>1, <3>1 DEF Metadata, Alive, IsServer
  <2> QED
    BY <2>1 DEF NoServer
<1>17. CASE StaleMetadata(c)
  <2>1. commands'[c] = Idle /\ UNCHANGED processes /\ OnlyServerIs(m)
    BY <1>1, <1>17, FinishTyped DEF StaleMetadata, KnowsOfServers, At
  <2>2. NoServer
    BY <1>16, <1>17, <2>1 DEF StaleMetadata, _matched_process
  <2> QED
    BY <1>6, <1>7, <2>1, <2>2
<1>18. CASE TerminateRaises(c)
  <2>1. commands'[c] = Idle /\ UNCHANGED processes /\ OnlyServerIs(m)
    BY <1>1, <1>18, FinishTyped DEF TerminateRaises, KnowsOfServers, At
  <2>2. ~Alive(m.pid, m.create_time)
    BY <1>1, <1>18 DEF TerminateRaises, HandleAlive, CommandConsistent, At
  <2> QED
    BY <1>6, <1>7, <1>16, <2>1, <2>2
<1>19. ASSUME m.pid \in Pids, Kill(m.pid), OnlyServerIs(m) PROVE NoServer'
  <2>1. \A i \in Pids : IsServer(i)' => IsServer(i) /\ i # m.pid
    BY <1>1, <1>19, KillTyped, PlainValues DEF IsServer
  <2>2. ASSUME NEW i \in Pids, IsServer(i) PROVE m.pid = i
    <3>1. m = Metadata(i, processes[i].create_time)
      BY <1>19, <2>2 DEF OnlyServerIs
    <3> QED
      BY <3>1 DEF Metadata
  <2> QED
    BY <2>1, <2>2 DEF NoServer
<1>20. CASE Terminate(c)
  <2>1. OnlyServerIs(m) /\ m.pid \in Pids
    BY <1>1, <1>20 DEF KnowsOfServers, CommandConsistent, Terminate, At, Written
  <2>2. PICK pc \in {"unlink", "rematch"} :
          /\ Goto(c, pc)
          /\ pc = "unlink" => Kill(m.pid)
          /\ pc = "rematch" => UNCHANGED processes
    BY <1>20 DEF Terminate
  <2>3. commands'[c] = [commands[c] EXCEPT !.pc = pc]
    BY <1>1, <1>2, <2>2, GotoTyped DEF Pcs, At
  <2>4. commands'[c].pc = pc /\ commands'[c].meta = m
    BY <1>4, <2>3 DEF Running
  <2>5. pc = "unlink" => NoServer'
    BY <1>19, <2>1, <2>2
  <2>6. pc = "rematch" => OnlyServerIs(m')
    BY <2>1, <2>4
  <2>7. KnowsOfServers(c)'
    BY <2>2, <2>4, <2>5, <2>6 DEF KnowsOfServers, OnlyServerIs, IsServer
  <2> QED
    BY <1>5, <2>4, <2>7
<1>21. CASE ForceKill(c)
  <2>1. OnlyServerIs(m) /\ m \in Written /\ m.pid \in Pids
    BY <1>1, <1>21 DEF KnowsOfServers, CommandConsistent, ForceKill, At, Written
  <2>2. commands'[c] = [commands[c] EXCEPT !.pc = "unlink"]
    BY <1>1, <1>2, <1>21, GotoTyped DEF ForceKill, Pcs, At
  <2>3. commands'[c].pc = "unlink"
    BY <1>4, <2>2 DEF Running
  <2>4. NoServer'
    <3>1. CASE _matched_process(m)
      BY <1>19, <1>21, <2>1, <3>1 DEF ForceKill
    <3>2. CASE ~_matched_process(m)
      <4>1. UNCHANGED processes
        BY <1>21, <3>2 DEF ForceKill
      <4> QED
        BY <1>16, <2>1, <3>2, <4>1 DEF _matched_process, NoServer, IsServer
    <3> QED
      BY <3>1, <3>2
  <2>5. KnowsOfServers(c)'
    BY <2>3, <2>4 DEF KnowsOfServers
  <2> QED
    BY <1>5, <2>3, <2>5
<1>22. CASE UnlinkMetadata(c)
  <2>1. commands'[c] = Idle /\ UNCHANGED processes /\ NoServer
    BY <1>1, <1>22, FinishTyped DEF UnlinkMetadata, KnowsOfServers, At
  <2> QED
    BY <1>6, <1>7, <2>1
<1> QED
  BY <1>8, <1>9, <1>10, <1>11, <1>12, <1>13, <1>14, <1>15, <1>17, <1>18, <1>20, <1>21,
     <1>22 DEF Proceed

\* A command that begins alone finds things settled.
LEMMA BeginOrderly ==
  ASSUME IInv, Orderly, NEW c \in Commands, StartCommand(c) \/ StopCommand(c),
         OthersIdle(c)
  PROVE  Orderly'
<1>1. Settled
  BY DEF Orderly, OthersIdle, StartCommand, StopCommand
<1>2. /\ \A d \in Commands \ {c} : commands'[d] = commands[d]
      /\ UNCHANGED <<processes, port, PID_FILE>>
  BY RestTyped DEF IInv
<1>3. CASE StartCommand(c)
  <2>1. commands'[c] = Command("popen")
    BY <1>3 DEF IInv, TypeOK, StartCommand
  <2>2. NoServer'
    BY <1>1, <1>2, <1>3, NoPidIsNotAPid DEF StartCommand, Settled, NoServer, IsServer
  <2>3. commands'[c].pc = "popen" /\ KnowsOfServers(c)'
    BY <2>1, <2>2, PlainValues DEF KnowsOfServers, Pcs
  <2> QED
    BY <1>2, <2>3, AloneGoesOn
<1>4. CASE StopCommand(c)
  <2>1. commands'[c] = Command("read")
    BY <1>4 DEF IInv, TypeOK, StopCommand
  <2>2. OnlyServerIs(PID_FILE)'
    BY <1>1, <1>2 DEF Settled, OnlyServerIs, IsServer
  <2>3. commands'[c].pc = "read" /\ KnowsOfServers(c)'
    BY <2>1, <2>2, PlainValues DEF KnowsOfServers, Pcs
  <2> QED
    BY <1>2, <2>3, AloneGoesOn
<1> QED
  BY <1>3, <1>4

\* Processes that come and go leave things in order.
LEMMA OutsideOrderly ==
  ASSUME IInv, Orderly, NEW i \in Pids, Serve(i) \/ Exit(i) \/ OtherProgram(i)
  PROVE  Orderly'
<1>1. UNCHANGED <<commands, PID_FILE>>
  BY RestTyped DEF IInv
<1>2. CASE Serve(i)
  <2>1. UNCHANGED processes /\ IsServer(i) /\ port = NoPid
    BY <1>2 DEF Serve, IsServer
  <2>2. ~Settled
    BY <2>1, NoPidIsNotAPid DEF Settled
  <2> QED
    BY <1>1, <2>1, <2>2
       DEF Orderly, KnowsOfServers, At, NoServer, OnlyServerIs, IsServer
<1>3. CASE Exit(i) \/ OtherProgram(i)
  <2>1. NoNewServer
    BY <1>3, FewerServers DEF IInv, Exit, OtherProgram
  <2>2. Settled => Settled'
    BY <1>1, <2>1, KnowledgeStays
  <2>3. NoServer => NoServer'
    BY <2>1, KnowledgeStays
  <2>4. ASSUME NEW f, OnlyServerIs(f), NEW j \in Pids, IsServer(j)'
        PROVE  f = Metadata(j, processes'[j].create_time)
    BY <2>1, <2>4, KnowledgeStays
  <2>5. ASSUME NEW c \in Commands PROVE KnowsOfServers(c)'
    <3>1. KnowsOfServers(c) /\ commands'[c] = commands[c]
      BY <1>1 DEF Orderly
    <3> QED
      BY <1>1, <2>3, <2>4, <3>1 DEF KnowsOfServers, OnlyServerIs
  <2> QED
    BY <1>1, <2>2, <2>5 DEF Orderly, At
<1> QED
  BY <1>2, <1>3

LEMMA UndisturbedInductive ==
  IInv /\ (~disturbed => Orderly) /\ [Next]_vars => (~disturbed => Orderly)'
<1>1. ASSUME IInv, ~disturbed => Orderly, Next, ~disturbed' PROVE Orderly'
  <2>1. CASE \E c \in Commands : Proceed(c)
    <3>1. PICK c \in Commands : Proceed(c)
      BY <2>1
    <3>2. disturbed' = disturbed
      BY <3>1 DEF Proceed, Popen, TruncateMetadata, WriteMetadata, StartSucceeds,
                  StartFails, ReadMetadata, NothingRecorded, Match, StaleMetadata,
                  Terminate, TerminateRaises, ForceKill, UnlinkMetadata
    <3> QED
      BY <1>1, <3>1, <3>2, ProceedOrderly
  <2>2. CASE \E c \in Commands : StartCommand(c) \/ StopCommand(c)
    <3>1. PICK c \in Commands : StartCommand(c) \/ StopCommand(c)
      BY <2>2
    <3>2. ~disturbed /\ OthersIdle(c)
      BY <1>1, <3>1 DEF StartCommand, StopCommand
    <3> QED
      BY <1>1, <3>1, <3>2, BeginOrderly
  <2>3. CASE \E c \in Commands : Interrupt(c)
    BY <1>1, <2>3 DEF Interrupt
  <2>4. CASE \E i \in Pids : Serve(i) \/ Exit(i) \/ OtherProgram(i)
    <3>1. disturbed' = disturbed
      BY <1>1, <2>4, RestTyped DEF IInv
    <3> QED
      BY <1>1, <2>4, <3>1, OutsideOrderly
  <2> QED
    BY <1>1, <2>1, <2>2, <2>3, <2>4 DEF Next
<1>2. ASSUME ~disturbed => Orderly, UNCHANGED vars PROVE (~disturbed => Orderly)'
  BY <1>2 DEF vars, Orderly, Settled, KnowsOfServers, NoServer, OnlyServerIs, IsServer, At
<1> QED
  BY <1>1, <1>2

\* Whatever position a command that runs alone is at, it knows of one server at
\* most.
LEMMA OneServerAtMost ==
  ASSUME TypeOK, Orderly, NEW i \in Pids, NEW j \in Pids, IsServer(i), IsServer(j)
  PROVE  i = j
<1>1. ASSUME NEW f, OnlyServerIs(f) PROVE i = j
  BY <1>1 DEF OnlyServerIs, Metadata
<1>2. CASE \A c \in Commands : At(c, "idle")
  BY <1>2, NoPidIsNotAPid DEF Orderly, Settled
<1>3. CASE \E c \in Commands : ~At(c, "idle")
  <2>1. PICK c \in Commands : ~At(c, "idle")
    BY <1>3
  <2>2. commands[c].pc \in Pcs
    BY <2>1, BusyIsRunning DEF At, Running, Pcs
  <2>3. KnowsOfServers(c)
    BY DEF Orderly
  <2>4. ~NoServer
    BY DEF NoServer
  <2> QED
    BY <1>1, <2>2, <2>3, <2>4 DEF KnowsOfServers, Pcs
<1> QED
  BY <1>2, <1>3

\* As long as commands run one after the other and to their end, no start creates
\* a second server, and one that is alive between two commands is the recorded one
\* and listens.
THEOREM NoServerIsLost == Spec => []NoOrphan
<1>1. Init => (~disturbed => Orderly)
  <2>1. Init => \A c \in Commands : commands[c].pc = "idle"
    BY PlainValues DEF Init
  <2>2. Init => Settled
    BY PlainValues DEF Init, Settled, IsServer
  <2> QED
    BY <2>1, <2>2 DEF Orderly, KnowsOfServers, At
<1>2. IInv /\ (~disturbed => Orderly) => NoOrphan
  BY OneServerAtMost DEF IInv, Orderly, Settled, NoOrphan, IsServer
<1> QED
  BY <1>1, <1>2, Consistent, UndisturbedInductive, PTL DEF Spec
=============================================================================
