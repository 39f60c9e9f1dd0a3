------------------------------- MODULE Daemon -------------------------------
(***************************************************************************)
(* The lifecycle of the gateway process: llmport commands (start, stop,    *)
(* restart, status) that manage daemons through signals, a pid file and    *)
(* the /health probe.  Commands, daemons and unrelated processes run at    *)
(* the same time and share pids, ports and the file; an action is one      *)
(* system call or HTTP probe.  POSIX only.                                 *)
(***************************************************************************)
EXTENDS Naturals, FiniteSets

CONSTANTS
  Commands,    \* shells in which llmport commands are run, one after another
  Pids,        \* process ids
  Ports,       \* gateway ports
  ConfigPort,  \* the port in config.yaml
  Mishaps,     \* what may go wrong around the program, see Mishap
  None         \* Python's None

Mishap == {"crash",    \* a daemon is killed from outside or crashes
           "term",     \* someone sends SIGTERM to a daemon
           "delete",   \* someone deletes the pid file
           "slow",     \* a daemon takes longer to answer than start() waits
           "recycle",  \* a pid is reused while a stop() is about to signal it
           "ps"}       \* ps is not installed, fails, or takes more than three seconds

Ops == {"start", "stop", "restart", "apply", "status"}

ASSUME ConstantsOK ==
  /\ ConfigPort \in Ports
  /\ Mishaps \subseteq Mishap
  /\ None \notin Pids /\ None \notin Ports /\ None \notin Ops

VARIABLES
  proc,  \* pid -> what runs there
  port,  \* pid -> the port its daemon uses
  fd,    \* pid -> its daemon's open handle on the pid file
  file,  \* daemon.pid
  cmd    \* shell -> the command it is running and where that is

vars == <<proc, port, fd, file, cmd>>

-----------------------------------------------------------------------------
(* Processes and the pid file                                              *)

Booting == {"booting", "writing", "loading"}

DaemonStates == Booting \cup {"serving", "draining", "leaving"}

\* A file that does not parse reads like one without pid and port.
Files == [exists : BOOLEAN, pid : Pids \cup {None}, port : Ports \cup {None}]

Absent == [exists |-> FALSE, pid |-> None, port |-> None]
Torn == [exists |-> TRUE, pid |-> None, port |-> None]
Names(n, p) == [exists |-> TRUE, pid |-> n, port |-> p]

\* The file goes; what has it open writes into the void.
Unlink ==
  /\ file' = Absent
  /\ fd' = [n \in Pids |-> IF fd[n] = "linked" THEN "unlinked" ELSE fd[n]]

\* Something answers /health on port p.
Answers(p) == \E n \in Pids : proc[n] = "serving" /\ port[n] = p

\* A stop() has identified pid n and relies on it.
Held(n) == \E c \in Commands : cmd[c].pid = n /\ cmd[c].at \in {"term", "wait", "kill"}

Unused(n) == proc[n] = "free" /\ (Held(n) => "recycle" \in Mishaps)

-----------------------------------------------------------------------------
(* Commands                                                                *)

\* at    where the command is
\* for   on whose behalf is_running() was called: the command itself, start()
\*       before or after it spawns, or stop()
\* pid   the pid that was read from the file
\* want  the --port argument
\* wait  the port start() polls, and the pid it spawned
CommandStates ==
  [op : Ops \cup {None},
   at : {"idle", "read", "probe", "identify", "clean", "port", "guard", "spawn",
         "poll", "term", "wait", "kill"},
   for : {"command", "start", "confirm", "stop"},
   pid : Pids \cup {None}, want : Ports \cup {None},
   wait : Ports \cup {None}, child : Pids \cup {None}]

Resting == [op |-> None, at |-> "idle", for |-> "command", pid |-> None,
            want |-> None, wait |-> None, child |-> None]

Goto(c, where) == cmd' = [cmd EXCEPT ![c].at = where]

\* Call is_running() (or the same steps at the head of stop()) for why.
Ask(c, why) == cmd' = [cmd EXCEPT ![c].at = "read", ![c].for = why, ![c].pid = None]

Finish(c) == cmd' = [cmd EXCEPT ![c] = Resting]

\* stop() is over; restart() goes on with start().
Stopped(c) == IF cmd[c].op \in {"restart", "apply"} THEN Ask(c, "start") ELSE Finish(c)

\* What follows once is_running() has said that the daemon runs.
Running(c) ==
  CASE cmd[c].for = "command" /\ cmd[c].op \in {"stop", "restart", "apply"} -> Ask(c, "stop")
    [] cmd[c].for = "stop"                                                  -> Goto(c, "term")
    [] OTHER                                                                -> Finish(c)

\* What follows once it has said that none runs.
NotRunning(c) ==
  CASE cmd[c].for = "command" /\ cmd[c].op \in {"start", "restart"} -> Ask(c, "start")
    [] cmd[c].for = "start"                                         -> Goto(c, "port")
    [] cmd[c].for = "stop"                                          -> Stopped(c)
    [] OTHER                                                        -> Finish(c)

\* A command is given.  apply is the restart after a change of configuration.
Issue(c, o, p) ==
  /\ cmd[c].at = "idle"
  /\ o \in {"start", "restart"} \/ p = None
  /\ cmd' = [cmd EXCEPT ![c] = [Resting EXCEPT !.op = o, !.at = "read", !.want = p]]
  /\ UNCHANGED <<proc, port, fd, file>>

ReadPid(c) ==
  /\ cmd[c].at = "read"
  /\ \/ /\ file.pid # None
        /\ cmd' = [cmd EXCEPT ![c].pid = file.pid, ![c].at = "probe"]
     \/ file.pid = None /\ cmd[c].for = "stop" /\ Goto(c, "clean")
     \/ file.pid = None /\ cmd[c].for # "stop" /\ NotRunning(c)
  /\ UNCHANGED <<proc, port, fd, file>>

\* os.kill(pid, 0)
Probe(c) ==
  /\ cmd[c].at = "probe"
  /\ Goto(c, IF proc[cmd[c].pid] = "free" THEN "clean" ELSE "identify")
  /\ UNCHANGED <<proc, port, fd, file>>

\* Mutant: a process that is alive is taken for the daemon.
TakenForOursIfAlive(n) == TRUE

\* Mutant: only a daemon that answers /health is taken for one.
TakenForOursIfServing(n) == proc[n] \in {"serving", "free"}

\* What the command line that ps shows is taken for.  That of a process that
\* has just died cannot be read, and the earlier sign of life is trusted.
TakenForOurs(n) == proc[n] \in DaemonStates \cup {"free"}

\* Without ps any process that is alive is taken for the daemon.
Identify(c) ==
  /\ cmd[c].at = "identify"
  /\ \/ (TakenForOurs(cmd[c].pid) \/ "ps" \in Mishaps) /\ Running(c)
     \/ ~TakenForOurs(cmd[c].pid) /\ Goto(c, "clean")
  /\ UNCHANGED <<proc, port, fd, file>>

Clean(c) ==
  /\ cmd[c].at = "clean"
  /\ Unlink
  /\ NotRunning(c)
  /\ UNCHANGED <<proc, port>>

\* Mutant: without a readable port in the pid file, port 0.
GatewayPortOrZero == IF file.port # None THEN file.port ELSE 0

GatewayPort == IF file.port # None THEN file.port ELSE ConfigPort

\* Where start() will look for its daemon.
WaitPort(c) ==
  /\ cmd[c].at = "port"
  /\ cmd' = [cmd EXCEPT ![c].at = "guard",
                        ![c].wait = IF cmd[c].want # None THEN cmd[c].want ELSE GatewayPort]
  /\ UNCHANGED <<proc, port, fd, file>>

\* Mutant: no look at the port before spawning.
NoOrphanGuard(c) ==
  /\ cmd[c].at = "guard"
  /\ Goto(c, "spawn")
  /\ UNCHANGED <<proc, port, fd, file>>

\* Something answers on the port, and no pid file names it: do not spawn.
OrphanGuard(c) ==
  /\ cmd[c].at = "guard"
  /\ \/ Answers(cmd[c].wait) /\ Finish(c)
     \/ (Answers(cmd[c].wait) => "slow" \in Mishaps) /\ Goto(c, "spawn")
  /\ UNCHANGED <<proc, port, fd, file>>

\* Mutant: start() does not wait for the daemon to come up.
SpawnAndGo(c) ==
  /\ cmd[c].at = "spawn"
  /\ \E n \in Pids :
       /\ Unused(n)
       /\ proc' = [proc EXCEPT ![n] = "booting"]
       /\ port' = [port EXCEPT ![n] = IF cmd[c].want # None THEN cmd[c].want ELSE ConfigPort]
  /\ Finish(c)
  /\ UNCHANGED <<fd, file>>

Spawn(c) ==
  /\ cmd[c].at = "spawn"
  /\ \E n \in Pids :
       /\ Unused(n)
       /\ proc' = [proc EXCEPT ![n] = "booting"]
       /\ port' = [port EXCEPT ![n] = IF cmd[c].want # None THEN cmd[c].want ELSE ConfigPort]
       /\ cmd' = [cmd EXCEPT ![c].at = "poll", ![c].child = n]
  /\ UNCHANGED <<fd, file>>

\* The system has no process to spare, and Popen() raises.
SpawnFails(c) ==
  /\ cmd[c].at = "spawn" /\ \A n \in Pids : ~Unused(n)
  /\ Finish(c)
  /\ UNCHANGED <<proc, port, fd, file>>

\* /health answers on the port: is it the daemon of the pid file?
Poll(c) ==
  /\ cmd[c].at = "poll" /\ Answers(cmd[c].wait)
  /\ Ask(c, "confirm")
  /\ UNCHANGED <<proc, port, fd, file>>

\* Nothing answered before the deadline.
GiveUp(c) ==
  /\ cmd[c].at = "poll"
  /\ \/ "slow" \in Mishaps
     \/ proc[cmd[c].child] \notin Booting \cup {"leaving"} /\ ~Answers(cmd[c].wait)
  /\ Finish(c)
  /\ UNCHANGED <<proc, port, fd, file>>

-----------------------------------------------------------------------------
(* Signals                                                                 *)

\* What SIGTERM makes of a process: uvicorn's handler shuts down gracefully,
\* without it (before the server runs, or any other process) it is the end.
AfterTerm(state) ==
  CASE state \in {"serving", "draining"} -> {"draining"}
    [] state = "loading"                 -> {"draining", "free"}
    [] OTHER                             -> {"free"}

\* Process n gets to state s, and loses its open files if that is the end.
Becomes(n, s) ==
  /\ proc' = [proc EXCEPT ![n] = s]
  /\ IF s = "free"
       THEN port' = [port EXCEPT ![n] = None] /\ fd' = [fd EXCEPT ![n] = "none"]
       ELSE UNCHANGED <<port, fd>>

Terminate(c) ==
  /\ cmd[c].at = "term"
  /\ \E s \in AfterTerm(proc[cmd[c].pid]) : Becomes(cmd[c].pid, s)
  /\ Goto(c, "wait")
  /\ UNCHANGED file

SeenExited(c) ==
  /\ cmd[c].at = "wait" /\ proc[cmd[c].pid] = "free"
  /\ Goto(c, "clean")
  /\ UNCHANGED <<proc, port, fd, file>>

\* Mutant: wait for as long as it takes.
WaitOn(c) ==
  /\ cmd[c].at = "wait" /\ proc[cmd[c].pid] # "free"
  /\ UNCHANGED vars

\* Mutant: give up on a process that will not exit.
LeaveItRunning(c) ==
  /\ cmd[c].at = "wait" /\ proc[cmd[c].pid] # "free"
  /\ Goto(c, "clean")
  /\ UNCHANGED <<proc, port, fd, file>>

\* Six seconds have passed: resort to SIGKILL.
Escalate(c) ==
  /\ cmd[c].at = "wait" /\ proc[cmd[c].pid] # "free"
  /\ Goto(c, "kill")
  /\ UNCHANGED <<proc, port, fd, file>>

Kill(c) ==
  /\ cmd[c].at = "kill"
  /\ Becomes(cmd[c].pid, "free")
  /\ Goto(c, "clean")
  /\ UNCHANGED file

-----------------------------------------------------------------------------
(* The daemon (run_daemon)                                                 *)

\* write_text() truncates the file when it opens it ...
OpenPidFile(n) ==
  /\ proc[n] = "booting"
  /\ proc' = [proc EXCEPT ![n] = "writing"]
  /\ fd' = [fd EXCEPT ![n] = "linked"]
  /\ file' = Torn
  /\ UNCHANGED <<port, cmd>>

\* ... and writes when it closes it: over what another daemon has written in
\* between, which leaves a readable file only if that was no longer.
WritePidFile(n) ==
  /\ proc[n] = "writing"
  /\ proc' = [proc EXCEPT ![n] = "loading"]
  /\ fd' = [fd EXCEPT ![n] = "none"]
  /\ \/ fd[n] = "linked" /\ file' = Names(n, port[n])
     \/ fd[n] = "linked" /\ file # Torn /\ file' = Torn
     \/ fd[n] = "unlinked" /\ UNCHANGED file
  /\ UNCHANGED <<port, cmd>>

\* No key, no usable port, or create_app() raises: the try of run_daemon()
\* begins later, so that a pid file already written stays.
Abort(n) ==
  /\ proc[n] \in {"booting", "loading"}
  /\ Becomes(n, "free")
  /\ UNCHANGED <<file, cmd>>

Bind(n) ==
  /\ proc[n] = "loading" /\ ~Answers(port[n])
  /\ Becomes(n, "serving")
  /\ UNCHANGED <<file, cmd>>

\* The port is taken, by a daemon or by any other program: uvicorn exits.
BindFails(n) ==
  /\ proc[n] = "loading"
  /\ Becomes(n, "leaving")
  /\ UNCHANGED <<file, cmd>>

\* The last connection is done.  uvicorn raises the signal anew, which may end
\* the process before the finally clause runs.
Drained(n) ==
  /\ proc[n] = "draining"
  /\ Becomes(n, "leaving") \/ Becomes(n, "free")
  /\ UNCHANGED <<file, cmd>>

\* The finally clause removes the pid file, whoever's it is by now.
Leave(n) ==
  /\ proc[n] = "leaving"
  /\ proc' = [proc EXCEPT ![n] = "free"]
  /\ port' = [port EXCEPT ![n] = None]
  /\ Unlink
  /\ UNCHANGED cmd

-----------------------------------------------------------------------------
(* The surroundings                                                        *)

Crash(n) ==
  /\ "crash" \in Mishaps /\ proc[n] \in DaemonStates
  /\ Becomes(n, "free")
  /\ UNCHANGED <<file, cmd>>

SigTerm(n) ==
  /\ "term" \in Mishaps /\ proc[n] \in DaemonStates
  /\ \E s \in AfterTerm(proc[n]) : Becomes(n, s)
  /\ UNCHANGED <<file, cmd>>

DeletePidFile ==
  /\ "delete" \in Mishaps /\ file.exists
  /\ Unlink
  /\ UNCHANGED <<proc, port, cmd>>

\* An unrelated process comes or goes.
Stranger(n) ==
  /\ \/ Unused(n) /\ proc' = [proc EXCEPT ![n] = "other"]
     \/ proc[n] = "other" /\ proc' = [proc EXCEPT ![n] = "free"]
  /\ UNCHANGED <<port, fd, file, cmd>>

-----------------------------------------------------------------------------
Init ==
  /\ proc = [n \in Pids |-> "free"]
  /\ port = [n \in Pids |-> None]
  /\ fd = [n \in Pids |-> "none"]
  /\ file = Absent
  /\ cmd = [c \in Commands |-> Resting]

\* A step of the command that is under way.
Step(c) ==
  \/ ReadPid(c) \/ Probe(c) \/ Identify(c) \/ Clean(c)
  \/ WaitPort(c) \/ OrphanGuard(c) \/ Spawn(c) \/ SpawnFails(c)
  \/ Poll(c) \/ GiveUp(c)
  \/ Terminate(c) \/ SeenExited(c) \/ Escalate(c) \/ Kill(c)

DaemonStep(n) ==
  \/ OpenPidFile(n) \/ WritePidFile(n) \/ Abort(n)
  \/ Bind(n) \/ BindFails(n) \/ Drained(n) \/ Leave(n)

Next ==
  \/ \E c \in Commands :
       \/ \E o \in Ops, p \in Ports \cup {None} : Issue(c, o, p)
       \/ Step(c)
  \/ \E n \in Pids : DaemonStep(n) \/ Crash(n) \/ SigTerm(n) \/ Stranger(n)
  \/ DeletePidFile

Spec == Init /\ [][Next]_vars

\* A daemon on its way up comes up or fails, one on its way out goes; only the
\* draining of its connections may take for ever.
ComesUp(n) ==
  OpenPidFile(n) \/ WritePidFile(n) \/ Abort(n) \/ Bind(n) \/ BindFails(n) \/ Leave(n)

FairSpec ==
  /\ Spec
  /\ \A c \in Commands : WF_vars(Step(c))
  /\ "slow" \notin Mishaps => \A n \in Pids : WF_vars(ComesUp(n))

-----------------------------------------------------------------------------
(* Properties                                                              *)

\* Every variable has its type.
TypeOK ==
  /\ proc \in [Pids -> {"free", "other"} \cup DaemonStates]
  /\ port \in [Pids -> Ports \cup {None}]
  /\ fd \in [Pids -> {"none", "linked", "unlinked"}]
  /\ file \in Files
  /\ cmd \in [Commands -> CommandStates]

\* Daemon n has written the pid file, and it names n, with its port.
OnFile(n) ==
  proc[n] \in {"loading", "serving", "draining"} /\ file = Names(n, port[n])

\* The pid file of daemon n has been taken from it.
Robbed(n) == proc[n] \in {"loading", "serving", "draining", "leaving"} /\ file.pid # n

\* In one shell repeated starts never make a second daemon, and a restart lets
\* the old one go before it makes the new one: of two daemons, one has lost its
\* pid file, and KeepsItsPidFile says how it can.
AtMostOneDaemon ==
  \A m, n \in Pids :
    proc[m] \in DaemonStates /\ proc[n] \in DaemonStates /\ ~Robbed(m) /\ ~Robbed(n) => m = n

\* In one shell no daemon is started on the port of one that serves, not even
\* when that one has lost its pid file.
NeverDoubled ==
  \A m, n \in Pids : proc[m] = "serving" /\ proc[n] \in Booting => port[m] # port[n]

\* While a daemon serves, the pid file names it and its port, so that stop and
\* status reach it: nobody clears or overwrites a live daemon's file.
ServingIsOnFile ==
  \A n \in Pids : proc[n] = "serving" => file = Names(n, port[n])

\* As long as commands are given in one shell, none takes the pid file from a
\* daemon that is coming up, serving or draining.  A user can, by deleting it,
\* and so can a daemon on its way out that has lost its own.
KeepsItsPidFile ==
  [][\A n \in Pids :
       OnFile(n) /\ proc'[n] \in DaemonStates \ {"leaving"} /\ file' # file =>
         DeletePidFile \/ \E m \in Pids : Robbed(m) /\ Leave(m)]_vars

\* A command that clears the pid file has made sure that the daemon it named is
\* gone: it was dead or a stranger when read, or stop() has ended it.
ClearsOnlyTheDead ==
  \A c \in Commands :
    cmd[c].at = "clean" /\ cmd[c].pid # None => proc[cmd[c].pid] \notin DaemonStates

\* Where ps works and no pid is reused inside a stop(), no signal goes to an
\* unrelated process: that which has come by the pid of a stale file is told from
\* a daemon, however stop() got there, and whatever other shells do meanwhile.
SignalsOnlyDaemons ==
  \A c \in Commands : cmd[c].at \in {"term", "kill"} => proc[cmd[c].pid] # "other"

\* Every command ends, also when the daemon fails to come up or drains for ever.
CommandsEnd == \A c \in Commands : cmd[c].at # "idle" ~> cmd[c].at = "idle"

=============================================================================
