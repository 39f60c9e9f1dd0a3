------------------------------- MODULE Apply -------------------------------
(***************************************************************************)
(* Changes of configuration under a running gateway.  A command that       *)
(* changes a configuration file saves it and restarts the daemon; a daemon *)
(* reads the files one after another while it loads and keeps what it has  *)
(* read.  The lifecycle of Daemon, with what each daemon has read.         *)
(***************************************************************************)
EXTENDS Daemon

VARIABLES
  reads,  \* pid -> how many of its reads of the configuration are done
  stale   \* pid -> has something it read been saved anew since?

allvars == <<proc, port, fd, file, cmd, reads, stale>>

\* What reload() reads, in its order: models, then providers, then the key.
ReloadReads == <<"config.yaml", "providers.yaml", "config.yaml">>

ConfigFiles == {"config.yaml", "providers.yaml"}

HasRead(n, f) == \E i \in 1..reads[n] : ReloadReads[i] = f

Loaded(n) == reads[n] = 3

\* Nothing is read or saved.  What a daemon on its way out has read matters no
\* longer.
KeepsReading ==
  LET Up(n) == proc'[n] \in Booting \cup {"serving"} IN
  /\ reads' = [n \in Pids |-> IF Up(n) THEN reads[n] ELSE 0]
  /\ stale' = [n \in Pids |-> Up(n) /\ stale[n]]

\* A command saves file f, and goes on to _apply_if_running().
Change(c, f) ==
  /\ Issue(c, "apply", None)
  /\ stale' = [n \in Pids |-> stale[n] \/ HasRead(n, f)]
  /\ UNCHANGED reads

\* Mutant: the configuration is loaded before the pid file is written.
ReadEarly(n) ==
  /\ proc[n] = "booting" /\ ~Loaded(n)
  /\ reads' = [reads EXCEPT ![n] = @ + 1]
  /\ UNCHANGED <<vars, stale>>

\* One read of reload(), which create_app() calls.
Read(n) ==
  /\ proc[n] = "loading" /\ ~Loaded(n)
  /\ reads' = [reads EXCEPT ![n] = @ + 1]
  /\ UNCHANGED <<vars, stale>>

\* A command that leaves the configuration alone.
Manages(c) ==
  /\ \/ \E o \in Ops \ {"apply"}, p \in Ports \cup {None} : Issue(c, o, p)
     \/ Step(c)
  /\ KeepsReading

\* A step of a daemon other than a read; it binds once it has read everything.
Lives(n) ==
  /\ \/ OpenPidFile(n) \/ WritePidFile(n) \/ Abort(n) \/ Drained(n) \/ Leave(n)
     \/ Loaded(n) /\ (Bind(n) \/ BindFails(n))
  /\ KeepsReading

\* What the surroundings do to a daemon.
Suffers(n) ==
  /\ Crash(n) \/ SigTerm(n) \/ Stranger(n)
  /\ KeepsReading

ApplyInit ==
  /\ Init
  /\ reads = [n \in Pids |-> 0]
  /\ stale = [n \in Pids |-> FALSE]

ApplyNext ==
  \/ \E c \in Commands : Manages(c) \/ \E f \in ConfigFiles : Change(c, f)
  \/ \E n \in Pids : Read(n) \/ Lives(n) \/ Suffers(n)
  \/ DeletePidFile /\ KeepsReading

ApplySpec == ApplyInit /\ [][ApplyNext]_allvars

-----------------------------------------------------------------------------
(* Properties                                                              *)

\* Every variable has its type.
ApplyTypeOK ==
  /\ TypeOK
  /\ reads \in [Pids -> 0..3]
  /\ stale \in [Pids -> BOOLEAN]

\* Once the commands that changed the configuration are done, the daemon on
\* file serves it as it is on disk, all three reads of the same state of it:
\* whatever other shells do meanwhile, and however daemons come and go.
UpToDate ==
  (\A c \in Commands : cmd[c].op # "apply") =>
    \A n \in Pids : proc[n] = "serving" /\ OnFile(n) => ~stale[n]

\* The command that will end daemon n: it has yet to read the pid file, or it
\* has read n there.
Coming(c, n) ==
  /\ cmd[c].op = "apply" /\ cmd[c].for \in {"command", "stop"}
  /\ \/ cmd[c].at = "read"
     \/ cmd[c].at \in {"probe", "identify", "term"} /\ cmd[c].pid = n

\* A daemon that has read something outdated, and is on file, is about to be
\* ended.
Replaced ==
  \A n \in Pids :
    stale[n] /\ file.pid = n => \E c \in Commands : Coming(c, n)

=============================================================================
