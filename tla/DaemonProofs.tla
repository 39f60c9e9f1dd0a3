---------------------------- MODULE DaemonProofs ----------------------------
(* Theorems about Daemon and Apply, for any number of shells, pids and     *)
(* ports, and whatever mishaps a theorem does not exclude.                 *)
EXTENDS Apply, TLAPS

\* A command acts on a pid it has read, and polls for a daemon it has spawned.
Purposeful(r) ==
  /\ r.at \in {"probe", "identify", "term", "wait", "kill"} => r.pid \in Pids
  /\ r.at = "poll" => r.child \in Pids

CmdOK ==
  /\ cmd \in [Commands -> CommandStates]
  /\ \A c \in Commands : Purposeful(cmd[c])

Steps == {"idle", "read", "probe", "identify", "clean", "port", "guard", "spawn",
          "poll", "term", "wait", "kill"}

LEMMA OneMoves ==
  ASSUME CmdOK, NEW c \in Commands, NEW r \in CommandStates, Purposeful(r),
         cmd' = [cmd EXCEPT ![c] = r]
  PROVE  CmdOK'
BY DEF CmdOK, Purposeful

LEMMA GotoOK ==
  ASSUME CmdOK, NEW c \in Commands, NEW w \in Steps \ {"poll"}, Goto(c, w),
         w \in {"probe", "identify", "term", "wait", "kill"} => cmd[c].pid \in Pids
  PROVE  CmdOK'
<1> DEFINE r == [cmd[c] EXCEPT !.at = w]
<1>1. cmd[c] \in CommandStates
  BY DEF CmdOK
<1>2. r \in CommandStates /\ r.at = w /\ r.pid = cmd[c].pid
  BY <1>1 DEF CommandStates, Steps
<1>3. Purposeful(r)
  BY <1>2 DEF Purposeful
<1>4. cmd' = [cmd EXCEPT ![c] = r]
  BY DEF Goto
<1> QED BY <1>2, <1>3, <1>4, OneMoves

LEMMA AskOK ==
  ASSUME CmdOK, NEW c \in Commands, NEW why \in {"start", "confirm", "stop"}, Ask(c, why)
  PROVE  CmdOK'
<1> DEFINE r == [cmd[c] EXCEPT !.at = "read", !.for = why, !.pid = None]
<1>1. cmd[c] \in CommandStates
  BY DEF CmdOK
<1>2. r \in CommandStates /\ r.at = "read"
  BY <1>1 DEF CommandStates
<1>3. Purposeful(r)
  BY <1>2 DEF Purposeful
<1>4. cmd' = [cmd EXCEPT ![c] = r]
  BY DEF Ask
<1> QED BY <1>2, <1>3, <1>4, OneMoves

LEMMA FinishOK ==
  ASSUME CmdOK, NEW c \in Commands, Finish(c)
  PROVE  CmdOK'
<1>1. Resting \in CommandStates /\ Purposeful(Resting)
  BY DEF Resting, CommandStates, Purposeful
<1> QED BY <1>1, OneMoves DEF Finish

LEMMA NotRunningOK ==
  ASSUME CmdOK, NEW c \in Commands, NotRunning(c)
  PROVE  CmdOK'
<1>1. Ask(c, "start") \/ Goto(c, "port") \/ Finish(c)
  BY DEF NotRunning, Stopped
<1> QED BY <1>1, AskOK, GotoOK, FinishOK DEF Steps

LEMMA RunningOK ==
  ASSUME CmdOK, NEW c \in Commands, Running(c), cmd[c].pid \in Pids
  PROVE  CmdOK'
<1>1. Ask(c, "stop") \/ Goto(c, "term") \/ Finish(c)
  BY DEF Running
<1> QED BY <1>1, AskOK, GotoOK, FinishOK DEF Steps

\* The system's side of the state.
SystemOK ==
  /\ proc \in [Pids -> {"free", "other"} \cup DaemonStates]
  /\ port \in [Pids -> Ports \cup {None}]
  /\ fd \in [Pids -> {"none", "linked", "unlinked"}]
  /\ file \in Files

LEMMA UnlinkOK ==
  ASSUME SystemOK, Unlink
  PROVE  file' \in Files /\ fd' \in [Pids -> {"none", "linked", "unlinked"}]
BY DEF SystemOK, Unlink, Absent, Files

LEMMA BecomesOK ==
  ASSUME SystemOK, NEW n \in Pids, NEW s \in {"free", "other"} \cup DaemonStates,
         Becomes(n, s), UNCHANGED file
  PROVE  SystemOK'
<1>1. proc' \in [Pids -> {"free", "other"} \cup DaemonStates]
  BY DEF SystemOK, Becomes
<1>2. port' \in [Pids -> Ports \cup {None}]
  BY DEF SystemOK, Becomes
<1>3. fd' \in [Pids -> {"none", "linked", "unlinked"}]
  BY DEF SystemOK, Becomes
<1> QED BY <1>1, <1>2, <1>3 DEF SystemOK

LEMMA AfterTermOK ==
  \A s : AfterTerm(s) \subseteq {"free", "draining"}
BY DEF AfterTerm

\* Every step of a command keeps the types.
LEMMA StepTypes ==
  ASSUME SystemOK, CmdOK, NEW c \in Commands, Step(c)
  PROVE  SystemOK' /\ CmdOK'
<1> USE DEF Steps
<1>0. cmd[c] \in CommandStates /\ Purposeful(cmd[c])
  BY DEF CmdOK
<1>1. CASE ReadPid(c)
  <2>1. SystemOK'
    BY <1>1 DEF ReadPid, SystemOK
  <2>2. CASE file.pid # None /\ cmd' = [cmd EXCEPT ![c].pid = file.pid, ![c].at = "probe"]
    <3> DEFINE r == [cmd[c] EXCEPT !.pid = file.pid, !.at = "probe"]
    <3>1. file.pid \in Pids
      BY <2>2 DEF SystemOK, Files
    <3>2. r \in CommandStates /\ r.at = "probe" /\ r.pid = file.pid
      BY <1>0, <3>1 DEF CommandStates
    <3>3. Purposeful(r)
      BY <3>1, <3>2 DEF Purposeful
    <3>4. cmd' = [cmd EXCEPT ![c] = r]
      BY <2>2
    <3> QED BY <2>1, <3>2, <3>3, <3>4, OneMoves
  <2> QED BY <1>1, <2>1, <2>2, GotoOK, NotRunningOK DEF ReadPid
<1>2. CASE Probe(c)
  <2>1. cmd[c].pid \in Pids
    BY <1>0, <1>2 DEF Probe, Purposeful
  <2>2. Goto(c, "clean") \/ Goto(c, "identify")
    BY <1>2 DEF Probe
  <2> QED BY <1>2, <2>1, <2>2, GotoOK DEF Probe, SystemOK
<1>3. CASE Identify(c)
  <2>1. cmd[c].pid \in Pids
    BY <1>0, <1>3 DEF Identify, Purposeful
  <2>2. Running(c) \/ Goto(c, "clean")
    BY <1>3 DEF Identify
  <2> QED BY <1>3, <2>1, <2>2, GotoOK, RunningOK DEF Identify, SystemOK
<1>4. CASE Clean(c)
  BY <1>4, UnlinkOK, NotRunningOK DEF Clean, SystemOK
<1>5. CASE WaitPort(c)
  <2> DEFINE w == IF cmd[c].want # None THEN cmd[c].want ELSE GatewayPort
             r == [cmd[c] EXCEPT !.at = "guard", !.wait = w]
  <2>1. w \in Ports
    BY <1>0, ConstantsOK DEF GatewayPort, CommandStates, SystemOK, Files
  <2>2. r \in CommandStates /\ r.at = "guard"
    BY <1>0, <2>1 DEF CommandStates
  <2>3. Purposeful(r)
    BY <2>2 DEF Purposeful
  <2>4. cmd' = [cmd EXCEPT ![c] = r]
    BY <1>5 DEF WaitPort
  <2> QED BY <1>5, <2>2, <2>3, <2>4, OneMoves DEF WaitPort, SystemOK
<1>6. CASE OrphanGuard(c)
  BY <1>6, GotoOK, FinishOK DEF OrphanGuard, SystemOK
<1>7. CASE Spawn(c)
  <2>1. PICK n \in Pids :
          /\ proc' = [proc EXCEPT ![n] = "booting"]
          /\ port' = [port EXCEPT ![n] = IF cmd[c].want # None THEN cmd[c].want
                                                              ELSE ConfigPort]
          /\ cmd' = [cmd EXCEPT ![c].at = "poll", ![c].child = n]
    BY <1>7 DEF Spawn
  <2> DEFINE r == [cmd[c] EXCEPT !.at = "poll", !.child = n]
  <2>2. r \in CommandStates /\ r.at = "poll" /\ r.child = n
    BY <1>0 DEF CommandStates
  <2>3. Purposeful(r)
    BY <2>2 DEF Purposeful
  <2>4. cmd' = [cmd EXCEPT ![c] = r]
    BY <2>1
  <2>5. CmdOK'
    BY <2>2, <2>3, <2>4, OneMoves
  <2>6. cmd[c].want \in Ports \cup {None}
    BY <1>0 DEF CommandStates
  <2>7. port' \in [Pids -> Ports \cup {None}]
    BY <2>1, <2>6, ConstantsOK DEF SystemOK
  <2>8. proc' \in [Pids -> {"free", "other"} \cup DaemonStates]
    BY <2>1 DEF SystemOK, DaemonStates, Booting
  <2> QED BY <1>7, <2>5, <2>7, <2>8 DEF Spawn, SystemOK
<1>8. CASE SpawnFails(c) \/ GiveUp(c)
  BY <1>8, FinishOK DEF SpawnFails, GiveUp, SystemOK
<1>9. CASE Poll(c)
  BY <1>9, AskOK DEF Poll, SystemOK
<1>10. CASE Terminate(c)
  <2>1. cmd[c].pid \in Pids
    BY <1>0, <1>10 DEF Terminate, Purposeful
  <2>2. PICK s \in AfterTerm(proc[cmd[c].pid]) : Becomes(cmd[c].pid, s)
    BY <1>10 DEF Terminate
  <2>3. s \in {"free", "other"} \cup DaemonStates
    BY <2>2, AfterTermOK DEF DaemonStates
  <2> QED BY <1>10, <2>1, <2>2, <2>3, BecomesOK, GotoOK DEF Terminate
<1>11. CASE SeenExited(c)
  BY <1>11, GotoOK DEF SeenExited, SystemOK
<1>12. CASE Escalate(c)
  <2>1. cmd[c].pid \in Pids
    BY <1>0, <1>12 DEF Escalate, Purposeful
  <2> QED BY <1>12, <2>1, GotoOK DEF Escalate, SystemOK
<1>13. CASE Kill(c)
  <2>1. cmd[c].pid \in Pids
    BY <1>0, <1>13 DEF Kill, Purposeful
  <2> QED BY <1>13, <2>1, BecomesOK, GotoOK DEF Kill
<1> QED BY <1>1, <1>2, <1>3, <1>4, <1>5, <1>6, <1>7, <1>8, <1>9, <1>10, <1>11, <1>12,
           <1>13 DEF Step

\* Every step of a daemon keeps the types.
LEMMA DaemonStepTypes ==
  ASSUME SystemOK, NEW n \in Pids, DaemonStep(n)
  PROVE  SystemOK'
<1>1. CASE OpenPidFile(n)
  BY <1>1 DEF OpenPidFile, SystemOK, DaemonStates, Booting, Torn, Files
<1>2. CASE WritePidFile(n)
  <2>1. Names(n, port[n]) \in Files /\ Torn \in Files
    BY DEF Names, Torn, SystemOK, Files
  <2> QED BY <1>2, <2>1 DEF WritePidFile, SystemOK, DaemonStates, Booting
<1>3. CASE Abort(n) \/ Bind(n) \/ BindFails(n) \/ Drained(n)
  <2>1. \E s \in {"free", "serving", "leaving"} : Becomes(n, s)
    BY <1>3 DEF Abort, Bind, BindFails, Drained
  <2>2. UNCHANGED file
    BY <1>3 DEF Abort, Bind, BindFails, Drained
  <2> QED BY <2>1, <2>2, BecomesOK DEF DaemonStates
<1>4. CASE Leave(n)
  BY <1>4, UnlinkOK DEF Leave, SystemOK
<1> QED BY <1>1, <1>2, <1>3, <1>4 DEF DaemonStep

\* So does everything else that happens.
LEMMA MishapTypes ==
  ASSUME SystemOK, \/ DeletePidFile
                   \/ \E n \in Pids : Crash(n) \/ SigTerm(n) \/ Stranger(n)
  PROVE  SystemOK'
<1>1. CASE DeletePidFile
  BY <1>1, UnlinkOK DEF DeletePidFile, SystemOK
<1>2. ASSUME NEW n \in Pids, Crash(n) PROVE SystemOK'
  BY <1>2, BecomesOK DEF Crash
<1>3. ASSUME NEW n \in Pids, SigTerm(n) PROVE SystemOK'
  <2>1. PICK s \in AfterTerm(proc[n]) : Becomes(n, s)
    BY <1>3 DEF SigTerm
  <2>2. s \in {"free", "other"} \cup DaemonStates
    BY <2>1, AfterTermOK DEF DaemonStates
  <2> QED BY <1>3, <2>1, <2>2, BecomesOK DEF SigTerm
<1>4. ASSUME NEW n \in Pids, Stranger(n) PROVE SystemOK'
  BY <1>4 DEF Stranger, SystemOK
<1> QED BY <1>1, <1>2, <1>3, <1>4

LEMMA IssueTypes ==
  ASSUME CmdOK, NEW c \in Commands, NEW o \in Ops, NEW p \in Ports \cup {None}, Issue(c, o, p)
  PROVE  CmdOK'
<1> DEFINE r == [Resting EXCEPT !.op = o, !.at = "read", !.want = p]
<1>1. r \in CommandStates /\ r.at = "read"
  BY DEF Resting, CommandStates
<1>2. Purposeful(r)
  BY <1>1 DEF Purposeful
<1>3. cmd' = [cmd EXCEPT ![c] = r]
  BY DEF Issue
<1> QED BY <1>1, <1>2, <1>3, OneMoves

LEMMA TypeStep == SystemOK /\ CmdOK /\ [Next]_vars => SystemOK' /\ CmdOK'
<1> SUFFICES ASSUME SystemOK, CmdOK, [Next]_vars PROVE SystemOK' /\ CmdOK'
  OBVIOUS
<1>1. ASSUME NEW c \in Commands, NEW o \in Ops, NEW p \in Ports \cup {None}, Issue(c, o, p)
      PROVE  SystemOK' /\ CmdOK'
  BY <1>1, IssueTypes DEF Issue, SystemOK
<1>2. ASSUME NEW c \in Commands, Step(c) PROVE SystemOK' /\ CmdOK'
  BY <1>2, StepTypes
<1>3. ASSUME NEW n \in Pids, DaemonStep(n) PROVE SystemOK' /\ CmdOK'
  <2>1. cmd' = cmd
    BY <1>3 DEF DaemonStep, OpenPidFile, WritePidFile, Abort, Bind, BindFails, Drained, Leave
  <2> QED BY <1>3, <2>1, DaemonStepTypes DEF CmdOK
<1>4. ASSUME \/ DeletePidFile
             \/ \E n \in Pids : Crash(n) \/ SigTerm(n) \/ Stranger(n)
      PROVE  SystemOK' /\ CmdOK'
  <2>1. cmd' = cmd
    BY <1>4 DEF DeletePidFile, Crash, SigTerm, Stranger
  <2> QED BY <1>4, <2>1, MishapTypes DEF CmdOK
<1>5. CASE UNCHANGED vars
  BY <1>5 DEF vars, SystemOK, CmdOK
<1> QED BY <1>1, <1>2, <1>3, <1>4, <1>5 DEF Next

LEMMA TypeInit == Init => SystemOK /\ CmdOK
<1>1. Resting \in CommandStates /\ Purposeful(Resting)
  BY DEF Resting, CommandStates, Purposeful
<1> QED BY <1>1 DEF Init, SystemOK, CmdOK, Absent, Files

\* Every variable keeps its type, whatever goes wrong.
THEOREM TypeCorrect == Spec => []TypeOK
<1>1. Spec => [](SystemOK /\ CmdOK)
  BY TypeInit, TypeStep, PTL DEF Spec
<1>2. SystemOK /\ CmdOK => TypeOK
  BY DEF SystemOK, CmdOK, TypeOK
<1> QED BY <1>1, <1>2, PTL

-----------------------------------------------------------------------------
(* Signals                                                                 *)

\* stop() has identified the process and is out to end it.
Ending(c) == cmd[c].at \in {"term", "wait", "kill"}

\* Its pid stays as it is, and was identified when this began.
LEMMA EndingBegins ==
  ASSUME CmdOK, [Next]_vars, NEW c \in Commands, Ending(c)'
  PROVE  /\ cmd'[c].pid = cmd[c].pid
         /\ \/ Ending(c)
            \/ /\ cmd[c].pid \in Pids /\ UNCHANGED proc
               /\ TakenForOurs(cmd[c].pid) \/ "ps" \in Mishaps
<1>0. cmd[c] \in CommandStates /\ Purposeful(cmd[c]) /\ cmd \in [Commands -> CommandStates]
  BY DEF CmdOK
<1>1. CASE cmd'[c] = cmd[c]
  BY <1>1 DEF Ending
<1>2. ASSUME cmd'[c] # cmd[c], NEW d \in Commands,
             NEW r, cmd' = [cmd EXCEPT ![d] = r]
      PROVE  d = c
  BY <1>0, <1>2
<1>3. ASSUME NEW d \in Commands, NEW o \in Ops, NEW p \in Ports \cup {None}, Issue(d, o, p),
             cmd'[c] # cmd[c]
      PROVE  FALSE
  <2>1. d = c
    BY <1>2, <1>3 DEF Issue
  <2>2. cmd'[c].at = "read"
    BY <1>0, <1>3, <2>1 DEF Issue, Resting
  <2> QED BY <2>2 DEF Ending
<1>4. ASSUME NEW d \in Commands, Step(d), cmd'[c] # cmd[c]
      PROVE  /\ cmd'[c].pid = cmd[c].pid
             /\ \/ Ending(c)
                \/ /\ cmd[c].pid \in Pids /\ UNCHANGED proc
                   /\ TakenForOurs(cmd[c].pid) \/ "ps" \in Mishaps
  <2>1. d = c
    BY <1>0, <1>4 DEF Step, ReadPid, Probe, Identify, Clean, WaitPort, OrphanGuard, Spawn,
         SpawnFails, Poll, GiveUp, Terminate, SeenExited, Escalate, Kill,
         Running, NotRunning, Stopped, Ask, Goto, Finish
  <2>2. CASE \E w \in Steps : Goto(c, w) /\ w \in {"term", "wait", "kill"}
    <3>1. cmd'[c].pid = cmd[c].pid
      BY <1>0, <2>2 DEF Goto, CommandStates
    <3>2. CASE Identify(c)
      <4>1. TakenForOurs(cmd[c].pid) \/ "ps" \in Mishaps
        BY <1>0, <2>2, <3>2 DEF Identify, Goto, CommandStates
      <4> QED BY <1>0, <3>1, <3>2, <4>1 DEF Identify, Purposeful
    <3>3. CASE Terminate(c) \/ Escalate(c)
      BY <3>1, <3>3 DEF Terminate, Escalate, Ending
    <3>4. cmd'[c].at \in {"term", "wait", "kill"}
      BY <1>0, <2>2 DEF Goto, CommandStates
    <3>5. CASE ReadPid(c) \/ Clean(c)
      BY <1>0, <3>4, <3>5 DEF ReadPid, Clean, NotRunning, Stopped, Ask, Goto, Finish,
         Resting, CommandStates
    <3>6. CASE Probe(c) \/ WaitPort(c) \/ OrphanGuard(c) \/ Spawn(c)
      BY <1>0, <3>4, <3>6 DEF Probe, WaitPort, OrphanGuard, Spawn, Goto, Finish,
         Resting, CommandStates
    <3>7. CASE SpawnFails(c) \/ Poll(c) \/ GiveUp(c) \/ SeenExited(c) \/ Kill(c)
      BY <1>0, <3>4, <3>7 DEF SpawnFails, Poll, GiveUp, SeenExited, Kill, Ask, Goto, Finish,
         Resting, CommandStates
    <3> QED BY <1>4, <2>1, <3>2, <3>3, <3>5, <3>6, <3>7 DEF Step
  <2>3. CASE ~\E w \in Steps : Goto(c, w) /\ w \in {"term", "wait", "kill"}
    <3>1. cmd'[c].at \notin {"term", "wait", "kill"}
      BY <1>0, <1>4, <2>1, <2>3
         DEF Step, ReadPid, Probe, Identify, Clean, WaitPort, OrphanGuard, Spawn,
         SpawnFails, Poll, GiveUp, Terminate, SeenExited, Escalate, Kill,
         Running, NotRunning, Stopped, Ask, Goto, Finish, Resting, CommandStates, Steps
    <3> QED BY <3>1 DEF Ending
  <2> QED BY <2>2, <2>3
<1>5. CASE cmd' = cmd
  BY <1>1, <1>5
<1>6. CASE cmd' # cmd
  BY <1>1, <1>3, <1>4, <1>6
     DEF Next, DaemonStep, OpenPidFile, WritePidFile, Abort, Bind, BindFails, Drained, Leave,
         DeletePidFile, Crash, SigTerm, Stranger, vars
<1> QED BY <1>5, <1>6

\* A stranger comes only where a pid may be used.
LEMMA StrangerArrives ==
  ASSUME SystemOK, CmdOK, [Next]_vars, NEW n \in Pids, proc'[n] = "other", proc[n] # "other"
  PROVE  Unused(n)
<1>1. ASSUME NEW m \in Pids, NEW s \in {"free", "draining", "serving", "leaving"}, Becomes(m, s)
      PROVE  FALSE
  BY <1>1 DEF Becomes, SystemOK
<1>2. ASSUME NEW m \in Pids, NEW t, NEW s \in AfterTerm(t), Becomes(m, s)
      PROVE  FALSE
  BY <1>1, <1>2, AfterTermOK
<1>3. proc' # proc
  OBVIOUS
<1>4. ASSUME NEW c \in Commands, Step(c)
      PROVE  FALSE
  <2>1. Spawn(c) \/ Terminate(c) \/ Kill(c)
    BY <1>3, <1>4 DEF Step, ReadPid, Probe, Identify, Clean, WaitPort, OrphanGuard,
         SpawnFails, Poll, GiveUp, SeenExited, Escalate
  <2>2. Purposeful(cmd[c])
    BY DEF CmdOK
  <2>3. ~Spawn(c)
    BY DEF Spawn, SystemOK
  <2>4. ~Terminate(c)
    BY <1>2, <2>2 DEF Terminate, Purposeful
  <2>5. ~Kill(c)
    BY <1>1, <2>2 DEF Kill, Purposeful
  <2> QED BY <2>1, <2>3, <2>4, <2>5
<1>5. ASSUME NEW m \in Pids, DaemonStep(m) \/ Crash(m)
      PROVE  FALSE
  <2>1. OpenPidFile(m) \/ WritePidFile(m) \/ Leave(m)
    BY <1>1, <1>5 DEF DaemonStep, Abort, Bind, BindFails, Drained, Crash
  <2> QED BY <2>1 DEF OpenPidFile, WritePidFile, Leave, SystemOK
<1>6. ASSUME NEW m \in Pids, SigTerm(m)
      PROVE  FALSE
  BY <1>2, <1>6 DEF SigTerm
<1>7. ASSUME NEW m \in Pids, Stranger(m)
      PROVE  Unused(n)
  BY <1>7 DEF Stranger, SystemOK
<1> QED BY <1>3, <1>4, <1>5, <1>6, <1>7 DEF Next, Issue, DeletePidFile, vars

\* What stop() is ending is no stranger.
NoStranger == \A c \in Commands : Ending(c) => proc[cmd[c].pid] # "other"

\* Where ps shows whose pid it is, and no pid is reused within a stop(), no
\* unrelated process is ever signalled: whatever else goes wrong, and however
\* many shells are at work.  Neither condition can be left out: with either
\* mishap alone stop() does signal a stranger.
THEOREM SignalsSpareStrangers ==
  Mishaps \cap {"ps", "recycle"} = {} => (Spec => []SignalsOnlyDaemons)
<1> SUFFICES ASSUME "ps" \notin Mishaps, "recycle" \notin Mishaps
             PROVE  Spec => []SignalsOnlyDaemons
  OBVIOUS
<1>1. Init => NoStranger
  BY DEF Init, Resting, NoStranger, Ending
<1>2. SystemOK /\ CmdOK /\ NoStranger /\ [Next]_vars => NoStranger'
  <2> SUFFICES ASSUME SystemOK, CmdOK, NoStranger, [Next]_vars,
                      NEW c \in Commands, Ending(c)'
               PROVE  proc'[cmd'[c].pid] # "other"
    BY DEF NoStranger
  <2>1. cmd'[c].pid = cmd[c].pid
    BY EndingBegins
  <2>2. CASE Ending(c)
    <3>1. cmd[c].pid \in Pids /\ proc[cmd[c].pid] # "other" /\ Held(cmd[c].pid)
      BY <2>2 DEF NoStranger, Ending, CmdOK, Purposeful, Held
    <3>2. ~Unused(cmd[c].pid)
      BY <3>1 DEF Unused
    <3> QED BY <2>1, <3>1, <3>2, StrangerArrives
  <2>3. CASE ~Ending(c)
    <3>1. TakenForOurs(cmd[c].pid) /\ proc' = proc
      BY <2>3, EndingBegins
    <3> QED BY <2>1, <3>1 DEF TakenForOurs, DaemonStates, Booting
  <2> QED BY <2>2, <2>3
<1>3. NoStranger => SignalsOnlyDaemons
  BY DEF NoStranger, SignalsOnlyDaemons, Ending
<1> QED BY <1>1, <1>2, <1>3, TypeInit, TypeStep, PTL DEF Spec

-----------------------------------------------------------------------------
(* One shell                                                               *)

Alive(n) == proc[n] \in DaemonStates

\* Where daemon n is while shell c is the only one: on file once it has written
\* the file, and on its way there only while c polls for it; and c, if it is at
\* a daemon, is at this one.
InItsPlace(c, n) ==
  /\ \/ cmd[c].at \in {"idle", "read"}
     \/ cmd[c].at = "poll" /\ cmd[c].child = n
     \/ cmd[c].at \in {"probe", "identify", "term", "wait", "kill"} /\ cmd[c].pid = n
  /\ proc[n] \in {"booting", "writing"} => cmd[c].at = "poll"
  /\ proc[n] = "writing" => fd[n] = "linked" /\ file = Torn
  /\ proc[n] \notin {"booting", "writing"} => file = Names(n, port[n])

Sole(c) == \A n \in Pids : Alive(n) => InItsPlace(c, n)

LEMMA SoleIsOne ==
  ASSUME NEW c, Sole(c), NEW m \in Pids, NEW n \in Pids, Alive(m), Alive(n)
  PROVE  m = n
<1>1. InItsPlace(c, m) /\ InItsPlace(c, n)
  BY DEF Sole
<1>2. Names(m, port[m]) = Names(n, port[n]) => m = n
  BY DEF Names
<1> QED BY <1>1, <1>2 DEF InItsPlace

\* What a step of the shell makes of the daemon, and what it does next.
LEMMA SoleCommandStep ==
  ASSUME NEW c, Commands = {c}, "slow" \notin Mishaps,
         SystemOK, CmdOK, Sole(c), Step(c), NEW m \in Pids, Alive(m)'
  PROVE  InItsPlace(c, m)'
<1>0. cmd \in [Commands -> CommandStates] /\ cmd[c] \in CommandStates /\ Purposeful(cmd[c])
  BY DEF CmdOK
<1>00. m # None
  BY ConstantsOK
<1>1. ASSUME UNCHANGED proc
      PROVE  Alive(m) /\ InItsPlace(c, m)
  BY <1>1 DEF Alive, Sole
<1>2. CASE ReadPid(c)
  <2>1. InItsPlace(c, m) /\ file = Names(m, port[m]) /\ cmd[c].at = "read"
    BY <1>1, <1>2 DEF ReadPid, InItsPlace
  <2>2. cmd' = [cmd EXCEPT ![c].pid = m, ![c].at = "probe"]
    BY <1>2, <2>1, <1>00 DEF ReadPid, Names
  <2>3. cmd'[c] = [cmd[c] EXCEPT !.pid = m, !.at = "probe"]
    BY <1>0, <2>2
  <2>4. cmd'[c].pid = m /\ cmd'[c].at = "probe"
    BY <1>0, <2>3 DEF CommandStates
  <2> QED BY <1>2, <2>1, <2>4 DEF ReadPid, InItsPlace
<1>3. CASE Probe(c)
  <2>1. InItsPlace(c, m) /\ cmd[c].at = "probe" /\ cmd[c].pid = m /\ proc[m] # "free"
    BY <1>1, <1>3 DEF Probe, InItsPlace, Alive, DaemonStates, Booting
  <2>2. Goto(c, "identify")
    BY <1>3, <2>1 DEF Probe
  <2>3. cmd'[c].at = "identify" /\ cmd'[c].pid = m
    BY <1>0, <2>1, <2>2 DEF Goto, CommandStates
  <2> QED BY <1>3, <2>1, <2>3 DEF Probe, InItsPlace
<1>4. CASE Identify(c)
  <2>1. InItsPlace(c, m) /\ cmd[c].at = "identify" /\ cmd[c].pid = m /\ Alive(m)
    BY <1>1, <1>4 DEF Identify, InItsPlace
  <2>2. Running(c)
    BY <1>4, <2>1 DEF Identify, TakenForOurs, Alive
  <2>3. Ask(c, "stop") \/ Goto(c, "term") \/ Finish(c)
    BY <2>2 DEF Running
  <2>4. \/ cmd'[c].at \in {"idle", "read"}
        \/ cmd'[c].at = "term" /\ cmd'[c].pid = m
    BY <1>0, <2>1, <2>3 DEF Ask, Goto, Finish, Resting, CommandStates
  <2> QED BY <1>4, <2>1, <2>4 DEF Identify, InItsPlace
<1>5. CASE Clean(c) \/ WaitPort(c) \/ OrphanGuard(c) \/ SpawnFails(c)
  <2>1. UNCHANGED proc /\ cmd[c].at \in {"clean", "port", "guard", "spawn"}
    BY <1>5 DEF Clean, WaitPort, OrphanGuard, SpawnFails
  <2> QED BY <1>1, <2>1 DEF InItsPlace
<1>6. CASE Spawn(c)
  <2>1. PICK n \in Pids : /\ proc' = [proc EXCEPT ![n] = "booting"]
                          /\ cmd' = [cmd EXCEPT ![c].at = "poll", ![c].child = n]
    BY <1>6 DEF Spawn
  <2>2. ~Alive(m)
    BY <1>6 DEF Spawn, Sole, InItsPlace
  <2>3. m = n /\ proc'[m] = "booting"
    BY <2>1, <2>2 DEF Alive, SystemOK
  <2>4. cmd'[c] = [cmd[c] EXCEPT !.at = "poll", !.child = n]
    BY <1>0, <2>1
  <2>5. cmd'[c].at = "poll" /\ cmd'[c].child = m
    BY <1>0, <2>3, <2>4 DEF CommandStates
  <2> QED BY <2>3, <2>5 DEF InItsPlace
<1>7. CASE Poll(c)
  <2>1. PICK k \in Pids : proc[k] = "serving"
    BY <1>7 DEF Poll, Answers
  <2>2. k = m /\ InItsPlace(c, m)
    BY <1>1, <1>7, <2>1, SoleIsOne DEF Poll, Alive, DaemonStates
  <2>3. cmd'[c].at = "read"
    BY <1>0, <1>7 DEF Poll, Ask, CommandStates
  <2> QED BY <1>7, <2>1, <2>2, <2>3 DEF Poll, InItsPlace
<1>8. CASE GiveUp(c)
  <2>1. InItsPlace(c, m) /\ cmd[c].child = m
    BY <1>1, <1>8 DEF GiveUp, InItsPlace
  <2>2. proc[m] \notin {"booting", "writing"}
    BY <1>8, <2>1 DEF GiveUp, Booting
  <2>3. cmd'[c].at = "idle"
    BY <1>0, <1>8 DEF GiveUp, Finish, Resting
  <2> QED BY <1>8, <2>1, <2>2, <2>3 DEF GiveUp, InItsPlace
<1>9. CASE Terminate(c) \/ Kill(c)
  <2>0. cmd[c].pid \in Pids /\ cmd[c].at \in {"term", "kill"}
    BY <1>0, <1>9 DEF Terminate, Kill, Purposeful
  <2>1. PICK s \in {"free", "draining"} :
          /\ Becomes(cmd[c].pid, s)
          /\ s = "draining" => Terminate(c) /\ proc[cmd[c].pid] \in {"loading", "serving", "draining"}
    BY <1>9 DEF Terminate, Kill, AfterTerm
  <2>2. m = cmd[c].pid
    <3>1. CASE m # cmd[c].pid
      <4>1. Alive(m)
        BY <2>1, <3>1 DEF Becomes, Alive
      <4> QED BY <2>0, <4>1 DEF Sole, InItsPlace
    <3> QED BY <3>1
  <2>3. s = "draining" /\ proc'[m] = "draining"
    BY <2>0, <2>1, <2>2 DEF Becomes, Alive, SystemOK, DaemonStates, Booting
  <2>4. InItsPlace(c, m)
    BY <2>1, <2>2, <2>3 DEF Sole, Alive, DaemonStates, Booting
  <2>5. Terminate(c) /\ UNCHANGED <<file, port>>
    BY <2>1, <2>3 DEF Terminate, Becomes
  <2>6. cmd'[c].at = "wait" /\ cmd'[c].pid = m
    BY <1>0, <2>2, <2>5 DEF Terminate, Goto, CommandStates
  <2> QED BY <2>0, <2>3, <2>4, <2>5, <2>6 DEF InItsPlace
<1>10. CASE SeenExited(c)
  BY <1>1, <1>10 DEF SeenExited, InItsPlace, Alive, DaemonStates, Booting
<1>11. CASE Escalate(c)
  <2>1. InItsPlace(c, m) /\ cmd[c].pid = m
    BY <1>1, <1>11 DEF Escalate, InItsPlace
  <2>2. cmd'[c].at = "kill" /\ cmd'[c].pid = m
    BY <1>0, <1>11, <2>1 DEF Escalate, Goto, CommandStates
  <2> QED BY <1>11, <2>1, <2>2 DEF Escalate, InItsPlace
<1> QED BY <1>2, <1>3, <1>4, <1>5, <1>6, <1>7, <1>8, <1>9, <1>10, <1>11 DEF Step

\* What a step of a daemon, or a mishap, makes of the daemon.
LEMMA SoleDaemonStep ==
  ASSUME NEW c, Commands = {c}, SystemOK, Sole(c), NEW n \in Pids, NEW m \in Pids, Alive(m)',
         DaemonStep(n) \/ Crash(n) \/ SigTerm(n) \/ Stranger(n)
  PROVE  InItsPlace(c, m)'
<1>1. cmd' = cmd
  BY DEF DaemonStep, OpenPidFile, WritePidFile, Abort, Bind, BindFails, Drained, Leave,
     Crash, SigTerm, Stranger
<1>2. CASE Stranger(n)
  <2>1. Alive(m) /\ UNCHANGED <<port, fd, file>>
    BY <1>2 DEF Stranger, Alive, DaemonStates, Booting, SystemOK
  <2>2. proc'[m] = proc[m]
    BY <1>2, <2>1 DEF Stranger, Alive, DaemonStates, Booting, SystemOK, Unused
  <2> QED BY <1>1, <2>1, <2>2 DEF Sole, InItsPlace
<1>3. CASE DaemonStep(n) \/ Crash(n) \/ SigTerm(n)
  <2>1. Alive(n)
    BY <1>3 DEF DaemonStep, OpenPidFile, WritePidFile, Abort, Bind, BindFails, Drained, Leave,
       Crash, SigTerm, Alive, DaemonStates, Booting
  <2>2. n = m
    <3>1. CASE n # m
      <4>1. proc'[m] = proc[m]
        BY <1>3, <3>1 DEF DaemonStep, OpenPidFile, WritePidFile, Abort, Bind, BindFails, Drained,
           Leave, Crash, SigTerm, Becomes, SystemOK
      <4>2. Alive(m)
        BY <4>1 DEF Alive
      <4> QED BY <2>1, <4>2, SoleIsOne
    <3> QED BY <3>1
  <2>3. InItsPlace(c, m)
    BY <2>1, <2>2 DEF Sole
  <2>4. ASSUME NEW s \in {"free", "serving", "draining", "leaving"}, Becomes(m, s),
               UNCHANGED file, proc[m] \notin {"booting", "writing"} \/ s = "free"
        PROVE  InItsPlace(c, m)'
    <3>1. s # "free" /\ proc'[m] = s
      BY <2>4 DEF Becomes, Alive, DaemonStates, Booting, SystemOK
    <3> QED BY <1>1, <2>3, <2>4, <3>1 DEF Becomes, InItsPlace
  <2>5. CASE OpenPidFile(m)
    BY <1>1, <2>3, <2>5 DEF OpenPidFile, InItsPlace, SystemOK
  <2>6. CASE WritePidFile(m)
    <3>1. file' = Names(m, port[m])
      BY <2>3, <2>6 DEF WritePidFile, InItsPlace
    <3>2. proc'[m] = "loading" /\ port' = port
      BY <2>6 DEF WritePidFile, SystemOK
    <3>3. cmd[c].at = "poll" /\ cmd[c].child = m
      BY <2>3, <2>6 DEF WritePidFile, InItsPlace
    <3> QED BY <1>1, <3>1, <3>2, <3>3 DEF InItsPlace
  <2>7. CASE Abort(m) \/ Bind(m) \/ BindFails(m) \/ Drained(m) \/ Crash(m)
    BY <2>4, <2>7 DEF Abort, Bind, BindFails, Drained, Crash
  <2>8. CASE Leave(m)
    BY <2>8 DEF Leave, Alive, DaemonStates, Booting, SystemOK
  <2>9. CASE SigTerm(m)
    <3>1. PICK s \in AfterTerm(proc[m]) : Becomes(m, s)
      BY <2>9 DEF SigTerm
    <3>2. s \in {"free", "draining"} /\ (s = "draining" => proc[m] \notin {"booting", "writing"})
      BY <3>1 DEF AfterTerm
    <3> QED BY <2>4, <2>9, <3>1, <3>2 DEF SigTerm
  <2> QED BY <1>3, <2>2, <2>5, <2>6, <2>7, <2>8, <2>9 DEF DaemonStep
<1> QED BY <1>2, <1>3

LEMMA SoleStep ==
  ASSUME NEW c, Commands = {c}, "slow" \notin Mishaps, "delete" \notin Mishaps
  PROVE  SystemOK /\ CmdOK /\ Sole(c) /\ [Next]_vars => Sole(c)'
<1> SUFFICES ASSUME SystemOK, CmdOK, Sole(c), [Next]_vars, NEW m \in Pids, Alive(m)'
             PROVE  InItsPlace(c, m)'
  BY DEF Sole
<1>1. ASSUME NEW o \in Ops, NEW p \in Ports \cup {None}, Issue(c, o, p)
      PROVE  InItsPlace(c, m)'
  <2>1. InItsPlace(c, m) /\ cmd[c].at = "idle"
    BY <1>1 DEF Issue, Alive, Sole
  <2>2. cmd'[c] = [Resting EXCEPT !.op = o, !.at = "read", !.want = p]
    BY <1>1 DEF Issue, CmdOK
  <2>3. cmd'[c].at = "read"
    BY <2>2 DEF Resting
  <2> QED BY <1>1, <2>1, <2>3 DEF Issue, InItsPlace
<1>2. ASSUME Step(c) PROVE InItsPlace(c, m)'
  BY <1>2, SoleCommandStep
<1>3. ASSUME NEW n \in Pids, DaemonStep(n) \/ Crash(n) \/ SigTerm(n) \/ Stranger(n)
      PROVE  InItsPlace(c, m)'
  BY <1>3, SoleDaemonStep
<1>4. ~DeletePidFile
  BY DEF DeletePidFile
<1>5. CASE UNCHANGED vars
  BY <1>5 DEF vars, Alive, Sole, InItsPlace
<1> QED BY <1>1, <1>2, <1>3, <1>4, <1>5 DEF Next

OneShell == \E c : Commands = {c}

LEMMA SoleAlways ==
  ASSUME NEW c, Commands = {c}, "slow" \notin Mishaps, "delete" \notin Mishaps
  PROVE  Spec => []Sole(c)
<1>1. Init => Sole(c)
  BY DEF Init, Sole, Alive, DaemonStates, Booting
<1>2. SystemOK /\ CmdOK /\ Sole(c) /\ [Next]_vars => Sole(c)'
  BY SoleStep
<1> QED BY <1>1, <1>2, TypeInit, TypeStep, PTL DEF Spec

\* With one shell, and as long as nobody deletes the pid file and daemons come
\* up within the ten seconds, the pid file always names the daemon that serves,
\* and its port, whichever commands follow each other, and however often daemons
\* crash, are signalled or fail to start: what fails when daemons are slow.
THEOREM OneShellOnFile ==
  OneShell /\ "slow" \notin Mishaps /\ "delete" \notin Mishaps => (Spec => []ServingIsOnFile)
<1> SUFFICES ASSUME NEW c, Commands = {c}, "slow" \notin Mishaps, "delete" \notin Mishaps
             PROVE  Spec => []ServingIsOnFile
  BY DEF OneShell
<1>1. Sole(c) => ServingIsOnFile
  BY DEF ServingIsOnFile, Sole, InItsPlace, Alive, DaemonStates
<1> QED BY <1>1, SoleAlways, PTL

\* What a command is about to clear the file of has ended; no pid is carried
\* over from one look at the file to the next.
Cleared(c) ==
  /\ cmd[c].at = "read" => cmd[c].pid = None
  /\ cmd[c].at = "clean" /\ cmd[c].pid # None => ~Alive(cmd[c].pid)

LEMMA ClearedStep ==
  ASSUME NEW c, Commands = {c}
  PROVE  SystemOK /\ CmdOK /\ Cleared(c) /\ [Next]_vars => Cleared(c)'
<1> SUFFICES ASSUME SystemOK, CmdOK, Cleared(c), [Next]_vars
             PROVE  Cleared(c)'
  OBVIOUS
<1>0. cmd \in [Commands -> CommandStates] /\ cmd[c] \in CommandStates /\ Purposeful(cmd[c])
  BY DEF CmdOK
<1>1. ASSUME Ask(c, "start") \/ Ask(c, "stop") \/ Ask(c, "confirm") \/ Finish(c)
      PROVE  Cleared(c)'
  BY <1>0, <1>1 DEF Ask, Finish, Resting, CommandStates, Cleared
<1>2. ASSUME NEW w \in Steps \ {"read", "clean"}, Goto(c, w)
      PROVE  Cleared(c)'
  BY <1>0, <1>2 DEF Goto, CommandStates, Cleared
<1>3. ASSUME Goto(c, "clean"), ~Alive(cmd[c].pid)' \/ cmd[c].pid = None
      PROVE  Cleared(c)'
  <2>1. cmd'[c].at = "clean" /\ cmd'[c].pid = cmd[c].pid
    BY <1>0, <1>3 DEF Goto, CommandStates
  <2> QED BY <1>3, <2>1 DEF Cleared, Alive
<1>4. ASSUME NotRunning(c) PROVE Cleared(c)'
  <2>1. Ask(c, "start") \/ Goto(c, "port") \/ Finish(c)
    BY <1>4 DEF NotRunning, Stopped
  <2> QED BY <1>1, <1>2, <2>1 DEF Steps
<1>5. ASSUME NEW o \in Ops, NEW p \in Ports \cup {None}, Issue(c, o, p)
      PROVE  Cleared(c)'
  <2>1. cmd'[c] = [Resting EXCEPT !.op = o, !.at = "read", !.want = p]
    BY <1>0, <1>5 DEF Issue
  <2>2. cmd'[c].at = "read" /\ cmd'[c].pid = None
    BY <2>1 DEF Resting
  <2> QED BY <2>2 DEF Cleared
<1>6. ASSUME Step(c) PROVE Cleared(c)'
  <2>1. CASE ReadPid(c)
    <3>1. cmd[c].pid = None
      BY <2>1 DEF ReadPid, Cleared
    <3>2. CASE file.pid # None
      <4>1. cmd' = [cmd EXCEPT ![c].pid = file.pid, ![c].at = "probe"]
        BY <2>1, <3>2 DEF ReadPid
      <4>2. cmd'[c] = [cmd[c] EXCEPT !.pid = file.pid, !.at = "probe"]
        BY <1>0, <4>1
      <4>3. cmd'[c].at = "probe"
        BY <1>0, <4>2 DEF CommandStates
      <4> QED BY <4>3 DEF Cleared
    <3> QED BY <1>3, <1>4, <2>1, <3>1, <3>2 DEF ReadPid
  <2>2. CASE Probe(c)
    <3>1. proc[cmd[c].pid] = "free" => ~Alive(cmd[c].pid)
      BY DEF Alive, DaemonStates, Booting
    <3>2. UNCHANGED proc => (~Alive(cmd[c].pid) => proc'[cmd[c].pid] \notin DaemonStates)
      BY DEF Alive
    <3>3. CASE proc[cmd[c].pid] = "free"
      <4>1. Goto(c, "clean") /\ proc'[cmd[c].pid] \notin DaemonStates
        BY <2>2, <3>1, <3>2, <3>3 DEF Probe
      <4>2. cmd'[c].at = "clean" /\ cmd'[c].pid = cmd[c].pid
        BY <1>0, <4>1 DEF Goto, CommandStates
      <4> QED BY <4>1, <4>2 DEF Cleared, Alive
    <3>4. CASE proc[cmd[c].pid] # "free"
      BY <1>2, <2>2, <3>4 DEF Probe, Steps
    <3> QED BY <3>3, <3>4
  <2>3. CASE Identify(c)
    <3>1. CASE Running(c)
      <4>1. Ask(c, "stop") \/ Goto(c, "term") \/ Finish(c)
        BY <3>1 DEF Running
      <4> QED BY <1>1, <1>2, <4>1 DEF Steps
    <3>2. CASE ~TakenForOurs(cmd[c].pid) /\ Goto(c, "clean") /\ UNCHANGED proc
      <4>1. Goto(c, "clean") /\ proc'[cmd[c].pid] \notin DaemonStates
        BY <3>2 DEF TakenForOurs
      <4>2. cmd'[c].at = "clean" /\ cmd'[c].pid = cmd[c].pid
        BY <1>0, <4>1 DEF Goto, CommandStates
      <4> QED BY <4>1, <4>2 DEF Cleared, Alive
    <3> QED BY <2>3, <3>1, <3>2 DEF Identify
  <2>4. CASE Clean(c)
    BY <1>4, <2>4 DEF Clean
  <2>5. CASE WaitPort(c)
    <3>1. cmd'[c] = [cmd[c] EXCEPT !.at = "guard",
                       !.wait = IF cmd[c].want # None THEN cmd[c].want ELSE GatewayPort]
      BY <1>0, <2>5 DEF WaitPort
    <3>2. cmd'[c].at = "guard"
      BY <1>0, <3>1 DEF CommandStates
    <3> QED BY <3>2 DEF Cleared
  <2>6. CASE Spawn(c)
    <3>1. PICK n \in Pids : cmd' = [cmd EXCEPT ![c].at = "poll", ![c].child = n]
      BY <2>6 DEF Spawn
    <3>2. cmd'[c] = [cmd[c] EXCEPT !.at = "poll", !.child = n]
      BY <1>0, <3>1
    <3>3. cmd'[c].at = "poll"
      BY <1>0, <3>2 DEF CommandStates
    <3> QED BY <3>3 DEF Cleared
  <2>7. CASE OrphanGuard(c) \/ SpawnFails(c) \/ Poll(c) \/ GiveUp(c) \/ Terminate(c) \/ Escalate(c)
    <3>1. Goto(c, "spawn") \/ Goto(c, "wait") \/ Goto(c, "kill") \/ Ask(c, "confirm") \/ Finish(c)
      BY <2>7 DEF OrphanGuard, SpawnFails, Poll, GiveUp, Terminate, Escalate
    <3> QED BY <1>1, <1>2, <3>1 DEF Steps
  <2>8. CASE SeenExited(c) \/ Kill(c)
    <3>1. cmd[c].pid \in Pids
      BY <1>0, <2>8 DEF SeenExited, Kill, Purposeful
    <3>2. Goto(c, "clean") /\ proc'[cmd[c].pid] = "free"
      BY <2>8, <3>1 DEF SeenExited, Kill, Becomes, SystemOK
    <3>3. cmd'[c].at = "clean" /\ cmd'[c].pid = cmd[c].pid
      BY <1>0, <3>2 DEF Goto, CommandStates
    <3> QED BY <3>2, <3>3 DEF Cleared, Alive, DaemonStates, Booting
  <2> QED BY <1>6, <2>1, <2>2, <2>3, <2>4, <2>5, <2>6, <2>7, <2>8 DEF Step
<1>7. ASSUME cmd' = cmd, \A n \in Pids : ~Alive(n) => ~Alive(n)'
      PROVE  Cleared(c)'
  BY <1>0, <1>7 DEF Cleared, CommandStates
<1>8. ASSUME NEW n \in Pids, DaemonStep(n) \/ Crash(n) \/ SigTerm(n) \/ Stranger(n)
      PROVE  Cleared(c)'
  <2>1. cmd' = cmd
    BY <1>8 DEF DaemonStep, OpenPidFile, WritePidFile, Abort, Bind, BindFails, Drained, Leave,
       Crash, SigTerm, Stranger
  <2>2. Alive(n) \/ proc'[n] \in {"free", "other"}
    BY <1>8 DEF DaemonStep, OpenPidFile, WritePidFile, Abort, Bind, BindFails, Drained, Leave,
       Crash, SigTerm, Stranger, Alive, DaemonStates, Booting, SystemOK
  <2>3. \A m \in Pids : m # n => proc'[m] = proc[m]
    BY <1>8 DEF DaemonStep, OpenPidFile, WritePidFile, Abort, Bind, BindFails, Drained, Leave,
       Crash, SigTerm, Stranger, Becomes, SystemOK
  <2>4. \A m \in Pids : ~Alive(m) => ~Alive(m)'
    BY <2>2, <2>3 DEF Alive, DaemonStates, Booting
  <2> QED BY <1>7, <2>1, <2>4
<1>9. CASE DeletePidFile \/ UNCHANGED vars
  BY <1>7, <1>9 DEF DeletePidFile, vars, Alive
<1> QED BY <1>5, <1>6, <1>8, <1>9 DEF Next

\* With one shell, the daemon that a command clears the pid file of has ended:
\* also when the file is deleted under it, when daemons are slow, and when pids
\* are reused.
THEOREM OneShellClearsTheDead == OneShell => (Spec => []ClearsOnlyTheDead)
<1> SUFFICES ASSUME NEW c, Commands = {c} PROVE Spec => []ClearsOnlyTheDead
  BY DEF OneShell
<1>1. Init => Cleared(c)
  BY DEF Init, Resting, Cleared
<1>2. Cleared(c) => ClearsOnlyTheDead
  BY DEF Cleared, ClearsOnlyTheDead, Alive
<1>3. SystemOK /\ CmdOK /\ Cleared(c) /\ [Next]_vars => Cleared(c)'
  BY ClearedStep
<1> QED BY <1>1, <1>2, <1>3, TypeInit, TypeStep, PTL DEF Spec

-----------------------------------------------------------------------------
(* One shell, and a user who may delete the pid file                       *)

\* The port start() asks its daemon for.
Target(c) == IF cmd[c].want # None THEN cmd[c].want ELSE ConfigPort

\* A daemon that comes up is the one the command waits for, alone on its port,
\* and nothing is on file before it has written there.
Awaited(c, n) ==
  /\ cmd[c].at = "poll" /\ cmd[c].child = n /\ port[n] = cmd[c].wait
  /\ \A m \in Pids : proc[m] = "serving" => port[m] # port[n]
  /\ proc[n] # "loading" => file.pid = None

\* What a command knows of the pid file stays true until it acts on it: none is
\* on file, or the one it has read; and it has looked at the port it will use.
Informed(c) ==
  /\ cmd[c].at \in {"probe", "identify", "term", "wait", "kill", "clean"} =>
       file.pid \in {None, cmd[c].pid}
  /\ cmd[c].at \in {"port", "guard", "spawn"} => file.pid = None
  /\ cmd[c].at \in {"guard", "spawn"} => cmd[c].wait = Target(c)
  /\ cmd[c].at = "spawn" => ~Answers(cmd[c].wait)

Orderly(c) ==
  /\ file.pid = None => file.port = None
  /\ \A n \in Pids : proc[n] \in Booting => Awaited(c, n)
  /\ Informed(c)

\* What a process does, and what is done to it from outside.
Elsewhere ==
  \/ \E n \in Pids : DaemonStep(n) \/ Crash(n) \/ SigTerm(n) \/ Stranger(n)
  \/ DeletePidFile

\* None of it makes a daemon that comes up; only Bind makes one that serves.
LEMMA ElsewhereMoves ==
  ASSUME SystemOK, Elsewhere
  PROVE  /\ cmd' = cmd
         /\ \A n \in Pids : proc'[n] \in Booting =>
              /\ proc[n] \in Booting /\ port'[n] = port[n]
              /\ proc[n] = "loading" => proc'[n] = "loading"
         /\ \A n \in Pids : proc'[n] = "serving" =>
              proc[n] \in {"serving", "loading"} /\ port'[n] = port[n]
         /\ \/ file'.pid \in {file.pid, None}
            \/ \E n \in Pids : proc[n] \in Booting /\ proc'[n] = "loading"
         /\ file'.pid = None => file' = file \/ file'.port = None
<1>1. CASE DeletePidFile
  BY <1>1 DEF DeletePidFile, Unlink, Absent
<1>2. ASSUME NEW m \in Pids, NEW s \in {"free", "serving", "draining", "leaving"},
             Becomes(m, s), UNCHANGED <<file, cmd>>, s = "serving" => proc[m] = "loading"
      PROVE  /\ cmd' = cmd
             /\ \A n \in Pids : proc'[n] \in Booting =>
                  /\ proc[n] \in Booting /\ port'[n] = port[n]
                  /\ proc[n] = "loading" => proc'[n] = "loading"
             /\ \A n \in Pids : proc'[n] = "serving" =>
                  proc[n] \in {"serving", "loading"} /\ port'[n] = port[n]
             /\ file' = file
  BY <1>2 DEF Becomes, SystemOK, Booting
<1>3. ASSUME NEW m \in Pids, OpenPidFile(m) \/ WritePidFile(m) \/ Leave(m) \/ Stranger(m)
      PROVE  /\ cmd' = cmd
             /\ \A n \in Pids : proc'[n] \in Booting =>
                  /\ proc[n] \in Booting /\ port'[n] = port[n]
                  /\ proc[n] = "loading" => proc'[n] = "loading"
             /\ \A n \in Pids : proc'[n] = "serving" =>
                  proc[n] \in {"serving", "loading"} /\ port'[n] = port[n]
             /\ \/ file'.pid \in {file.pid, None}
                \/ proc[m] \in Booting /\ proc'[m] = "loading"
             /\ file'.pid = None => file' = file \/ file'.port = None
  <2>1. CASE OpenPidFile(m)
    BY <2>1 DEF OpenPidFile, Torn, SystemOK, Booting
  <2>2. CASE WritePidFile(m)
    <3>1. file' \in {file, Torn, Names(m, port[m])}
      BY <2>2 DEF WritePidFile
    <3>2. file'.pid = None => file' = file \/ file'.port = None
      BY <3>1, ConstantsOK DEF Torn, Names
    <3> QED BY <2>2, <3>2 DEF WritePidFile, SystemOK, Booting
  <2>3. CASE Leave(m)
    BY <2>3 DEF Leave, Unlink, Absent, SystemOK, Booting
  <2>4. CASE Stranger(m)
    BY <2>4 DEF Stranger, SystemOK, Booting
  <2> QED BY <1>3, <2>1, <2>2, <2>3, <2>4
<1>4. ASSUME NEW m \in Pids, Abort(m) \/ Bind(m) \/ BindFails(m) \/ Drained(m) \/ Crash(m) \/ SigTerm(m)
      PROVE  \E s \in {"free", "serving", "draining", "leaving"} :
               Becomes(m, s) /\ UNCHANGED <<file, cmd>> /\ (s = "serving" => proc[m] = "loading")
  <2>1. CASE SigTerm(m)
    <3>1. PICK s \in AfterTerm(proc[m]) : Becomes(m, s)
      BY <2>1 DEF SigTerm
    <3> QED BY <2>1, <3>1, AfterTermOK DEF SigTerm
  <2> QED BY <1>4, <2>1 DEF Abort, Bind, BindFails, Drained, Crash
<1>5. ASSUME NEW m \in Pids, Abort(m) \/ Bind(m) \/ BindFails(m) \/ Drained(m) \/ Crash(m) \/ SigTerm(m)
      PROVE  /\ cmd' = cmd
             /\ \A n \in Pids : proc'[n] \in Booting =>
                  /\ proc[n] \in Booting /\ port'[n] = port[n]
                  /\ proc[n] = "loading" => proc'[n] = "loading"
             /\ \A n \in Pids : proc'[n] = "serving" =>
                  proc[n] \in {"serving", "loading"} /\ port'[n] = port[n]
             /\ file' = file
  <2>1. PICK s \in {"free", "serving", "draining", "leaving"} :
          Becomes(m, s) /\ UNCHANGED <<file, cmd>> /\ (s = "serving" => proc[m] = "loading")
    BY <1>4, <1>5
  <2> QED BY <1>2, <2>1
<1>6. CASE \E n \in Pids : DaemonStep(n) \/ Crash(n) \/ SigTerm(n) \/ Stranger(n)
  <2>1. PICK m \in Pids : \/ OpenPidFile(m) \/ WritePidFile(m) \/ Leave(m) \/ Stranger(m)
                          \/ Abort(m) \/ Bind(m) \/ BindFails(m) \/ Drained(m) \/ Crash(m) \/ SigTerm(m)
    BY <1>6 DEF DaemonStep
  <2>2. CASE OpenPidFile(m) \/ WritePidFile(m) \/ Leave(m) \/ Stranger(m)
    BY <1>3, <2>2
  <2>3. CASE Abort(m) \/ Bind(m) \/ BindFails(m) \/ Drained(m) \/ Crash(m) \/ SigTerm(m)
    BY <1>5, <2>3
  <2> QED BY <2>1, <2>2, <2>3
<1> QED BY <1>1, <1>6 DEF Elsewhere

LEMMA OrderlyElsewhere ==
  ASSUME NEW c, Commands = {c}, SystemOK, Orderly(c), Elsewhere
  PROVE  Orderly(c)'
<1>1. cmd' = cmd
  BY ElsewhereMoves
<1>2. \A m, n \in Pids : proc[m] \in Booting /\ proc[n] \in Booting => m = n
  BY DEF Orderly, Awaited
<1>3. (file.pid = None => file.port = None)'
  BY ElsewhereMoves DEF Orderly
<1>4. ASSUME NEW n \in Pids, proc'[n] \in Booting
      PROVE  Awaited(c, n)'
  <2>1. proc[n] \in Booting /\ port'[n] = port[n] /\ Awaited(c, n)
    BY <1>4, ElsewhereMoves DEF Orderly
  <2>2. ASSUME NEW m \in Pids, proc'[m] = "serving" PROVE port'[m] # port'[n]
    <3>1. proc[m] \in {"serving", "loading"} /\ port'[m] = port[m]
      BY <2>2, ElsewhereMoves
    <3>2. m # n
      BY <1>4, <2>2 DEF Booting
    <3>3. proc[m] # "loading"
      BY <1>2, <2>1, <3>2 DEF Booting
    <3> QED BY <2>1, <3>1, <3>3 DEF Awaited
  <2>3. proc'[n] # "loading" => file'.pid = None
    <3>1. CASE file'.pid \in {file.pid, None}
      BY <1>4, <2>1, <3>1, ElsewhereMoves DEF Awaited
    <3>2. ASSUME NEW k \in Pids, proc[k] \in Booting, proc'[k] = "loading"
          PROVE  proc'[n] = "loading"
      BY <1>2, <2>1, <3>2
    <3> QED BY <3>1, <3>2, ElsewhereMoves
  <2> QED BY <1>1, <2>1, <2>2, <2>3 DEF Awaited
<1>5. Informed(c)'
  <2>1. CASE \E n \in Pids : proc[n] \in Booting
    BY <1>1, <2>1 DEF Orderly, Awaited, Informed
  <2>2. CASE \A n \in Pids : proc[n] \notin Booting
    <3>1. file'.pid \in {file.pid, None}
      BY <2>2, ElsewhereMoves
    <3>2. \A p : Answers(p)' => Answers(p)
      BY <2>2, ElsewhereMoves DEF Answers, Booting
    <3>3. Informed(c)
      BY DEF Orderly
    <3> QED BY <1>1, <3>1, <3>2, <3>3 DEF Informed, Target
  <2> QED BY <2>1, <2>2
<1> QED BY <1>3, <1>4, <1>5 DEF Orderly

\* A step of the command other than Spawn makes no daemon that comes up, none
\* that serves, and touches the file only to clear it.
LEMMA CommandMoves ==
  ASSUME NEW c, Commands = {c}, SystemOK, CmdOK, Step(c), ~Spawn(c)
  PROVE  /\ \A n \in Pids : proc'[n] \in Booting \cup {"serving"} =>
              proc[n] = proc'[n] /\ port'[n] = port[n]
         /\ cmd[c].at = "poll" => Poll(c) \/ GiveUp(c)
         /\ \/ file' = file
            \/ Clean(c) /\ file' = Absent
<1>0. cmd[c] \in CommandStates /\ Purposeful(cmd[c])
  BY DEF CmdOK
<1>1. CASE Terminate(c) \/ Kill(c)
  <2>1. cmd[c].pid \in Pids /\ cmd[c].at # "poll" /\ file' = file
    BY <1>0, <1>1 DEF Terminate, Kill, Purposeful
  <2>2. PICK s \in {"free", "draining"} : Becomes(cmd[c].pid, s)
    BY <1>1, AfterTermOK DEF Terminate, Kill
  <2> QED BY <2>1, <2>2 DEF Becomes, SystemOK, Booting
<1>2. CASE ~(Terminate(c) \/ Kill(c))
  BY <1>2 DEF Step, ReadPid, Probe, Identify, Clean, WaitPort, OrphanGuard, SpawnFails, Poll, GiveUp,
     SeenExited, Escalate, Unlink
<1> QED BY <1>1, <1>2

LEMMA OrderlySpawn ==
  ASSUME NEW c, Commands = {c}, SystemOK, CmdOK, Orderly(c), Spawn(c)
  PROVE  Orderly(c)'
<1>0. cmd \in [Commands -> CommandStates] /\ cmd[c] \in CommandStates
  BY DEF CmdOK
<1>1. PICK n \in Pids :
        /\ proc' = [proc EXCEPT ![n] = "booting"]
        /\ port' = [port EXCEPT ![n] = Target(c)]
        /\ cmd' = [cmd EXCEPT ![c].at = "poll", ![c].child = n]
  BY DEF Spawn, Target
<1>2. cmd'[c] = [cmd[c] EXCEPT !.at = "poll", !.child = n]
  BY <1>0, <1>1
<1>3. cmd'[c].at = "poll" /\ cmd'[c].child = n /\ cmd'[c].wait = cmd[c].wait
  BY <1>0, <1>2 DEF CommandStates
<1>4. file' = file /\ file.pid = None /\ cmd[c].wait = Target(c) /\ ~Answers(cmd[c].wait)
  BY DEF Spawn, Orderly, Informed
<1>5. \A m \in Pids : proc[m] \notin Booting
  BY DEF Spawn, Orderly, Awaited
<1>6. proc'[n] = "booting" /\ port'[n] = cmd'[c].wait
  BY <1>1, <1>3, <1>4 DEF SystemOK
<1>7. \A m \in Pids : proc'[m] = "serving" => port'[m] # port'[n]
  BY <1>1, <1>3, <1>4, <1>6 DEF SystemOK, Answers
<1>8. \A m \in Pids : proc'[m] \in Booting => m = n
  BY <1>1, <1>5 DEF SystemOK
<1>9. Awaited(c, n)'
  BY <1>3, <1>4, <1>6, <1>7 DEF Awaited
<1>10. Informed(c)'
  BY <1>3 DEF Informed
<1>11. (file.pid = None => file.port = None)'
  BY <1>4 DEF Orderly
<1> QED BY <1>8, <1>9, <1>10, <1>11 DEF Orderly

LEMMA InformedStep ==
  ASSUME NEW c, Commands = {c}, "slow" \notin Mishaps, SystemOK, CmdOK, Orderly(c), Step(c), ~Spawn(c)
  PROVE  Informed(c)'
<1>0. cmd \in [Commands -> CommandStates] /\ cmd[c] \in CommandStates
  BY DEF CmdOK
<1>1. Informed(c) /\ (file.pid = None => file.port = None)
  BY DEF Orderly
<1>2. ASSUME Ask(c, "start") \/ Ask(c, "stop") \/ Ask(c, "confirm") \/ Finish(c)
      PROVE  Informed(c)'
  <2>1. cmd'[c].at \in {"read", "idle"}
    BY <1>0, <1>2 DEF Ask, Finish, Resting, CommandStates
  <2> QED BY <2>1 DEF Informed
<1>3. ASSUME NEW w \in Steps, Goto(c, w)
      PROVE  cmd'[c].at = w /\ cmd'[c].pid = cmd[c].pid /\ cmd'[c].wait = cmd[c].wait /\ Target(c)' = Target(c)
  BY <1>0, <1>3 DEF Goto, CommandStates, Target
<1>4. ASSUME NEW w \in {"identify", "term", "wait", "kill", "clean"}, Goto(c, w),
             file' = file, file.pid \in {None, cmd[c].pid}
      PROVE  Informed(c)'
  BY <1>3, <1>4 DEF Informed, Steps
<1>5. ASSUME NotRunning(c), file'.pid = None
      PROVE  Informed(c)'
  <2>1. Ask(c, "start") \/ Goto(c, "port") \/ Finish(c)
    BY <1>5 DEF NotRunning, Stopped
  <2>2. CASE Goto(c, "port")
    BY <1>3, <1>5, <2>2 DEF Informed, Steps
  <2> QED BY <1>2, <2>1, <2>2
<1>6. CASE ReadPid(c)
  <2>1. CASE file.pid # None
    <3>1. cmd' = [cmd EXCEPT ![c].pid = file.pid, ![c].at = "probe"] /\ file' = file
      BY <1>6, <2>1 DEF ReadPid
    <3>2. cmd'[c] = [cmd[c] EXCEPT !.pid = file.pid, !.at = "probe"]
      BY <1>0, <3>1
    <3>3. cmd'[c].at = "probe" /\ cmd'[c].pid = file.pid
      BY <1>0, <3>2 DEF CommandStates
    <3> QED BY <3>1, <3>3 DEF Informed
  <2> QED BY <1>4, <1>5, <1>6, <2>1 DEF ReadPid
<1>7. CASE Probe(c) \/ Identify(c)
  <2>1. file' = file /\ file.pid \in {None, cmd[c].pid}
    BY <1>1, <1>7 DEF Probe, Identify, Informed
  <2>2. \/ \E w \in {"identify", "term", "clean"} : Goto(c, w)
        \/ Ask(c, "stop") \/ Finish(c)
    BY <1>7 DEF Probe, Identify, Running
  <2> QED BY <1>2, <1>4, <2>1, <2>2
<1>8. CASE Clean(c)
  BY <1>5, <1>8 DEF Clean, Unlink, Absent
<1>9. CASE WaitPort(c)
  <2>1. file' = file /\ file.pid = None /\ GatewayPort = ConfigPort
    BY <1>1, <1>9 DEF WaitPort, Informed, GatewayPort
  <2>2. cmd'[c] = [cmd[c] EXCEPT !.at = "guard", !.wait = Target(c)]
    BY <1>0, <1>9, <2>1 DEF WaitPort, Target
  <2>3. cmd'[c].at = "guard" /\ cmd'[c].wait = Target(c) /\ Target(c)' = Target(c)
    BY <1>0, <2>2 DEF CommandStates, Target
  <2> QED BY <2>1, <2>3 DEF Informed
<1>10. CASE OrphanGuard(c)
  <2>1. CASE Goto(c, "spawn")
    <3>1. ~Answers(cmd[c].wait) \/ Finish(c)
      BY <1>10 DEF OrphanGuard
    <3>2. UNCHANGED <<proc, port, file>> /\ file.pid = None /\ cmd[c].wait = Target(c)
      BY <1>1, <1>10 DEF OrphanGuard, Informed
    <3> QED BY <1>2, <1>3, <2>1, <3>1, <3>2 DEF Informed, Answers, Steps
  <2> QED BY <1>2, <1>10, <2>1 DEF OrphanGuard
<1>11. CASE SpawnFails(c) \/ Poll(c) \/ GiveUp(c)
  BY <1>2, <1>11 DEF SpawnFails, Poll, GiveUp
<1>12. CASE Terminate(c) \/ SeenExited(c) \/ Escalate(c) \/ Kill(c)
  <2>1. file' = file /\ file.pid \in {None, cmd[c].pid}
    BY <1>1, <1>12 DEF Terminate, SeenExited, Escalate, Kill, Informed
  <2>2. \E w \in {"wait", "clean", "kill"} : Goto(c, w)
    BY <1>12 DEF Terminate, SeenExited, Escalate, Kill
  <2> QED BY <1>4, <2>1, <2>2
<1> QED BY <1>6, <1>7, <1>8, <1>9, <1>10, <1>11, <1>12 DEF Step

LEMMA OrderlyStep ==
  ASSUME NEW c, Commands = {c}, "slow" \notin Mishaps
  PROVE  SystemOK /\ CmdOK /\ Orderly(c) /\ [Next]_vars => Orderly(c)'
<1> SUFFICES ASSUME SystemOK, CmdOK, Orderly(c), [Next]_vars PROVE Orderly(c)'
  OBVIOUS
<1>0. cmd \in [Commands -> CommandStates] /\ cmd[c] \in CommandStates
  BY DEF CmdOK
<1>1. ASSUME NEW o \in Ops, NEW p \in Ports \cup {None}, Issue(c, o, p)
      PROVE  Orderly(c)'
  <2>1. cmd'[c] = [Resting EXCEPT !.op = o, !.at = "read", !.want = p]
    BY <1>0, <1>1 DEF Issue
  <2>2. cmd'[c].at = "read"
    BY <2>1 DEF Resting
  <2>3. UNCHANGED <<proc, file>> /\ \A n \in Pids : proc[n] \notin Booting
    BY <1>1 DEF Issue, Orderly, Awaited
  <2> QED BY <2>2, <2>3 DEF Orderly, Informed
<1>2. ASSUME Step(c), ~Spawn(c) PROVE Orderly(c)'
  <2>1. Informed(c)'
    BY <1>2, InformedStep
  <2>2. (file.pid = None => file.port = None)'
    BY <1>2, CommandMoves DEF Orderly, Absent
  <2>3. ASSUME NEW n \in Pids, proc'[n] \in Booting PROVE FALSE
    <3>1. proc[n] = proc'[n] /\ Awaited(c, n)
      BY <1>2, <2>3, CommandMoves DEF Orderly
    <3>2. Poll(c) \/ GiveUp(c)
      BY <1>2, <3>1, CommandMoves DEF Awaited
    <3>3. ~Poll(c)
      BY <3>1 DEF Poll, Answers, Awaited
    <3>4. ~GiveUp(c)
      BY <2>3, <3>1 DEF GiveUp, Awaited
    <3> QED BY <3>2, <3>3, <3>4
  <2> QED BY <2>1, <2>2, <2>3 DEF Orderly
<1>3. CASE Elsewhere
  BY <1>3, OrderlyElsewhere
<1>4. CASE UNCHANGED vars
  BY <1>4 DEF vars, Orderly, Awaited, Informed, Target, Answers
<1> QED BY <1>1, <1>2, <1>3, <1>4, OrderlySpawn DEF Next, Elsewhere

LEMMA OrderlyAlways ==
  ASSUME NEW c, Commands = {c}, "slow" \notin Mishaps
  PROVE  Spec => []Orderly(c)
<1>1. Init => Orderly(c)
  BY DEF Init, Orderly, Informed, Resting, Absent, Booting
<1>2. SystemOK /\ CmdOK /\ Orderly(c) /\ [Next]_vars => Orderly(c)'
  BY OrderlyStep
<1> QED BY <1>1, <1>2, TypeInit, TypeStep, PTL DEF Spec

\* With one shell and daemons that come up in time, no daemon is ever started
\* on the port of one that serves, not even when the pid file of that one has
\* been deleted: start() has looked at the very port its daemon will ask for.
THEOREM OneShellNeverDoubled ==
  OneShell /\ "slow" \notin Mishaps => (Spec => []NeverDoubled)
<1> SUFFICES ASSUME NEW c, Commands = {c}, "slow" \notin Mishaps
             PROVE  Spec => []NeverDoubled
  BY DEF OneShell
<1>1. Orderly(c) => NeverDoubled
  BY DEF Orderly, Awaited, NeverDoubled
<1> QED BY <1>1, OrderlyAlways, PTL

\* Under the same conditions, of two daemons one has lost its pid file, and
\* OneShellKeepsItsPidFile says how it can: there is no second one without.
THEOREM OneShellOneDaemon ==
  OneShell /\ "slow" \notin Mishaps => (Spec => []AtMostOneDaemon)
<1> SUFFICES ASSUME NEW c, Commands = {c}, "slow" \notin Mishaps
             PROVE  Spec => []AtMostOneDaemon
  BY DEF OneShell
<1>1. SystemOK /\ Orderly(c) => AtMostOneDaemon
  <2> SUFFICES ASSUME SystemOK, Orderly(c), NEW m \in Pids, NEW n \in Pids,
                      proc[m] \in DaemonStates, proc[n] \in DaemonStates,
                      ~Robbed(m), ~Robbed(n)
               PROVE  m = n
    BY DEF AtMostOneDaemon
  <2>1. \A k \in {m, n} : proc[k] \in {"booting", "writing"} \/ file.pid = k
    BY DEF Robbed, DaemonStates, Booting
  <2>2. \A k \in {m, n} : proc[k] \in {"booting", "writing"} =>
                            file.pid = None /\ cmd[c].child = k
    BY DEF Orderly, Awaited, Booting
  <2> QED BY <2>1, <2>2, ConstantsOK
<1> QED BY <1>1, OrderlyAlways, TypeInit, TypeStep, PTL DEF Spec

\* Under the same conditions no command takes the file from a daemon that is
\* coming up, serving or draining: it goes only when it is deleted, or when a
\* daemon leaves that has lost its own.
THEOREM OneShellKeepsItsPidFile ==
  OneShell /\ "slow" \notin Mishaps => (Spec => KeepsItsPidFile)
<1> SUFFICES ASSUME NEW c, Commands = {c}, "slow" \notin Mishaps
             PROVE  Spec => KeepsItsPidFile
  BY DEF OneShell
<1> DEFINE Kept == \A n \in Pids :
             OnFile(n) /\ proc'[n] \in DaemonStates \ {"leaving"} /\ file' # file =>
               DeletePidFile \/ \E m \in Pids : Robbed(m) /\ Leave(m)
<1>1. ASSUME SystemOK, CmdOK, Orderly(c), Cleared(c), [Next]_vars
      PROVE  Kept
  <2> SUFFICES ASSUME NEW n \in Pids, OnFile(n), proc'[n] \in DaemonStates \ {"leaving"},
                      file' # file, ~DeletePidFile
               PROVE  \E m \in Pids : Robbed(m) /\ Leave(m)
    OBVIOUS
  <2>0. file.pid = n /\ Alive(n)
    BY DEF OnFile, Names, Alive, DaemonStates, Booting
  <2>1. \A k \in Pids : proc[k] \notin {"booting", "writing"}
    BY <1>1, <2>0, ConstantsOK DEF Orderly, Awaited, Booting
  <2>2. ~Clean(c)
    <3>1. ASSUME Clean(c) PROVE FALSE
      <4>1. cmd[c].at = "clean" /\ n \in {None, cmd[c].pid}
        BY <1>1, <2>0, <3>1 DEF Clean, Orderly, Informed
      <4>2. cmd[c].pid = n /\ n # None
        BY <4>1, ConstantsOK
      <4> QED BY <2>0, <4>1, <4>2, <1>1 DEF Cleared
    <3> QED BY <3>1
  <2>3. \E k \in Pids : OpenPidFile(k) \/ WritePidFile(k) \/ Leave(k)
    BY <1>1, <2>2 DEF Next, vars, Issue, Step, ReadPid, Probe, Identify, WaitPort, OrphanGuard, Spawn,
       SpawnFails, Poll, GiveUp, Terminate, SeenExited, Escalate, Kill, DaemonStep, Abort, Bind,
       BindFails, Drained, Crash, SigTerm, Stranger
  <2>4. PICK k \in Pids : Leave(k)
    BY <2>1, <2>3 DEF OpenPidFile, WritePidFile
  <2>5. k # n
    BY <2>4, <1>1 DEF Leave, SystemOK, DaemonStates, Booting
  <2>6. Robbed(k)
    BY <2>0, <2>4, <2>5 DEF Leave, Robbed
  <2> QED BY <2>4, <2>6
<1>2. Init => Cleared(c)
  BY DEF Init, Resting, Cleared
<1>3. SystemOK /\ CmdOK /\ Cleared(c) /\ [Next]_vars => Cleared(c)'
  BY ClearedStep
<1>4. Spec => []Orderly(c)
  BY OrderlyAlways
<1>5. SystemOK /\ CmdOK /\ Orderly(c) /\ Cleared(c) /\ [Next]_vars => [Kept]_vars
  BY <1>1
<1>6. Spec => [][Kept]_vars
  BY <1>2, <1>3, <1>4, <1>5, TypeInit, TypeStep, PTL DEF Spec
<1> QED BY <1>6 DEF KeepsItsPidFile

-----------------------------------------------------------------------------
(* Commands that change the configuration (Apply)                          *)

\* Every step is one of the lifecycle, or leaves it alone.
LEMMA StepsOfDaemon == ApplyNext => [Next]_vars
<1>1. ASSUME NEW c \in Commands, Manages(c) PROVE Next
  BY <1>1 DEF Manages, Next
<1>2. ASSUME NEW c \in Commands, NEW f \in ConfigFiles, Change(c, f) PROVE Next
  BY <1>2 DEF Change, Next, Ops
<1>3. ASSUME NEW n \in Pids, Read(n) PROVE UNCHANGED vars
  BY <1>3 DEF Read
<1>4. ASSUME NEW n \in Pids, Lives(n) PROVE Next
  <2>1. DaemonStep(n)
    BY <1>4 DEF Lives, DaemonStep
  <2> QED BY <2>1 DEF Next
<1>5. ASSUME NEW n \in Pids, Suffers(n) PROVE Next
  BY <1>5 DEF Suffers, Next
<1>6. ASSUME DeletePidFile PROVE Next
  BY <1>6 DEF Next
<1> QED BY <1>1, <1>2, <1>3, <1>4, <1>5, <1>6 DEF ApplyNext

\* Changing the configuration and reading it do nothing to commands, daemons
\* and the pid file that Daemon does not allow.
THEOREM ApplyImplementsDaemon == ApplySpec => Spec
<1>1. ApplyInit => Init
  BY DEF ApplyInit
<1>2. [ApplyNext]_allvars => [Next]_vars
  BY StepsOfDaemon DEF allvars, vars
<1> QED BY <1>1, <1>2, PTL DEF ApplySpec, Spec

\* Where ps works and no pid is reused within a stop(), no unrelated process is
\* ever signalled by the restarts after changes of configuration either.
THEOREM ApplySparesStrangers ==
  Mishaps \cap {"ps", "recycle"} = {} => (ApplySpec => []SignalsOnlyDaemons)
BY ApplyImplementsDaemon, SignalsSpareStrangers, PTL

-----------------------------------------------------------------------------
(* What daemons have read                                                  *)

ReadingOK ==
  /\ reads \in [Pids -> 0..3]
  /\ stale \in [Pids -> BOOLEAN]

\* Only a daemon that has written its pid file has read anything.
ReadsLate ==
  \A n \in Pids : proc[n] \notin {"loading", "serving"} => reads[n] = 0 /\ ~stale[n]

LEMMA KeepsReadingOK ==
  ASSUME ReadingOK, KeepsReading
  PROVE  /\ ReadingOK'
         /\ \A n \in Pids : /\ stale'[n] => stale[n]
                            /\ proc'[n] \notin Booting \cup {"serving"} => reads'[n] = 0 /\ ~stale'[n]
                            /\ reads[n] = 0 => reads'[n] = 0
<1>1. reads' \in [Pids -> 0..3]
  BY DEF ReadingOK, KeepsReading
<1>2. stale' \in [Pids -> BOOLEAN]
  BY DEF ReadingOK, KeepsReading
<1> QED BY <1>1, <1>2 DEF ReadingOK, KeepsReading

\* What may be new: a change or a read, or neither.
LEMMA ApplySteps ==
  ASSUME [ApplyNext]_allvars
  PROVE  \/ KeepsReading /\ [Next]_vars
         \/ \E c \in Commands, f \in ConfigFiles : Change(c, f)
         \/ \E n \in Pids : Read(n)
         \/ UNCHANGED allvars
<1>1. CASE ApplyNext
  BY <1>1, StepsOfDaemon DEF ApplyNext, Manages, Lives, Suffers
<1> QED BY <1>1

LEMMA ReadingStep == ReadingOK /\ [ApplyNext]_allvars => ReadingOK'
<1> SUFFICES ASSUME ReadingOK, [ApplyNext]_allvars PROVE ReadingOK'
  OBVIOUS
<1>1. CASE KeepsReading
  BY <1>1, KeepsReadingOK
<1>2. ASSUME NEW c \in Commands, NEW f \in ConfigFiles, Change(c, f) PROVE ReadingOK'
  <2>1. stale' \in [Pids -> BOOLEAN]
    <3>1. \A n \in Pids : stale[n] \/ HasRead(n, f) \in BOOLEAN
      BY DEF ReadingOK, HasRead
    <3> QED BY <1>2, <3>1 DEF Change, ReadingOK, HasRead
  <2> QED BY <1>2, <2>1 DEF Change, ReadingOK
<1>3. ASSUME NEW n \in Pids, Read(n) PROVE ReadingOK'
  BY <1>3 DEF Read, Loaded, ReadingOK
<1>4. CASE UNCHANGED allvars
  BY <1>4 DEF allvars, ReadingOK
<1> QED BY <1>1, <1>2, <1>3, <1>4, ApplySteps

LEMMA ApplyInitOK == ApplyInit => SystemOK /\ CmdOK /\ ReadingOK /\ ReadsLate /\ Replaced
<1> SUFFICES ASSUME ApplyInit PROVE SystemOK /\ CmdOK /\ ReadingOK /\ ReadsLate /\ Replaced
  OBVIOUS
<1>1. SystemOK /\ CmdOK
  BY TypeInit DEF ApplyInit
<1>2. ReadingOK
  BY DEF ApplyInit, ReadingOK
<1> QED BY <1>1, <1>2 DEF ApplyInit, ReadsLate, Replaced

LEMMA ApplyTypeStep ==
  SystemOK /\ CmdOK /\ ReadingOK /\ [ApplyNext]_allvars => SystemOK' /\ CmdOK' /\ ReadingOK'
<1>1. [ApplyNext]_allvars => [Next]_vars
  BY StepsOfDaemon DEF allvars, vars
<1> QED BY <1>1, TypeStep, ReadingStep

\* Every variable keeps its type, also while configurations change.
THEOREM ApplyTypeCorrect == ApplySpec => []ApplyTypeOK
<1>1. ApplySpec => [](SystemOK /\ CmdOK /\ ReadingOK)
  BY ApplyInitOK, ApplyTypeStep, PTL DEF ApplySpec
<1>2. SystemOK /\ CmdOK /\ ReadingOK => ApplyTypeOK
  BY DEF SystemOK, CmdOK, ReadingOK, ApplyTypeOK, TypeOK
<1> QED BY <1>1, <1>2, PTL

\* A daemon is not back in the stages before it has written its pid file.
LEMMA EarlyStages ==
  ASSUME SystemOK, CmdOK, [Next]_vars, NEW n \in Pids, proc'[n] \in {"booting", "writing"}
  PROVE  proc[n] \notin {"loading", "serving"}
<1>1. ASSUME NEW m \in Pids, NEW s \in {"free", "draining", "serving", "leaving"}, Becomes(m, s)
      PROVE  proc[n] = proc'[n]
  BY <1>1 DEF Becomes, SystemOK
<1>2. ASSUME NEW m \in Pids, NEW t, NEW s \in AfterTerm(t), Becomes(m, s)
      PROVE  proc[n] = proc'[n]
  BY <1>1, <1>2, AfterTermOK
<1>3. CASE proc' = proc
  BY <1>3
<1>4. ASSUME NEW c \in Commands, Step(c), proc' # proc
      PROVE  proc[n] \notin {"loading", "serving"}
  <2>1. Spawn(c) \/ Terminate(c) \/ Kill(c)
    BY <1>4 DEF Step, ReadPid, Probe, Identify, Clean, WaitPort, OrphanGuard,
         SpawnFails, Poll, GiveUp, SeenExited, Escalate
  <2>2. Purposeful(cmd[c])
    BY DEF CmdOK
  <2>3. CASE Spawn(c)
    BY <2>3 DEF Spawn, Unused, SystemOK
  <2>4. CASE Terminate(c)
    BY <1>2, <2>2, <2>4 DEF Terminate, Purposeful
  <2>5. CASE Kill(c)
    BY <1>1, <2>2, <2>5 DEF Kill, Purposeful
  <2> QED BY <2>1, <2>3, <2>4, <2>5
<1>5. ASSUME NEW m \in Pids, DaemonStep(m) \/ Crash(m)
      PROVE  proc[n] \notin {"loading", "serving"}
  <2>1. \/ OpenPidFile(m) \/ WritePidFile(m) \/ Leave(m)
        \/ proc[n] = proc'[n]
    BY <1>1, <1>5 DEF DaemonStep, Abort, Bind, BindFails, Drained, Crash
  <2> QED BY <2>1 DEF OpenPidFile, WritePidFile, Leave, SystemOK
<1>6. ASSUME NEW m \in Pids, SigTerm(m)
      PROVE  proc[n] \notin {"loading", "serving"}
  BY <1>2, <1>6 DEF SigTerm
<1>7. ASSUME NEW m \in Pids, Stranger(m)
      PROVE  proc[n] \notin {"loading", "serving"}
  BY <1>7 DEF Stranger, SystemOK
<1> QED BY <1>3, <1>4, <1>5, <1>6, <1>7 DEF Next, Issue, DeletePidFile, vars

LEMMA ReadsLateStep ==
  SystemOK /\ CmdOK /\ ReadingOK /\ ReadsLate /\ [ApplyNext]_allvars => ReadsLate'
<1> SUFFICES ASSUME SystemOK, CmdOK, ReadingOK, ReadsLate, [ApplyNext]_allvars
             PROVE  ReadsLate'
  OBVIOUS
<1>1. CASE KeepsReading /\ [Next]_vars
  <2> SUFFICES ASSUME NEW n \in Pids, proc'[n] \notin {"loading", "serving"}
               PROVE  reads'[n] = 0 /\ ~stale'[n]
    BY DEF ReadsLate
  <2>1. CASE proc'[n] \in {"booting", "writing"}
    <3>1. reads[n] = 0 /\ ~stale[n]
      BY <1>1, <2>1, EarlyStages DEF ReadsLate
    <3> QED BY <1>1, <3>1, KeepsReadingOK
  <2>2. CASE proc'[n] \notin {"booting", "writing"}
    BY <1>1, <2>2, KeepsReadingOK DEF Booting
  <2> QED BY <2>1, <2>2
<1>2. ASSUME NEW c \in Commands, NEW f \in ConfigFiles, Change(c, f) PROVE ReadsLate'
  <2>1. proc' = proc /\ reads' = reads
    BY <1>2 DEF Change, Issue
  <2>2. \A n \in Pids : reads[n] = 0 => ~HasRead(n, f)
    BY DEF HasRead
  <2>3. \A n \in Pids : reads[n] = 0 /\ ~stale[n] => ~stale'[n]
    BY <1>2, <2>2 DEF Change
  <2> QED BY <2>1, <2>3 DEF ReadsLate
<1>3. ASSUME NEW n \in Pids, Read(n) PROVE ReadsLate'
  <2>1. proc' = proc /\ stale' = stale /\ proc[n] = "loading"
    BY <1>3 DEF Read, vars
  <2>2. \A m \in Pids : m # n => reads'[m] = reads[m]
    BY <1>3 DEF Read, ReadingOK
  <2> QED BY <2>1, <2>2 DEF ReadsLate
<1>4. CASE UNCHANGED allvars
  BY <1>4 DEF allvars, ReadsLate
<1> QED BY <1>1, <1>2, <1>3, <1>4, ApplySteps

-----------------------------------------------------------------------------
(* What is outdated is replaced                                            *)

\* The pid file comes to name a daemon only before that loads.
LEMMA NamedBefore ==
  ASSUME [Next]_vars, NEW n \in Pids, proc[n] \in {"loading", "serving"}, file'.pid = n
  PROVE  file.pid = n
<1>0. None # n
  BY ConstantsOK
<1>1. Absent.pid = None /\ Torn.pid = None
  BY DEF Absent, Torn
<1>2. ~Unlink
  BY <1>0, <1>1 DEF Unlink
<1>3. ASSUME NEW c \in Commands, Step(c) PROVE file' = file
  BY <1>2, <1>3 DEF Step, ReadPid, Probe, Identify, Clean, WaitPort, OrphanGuard, Spawn,
     SpawnFails, Poll, GiveUp, Terminate, SeenExited, Escalate, Kill
<1>4. ASSUME NEW m \in Pids, DaemonStep(m) PROVE file' = file
  <2>1. CASE WritePidFile(m)
    <3>1. file' # Names(m, port[m])
      BY <2>1 DEF WritePidFile, Names
    <3> QED BY <2>1, <3>1, <1>0, <1>1 DEF WritePidFile
  <2>2. CASE OpenPidFile(m)
    BY <2>2, <1>0, <1>1 DEF OpenPidFile
  <2> QED BY <1>2, <1>4, <2>1, <2>2 DEF DaemonStep, Abort, Bind, BindFails, Drained, Leave
<1>5. ASSUME NEW m \in Pids, Crash(m) \/ SigTerm(m) \/ Stranger(m) PROVE file' = file
  BY <1>5 DEF Crash, SigTerm, Stranger
<1> QED BY <1>2, <1>3, <1>4, <1>5 DEF Next, Issue, DeletePidFile, vars

\* The command that is coming for a daemon on file gets on with it, until the
\* daemon has its signal.
LEMMA ComesCloser ==
  ASSUME SystemOK, CmdOK, [Next]_vars, NEW n \in Pids, NEW c \in Commands,
         Coming(c, n), file.pid = n, proc[n] \in {"loading", "serving"},
         proc'[n] \in {"loading", "serving"}
  PROVE  Coming(c, n)'
<1>0. cmd \in [Commands -> CommandStates] /\ cmd[c] \in CommandStates /\ n # None
  BY ConstantsOK DEF CmdOK
<1>1. CASE cmd'[c] = cmd[c]
  BY <1>1 DEF Coming
<1>2. ASSUME NEW d \in Commands, NEW o \in Ops, NEW p \in Ports \cup {None}, Issue(d, o, p)
      PROVE  cmd'[c] = cmd[c]
  <2>1. d # c
    BY <1>2 DEF Issue, Coming
  <2> QED BY <1>0, <1>2, <2>1 DEF Issue
<1>3. ASSUME NEW d \in Commands, d # c, Step(d)
      PROVE  cmd'[c] = cmd[c]
  BY <1>0, <1>3 DEF Step, ReadPid, Probe, Identify, Clean, WaitPort, OrphanGuard, Spawn,
     SpawnFails, Poll, GiveUp, Terminate, SeenExited, Escalate, Kill,
     Running, NotRunning, Stopped, Ask, Goto, Finish
<1>4. ASSUME Step(c)
      PROVE  Coming(c, n)'
  <2>1. CASE ReadPid(c)
    <3>1. cmd' = [cmd EXCEPT ![c].pid = n, ![c].at = "probe"]
      BY <1>0, <2>1 DEF ReadPid
    <3>2. cmd'[c] = [cmd[c] EXCEPT !.pid = n, !.at = "probe"]
      BY <1>0, <3>1
    <3>3. /\ cmd'[c].pid = n /\ cmd'[c].at = "probe"
          /\ cmd'[c].op = cmd[c].op /\ cmd'[c].for = cmd[c].for
      BY <1>0, <3>2 DEF CommandStates
    <3> QED BY <3>3 DEF Coming
  <2>2. CASE Probe(c)
    <3>1. Goto(c, "identify") /\ cmd[c].pid = n
      BY <2>2 DEF Probe, Coming
    <3>2. /\ cmd'[c].pid = n /\ cmd'[c].at = "identify"
          /\ cmd'[c].op = cmd[c].op /\ cmd'[c].for = cmd[c].for
      BY <1>0, <3>1 DEF Goto, CommandStates
    <3> QED BY <3>2 DEF Coming
  <2>3. CASE Identify(c)
    <3>1. cmd[c].pid = n /\ Running(c)
      BY <2>3 DEF Identify, Coming, TakenForOurs, DaemonStates, Booting
    <3>2. CASE cmd[c].for = "command"
      <4>1. Ask(c, "stop")
        BY <3>1, <3>2 DEF Running, Coming
      <4>2. cmd'[c].at = "read" /\ cmd'[c].for = "stop" /\ cmd'[c].op = cmd[c].op
        BY <1>0, <4>1 DEF Ask, CommandStates
      <4> QED BY <4>2 DEF Coming
    <3>3. CASE cmd[c].for = "stop"
      <4>1. Goto(c, "term")
        BY <3>1, <3>3 DEF Running
      <4>2. /\ cmd'[c].pid = n /\ cmd'[c].at = "term"
            /\ cmd'[c].op = cmd[c].op /\ cmd'[c].for = cmd[c].for
        BY <1>0, <3>1, <4>1 DEF Goto, CommandStates
      <4> QED BY <4>2 DEF Coming
    <3> QED BY <3>2, <3>3 DEF Coming
  <2>4. CASE Terminate(c)
    <3>1. cmd[c].pid = n
      BY <2>4 DEF Terminate, Coming
    <3>2. PICK s \in AfterTerm(proc[n]) : Becomes(n, s)
      BY <2>4, <3>1 DEF Terminate
    <3>3. proc'[n] = s
      BY <3>2 DEF Becomes, SystemOK
    <3>4. s \in {"free", "draining"}
      BY <3>2, AfterTermOK
    <3> QED BY <3>3, <3>4
  <2>5. cmd[c].at \in {"read", "probe", "identify", "term"}
    BY DEF Coming
  <2> QED BY <1>4, <2>1, <2>2, <2>3, <2>4, <2>5
       DEF Step, Clean, WaitPort, OrphanGuard, Spawn, SpawnFails, Poll, GiveUp,
           SeenExited, Escalate, Kill
<1>5. CASE cmd' = cmd
  BY <1>1, <1>5
<1>6. CASE cmd' # cmd
  <2>1. \/ \E d \in Commands, o \in Ops, p \in Ports \cup {None} : Issue(d, o, p)
        \/ \E d \in Commands : Step(d)
    BY <1>6 DEF Next, DaemonStep, OpenPidFile, WritePidFile, Abort, Bind, BindFails,
         Drained, Leave, DeletePidFile, Crash, SigTerm, Stranger, vars
  <2> QED BY <2>1, <1>1, <1>2, <1>3, <1>4
<1> QED BY <1>5, <1>6

LEMMA ReplacedStep ==
  /\ SystemOK /\ CmdOK /\ ReadingOK /\ ReadsLate /\ Replaced
  /\ [ApplyNext]_allvars
  => Replaced'
<1> SUFFICES ASSUME SystemOK, CmdOK, ReadingOK, ReadsLate, Replaced, [ApplyNext]_allvars,
                    NEW n \in Pids, stale'[n], file'.pid = n
             PROVE  \E c \in Commands : Coming(c, n)'
  BY DEF Replaced
<1>0. [Next]_vars /\ ReadsLate'
  BY StepsOfDaemon, ReadsLateStep DEF allvars, vars
<1>1. ASSUME NEW c \in Commands, NEW f \in ConfigFiles, Change(c, f)
      PROVE  Coming(c, n)'
  <2>1. cmd' = [cmd EXCEPT ![c] = [Resting EXCEPT !.op = "apply", !.at = "read", !.want = None]]
    BY <1>1 DEF Change, Issue
  <2>2. cmd'[c] = [Resting EXCEPT !.op = "apply", !.at = "read", !.want = None]
    BY <2>1 DEF CmdOK
  <2>3. cmd'[c].op = "apply" /\ cmd'[c].at = "read" /\ cmd'[c].for = "command"
    BY <2>2 DEF Resting
  <2> QED BY <2>3 DEF Coming
<1>2. CASE stale[n]
  <2>1. proc[n] \in {"loading", "serving"} /\ proc'[n] \in {"loading", "serving"}
    BY <1>0, <1>2 DEF ReadsLate
  <2>2. file.pid = n
    BY <1>0, <2>1, NamedBefore
  <2>3. PICK c \in Commands : Coming(c, n)
    BY <1>2, <2>2 DEF Replaced
  <2> QED BY <1>0, <2>1, <2>2, <2>3, ComesCloser
<1>3. CASE ~stale[n]
  <2>1. \E c \in Commands, f \in ConfigFiles : Change(c, f)
    BY <1>3, ApplySteps, KeepsReadingOK DEF Read, allvars
  <2> QED BY <1>1, <2>1
<1> QED BY <1>2, <1>3

\* Once no change of configuration is under way, the daemon that is on file
\* serves what is on disk, read at one moment: for any number of shells and
\* pids, and whatever goes wrong.
THEOREM ChangesTakeEffect == ApplySpec => []UpToDate
<1> DEFINE IInv == SystemOK /\ CmdOK /\ ReadingOK /\ ReadsLate /\ Replaced
<1>1. ApplyInit => IInv
  BY ApplyInitOK
<1>2. IInv /\ [ApplyNext]_allvars => IInv'
  BY ApplyTypeStep, ReadsLateStep, ReplacedStep
<1>3. IInv => UpToDate
  BY DEF Replaced, UpToDate, OnFile, Names, Coming
<1> QED BY <1>1, <1>2, <1>3, PTL DEF ApplySpec

=============================================================================
