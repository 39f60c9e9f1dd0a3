---------------------------- MODULE ConfigProofs ----------------------------
(***************************************************************************)
(* Proofs about Config.  Files are whole because a command that is about   *)
(* to replace one is the only one that has touched its temporary file: two *)
(* commands at work find an upgraded directory, in which each keeps to the *)
(* file of its own.                                                        *)
(***************************************************************************)
EXTENDS Config, TLAPS

\* There is nothing that an upgrade or the templates would have to lay down.
Settled == disk.config \notin {None, Ancient} /\ disk.providers # None

InUse == disk.config \notin {None, Ancient}

Writing == {"open", "write", "replace"}

\* A pending write is in line with the directory and with the command.
WriteOK(j) ==
  /\ j.out \in Pending
  /\ j.at = "replace" => tmp[j.out.file] = j.out.doc
  /\ j.out.then = "end" =>
       /\ j.out.file \in Replaces(j.op.kind)
       /\ j.out.file = "config" => InUse
  /\ j.out.then # "end" => ~Settled
  /\ j.out.then = "unlink" => j.upgrade \in ConfigDocs /\ disk.config = None
  /\ j.out.then # "end" /\ j.out.file = "config" => disk.config = None /\ disk.models = None
  /\ j.out.then = "templates" /\ j.out.file = "providers" => InUse
  /\ j.out.then = "body" => j.op.kind = "start"

\* A command is where its operation may have taken it.
JobOK(j) ==
  /\ j.op = None <=> j.at = "idle"
  /\ j.at \in Writing => WriteOK(j)
  /\ j.at = "unlink" => j.upgrade \in ConfigDocs /\ disk.config = None
  /\ j.at = "templates" =>
       disk.config # Ancient /\ (disk.config = None => disk.models = None)
  /\ j.at = "body" /\ j.op.kind \in InitsFirst => Settled
  /\ j.at = "ask" => j.op.kind = "provider add" /\ j.read \in ProviderDocs
  /\ j.at = "save" =>
       j.op.kind \in {"provider add", "provider remove"} /\ j.read \in ProviderDocs
  /\ j.at = "models" => j.op.kind = "model add"

Apart(c, d) ==
  job[c].op # None /\ job[d].op # None =>
    Settled /\ Replaces(job[c].op.kind) \cap Replaces(job[d].op.kind) = {}

\* The inductive invariant.
IInv ==
  /\ TypeOK
  /\ InUse => disk.models = None
  /\ \A c \in Commands : JobOK(job[c])
  /\ \A c, d \in Commands : c # d => Apart(c, d)

-----------------------------------------------------------------------------
(* Documents                                                               *)

LEMMA NoDocs ==
  /\ \A v \in {None, Ancient, Corrupt, NotAMapping, Torn} : v \notin ConfigDocs /\ v \notin ProviderDocs
  /\ Ancient # None /\ Ancient # Corrupt /\ Ancient # NotAMapping /\ Ancient # Torn
  /\ Torn # None /\ Torn # Corrupt /\ Torn # NotAMapping
  /\ None # Corrupt /\ None # NotAMapping
  /\ None \notin ModelMaps /\ None \notin Entries /\ None \notin Gateways
  /\ None \notin Keys /\ None \notin Operations
  BY NoDocuments DEF Unreadables

LEMMA DefaultsTyped ==
  /\ NoModels \in ModelMaps
  /\ NoEntries \in [Providers -> Entries \cup {None}]
  /\ \A g \in Gateways, ms \in ModelMaps : ConfigDoc(g, ms) \in ConfigDocs
  /\ Defaults \in ConfigDocs
  /\ [Defaults EXCEPT !.comments = TRUE] \in ConfigDocs
  /\ [entries |-> NoEntries, gateway |-> None] \in ProviderDocs
  <1>1. NoModels \in ModelMaps
    BY DEF NoModels, ModelMaps
  <1>2. NoEntries \in [Providers -> Entries \cup {None}]
    BY DEF NoEntries
  <1>3. \A g \in Gateways, ms \in ModelMaps : ConfigDoc(g, ms) \in ConfigDocs
    BY DEF ConfigDoc, ConfigDocs
  <1>4. Defaults \in ConfigDocs
    BY <1>1, <1>3, ConstantsOK DEF Defaults
  <1>5. [Defaults EXCEPT !.comments = TRUE] \in ConfigDocs
    BY <1>4 DEF ConfigDocs
  <1>6. QED
    BY <1>1, <1>2, <1>3, <1>4, <1>5 DEF ProviderDocs

LEMMA WithKeyTyped ==
  ASSUME NEW k \in Keys \cup {None}
  PROVE  WithKey(k) \in ConfigDocs
  <1>1. \A d \in ConfigDocs : [d EXCEPT !.key = k] \in ConfigDocs
    BY DEF ConfigDocs
  <1>2. QED
    BY <1>1, DefaultsTyped DEF WithKey

LEMMA OldTyped ==
  ASSUME disk \in DiskType
  PROVE  /\ OldGateway \in Gateways
         /\ OldModels \in ModelMaps
         /\ [entries |-> OldEntries, gateway |-> None] \in ProviderDocs
         /\ ConfigDoc(OldGateway, OldModels) \in ConfigDocs
  <1>1. OldGateway \in Gateways
    BY ConstantsOK DEF OldGateway, ProviderDocs
  <1>2. OldModels \in ModelMaps
    BY DefaultsTyped DEF OldModels
  <1>3. OldEntries \in [Providers -> Entries \cup {None}]
    BY DefaultsTyped DEF OldEntries, ProviderDocs
  <1>4. QED
    BY <1>1, <1>2, <1>3, DefaultsTyped DEF ProviderDocs

LEMMA OperationParts ==
  ASSUME NEW op \in Operations
  PROVE  /\ op.kind = "provider add" =>
              /\ op.provider \in Providers /\ op.url \in Urls
              /\ op.key \in ProviderKeys \cup {None}
         /\ op.kind = "provider remove" => op.provider \in Providers
         /\ op.kind = "model add" => op.model \in Models /\ op.provider \in Providers
         /\ op.kind = "model remove" => op.model \in Models
  BY DEF Operations

-----------------------------------------------------------------------------
(* Steps that change only what a command is doing                          *)

LEMMA IdleTyped == Idle \in JobType /\ JobOK(Idle)
  BY DEF Idle, JobType, Steps, JobOK, Writing

\* A command goes on with its operation, or ends.
LEMMA Local ==
  ASSUME IInv, NEW c \in Commands, NEW j \in JobType,
         Becomes(c, j), j.op \in {None, job[c].op}, JobOK(j),
         UNCHANGED <<disk, tmp, turns>>
  PROVE  IInv'
  <1>1. /\ job' = [job EXCEPT ![c] = j]
        /\ disk' = disk /\ tmp' = tmp /\ turns' = turns
    BY DEF Becomes
  <1>2. job' \in [Commands -> JobType] /\ job'[c] = j /\ \A d \in Commands : d # c => job'[d] = job[d]
    BY <1>1 DEF IInv, TypeOK
  <1>3. TypeOK'
    BY <1>1, <1>2 DEF IInv, TypeOK
  <1>4. (InUse => disk.models = None)'
    BY <1>1 DEF IInv, InUse
  <1>5. ASSUME NEW i \in JobType, JobOK(i)
        PROVE  JobOK(i)'
    BY <1>5, <1>1 DEF JobOK, WriteOK, InUse, Settled
  <1>6. ASSUME NEW d \in Commands
        PROVE  JobOK(job[d])'
    <2>1. job[d] \in JobType /\ JobOK(job[d])
      BY DEF IInv, TypeOK
    <2>2. job'[d] \in JobType /\ JobOK(job'[d])
      BY <1>2, <2>1
    <2>3. QED
      BY <2>2, <1>1 DEF JobOK, WriteOK, InUse, Settled
  <1>7. ASSUME NEW d \in Commands, NEW e \in Commands, d # e
        PROVE  Apart(d, e)'
    BY <1>7, <1>1, <1>2 DEF IInv, Apart, Settled
  <1>8. QED
    BY <1>3, <1>4, <1>6, <1>7 DEF IInv

LEMMA EndOK ==
  ASSUME IInv, NEW c \in Commands, End(c), UNCHANGED <<disk, tmp, turns>>
  PROVE  IInv'
  <1>1. Idle.op = None
    BY DEF Idle
  <1>2. QED
    BY <1>1, IdleTyped, Local DEF End

\* A command that is about to write has checked what WriteOK says.
LEMMA SaveOK ==
  ASSUME IInv, NEW c \in Commands, NEW file, NEW doc, NEW step,
         Save(c, file, doc, step), UNCHANGED <<disk, tmp, turns>>,
         job[c].op # None,
         [file |-> file, doc |-> doc, then |-> step] \in Pending,
         step = "end" => file \in Replaces(Kind(c)) /\ (file = "config" => InUse),
         step # "end" => ~Settled,
         step = "unlink" => job[c].upgrade \in ConfigDocs /\ disk.config = None,
         step # "end" /\ file = "config" => disk.config = None /\ disk.models = None,
         step = "templates" /\ file = "providers" => InUse,
         step = "body" => Kind(c) = "start"
  PROVE  IInv'
  <1> DEFINE out == [file |-> file, doc |-> doc, then |-> step]
             j == [job[c] EXCEPT !.at = "open", !.out = out]
  <1>1. job[c] \in JobType
    BY DEF IInv, TypeOK
  <1>2. j \in JobType /\ j.at = "open" /\ j.out = out /\ j.op = job[c].op /\ j.upgrade = job[c].upgrade
    BY <1>1 DEF JobType, Steps
  <1>3. out.file = file /\ out.then = step
    OBVIOUS
  <1>4. WriteOK(j)
    <2> HIDE DEF j, out
    <2>1. j.out \in Pending /\ j.at # "replace"
      BY <1>2 DEF out
    <2>2. j.out.file = file /\ j.out.then = step /\ j.op.kind = Kind(c)
      BY <1>2, <1>3 DEF Kind
    <2>3. QED
      BY <1>2, <2>1, <2>2 DEF WriteOK
  <1>5. JobOK(j)
    <2> HIDE DEF j, out
    <2>1. QED
      BY <1>2, <1>4 DEF JobOK
  <1>6. Becomes(c, j)
    BY DEF Save
  <1>7. QED
    <2> HIDE DEF j, out
    <2>1. QED
      BY <1>2, <1>5, <1>6, Local

LEMMA GotoOK ==
  ASSUME IInv, NEW c \in Commands, NEW step \in {"templates", "body", "models"},
         Goto(c, step), UNCHANGED <<disk, tmp, turns>>,
         job[c].op # None,
         step = "templates" =>
           disk.config # Ancient /\ (disk.config = None => disk.models = None),
         step = "body" /\ Kind(c) \in InitsFirst => Settled,
         step = "models" => Kind(c) = "model add"
  PROVE  IInv'
  <1> DEFINE j == [job[c] EXCEPT !.at = step]
  <1>1. job[c] \in JobType
    BY DEF IInv, TypeOK
  <1>2. j \in JobType /\ j.at = step /\ j.op = job[c].op
    BY <1>1 DEF JobType, Steps
  <1>3. JobOK(j)
    <2> HIDE DEF j
    <2>1. QED
      BY <1>2 DEF JobOK, Writing, Kind
  <1>4. Becomes(c, j)
    BY DEF Goto
  <1>5. QED
    <2> HIDE DEF j
    <2>1. QED
      BY <1>2, <1>3, <1>4, Local

\* A provider command goes on with what it has read.
LEMMA ReadOK ==
  ASSUME IInv, NEW c \in Commands, NEW step \in {"ask", "save"}, NEW doc \in ProviderDocs,
         Becomes(c, [job[c] EXCEPT !.at = step, !.read = doc]), UNCHANGED <<disk, tmp, turns>>,
         job[c].op # None,
         step = "ask" => Kind(c) = "provider add",
         Kind(c) \in {"provider add", "provider remove"}
  PROVE  IInv'
  <1> DEFINE j == [job[c] EXCEPT !.at = step, !.read = doc]
  <1>1. job[c] \in JobType
    BY DEF IInv, TypeOK
  <1>2. j \in JobType /\ j.at = step /\ j.op = job[c].op /\ j.read = doc
    BY <1>1 DEF JobType, Steps
  <1>3. JobOK(j)
    <2> HIDE DEF j
    <2>1. QED
      BY <1>2 DEF JobOK, Writing, Kind
  <1>4. QED
    <2>1. Becomes(c, j)
      OBVIOUS
    <2> HIDE DEF j
    <2>2. QED
      BY <1>2, <1>3, <2>1, Local

-----------------------------------------------------------------------------
(* The actions                                                             *)

LEMMA AtWork ==
  ASSUME IInv, NEW c \in Commands, job[c].at # "idle"
  PROVE  job[c].op # None /\ job[c].op \in Operations /\ job[c] \in JobType /\ JobOK(job[c])
  <1>1. job[c] \in JobType /\ JobOK(job[c])
    BY DEF IInv, TypeOK
  <1>2. QED
    BY <1>1 DEF JobOK, JobType

LEMMA UpgradedOK ==
  ASSUME IInv, NEW c \in Commands, Upgraded(c)
  PROVE  IInv'
  <1>1. job[c].op # None
    BY AtWork DEF Upgraded, At
  <1>2. AfterUpgrade(c) \in {"templates", "body"}
    BY DEF AfterUpgrade
  <1>3. AfterUpgrade(c) = "body" => Kind(c) \notin InitsFirst
    BY DEF AfterUpgrade, InitsFirst
  <1>4. disk.config # Ancient /\ (disk.config = None => disk.models = None)
    BY DEF Upgraded
  <1>5. Goto(c, AfterUpgrade(c)) /\ UNCHANGED <<disk, tmp, turns>>
    BY DEF Upgraded
  <1>6. AfterUpgrade(c) # "models"
    BY DEF AfterUpgrade
  <1>7. QED
    BY <1>1, <1>2, <1>3, <1>4, <1>5, <1>6, GotoOK

LEMMA UpgradeOK ==
  ASSUME IInv, NEW c \in Commands, Upgrade(c)
  PROVE  IInv'
  <1> DEFINE cfg == ConfigDoc(OldGateway, OldModels)
             doc == [entries |-> OldEntries, gateway |-> None]
             out == [file |-> "providers", doc |-> doc, then |-> "unlink"]
             j1 == [job[c] EXCEPT !.at = "unlink", !.upgrade = cfg]
             j2 == [job[c] EXCEPT !.at = "open", !.upgrade = cfg, !.out = out]
  <1>1. /\ job[c].op # None /\ job[c] \in JobType
        /\ disk.config = None /\ UNCHANGED <<disk, tmp, turns>>
        /\ Becomes(c, j1) \/ End(c) \/ Becomes(c, j2)
    BY AtWork DEF Upgrade, At
  <1>2. cfg \in ConfigDocs /\ doc \in ProviderDocs
    BY OldTyped DEF IInv, TypeOK
  <1>3. out \in Pending
    <2> HIDE DEF doc, cfg
    <2>1. QED
      BY <1>2 DEF Pending
  <1>4. CASE Becomes(c, j1)
    <2> HIDE DEF cfg, doc
    <2>1. j1 \in JobType /\ j1.at = "unlink" /\ j1.op = job[c].op /\ j1.upgrade = cfg
      BY <1>1, <1>2 DEF JobType, Steps
    <2> HIDE DEF j1
    <2>2. JobOK(j1)
      BY <1>1, <1>2, <2>1 DEF JobOK, Writing
    <2>3. QED
      BY <1>1, <1>4, <2>1, <2>2, Local
  <1>5. CASE Becomes(c, j2)
    <2> HIDE DEF cfg, out
    <2>1. /\ j2 \in JobType /\ j2.at = "open" /\ j2.op = job[c].op
          /\ j2.upgrade = cfg /\ j2.out = out
      BY <1>1, <1>2, <1>3 DEF JobType, Steps
    <2>2. out.file = "providers" /\ out.then = "unlink"
      BY DEF out
    <2> HIDE DEF j2
    <2>3. WriteOK(j2)
      BY <1>1, <1>2, <1>3, <2>1, <2>2 DEF WriteOK, Settled
    <2>4. JobOK(j2)
      BY <1>1, <2>1, <2>3 DEF JobOK
    <2>5. QED
      BY <1>1, <1>5, <2>1, <2>4, Local
  <1>6. CASE End(c)
    BY <1>1, <1>6, EndOK
  <1>7. QED
    BY <1>1, <1>4, <1>5, <1>6

LEMMA TemplatesOK ==
  ASSUME IInv, NEW c \in Commands, Templates(c)
  PROVE  IInv'
  <1> DEFINE cdoc == [Defaults EXCEPT !.comments = TRUE]
             pdoc == [entries |-> NoEntries, gateway |-> None]
  <1>1. /\ job[c].op # None /\ UNCHANGED <<disk, tmp, turns>>
        /\ disk.config # Ancient /\ (disk.config = None => disk.models = None)
    BY AtWork DEF Templates, At, JobOK
  <1>2. cdoc \in ConfigDocs /\ pdoc \in ProviderDocs
    BY DefaultsTyped
  <1> HIDE DEF cdoc, pdoc
  <1>3. CASE disk.config = None
    <2>1. Save(c, "config", cdoc, "templates")
      BY <1>3 DEF Templates, cdoc
    <2>2. [file |-> "config", doc |-> cdoc, then |-> "templates"] \in Pending
      BY <1>2 DEF Pending
    <2>3. ~Settled
      BY <1>3 DEF Settled
    <2>4. QED
      BY <1>1, <1>3, <2>1, <2>2, <2>3, SaveOK
  <1>4. CASE disk.config # None /\ disk.providers = None
    <2>1. Save(c, "providers", pdoc, "templates")
      BY <1>4 DEF Templates, pdoc
    <2>2. [file |-> "providers", doc |-> pdoc, then |-> "templates"] \in Pending
      BY <1>2 DEF Pending
    <2>3. ~Settled /\ InUse
      BY <1>1, <1>4 DEF Settled, InUse
    <2>4. QED
      BY <1>1, <1>4, <2>1, <2>2, <2>3, SaveOK
  <1>5. CASE disk.config # None /\ disk.providers # None /\ Kind(c) = "config init"
    <2>1. End(c)
      BY <1>5 DEF Templates
    <2>2. QED
      BY <1>1, <2>1, EndOK
  <1>6. CASE disk.config # None /\ disk.providers # None /\ Kind(c) # "config init"
    <2>1. Goto(c, "body")
      BY <1>6 DEF Templates
    <2>2. Settled
      BY <1>1, <1>6 DEF Settled
    <2>3. QED
      BY <1>1, <2>1, <2>2, GotoOK
  <1>7. QED
    BY <1>3, <1>4, <1>5, <1>6

LEMMA ReplacesFile ==
  /\ Replaces("provider add") = {"providers"} /\ Replaces("provider remove") = {"providers"}
  /\ \A k \in {"setup", "key set", "key clear", "model add", "model remove"} :
       Replaces(k) = {"config"}
  BY DEF Replaces

\* The commands that edit the configuration in place.
LEMMA SaveConfigOK ==
  ASSUME IInv, NEW c \in Commands, NEW doc \in ConfigDocs,
         Save(c, "config", doc, "end"), UNCHANGED <<disk, tmp, turns>>,
         job[c].op # None, InUse,
         Kind(c) \in {"setup", "key set", "key clear", "model add", "model remove"}
  PROVE  IInv'
  <1>1. [file |-> "config", doc |-> doc, then |-> "end"] \in Pending
    BY DEF Pending
  <1>2. "config" \in Replaces(Kind(c))
    BY ReplacesFile
  <1>3. QED
    BY <1>1, <1>2, SaveOK

LEMMA InUseIfRead ==
  ASSUME disk.config \in ConfigDocs
  PROVE  InUse
  BY NoDocs DEF InUse

LEMMA SetupOK ==
  ASSUME IInv, NEW c \in Commands, Setup(c)
  PROVE  IInv'
  <1>1. /\ job[c].op # None /\ Kind(c) = "setup" /\ InUse
        /\ UNCHANGED <<disk, tmp, turns>>
        /\ End(c) \/ \E k \in FreshKeys : Save(c, "config", WithKey(k), "end")
    <2>1. job[c].op # None /\ JobOK(job[c]) /\ job[c].at = "body" /\ job[c].op.kind = "setup"
      BY AtWork DEF Setup, At, Kind
    <2>2. Settled
      BY <2>1 DEF JobOK, InitsFirst
    <2>3. QED
      BY <2>1, <2>2 DEF Settled, InUse, Setup
  <1>2. CASE End(c)
    BY <1>1, <1>2, EndOK
  <1>3. ASSUME NEW k \in FreshKeys, Save(c, "config", WithKey(k), "end")
        PROVE  IInv'
    <2>1. WithKey(k) \in ConfigDocs
      BY WithKeyTyped DEF Keys
    <2>2. QED
      BY <1>1, <1>3, <2>1, SaveConfigOK
  <1>4. QED
    BY <1>1, <1>2, <1>3

LEMMA KeySetOK ==
  ASSUME IInv, NEW c \in Commands, KeySet(c)
  PROVE  IInv'
  <1>1. /\ job[c].op # None /\ Kind(c) = "key set" /\ InUse
        /\ UNCHANGED <<disk, tmp, turns>>
        /\ End(c) \/ \E k \in UserKeys : Save(c, "config", WithKey(k), "end")
    <2>1. job[c].op # None /\ JobOK(job[c]) /\ job[c].at = "body" /\ job[c].op.kind = "key set"
      BY AtWork DEF KeySet, At, Kind
    <2>2. Settled
      BY <2>1 DEF JobOK, InitsFirst
    <2>3. QED
      BY <2>1, <2>2 DEF Settled, InUse, KeySet
  <1>2. CASE End(c)
    BY <1>1, <1>2, EndOK
  <1>3. ASSUME NEW k \in UserKeys, Save(c, "config", WithKey(k), "end")
        PROVE  IInv'
    <2>1. WithKey(k) \in ConfigDocs
      BY WithKeyTyped DEF Keys
    <2>2. QED
      BY <1>1, <1>3, <2>1, SaveConfigOK
  <1>4. QED
    BY <1>1, <1>2, <1>3

LEMMA KeyClearOK ==
  ASSUME IInv, NEW c \in Commands, KeyClear(c)
  PROVE  IInv'
  <1>1. /\ job[c].op # None /\ Kind(c) = "key clear"
        /\ UNCHANGED <<disk, tmp, turns>>
        /\ End(c) \/ (ApiKey # None /\ Save(c, "config", WithKey(None), "end"))
    BY AtWork DEF KeyClear, At
  <1>2. CASE End(c)
    BY <1>1, <1>2, EndOK
  <1>3. CASE ApiKey # None /\ Save(c, "config", WithKey(None), "end")
    <2>1. WithKey(None) \in ConfigDocs
      BY WithKeyTyped
    <2>2. InUse
      BY <1>3, InUseIfRead DEF ApiKey
    <2>3. QED
      BY <1>1, <1>3, <2>1, <2>2, SaveConfigOK
  <1>4. QED
    BY <1>1, <1>2, <1>3

LEMMA StartOK ==
  ASSUME IInv, NEW c \in Commands, Start(c)
  PROVE  IInv'
  BY EndOK DEF Start

LEMMA ProviderAddOK ==
  ASSUME IInv, NEW c \in Commands, ProviderAdd(c)
  PROVE  IInv'
  <1>1. /\ job[c].op # None /\ Kind(c) = "provider add"
        /\ UNCHANGED <<disk, tmp, turns>> /\ Settled
    <2>1. /\ job[c].op # None /\ JobOK(job[c]) /\ job[c].at = "body"
          /\ job[c].op.kind = "provider add"
      BY AtWork DEF ProviderAdd, At, Kind
    <2>2. Settled
      BY <2>1 DEF JobOK, InitsFirst
    <2>3. QED
      BY <2>1, <2>2 DEF ProviderAdd
  <1>2. CASE End(c)
    BY <1>1, <1>2, EndOK
  <1>3. CASE /\ disk.providers \notin Unreadables
             /\ Becomes(c, [job[c] EXCEPT !.at = "ask", !.read = disk.providers])
    <2>1. disk.providers \in ProviderDocs
      BY <1>1, <1>3 DEF IInv, TypeOK, DiskType, Settled
    <2>2. QED
      BY <1>1, <1>3, <2>1, ReadOK
  <1>4. QED
    BY <1>2, <1>3 DEF ProviderAdd

LEMMA WithEntryTyped ==
  ASSUME NEW d \in ProviderDocs, NEW p \in Providers, NEW e \in Entries \cup {None}
  PROVE  [d EXCEPT !.entries[p] = e] \in ProviderDocs
  BY DEF ProviderDocs

LEMMA ProviderKeyOK ==
  ASSUME IInv, NEW c \in Commands, ProviderKey(c)
  PROVE  IInv'
  <1> DEFINE op == job[c].op
             old == job[c].read.entries[op.provider]
             entry(k) == [url |-> op.url, key |-> k]
             j(k) == [job[c] EXCEPT !.at = "save", !.read.entries[op.provider] = entry(k)]
             doc(k) == [job[c].read EXCEPT !.entries[op.provider] = entry(k)]
  <1>1. /\ op # None /\ op \in Operations /\ op.kind = "provider add"
        /\ job[c] \in JobType /\ job[c].read \in ProviderDocs
        /\ UNCHANGED <<disk, tmp, turns>>
    BY AtWork DEF ProviderKey, At, JobOK
  <1>2. op.provider \in Providers /\ op.url \in Urls /\ op.key \in ProviderKeys \cup {None}
    BY <1>1, OperationParts
  <1>3. ASSUME NEW k \in ProviderKeys \cup {None}, Becomes(c, j(k))
        PROVE  IInv'
    <2>1. entry(k) \in Entries
      BY <1>2 DEF Entries
    <2> HIDE DEF entry
    <2>2. doc(k) \in ProviderDocs
      BY <1>1, <1>2, <2>1, WithEntryTyped
    <2>3. j(k) = [job[c] EXCEPT !.at = "save", !.read = doc(k)]
      BY <1>1 DEF JobType
    <2> HIDE DEF doc, j
    <2>4. QED
      BY <1>1, <1>3, <2>2, <2>3, ReadOK DEF Kind
  <1>4. CASE End(c)
    BY <1>1, <1>4, EndOK
  <1>5. old # None => old.key \in ProviderKeys \cup {None}
    BY <1>1, <1>2 DEF ProviderDocs, Entries
  <1>6. \/ End(c)
        \/ Becomes(c, j(op.key))
        \/ old # None /\ Becomes(c, j(old.key))
        \/ \E k \in ProviderKeys \cup {None} : Becomes(c, j(k))
    BY Zenon DEF ProviderKey
  <1>7. QED
    <2> HIDE DEF j, old
    <2>1. QED
      BY <1>2, <1>3, <1>4, <1>5, <1>6

LEMMA ProviderRemoveOK ==
  ASSUME IInv, NEW c \in Commands, ProviderRemove(c)
  PROVE  IInv'
  <1> DEFINE p == job[c].op.provider
             doc == [disk.providers EXCEPT !.entries[p] = None]
  <1>1. /\ job[c].op # None /\ job[c].op \in Operations /\ Kind(c) = "provider remove"
        /\ UNCHANGED <<disk, tmp, turns>>
    BY AtWork DEF ProviderRemove, At
  <1>2. p \in Providers
    BY <1>1, OperationParts DEF Kind
  <1>3. CASE End(c)
    BY <1>1, <1>3, EndOK
  <1>4. CASE /\ disk.providers \in ProviderDocs
             /\ Becomes(c, [job[c] EXCEPT !.at = "save", !.read = doc])
    <2>1. doc \in ProviderDocs
      BY <1>2, <1>4, WithEntryTyped
    <2> HIDE DEF doc
    <2>2. QED
      BY <1>1, <1>4, <2>1, ReadOK
  <1>5. QED
    BY <1>3, <1>4 DEF ProviderRemove

LEMMA ProviderSaveOK ==
  ASSUME IInv, NEW c \in Commands, ProviderSave(c)
  PROVE  IInv'
  <1>1. /\ job[c].op # None /\ Kind(c) \in {"provider add", "provider remove"}
        /\ job[c].read \in ProviderDocs
        /\ UNCHANGED <<disk, tmp, turns>>
        /\ End(c) \/ Save(c, "providers", job[c].read, "end")
    BY AtWork DEF ProviderSave, At, JobOK, Kind
  <1>2. CASE End(c)
    BY <1>1, <1>2, EndOK
  <1>3. CASE Save(c, "providers", job[c].read, "end")
    <2>1. [file |-> "providers", doc |-> job[c].read, then |-> "end"] \in Pending
      BY <1>1 DEF Pending
    <2>2. "providers" \in Replaces(Kind(c))
      BY <1>1, ReplacesFile
    <2>3. QED
      BY <1>1, <1>3, <2>1, <2>2, SaveOK
  <1>4. QED
    BY <1>1, <1>2, <1>3

LEMMA ModelAddOK ==
  ASSUME IInv, NEW c \in Commands, ModelAdd(c)
  PROVE  IInv'
  <1>1. /\ job[c].op # None /\ Kind(c) = "model add"
        /\ UNCHANGED <<disk, tmp, turns>>
        /\ End(c) \/ Goto(c, "models")
    BY AtWork DEF ModelAdd, At
  <1>2. QED
    BY <1>1, EndOK, GotoOK

LEMMA SaveModelOK ==
  ASSUME IInv, NEW c \in Commands, NEW p \in Providers \cup {None},
         SaveModel(c, p), UNCHANGED <<disk, tmp, turns>>,
         job[c].op \in Operations, disk.config \in ConfigDocs,
         Kind(c) \in {"model add", "model remove"}
  PROVE  IInv'
  <1> DEFINE m == job[c].op.model
             doc == [disk.config EXCEPT !.models[m] = p, !.comments = FALSE]
  <1>1. m \in Models
    BY OperationParts DEF Kind
  <1>2. doc \in ConfigDocs
    BY <1>1 DEF ConfigDocs, ModelMaps
  <1>3. Save(c, "config", doc, "end")
    BY DEF SaveModel
  <1> HIDE DEF doc
  <1>4. QED
    BY <1>2, <1>3, SaveConfigOK, InUseIfRead, NoDocs

LEMMA ModelSaveOK ==
  ASSUME IInv, NEW c \in Commands, ModelSave(c)
  PROVE  IInv'
  <1>1. /\ job[c].op \in Operations /\ Kind(c) = "model add"
        /\ UNCHANGED <<disk, tmp, turns>>
        /\ \/ End(c)
           \/ disk.config \in ConfigDocs /\ SaveModel(c, job[c].op.provider)
    BY AtWork DEF ModelSave, At, JobOK, Kind
  <1>2. job[c].op.provider \in Providers
    BY <1>1, OperationParts DEF Kind
  <1>3. QED
    BY <1>1, <1>2, EndOK, SaveModelOK

LEMMA ModelRemoveOK ==
  ASSUME IInv, NEW c \in Commands, ModelRemove(c)
  PROVE  IInv'
  <1>1. /\ job[c].op \in Operations /\ Kind(c) = "model remove"
        /\ UNCHANGED <<disk, tmp, turns>>
        /\ End(c) \/ (disk.config \in ConfigDocs /\ SaveModel(c, None))
    BY AtWork DEF ModelRemove, At
  <1>2. QED
    BY <1>1, EndOK, SaveModelOK

-----------------------------------------------------------------------------
(* Steps that change a file                                                *)

LEMMA WriterOK ==
  ASSUME IInv, NEW c \in Commands, job[c].at \in Writing
  PROVE  /\ job[c].op # None /\ job[c] \in JobType /\ JobOK(job[c])
         /\ WriteOK(job[c]) /\ job[c].out \in Pending
         /\ job[c].out.file \in {"config", "providers"}
         /\ job[c].out.file = "config" => job[c].out.doc \in ConfigDocs
         /\ job[c].out.file = "providers" => job[c].out.doc \in ProviderDocs
  <1>1. job[c].op # None /\ job[c] \in JobType /\ JobOK(job[c])
    BY AtWork DEF Writing
  <1>2. WriteOK(job[c]) /\ job[c].out \in Pending
    BY <1>1 DEF JobOK, WriteOK
  <1>3. QED
    BY <1>1, <1>2 DEF Pending

\* Two commands never write the same file.
LEMMA WritersApart ==
  ASSUME IInv, NEW c \in Commands, NEW d \in Commands, c # d,
         job[c].at \in Writing, job[d].at \in Writing
  PROVE  job[c].out.file # job[d].out.file
  <1>1. /\ job[c].op # None /\ WriteOK(job[c])
        /\ job[d].op # None /\ WriteOK(job[d])
    BY WriterOK
  <1>2. Settled /\ Replaces(job[c].op.kind) \cap Replaces(job[d].op.kind) = {}
    BY <1>1 DEF IInv, Apart
  <1>3. /\ job[c].out.file \in Replaces(job[c].op.kind)
        /\ job[d].out.file \in Replaces(job[d].op.kind)
    BY <1>1, <1>2 DEF WriteOK
  <1>4. QED
    BY <1>2, <1>3

\* The two steps that fill a temporary file.
LEMMA TmpOK ==
  ASSUME IInv, NEW c \in Commands, job[c].at \in {"open", "write"},
         NEW step \in {"write", "replace"}, NEW content,
         Goto(c, step), UNCHANGED <<disk, turns>>,
         tmp' = [tmp EXCEPT ![job[c].out.file] = content],
         step = "replace" => content = job[c].out.doc,
         content \in {Torn, job[c].out.doc}
  PROVE  IInv'
  <1> DEFINE j == [job[c] EXCEPT !.at = step]
             f == job[c].out.file
  <1>1. /\ job[c] \in JobType /\ job[c].op # None /\ WriteOK(job[c]) /\ job[c].out \in Pending
        /\ f \in {"config", "providers"}
        /\ f = "config" => job[c].out.doc \in ConfigDocs
        /\ f = "providers" => job[c].out.doc \in ProviderDocs
    BY WriterOK DEF Writing
  <1>2. PICK i \in JobType :
          /\ i.at = step /\ i.op = job[c].op /\ i.out = job[c].out
          /\ i.upgrade = job[c].upgrade
          /\ job' = [job EXCEPT ![c] = i]
    <2>1. /\ j \in JobType /\ j.at = step /\ j.op = job[c].op /\ j.out = job[c].out
          /\ j.upgrade = job[c].upgrade
      BY <1>1 DEF JobType, Steps
    <2>2. job' = [job EXCEPT ![c] = j]
      BY DEF Goto, Becomes
    <2> HIDE DEF j
    <2>3. QED
      BY <2>1, <2>2
  <1>3. disk' = disk /\ turns' = turns
    OBVIOUS
  <1>4. /\ job' \in [Commands -> JobType] /\ job'[c] = i
        /\ \A d \in Commands : d # c => job'[d] = job[d]
    BY <1>2, <1>3 DEF IInv, TypeOK
  <1>5. /\ tmp' \in [config : ConfigDocs \cup {None, Torn}, providers : ProviderDocs \cup {None, Torn}]
        /\ tmp'[f] = content
        /\ \A g \in {"config", "providers"} : g # f => tmp'[g] = tmp[g]
    BY <1>1 DEF IInv, TypeOK
  <1>6. TypeOK'
    BY <1>3, <1>4, <1>5 DEF IInv, TypeOK
  <1>7. (InUse => disk.models = None)'
    BY <1>3 DEF IInv, InUse
  <1>8. ASSUME NEW d \in Commands
        PROVE  JobOK(job[d])'
    <2>1. CASE d = c
      <3>1. WriteOK(i)'
        BY <1>1, <1>2, <1>3, <1>5 DEF WriteOK, InUse, Settled
      <3>2. JobOK(i)'
        BY <1>1, <1>2, <3>1 DEF JobOK
      <3>3. QED
        BY <1>4, <2>1, <3>2
    <2>2. CASE d # c
      <3>1. JobOK(job[d]) /\ job'[d] = job[d]
        BY <1>4, <2>2 DEF IInv
      <3>2. ASSUME job[d].at \in Writing
            PROVE  tmp'[job[d].out.file] = tmp[job[d].out.file]
        <4>1. job[d].out.file # f /\ job[d].out.file \in {"config", "providers"}
          BY <2>2, <3>2, WriterOK, WritersApart DEF Writing
        <4>2. QED
          BY <1>5, <4>1
      <3>3. JobOK(job[d])' <=> JobOK(job[d])
        BY <1>3, <3>1, <3>2 DEF JobOK, WriteOK, InUse, Settled, Writing
      <3>4. QED
        BY <3>1, <3>3
    <2>3. QED
      BY <2>1, <2>2
  <1>9. ASSUME NEW d \in Commands, NEW e \in Commands, d # e
        PROVE  Apart(d, e)'
    BY <1>9, <1>2, <1>3, <1>4 DEF IInv, Apart, Settled
  <1>10. QED
    BY <1>6, <1>7, <1>8, <1>9 DEF IInv

LEMMA OpenOK ==
  ASSUME IInv, NEW c \in Commands, Open(c)
  PROVE  IInv'
  <1>1. job[c].at = "open" /\ Goto(c, "write") /\ UNCHANGED <<disk, turns>>
    BY DEF Open, At
  <1>2. tmp' = [tmp EXCEPT ![job[c].out.file] = Torn]
    BY DEF Open
  <1>3. QED
    BY <1>1, <1>2, TmpOK

LEMMA WriteStepOK ==
  ASSUME IInv, NEW c \in Commands, Write(c)
  PROVE  IInv'
  <1>1. job[c].at = "write" /\ Goto(c, "replace") /\ UNCHANGED <<disk, turns>>
    BY DEF Write, At
  <1>2. tmp' = [tmp EXCEPT ![job[c].out.file] = job[c].out.doc]
    BY DEF Write
  <1>3. QED
    BY <1>1, <1>2, TmpOK

\* While the directory is not upgraded, a command works alone.
LEMMA Alone ==
  ASSUME IInv, NEW c \in Commands, job[c].op # None, ~Settled
  PROVE  \A d \in Commands : d # c => job[d].op = None /\ job[d].at = "idle"
  <1>1. \A d \in Commands : d # c => job[d].op = None
    BY DEF IInv, Apart
  <1>2. QED
    BY <1>1 DEF IInv, JobOK

LEMMA ReplaceOK ==
  ASSUME IInv, NEW c \in Commands, Replace(c)
  PROVE  IInv'
  <1> DEFINE f == job[c].out.file
             then == job[c].out.then
             j == [job[c] EXCEPT !.at = then, !.out = None,
                     !.upgrade = IF f = "config" THEN None ELSE @]
  <1>1. /\ job[c] \in JobType /\ job[c].op # None /\ WriteOK(job[c]) /\ job[c].out \in Pending
        /\ f \in {"config", "providers"}
        /\ f = "config" => job[c].out.doc \in ConfigDocs
        /\ f = "providers" => job[c].out.doc \in ProviderDocs
    BY WriterOK DEF Writing, Replace, At
  <1>2. /\ job[c].at = "replace" /\ turns' = turns
        /\ disk' = [disk EXCEPT ![f] = tmp[f]]
        /\ tmp' = [tmp EXCEPT ![f] = None]
        /\ IF then = "end" THEN End(c) ELSE Becomes(c, j)
    BY DEF Replace, At
  <1>3. tmp[f] = job[c].out.doc
    BY <1>1, <1>2 DEF WriteOK
  <1>4. /\ disk' \in DiskType
        /\ disk'.models = disk.models
        /\ f = "config" => disk'.config \in ConfigDocs /\ disk'.providers = disk.providers
        /\ f = "providers" => disk'.providers \in ProviderDocs /\ disk'.config = disk.config
    BY <1>1, <1>2, <1>3 DEF IInv, TypeOK, DiskType
  <1>5. /\ tmp' \in [config : ConfigDocs \cup {None, Torn}, providers : ProviderDocs \cup {None, Torn}]
        /\ \A g \in {"config", "providers"} : g # f => tmp'[g] = tmp[g]
    BY <1>1, <1>2 DEF IInv, TypeOK
  <1>6. /\ (f = "config" => InUse')
        /\ (InUse => InUse')
        /\ (Settled => Settled')
    BY <1>1, <1>4, NoDocs DEF InUse, Settled
  <1>7. PICK i \in JobType :
          /\ job' = [job EXCEPT ![c] = i]
          /\ (then = "end" /\ i = Idle) \/ (then # "end" /\ i = j)
    <2>1. Idle \in JobType
      BY IdleTyped
    <2>2. then # "end" => then \in Steps
      BY <1>1 DEF Pending, Steps
    <2>3. then # "end" => j \in JobType
      BY <1>1, <2>2 DEF JobType
    <2> HIDE DEF j
    <2>4. QED
      BY <1>2, <2>1, <2>3 DEF End, Becomes
  <1>8. /\ job' \in [Commands -> JobType] /\ job'[c] = i
        /\ \A d \in Commands : d # c => job'[d] = job[d]
    BY <1>7 DEF IInv, TypeOK
  <1>9. TypeOK'
    BY <1>2, <1>4, <1>5, <1>8 DEF IInv, TypeOK
  <1>10. (InUse => disk.models = None)'
    <2>1. CASE f = "config"
      <3>1. disk.models = None
        BY <1>1, <2>1 DEF WriteOK, IInv
      <3>2. QED
        BY <1>4, <3>1
    <2>2. CASE f = "providers"
      BY <1>4, <2>2 DEF IInv, InUse
    <2>3. QED
      BY <1>1, <2>1, <2>2
  <1>11. JobOK(i)'
    <2>1. CASE then = "end"
      <3>1. i = Idle
        BY <1>7, <2>1
      <3>2. QED
        BY <3>1 DEF Idle, JobOK, Writing
    <2>2. CASE then # "end"
      <3>1. /\ i.at = then /\ i.op = job[c].op
            /\ f = "providers" => i.upgrade = job[c].upgrade
        BY <1>1, <1>7, <2>2 DEF JobType
      <3>2. CASE then = "unlink"
        <4>1. f = "providers" /\ job[c].upgrade \in ConfigDocs /\ disk.config = None
          BY <1>1, <3>2 DEF WriteOK, Pending
        <4>2. QED
          BY <1>1, <1>4, <3>1, <3>2, <4>1 DEF JobOK, Writing
      <3>3. CASE then = "templates"
        <4>1. InUse'
          BY <1>1, <1>6, <3>3 DEF WriteOK
        <4>2. QED
          BY <1>1, <3>1, <3>3, <4>1 DEF JobOK, Writing, InUse
      <3>4. CASE then = "body"
        <4>1. job[c].op.kind = "start"
          BY <1>1, <3>4 DEF WriteOK
        <4>2. QED
          BY <1>1, <3>1, <3>4, <4>1 DEF JobOK, Writing, InitsFirst
      <3>5. QED
        BY <1>1, <2>2, <3>2, <3>3, <3>4 DEF Pending
    <2>3. QED
      BY <2>1, <2>2
  <1>12. ASSUME NEW d \in Commands, d # c
         PROVE  JobOK(job[d])'
    <2>1. job'[d] = job[d] /\ JobOK(job[d])
      BY <1>8, <1>12 DEF IInv
    <2>2. CASE job[d].op = None
      BY <2>1, <2>2 DEF JobOK, Writing
    <2>3. CASE job[d].op # None
      <3>1. Settled /\ Settled' /\ InUse /\ InUse'
        BY <1>1, <1>6, <1>12, <2>3 DEF IInv, Apart, Settled, InUse
      <3>2. ASSUME job[d].at \in Writing
            PROVE  WriteOK(job[d])'
        <4>1. WriteOK(job[d]) /\ job[d].out.then = "end" /\ job[d].out.file \in {"config", "providers"}
          BY <3>1, <3>2, WriterOK DEF WriteOK
        <4>2. job[d].out.file # f
          BY <1>2, <1>12, <3>2, WritersApart DEF Writing
        <4>3. tmp'[job[d].out.file] = tmp[job[d].out.file]
          BY <1>5, <4>1, <4>2
        <4>4. QED
          BY <2>1, <3>1, <4>1, <4>3 DEF WriteOK
      <3>3. job[d].at \notin {"unlink"} /\ (job[d].at = "templates" => InUse')
        BY <2>1, <3>1 DEF JobOK, Settled
      <3>4. QED
        BY <2>1, <3>1, <3>2, <3>3 DEF JobOK, InUse
    <2>4. QED
      BY <2>2, <2>3
  <1>13. ASSUME NEW d \in Commands, NEW e \in Commands, d # e
         PROVE  Apart(d, e)'
    <2>1. i.op = None \/ i.op = job[c].op
      <3>1. CASE then = "end"
        BY <1>7, <3>1 DEF Idle
      <3>2. CASE then # "end"
        BY <1>1, <1>7, <3>2 DEF JobType
      <3>3. QED
        BY <3>1, <3>2
    <2>2. QED
      BY <1>6, <1>8, <1>13, <2>1 DEF IInv, Apart
  <1>14. QED
    BY <1>8, <1>9, <1>10, <1>11, <1>12, <1>13 DEF IInv

LEMMA BackUpOK ==
  ASSUME IInv, NEW c \in Commands, BackUp(c)
  PROVE  IInv'
  <1>1. /\ disk.config = Ancient /\ disk' = [disk EXCEPT !.config = None, !.backup = Ancient]
        /\ tmp' = tmp /\ job' = job /\ turns' = turns /\ job[c].at = "migrate"
    BY DEF BackUp, At
  <1>2. /\ disk' \in DiskType /\ disk'.config = None /\ disk'.models = disk.models
        /\ disk'.providers = disk.providers
    BY <1>1 DEF IInv, TypeOK, DiskType
  <1>3. ~Settled /\ ~InUse' /\ ~Settled'
    BY <1>1, <1>2 DEF Settled, InUse
  <1>4. job[c].op # None
    BY <1>1, AtWork
  <1>5. \A d \in Commands : d # c => job[d].op = None /\ job[d].at = "idle"
    BY <1>3, <1>4, Alone
  <1>6. TypeOK'
    BY <1>1, <1>2 DEF IInv, TypeOK
  <1>7. ASSUME NEW d \in Commands
        PROVE  JobOK(job[d])'
    BY <1>1, <1>4, <1>5 DEF JobOK, Writing
  <1>8. ASSUME NEW d \in Commands, NEW e \in Commands, d # e
        PROVE  Apart(d, e)'
    BY <1>1, <1>5, <1>8 DEF Apart
  <1>9. QED
    BY <1>3, <1>6, <1>7, <1>8 DEF IInv

LEMMA UnlinkModelsOK ==
  ASSUME IInv, NEW c \in Commands, UnlinkModels(c)
  PROVE  IInv'
  <1> DEFINE cfg == job[c].upgrade
             then == AfterUpgrade(c)
             out == [file |-> "config", doc |-> cfg, then |-> then]
             j == [job[c] EXCEPT !.at = "open", !.out = out]
  <1>1. /\ disk' = [disk EXCEPT !.models = None] /\ tmp' = tmp /\ turns' = turns
        /\ job' = [job EXCEPT ![c] = j] /\ job[c].at = "unlink"
    BY DEF UnlinkModels, At, Save, Becomes
  <1>2. /\ job[c].op # None /\ job[c] \in JobType
        /\ cfg \in ConfigDocs /\ disk.config = None
    BY <1>1, AtWork DEF JobOK
  <1>3. /\ disk' \in DiskType /\ disk'.config = None /\ disk'.models = None
        /\ disk'.providers = disk.providers
    BY <1>1, <1>2 DEF IInv, TypeOK, DiskType
  <1>4. ~Settled /\ ~InUse' /\ ~Settled'
    BY <1>2, <1>3 DEF Settled, InUse
  <1>5. \A d \in Commands : d # c => job[d].op = None /\ job[d].at = "idle"
    BY <1>2, <1>4, Alone
  <1>6. /\ then \in {"templates", "body"}
        /\ then = "body" => job[c].op.kind = "start"
    BY DEF AfterUpgrade, Kind
  <1>7. out \in Pending /\ out.file = "config" /\ out.then = then
    BY <1>2, <1>6 DEF Pending
  <1>8. PICK i \in JobType :
          /\ i.at = "open" /\ i.op = job[c].op /\ i.out = out
          /\ job' = [job EXCEPT ![c] = i]
    <2>1. j \in JobType /\ j.at = "open" /\ j.op = job[c].op /\ j.out = out
      <3> HIDE DEF out
      <3>1. QED
        BY <1>2, <1>7 DEF JobType, Steps
    <2> HIDE DEF j, out
    <2>2. QED
      BY <1>1, <2>1
  <1>9. /\ job' \in [Commands -> JobType] /\ job'[c] = i
        /\ \A d \in Commands : d # c => job'[d] = job[d]
    BY <1>8 DEF IInv, TypeOK
  <1>10. TypeOK'
    BY <1>1, <1>3, <1>9 DEF IInv, TypeOK
  <1>11. ASSUME NEW d \in Commands
         PROVE  JobOK(job[d])'
    <2>1. CASE d = c
      <3>1. /\ i.out \in Pending /\ i.out.file = "config" /\ i.out.then = then
            /\ i.op = job[c].op /\ i.at = "open"
        <4> HIDE DEF out
        <4>1. QED
          BY <1>7, <1>8
      <3>2. WriteOK(i)'
        BY <1>3, <1>4, <1>6, <3>1 DEF WriteOK
      <3>3. JobOK(i)'
        BY <1>2, <3>1, <3>2 DEF JobOK
      <3>4. QED
        BY <1>9, <2>1, <3>3
    <2>2. CASE d # c
      BY <1>5, <1>9, <2>2 DEF JobOK, Writing
    <2>3. QED
      BY <2>1, <2>2
  <1>12. ASSUME NEW d \in Commands, NEW e \in Commands, d # e
         PROVE  Apart(d, e)'
    BY <1>5, <1>9, <1>12 DEF Apart
  <1>13. QED
    BY <1>4, <1>10, <1>11, <1>12 DEF IInv

LEMMA OneMoreTurn ==
  /\ 0 \in 0..MaxTurns
  /\ \A n \in 0..MaxTurns : n < MaxTurns => n + 1 \in 0..MaxTurns
  <1>1. MaxTurns \in Nat
    BY ConstantsOK
  <1>2. QED
    BY <1>1

LEMMA BeginOK ==
  ASSUME IInv, NEW c \in Commands, NEW op \in Operations, Begin(c, op)
  PROVE  IInv'
  <1> DEFINE at == IF op.kind \in InitsFirst \cup {"start"} THEN "migrate" ELSE "body"
             j == [job[c] EXCEPT !.op = op, !.at = at]
  <1>1. /\ disk' = disk /\ tmp' = tmp /\ turns' \in 0..MaxTurns
        /\ job' = [job EXCEPT ![c] = j]
        /\ \A d \in Commands : MayOverlap(op, d)
    <2>1. turns' \in 0..MaxTurns
      BY OneMoreTurn DEF Begin, IInv, TypeOK
    <2>2. QED
      BY <2>1 DEF Begin, Becomes
  <1>2. op # None
    BY NoDocs
  <1>3. PICK i \in JobType :
          /\ i.op = op /\ i.at \in {"migrate", "body"}
          /\ i.at = "body" => op.kind \notin InitsFirst
          /\ job' = [job EXCEPT ![c] = i]
    <2>1. j \in JobType /\ j.op = op /\ j.at = at
      BY DEF IInv, TypeOK, JobType, Steps
    <2> HIDE DEF j
    <2>2. QED
      BY <1>1, <2>1
  <1>4. /\ job' \in [Commands -> JobType] /\ job'[c] = i
        /\ \A d \in Commands : d # c => job'[d] = job[d]
    BY <1>3 DEF IInv, TypeOK
  <1>5. TypeOK'
    BY <1>1, <1>4 DEF IInv, TypeOK
  <1>6. (InUse => disk.models = None)'
    BY <1>1 DEF IInv, InUse
  <1>7. ASSUME NEW d \in Commands
        PROVE  JobOK(job[d])'
    <2>1. CASE d = c
      <3>1. JobOK(i)'
        BY <1>2, <1>3 DEF JobOK, Writing
      <3>2. QED
        BY <1>4, <2>1, <3>1
    <2>2. CASE d # c
      <3>1. JobOK(job[d]) /\ job'[d] = job[d]
        BY <1>4, <2>2 DEF IInv
      <3>2. QED
        BY <1>1, <3>1 DEF JobOK, WriteOK, InUse, Settled
    <2>3. QED
      BY <2>1, <2>2
  <1>8. ASSUME NEW d \in Commands, d # c
        PROVE  Apart(c, d)' /\ Apart(d, c)'
    BY <1>1, <1>3, <1>4, <1>8 DEF Apart, MayOverlap, Kind, Settled
  <1>9. ASSUME NEW d \in Commands, NEW e \in Commands, d # e
        PROVE  Apart(d, e)'
    <2>1. CASE d # c /\ e # c
      BY <1>1, <1>4, <1>9, <2>1 DEF IInv, Apart, Settled
    <2>2. QED
      BY <1>8, <1>9, <2>1
  <1>10. QED
    BY <1>5, <1>6, <1>7, <1>9 DEF IInv

LEMMA CrashOK ==
  ASSUME IInv, NEW c \in Commands, Crash(c)
  PROVE  IInv'
  BY EndOK DEF Crash

\* A file is edited or deleted by hand while no command is at work.
LEMMA EditOK ==
  ASSUME IInv, Spoil \/ Discard
  PROVE  IInv'
  <1>1. /\ tmp' = tmp /\ job' = job /\ turns' \in 0..MaxTurns
        /\ \A c \in Commands : job[c].op = None /\ job[c].at = "idle"
    <2>1. turns' \in 0..MaxTurns
      BY OneMoreTurn DEF Spoil, Discard, IInv, TypeOK
    <2>2. Resting /\ tmp' = tmp /\ job' = job
      BY DEF Spoil, Discard
    <2>3. QED
      BY <2>1, <2>2 DEF Resting, IInv, JobOK
  <1>2. /\ disk' \in DiskType /\ disk'.models = disk.models
        /\ InUse' => InUse
    <2>1. ASSUME NEW bad \in Unreadables, disk.config \in ConfigDocs,
                 disk' = [disk EXCEPT !.config = bad]
          PROVE  disk' \in DiskType /\ disk'.models = disk.models /\ InUse
      BY <2>1, InUseIfRead DEF IInv, TypeOK, DiskType
    <2>2. ASSUME NEW bad \in Unreadables, disk' = [disk EXCEPT !.providers = bad]
          PROVE  disk' \in DiskType /\ disk'.models = disk.models /\ disk'.config = disk.config
      BY <2>2 DEF IInv, TypeOK, DiskType
    <2>3. ASSUME disk' = [disk EXCEPT !.config = None]
          PROVE  disk' \in DiskType /\ disk'.models = disk.models /\ disk'.config = None
      BY <2>3 DEF IInv, TypeOK, DiskType
    <2>4. ASSUME disk' = [disk EXCEPT !.providers = None]
          PROVE  disk' \in DiskType /\ disk'.models = disk.models /\ disk'.config = disk.config
      BY <2>4 DEF IInv, TypeOK, DiskType
    <2>5. CASE Spoil
      BY <2>1, <2>2, <2>5 DEF Spoil, InUse
    <2>6. CASE Discard
      BY <2>3, <2>4, <2>6 DEF Discard, InUse
    <2>7. QED
      BY <2>5, <2>6
  <1>3. TypeOK'
    BY <1>1, <1>2 DEF IInv, TypeOK
  <1>4. (InUse => disk.models = None)'
    BY <1>2 DEF IInv
  <1>5. ASSUME NEW d \in Commands
        PROVE  JobOK(job[d])'
    BY <1>1 DEF JobOK, Writing
  <1>6. ASSUME NEW d \in Commands, NEW e \in Commands, d # e
        PROVE  Apart(d, e)'
    BY <1>1 DEF Apart
  <1>7. QED
    BY <1>3, <1>4, <1>5, <1>6 DEF IInv

-----------------------------------------------------------------------------
(* Theorems                                                                *)

LEMMA Initially ==
  ASSUME Init
  PROVE  IInv
  <1>1. disk \in DiskType /\ (InUse => disk.models = None)
    BY DisksOK DEF Init, InUse
  <1>2. tmp \in [config : ConfigDocs \cup {None, Torn}, providers : ProviderDocs \cup {None, Torn}]
    BY DEF Init
  <1>3. \A c \in Commands : job[c] = Idle
    BY DEF Init
  <1>4. job \in [Commands -> JobType] /\ turns \in 0..MaxTurns
    BY IdleTyped, OneMoreTurn DEF Init
  <1>5. ASSUME NEW c \in Commands
        PROVE  JobOK(job[c])
    BY <1>3, IdleTyped
  <1>6. ASSUME NEW c \in Commands, NEW d \in Commands
        PROVE  Apart(c, d)
    BY <1>3 DEF Apart, Idle
  <1>7. QED
    BY <1>1, <1>2, <1>4, <1>5, <1>6 DEF IInv, TypeOK

LEMMA Inductive ==
  ASSUME IInv, [Next]_vars
  PROVE  IInv'
  <1>1. ASSUME NEW c \in Commands, Step(c)
        PROVE  IInv'
    BY <1>1, OpenOK, WriteStepOK, ReplaceOK, BackUpOK, UpgradedOK, UpgradeOK,
       UnlinkModelsOK, TemplatesOK, SetupOK, KeySetOK, KeyClearOK, StartOK,
       ProviderAddOK, ProviderKeyOK, ProviderRemoveOK, ProviderSaveOK,
       ModelAddOK, ModelSaveOK, ModelRemoveOK DEF Step
  <1>2. CASE UNCHANGED vars
    <2>1. disk' = disk /\ tmp' = tmp /\ job' = job /\ turns' = turns
      BY <1>2 DEF vars
    <2>2. QED
      BY <2>1 DEF IInv, TypeOK, InUse, JobOK, WriteOK, Settled, Apart
  <1>3. QED
    BY <1>1, <1>2, BeginOK, CrashOK, EditOK DEF Next

\* The inductive invariant holds in every state (all operations of ConfigStore).
THEOREM Invariant == Spec => []IInv
  BY Initially, Inductive, PTL DEF Spec

\* config.yaml and providers.yaml are whole at every moment, and every variable
\* has its type (_atomic_write_bytes).
THEOREM TypeCorrect == Spec => []TypeOK
  <1>1. IInv => TypeOK
    BY DEF IInv
  <1>2. QED
    BY <1>1, Invariant, PTL

\* Beside a config.yaml in use there is no models.yaml (migrate_layout).
THEOREM UpgradesAreComplete == Spec => []NothingLeftBehind
  <1>1. IInv => NothingLeftBehind
    BY InUseIfRead DEF IInv, NothingLeftBehind
  <1>2. QED
    BY <1>1, Invariant, PTL

-----------------------------------------------------------------------------
(***************************************************************************)
(* The commands implement Settings: each changes one setting as its user   *)
(* asked, or nothing.  A command shows its change only when it replaces a  *)
(* file, several steps after it has read the settings it started from.     *)
(* Intent says that they are still the same then, and what the pending     *)
(* write makes of them.                                                    *)
(***************************************************************************)

\* Nothing of the gateway is left in providers.yaml.
Moved == disk.providers \in ProviderDocs => disk.providers.gateway = None

\* What config.yaml is to become by a command is a change of one setting in it.
ConfigEdit(op, doc) ==
  \/ /\ op.kind = "setup"
     /\ disk.config \in ConfigDocs => disk.config.key = None
     /\ \E k \in FreshKeys : doc = WithKey(k)
  \/ /\ op.kind = "key set"
     /\ \E k \in UserKeys : doc = WithKey(k)
  \/ /\ op.kind = "key clear"
     /\ disk.config \in ConfigDocs /\ doc = WithKey(None)
  \/ /\ op.kind \in {"model add", "model remove"}
     /\ disk.config \in ConfigDocs
     /\ \E m \in Models, p \in Providers \cup {None} :
          doc = [disk.config EXCEPT !.models[m] = p, !.comments = FALSE]

\* And what providers.yaml is to become, a change of one entry.
ProviderEdit(doc) ==
  /\ disk.providers \in ProviderDocs
  /\ \E p \in Providers, e \in Entries \cup {None} :
       doc = [disk.providers EXCEPT !.entries[p] = e]

\* What the pending write of job j says.
WriteMeans(j) ==
  LET w == j.out IN
  /\ w.then = "end" /\ w.file = "config" => ConfigEdit(j.op, w.doc)
  /\ w.then = "end" /\ w.file = "providers" => ProviderEdit(w.doc)
  /\ w.then = "unlink" => w.doc = [entries |-> OldEntries, gateway |-> None]
  /\ w.then # "end" /\ w.file = "config" /\ j.upgrade = None =>
       disk.providers = None /\ w.doc = [Defaults EXCEPT !.comments = TRUE]
  /\ w.then = "templates" /\ w.file = "providers" =>
       disk.providers = None /\ w.doc = [entries |-> NoEntries, gateway |-> None]

\* An upgrade carries the settings until they are in config.yaml.
UpgradeMeans(j) ==
  /\ j.upgrade \in ConfigDocs /\ disk.config = None
  /\ j.at \in Writing \cup {"unlink"}
  /\ \/ j.at \in Writing /\ j.out.then = "unlink"
     \/ /\ Moved
        /\ j.at \in Writing =>
             j.out.file = "config" /\ j.out.then # "end" /\ j.out.doc = j.upgrade

Intent(j) ==
  /\ j.upgrade # None => UpgradeMeans(j)
  /\ j.at \in Writing => WriteMeans(j)
  /\ j.at = "templates" /\ disk.config = None => disk.providers = None
  /\ j.at = "ask" => j.read = disk.providers
  /\ j.at = "save" => ProviderEdit(j.read)

Intents ==
  /\ InUse => Moved
  /\ \A c \in Commands : Intent(job[c])

-----------------------------------------------------------------------------
(* Intents is an invariant: steps that change only what a command is doing  *)

Mum == {"idle", "migrate", "body", "models", "unlink"}

\* A command that has neither read nor prepared anything intends nothing.
LEMMA Quiet ==
  ASSUME NEW i, i.upgrade = None, i.at \in Mum
  PROVE  Intent(i) /\ Intent(i)'
  BY DEF Mum, Intent, Writing

LEMMA IdleIntends == Intent(Idle) /\ Intent(Idle)' /\ Idle.upgrade = None
  BY DEF Idle, Intent, Writing

LEMMA IntentSame ==
  ASSUME NEW i, disk' = disk, Intent(i)
  PROVE  Intent(i)'
  <1>1. WithKey(None)' = WithKey(None) /\ \A k : WithKey(k)' = WithKey(k)
    BY DEF WithKey
  <1>2. OldEntries' = OldEntries
    BY DEF OldEntries
  <1>3. Moved' <=> Moved
    BY DEF Moved
  <1>4. \A op, doc : ConfigEdit(op, doc)' <=> ConfigEdit(op, doc)
    BY <1>1 DEF ConfigEdit
  <1>5. \A doc : ProviderEdit(doc)' <=> ProviderEdit(doc)
    BY DEF ProviderEdit
  <1>6. WriteMeans(i)' <=> WriteMeans(i)
    BY <1>2, <1>4, <1>5 DEF WriteMeans
  <1>7. UpgradeMeans(i)' <=> UpgradeMeans(i)
    BY <1>3 DEF UpgradeMeans
  <1>8. QED
    BY <1>5, <1>6, <1>7 DEF Intent

LEMMA IntentLocal ==
  ASSUME IInv, Intents, NEW c \in Commands, NEW i, Becomes(c, i), Intent(i), disk' = disk
  PROVE  Intents'
  <1>1. job' = [job EXCEPT ![c] = i] /\ job \in [Commands -> JobType]
    BY DEF Becomes, IInv, TypeOK
  <1>2. (InUse => Moved)'
    BY DEF Intents, InUse, Moved
  <1>3. ASSUME NEW d \in Commands
        PROVE  Intent(job[d])'
    <2>1. PICK x : x = IF d = c THEN i ELSE job[d]
      OBVIOUS
    <2>2. Intent(x)
      BY <2>1 DEF Intents
    <2>3. Intent(x)'
      BY <2>2, IntentSame
    <2>4. job'[d] = x
      BY <1>1, <2>1
    <2>5. QED
      BY <2>3, <2>4
  <1>4. QED
    BY <1>2, <1>3 DEF Intents

\* An upgrade is carried only where it is being written.
LEMMA NotUpgrading ==
  ASSUME Intents, NEW c \in Commands, job[c].at \notin Writing \cup {"unlink"}
  PROVE  job[c].upgrade = None
  BY DEF Intents, Intent, UpgradeMeans

\* Who carries an upgrade works alone.
LEMMA OneUpgrade ==
  ASSUME IInv, Intents, NEW c \in Commands, job[c].upgrade # None
  PROVE  /\ UpgradeMeans(job[c]) /\ disk.config = None
         /\ \A d \in Commands : d # c => job[d].upgrade = None
  <1>1. UpgradeMeans(job[c]) /\ disk.config = None /\ ~Settled
    BY DEF Intents, Intent, UpgradeMeans, Settled
  <1>2. job[c].op # None
    BY <1>1 DEF IInv, JobOK, UpgradeMeans, Writing
  <1>3. \A d \in Commands : d # c => job[d].at = "idle"
    BY <1>1, <1>2, Alone
  <1>4. QED
    BY <1>1, <1>3, NotUpgrading DEF Writing

LEMMA EndIntends ==
  ASSUME IInv, Intents, NEW c \in Commands, End(c), disk' = disk
  PROVE  Intents'
  BY IdleIntends, IntentLocal DEF End

LEMMA GotoIntends ==
  ASSUME IInv, Intents, NEW c \in Commands, NEW step \in Mum, Goto(c, step), disk' = disk,
         job[c].upgrade = None
  PROVE  Intents'
  <1> DEFINE j == [job[c] EXCEPT !.at = step]
  <1>1. j.upgrade = None /\ j.at \in Mum
    BY DEF IInv, TypeOK, JobType
  <1>2. Becomes(c, j)
    BY DEF Goto
  <1> HIDE DEF j
  <1>3. QED
    BY <1>1, <1>2, Quiet, IntentLocal

\* A command that is about to write has prepared what WriteMeans says.
LEMMA SaveIntends ==
  ASSUME IInv, Intents, NEW c \in Commands, NEW file, NEW doc, NEW step,
         Save(c, file, doc, step), disk' = disk, job[c].upgrade = None,
         step # "unlink",
         step = "end" /\ file = "config" => ConfigEdit(job[c].op, doc),
         step = "end" /\ file = "providers" => ProviderEdit(doc),
         step # "end" /\ file = "config" =>
           disk.providers = None /\ doc = [Defaults EXCEPT !.comments = TRUE],
         step = "templates" /\ file = "providers" =>
           disk.providers = None /\ doc = [entries |-> NoEntries, gateway |-> None]
  PROVE  Intents'
  <1> DEFINE out == [file |-> file, doc |-> doc, then |-> step]
             j == [job[c] EXCEPT !.at = "open", !.out = out]
  <1>1. j.at = "open" /\ j.out = out /\ j.op = job[c].op /\ j.upgrade = None
    BY DEF IInv, TypeOK, JobType
  <1>2. out.file = file /\ out.then = step /\ out.doc = doc
    OBVIOUS
  <1>3. Becomes(c, j)
    BY DEF Save
  <1> HIDE DEF j, out
  <1>4. WriteMeans(j)
    BY <1>1, <1>2 DEF WriteMeans
  <1>5. Intent(j)
    BY <1>1, <1>4 DEF Intent
  <1>6. QED
    BY <1>3, <1>5, IntentLocal

\* A step on the way to os.replace changes nothing that Intent speaks of.
LEMMA WritingIntends ==
  ASSUME IInv, Intents, NEW c \in Commands, NEW step \in Writing, job[c].at \in Writing,
         Goto(c, step), disk' = disk
  PROVE  Intents'
  <1> DEFINE j == [job[c] EXCEPT !.at = step]
  <1>1. j.at = step /\ j.op = job[c].op /\ j.upgrade = job[c].upgrade /\ j.out = job[c].out
    BY DEF IInv, TypeOK, JobType
  <1>2. Becomes(c, j)
    BY DEF Goto
  <1>3. Intent(job[c])
    BY DEF Intents
  <1> HIDE DEF j
  <1>4. WriteMeans(j)
    BY <1>1, <1>3 DEF Intent, WriteMeans
  <1>5. j.upgrade # None => UpgradeMeans(j)
    BY <1>1, <1>3 DEF Intent, UpgradeMeans
  <1>6. Intent(j)
    BY <1>1, <1>4, <1>5 DEF Intent, Writing
  <1>7. QED
    BY <1>2, <1>6, IntentLocal

\* A command looks for missing files where there is nothing to upgrade.
LEMMA TemplatesIntends ==
  ASSUME IInv, Intents, NEW c \in Commands, Goto(c, "templates"), disk' = disk,
         job[c].upgrade = None, disk.config = None => disk.providers = None
  PROVE  Intents'
  <1> DEFINE j == [job[c] EXCEPT !.at = "templates"]
  <1>1. j.upgrade = None /\ j.at = "templates"
    BY DEF IInv, TypeOK, JobType
  <1>2. Becomes(c, j)
    BY DEF Goto
  <1> HIDE DEF j
  <1>3. Intent(j)
    BY <1>1 DEF Intent, Writing
  <1>4. QED
    BY <1>2, <1>3, IntentLocal

LEMMA UpgradedIntends ==
  ASSUME IInv, Intents, NEW c \in Commands, Upgraded(c)
  PROVE  Intents'
  <1>1. job[c].upgrade = None /\ disk' = disk /\ Goto(c, AfterUpgrade(c))
    BY NotUpgrading DEF Upgraded, At, Writing
  <1>2. disk.config = None => disk.providers = None
    BY DEF Upgraded
  <1>3. AfterUpgrade(c) \in {"templates", "body"}
    BY DEF AfterUpgrade
  <1>4. "body" \in Mum
    BY DEF Mum
  <1>5. QED
    BY <1>1, <1>2, <1>3, <1>4, TemplatesIntends, GotoIntends

LEMMA UpgradeIntends ==
  ASSUME IInv, Intents, NEW c \in Commands, Upgrade(c)
  PROVE  Intents'
  <1> DEFINE cfg == ConfigDoc(OldGateway, OldModels)
             doc == [entries |-> OldEntries, gateway |-> None]
             out == [file |-> "providers", doc |-> doc, then |-> "unlink"]
             j1 == [job[c] EXCEPT !.at = "unlink", !.upgrade = cfg]
             j2 == [job[c] EXCEPT !.at = "open", !.upgrade = cfg, !.out = out]
  <1>1. /\ job[c] \in JobType /\ disk.config = None /\ disk' = disk
        /\ \/ Becomes(c, j1) /\ disk.providers \in {None, NotAMapping}
           \/ End(c)
           \/ Becomes(c, j2)
    BY DEF Upgrade, IInv, TypeOK
  <1>2. cfg \in ConfigDocs
    BY OldTyped DEF IInv, TypeOK
  <1>3. CASE Becomes(c, j1) /\ disk.providers \in {None, NotAMapping}
    <2> HIDE DEF cfg
    <2>1. j1.at = "unlink" /\ j1.upgrade = cfg
      BY <1>1 DEF JobType
    <2>2. Moved
      BY <1>3, NoDocs DEF Moved
    <2> HIDE DEF j1
    <2>3. Intent(j1)
      BY <1>1, <1>2, <2>1, <2>2 DEF Intent, UpgradeMeans, Writing
    <2>4. QED
      BY <1>1, <1>3, <2>3, IntentLocal
  <1>4. CASE Becomes(c, j2)
    <2> HIDE DEF cfg
    <2>1. j2.at = "open" /\ j2.upgrade = cfg /\ j2.out = out
      BY <1>1 DEF JobType
    <2>2. out.file = "providers" /\ out.then = "unlink" /\ out.doc = doc
      OBVIOUS
    <2> HIDE DEF j2, out
    <2>3. UpgradeMeans(j2)
      BY <1>1, <1>2, <2>1, <2>2 DEF UpgradeMeans, Writing
    <2>4. WriteMeans(j2)
      BY <2>1, <2>2 DEF WriteMeans
    <2>5. Intent(j2)
      BY <2>1, <2>3, <2>4 DEF Intent
    <2>6. QED
      BY <1>1, <1>4, <2>5, IntentLocal
  <1>5. QED
    BY <1>1, <1>3, <1>4, EndIntends

LEMMA TemplatesStepIntends ==
  ASSUME IInv, Intents, NEW c \in Commands, Templates(c)
  PROVE  Intents'
  <1>1. /\ job[c].upgrade = None /\ disk' = disk /\ job[c].at = "templates"
        /\ disk.config = None => disk.providers = None
    BY NotUpgrading DEF Templates, At, Writing, Intents, Intent
  <1>2. CASE Save(c, "config", [Defaults EXCEPT !.comments = TRUE], "templates") /\ disk.config = None
    BY <1>1, <1>2, SaveIntends
  <1>3. CASE /\ Save(c, "providers", [entries |-> NoEntries, gateway |-> None], "templates")
             /\ disk.providers = None
    BY <1>1, <1>3, SaveIntends
  <1>4. CASE Goto(c, "body")
    BY <1>1, <1>4, GotoIntends DEF Mum
  <1>5. QED
    BY <1>1, <1>2, <1>3, <1>4, EndIntends DEF Templates

LEMMA KeysIntend ==
  ASSUME IInv, Intents, NEW c \in Commands, Setup(c) \/ KeySet(c) \/ KeyClear(c)
  PROVE  Intents'
  <1>1. job[c].upgrade = None /\ disk' = disk
    BY NotUpgrading DEF Setup, KeySet, KeyClear, At, Writing
  <1>2. ASSUME NEW doc, Save(c, "config", doc, "end"), ConfigEdit(job[c].op, doc)
        PROVE  Intents'
    BY <1>1, <1>2, SaveIntends
  <1>3. CASE Setup(c)
    <2>1. ASSUME NEW k \in FreshKeys, ApiKey = None
          PROVE  ConfigEdit(job[c].op, WithKey(k))
      BY <1>3, <2>1 DEF Setup, Kind, ApiKey, ConfigEdit
    <2>2. QED
      BY <1>1, <1>2, <1>3, <2>1, EndIntends DEF Setup
  <1>4. CASE KeySet(c)
    <2>1. ASSUME NEW k \in UserKeys
          PROVE  ConfigEdit(job[c].op, WithKey(k))
      BY <1>4 DEF KeySet, Kind, ConfigEdit
    <2>2. QED
      BY <1>1, <1>2, <1>4, <2>1, EndIntends DEF KeySet
  <1>5. CASE KeyClear(c)
    <2>1. ApiKey # None => ConfigEdit(job[c].op, WithKey(None))
      BY <1>5 DEF KeyClear, Kind, ApiKey, ConfigEdit
    <2>2. QED
      BY <1>1, <1>2, <1>5, <2>1, EndIntends DEF KeyClear
  <1>6. QED
    BY <1>3, <1>4, <1>5

LEMMA ModelsIntend ==
  ASSUME IInv, Intents, NEW c \in Commands, ModelAdd(c) \/ ModelSave(c) \/ ModelRemove(c)
  PROVE  Intents'
  <1>1. job[c].upgrade = None /\ disk' = disk
    BY NotUpgrading DEF ModelAdd, ModelSave, ModelRemove, At, Writing
  <1>2. job[c].op \in Operations /\ JobOK(job[c])
    BY AtWork DEF ModelAdd, ModelSave, ModelRemove, At
  <1>3. ASSUME NEW p \in Providers \cup {None}, SaveModel(c, p), disk.config \in ConfigDocs,
               job[c].op.kind \in {"model add", "model remove"}
        PROVE  Intents'
    <2> DEFINE doc == [disk.config EXCEPT !.models[job[c].op.model] = p, !.comments = FALSE]
    <2>1. job[c].op.model \in Models
      BY <1>2, <1>3, OperationParts
    <2>2. ConfigEdit(job[c].op, doc)
      BY <1>3, <2>1 DEF ConfigEdit
    <2>3. Save(c, "config", doc, "end")
      BY <1>3 DEF SaveModel
    <2> HIDE DEF doc
    <2>4. QED
      BY <1>1, <2>2, <2>3, SaveIntends
  <1>4. CASE ModelAdd(c)
    BY <1>1, <1>4, GotoIntends, EndIntends DEF ModelAdd, Mum
  <1>5. CASE ModelSave(c)
    <2>1. job[c].op.kind = "model add" /\ job[c].op.provider \in Providers
      BY <1>2, <1>5, OperationParts DEF ModelSave, At, JobOK
    <2>2. QED
      BY <1>1, <1>3, <1>5, <2>1, EndIntends DEF ModelSave
  <1>6. CASE ModelRemove(c)
    <2>1. job[c].op.kind = "model remove"
      BY <1>6 DEF ModelRemove, Kind
    <2>2. QED
      BY <1>1, <1>3, <1>6, <2>1, EndIntends DEF ModelRemove
  <1>7. QED
    BY <1>4, <1>5, <1>6

LEMMA ProvidersIntend ==
  ASSUME IInv, Intents, NEW c \in Commands,
         ProviderAdd(c) \/ ProviderKey(c) \/ ProviderRemove(c) \/ ProviderSave(c)
  PROVE  Intents'
  <1>1. /\ job[c].upgrade = None /\ disk' = disk /\ job[c] \in JobType
        /\ job[c].op \in Operations /\ JobOK(job[c]) /\ Intent(job[c])
    <2>1. job[c].at \in {"body", "ask", "save"} /\ disk' = disk
      BY DEF ProviderAdd, ProviderKey, ProviderRemove, ProviderSave, At
    <2>2. QED
      BY <2>1, NotUpgrading, AtWork DEF Writing, Intents
  <1>2. ASSUME NEW doc, ProviderEdit(doc), Becomes(c, [job[c] EXCEPT !.at = "save", !.read = doc])
        PROVE  Intents'
    <2> DEFINE j == [job[c] EXCEPT !.at = "save", !.read = doc]
    <2>1. j.at = "save" /\ j.read = doc /\ j.upgrade = None /\ Becomes(c, j)
      BY <1>1, <1>2 DEF JobType
    <2> HIDE DEF j
    <2>2. Intent(j)
      BY <1>2, <2>1 DEF Intent, Writing
    <2>3. QED
      BY <1>1, <2>1, <2>2, IntentLocal
  <1>3. CASE ProviderAdd(c)
    <2> DEFINE j == [job[c] EXCEPT !.at = "ask", !.read = disk.providers]
    <2>1. j.at = "ask" /\ j.read = disk.providers /\ j.upgrade = None
      BY <1>1 DEF JobType
    <2>2. End(c) \/ Becomes(c, j)
      BY <1>3 DEF ProviderAdd
    <2> HIDE DEF j
    <2>3. Intent(j)
      BY <2>1 DEF Intent, Writing
    <2>4. QED
      BY <1>1, <2>2, <2>3, IntentLocal, EndIntends
  <1>4. CASE ProviderKey(c)
    <2> DEFINE op == job[c].op
               old == job[c].read.entries[op.provider]
               entry(k) == [url |-> op.url, key |-> k]
               j(k) == [job[c] EXCEPT !.at = "save", !.read.entries[op.provider] = entry(k)]
               doc(k) == [disk.providers EXCEPT !.entries[op.provider] = entry(k)]
    <2>1. /\ disk.providers \in ProviderDocs /\ job[c].read = disk.providers
          /\ op.provider \in Providers /\ op.url \in Urls /\ op.key \in ProviderKeys \cup {None}
      BY <1>1, <1>4, OperationParts DEF ProviderKey, At, JobOK, Intent
    <2>2. ASSUME NEW k \in ProviderKeys \cup {None}, Becomes(c, j(k))
          PROVE  Intents'
      <3>1. entry(k) \in Entries
        BY <2>1 DEF Entries
      <3> HIDE DEF entry
      <3>2. ProviderEdit(doc(k))
        BY <2>1, <3>1 DEF ProviderEdit
      <3>3. j(k) = [job[c] EXCEPT !.at = "save", !.read = doc(k)]
        BY <1>1, <2>1 DEF JobType
      <3> HIDE DEF doc, j
      <3>4. QED
        BY <1>2, <2>2, <3>2, <3>3
    <2>3. old # None => old.key \in ProviderKeys \cup {None}
      BY <2>1 DEF ProviderDocs, Entries
    <2>4. \/ End(c)
          \/ Becomes(c, j(op.key))
          \/ old # None /\ Becomes(c, j(old.key))
          \/ \E k \in ProviderKeys \cup {None} : Becomes(c, j(k))
      BY <1>4, Zenon DEF ProviderKey
    <2>5. QED
      <3> HIDE DEF j, old
      <3>1. QED
        BY <1>1, <2>1, <2>2, <2>3, <2>4, EndIntends
  <1>5. CASE ProviderRemove(c)
    <2> DEFINE doc == [disk.providers EXCEPT !.entries[job[c].op.provider] = None]
    <2>1. job[c].op.provider \in Providers
      BY <1>1, <1>5, OperationParts DEF ProviderRemove, Kind
    <2>2. disk.providers \in ProviderDocs => ProviderEdit(doc)
      BY <2>1 DEF ProviderEdit
    <2>3. \/ End(c)
          \/ disk.providers \in ProviderDocs /\ Becomes(c, [job[c] EXCEPT !.at = "save", !.read = doc])
      BY <1>5 DEF ProviderRemove
    <2> HIDE DEF doc
    <2>4. QED
      BY <1>1, <1>2, <2>2, <2>3, EndIntends
  <1>6. CASE ProviderSave(c)
    <2>1. ProviderEdit(job[c].read)
      BY <1>1, <1>6 DEF ProviderSave, At, Intent
    <2>2. End(c) \/ Save(c, "providers", job[c].read, "end")
      BY <1>6 DEF ProviderSave
    <2>3. QED
      BY <1>1, <2>1, <2>2, SaveIntends, EndIntends
  <1>7. QED
    BY <1>3, <1>4, <1>5, <1>6

-----------------------------------------------------------------------------
(* Intents is an invariant: steps that change a file                       *)

\* All commands are quiet.
LEMMA AllQuiet ==
  ASSUME IInv, Intents, job' = job, (InUse => Moved)',
         \A d \in Commands : job[d].at \in {"idle", "migrate"}
  PROVE  Intents'
  <1>1. ASSUME NEW d \in Commands
        PROVE  Intent(job[d])'
    <2>1. PICK x : x = job[d]
      OBVIOUS
    <2>2. x.upgrade = None /\ x.at \in Mum
      BY <2>1, NotUpgrading DEF Mum, Writing
    <2>3. Intent(x)' /\ job'[d] = x
      BY <2>1, <2>2, Quiet
    <2>4. QED
      BY <2>3
  <1>2. QED
    BY <1>1 DEF Intents

LEMMA BackUpIntends ==
  ASSUME IInv, Intents, NEW c \in Commands, BackUp(c)
  PROVE  Intents'
  <1>1. /\ disk.config = Ancient /\ disk' = [disk EXCEPT !.config = None, !.backup = Ancient]
        /\ job' = job /\ job[c].at = "migrate"
    BY DEF BackUp, At
  <1>2. ~InUse'
    BY <1>1 DEF IInv, TypeOK, DiskType, InUse
  <1>3. \A d \in Commands : d # c => job[d].at = "idle"
    BY <1>1, Alone, AtWork DEF Settled
  <1>4. QED
    BY <1>1, <1>2, <1>3, AllQuiet

LEMMA UnlinkIntends ==
  ASSUME IInv, Intents, NEW c \in Commands, UnlinkModels(c)
  PROVE  Intents'
  <1> DEFINE out == [file |-> "config", doc |-> job[c].upgrade, then |-> AfterUpgrade(c)]
             j == [job[c] EXCEPT !.at = "open", !.out = out]
  <1>1. /\ disk' = [disk EXCEPT !.models = None]
        /\ job' = [job EXCEPT ![c] = j] /\ job[c].at = "unlink"
    BY DEF UnlinkModels, At, Save, Becomes
  <1>2. /\ job[c].op # None /\ job[c] \in JobType
        /\ job[c].upgrade \in ConfigDocs /\ disk.config = None
    BY <1>1, AtWork DEF JobOK
  <1>3. disk'.config = None /\ disk'.providers = disk.providers
    BY <1>1, <1>2 DEF IInv, TypeOK, DiskType
  <1>4. Moved'
    BY <1>1, <1>2, <1>3, NoDocs DEF Intents, Intent, UpgradeMeans, Moved, Writing
  <1>5. AfterUpgrade(c) \in {"templates", "body"}
    BY DEF AfterUpgrade
  <1>6. PICK i :
          /\ i.at = "open" /\ i.upgrade \in ConfigDocs /\ i.out.file = "config"
          /\ i.out.doc = i.upgrade /\ i.out.then \notin {"end", "unlink"}
          /\ job' = [job EXCEPT ![c] = i]
    <2>1. /\ out.file = "config" /\ out.doc = job[c].upgrade
          /\ out.then \notin {"end", "unlink"}
      BY <1>5
    <2> HIDE DEF out
    <2>2. j.at = "open" /\ j.upgrade = job[c].upgrade /\ j.out = out
      BY <1>2 DEF JobType
    <2> HIDE DEF j
    <2>3. QED
      BY <1>1, <1>2, <2>1, <2>2
  <1>7. Intent(i)'
    <2>1. UpgradeMeans(i)'
      BY <1>3, <1>4, <1>6 DEF UpgradeMeans, Writing
    <2>2. WriteMeans(i)'
      BY <1>6, NoDocs DEF WriteMeans
    <2>3. QED
      BY <1>6, <2>1, <2>2 DEF Intent
  <1>8. ASSUME NEW d \in Commands, d # c
        PROVE  Intent(job[d])'
    <2>1. PICK x : x = job[d]
      OBVIOUS
    <2>2. x.at = "idle" /\ x.upgrade = None
      BY <1>2, <1>8, <2>1, Alone, NotUpgrading DEF Settled, Writing
    <2>3. Intent(x)' /\ job'[d] = x
      BY <1>6, <1>8, <2>1, <2>2, Quiet DEF Mum, IInv, TypeOK
    <2>4. QED
      BY <2>3
  <1>9. job'[c] = i
    BY <1>6 DEF IInv, TypeOK
  <1>10. QED
    BY <1>3, <1>7, <1>8, <1>9 DEF Intents, InUse

\* What os.replace does to the directory and to the command.
LEMMA Replaced ==
  ASSUME IInv, NEW c \in Commands, Replace(c)
  PROVE  LET w == job[c].out IN
         /\ job[c] \in JobType /\ job[c].op # None /\ WriteOK(job[c]) /\ w \in Pending
         /\ job[c].at \in Writing /\ w.file \in {"config", "providers"}
         /\ disk'.models = disk.models
         /\ w.file = "config" =>
              w.doc \in ConfigDocs /\ disk'.config = w.doc /\ disk'.providers = disk.providers
         /\ w.file = "providers" =>
              w.doc \in ProviderDocs /\ disk'.providers = w.doc /\ disk'.config = disk.config
         /\ \A d \in Commands : d # c => job'[d] = job[d]
         /\ w.then = "end" => job'[c] = Idle
         /\ w.then # "end" =>
              /\ job'[c].at = w.then
              /\ job'[c].upgrade = IF w.file = "config" THEN None ELSE job[c].upgrade
  <1> DEFINE w == job[c].out
             j == [job[c] EXCEPT !.at = w.then, !.out = None,
                     !.upgrade = IF w.file = "config" THEN None ELSE @]
  <1>1. /\ job[c] \in JobType /\ job[c].op # None /\ WriteOK(job[c]) /\ w \in Pending
        /\ job[c].at \in Writing /\ w.file \in {"config", "providers"}
        /\ w.file = "config" => w.doc \in ConfigDocs
        /\ w.file = "providers" => w.doc \in ProviderDocs
    BY WriterOK DEF Writing, Replace, At
  <1>2. /\ job[c].at = "replace"
        /\ disk' = [disk EXCEPT ![w.file] = tmp[w.file]]
        /\ IF w.then = "end" THEN End(c) ELSE Becomes(c, j)
    BY DEF Replace, At
  <1>3. tmp[w.file] = w.doc
    BY <1>1, <1>2 DEF WriteOK
  <1>4. /\ disk'.models = disk.models
        /\ w.file = "config" => disk'.config = w.doc /\ disk'.providers = disk.providers
        /\ w.file = "providers" => disk'.providers = w.doc /\ disk'.config = disk.config
    BY <1>1, <1>2, <1>3 DEF IInv, TypeOK, DiskType
  <1>5. w.then # "end" =>
          j.at = w.then /\ j.upgrade = IF w.file = "config" THEN None ELSE job[c].upgrade
    BY <1>1 DEF JobType
  <1>6. /\ \A d \in Commands : d # c => job'[d] = job[d]
        /\ w.then = "end" => job'[c] = Idle
        /\ w.then # "end" => job'[c] = j
    <2> HIDE DEF j
    <2>1. QED
      BY <1>2 DEF End, Becomes, IInv, TypeOK
  <1>7. QED
    <2> HIDE DEF j
    <2>1. QED
      BY <1>1, <1>4, <1>5, <1>6

LEMMA ReplaceIntends ==
  ASSUME IInv, Intents, NEW c \in Commands, Replace(c)
  PROVE  Intents'
  <1> DEFINE w == job[c].out
  <1>1. /\ job[c].op # None /\ WriteOK(job[c]) /\ w \in Pending
        /\ job[c].at \in Writing /\ w.file \in {"config", "providers"}
        /\ w.file = "config" =>
             w.doc \in ConfigDocs /\ disk'.config = w.doc /\ disk'.providers = disk.providers
        /\ w.file = "providers" =>
             w.doc \in ProviderDocs /\ disk'.providers = w.doc /\ disk'.config = disk.config
        /\ \A d \in Commands : d # c => job'[d] = job[d]
        /\ w.then = "end" => job'[c] = Idle
        /\ w.then # "end" =>
             /\ job'[c].at = w.then
             /\ job'[c].upgrade = IF w.file = "config" THEN None ELSE job[c].upgrade
    BY Replaced
  <1>2. WriteMeans(job[c]) /\ (job[c].upgrade # None => UpgradeMeans(job[c]))
    BY <1>1 DEF Intents, Intent
  <1>3. w.file = "config" => w.then # "unlink"
    BY <1>1 DEF Pending
  <1>4. (InUse => Moved)'
    <2>1. CASE w.file = "config"
      <3>1. CASE w.then = "end"
        BY <1>1, <2>1, <3>1 DEF WriteOK, Intents, Moved
      <3>2. CASE w.then # "end" /\ job[c].upgrade = None
        BY <1>1, <1>2, <2>1, <3>2, NoDocs DEF WriteMeans, Moved
      <3>3. CASE w.then # "end" /\ job[c].upgrade # None
        BY <1>1, <1>2, <1>3, <2>1, <3>3 DEF UpgradeMeans, Moved
      <3>4. QED
        BY <3>1, <3>2, <3>3
    <2>2. CASE w.file = "providers"
      <3>1. CASE w.then = "end"
        <4>1. InUse' => disk.providers \in ProviderDocs /\ disk.providers.gateway = None
          BY <1>1, <1>2, <2>2, <3>1 DEF InUse, Intents, Moved, WriteMeans, ProviderEdit
        <4>2. InUse' => w.doc.gateway = None
          BY <1>2, <2>2, <3>1, <4>1 DEF WriteMeans, ProviderEdit, ProviderDocs
        <4>3. QED
          BY <1>1, <2>2, <4>2 DEF Moved
      <3>2. CASE w.then # "end"
        <4>1. w.doc.gateway = None
          BY <1>1, <1>2, <2>2, <3>2 DEF WriteMeans, Pending
        <4>2. QED
          BY <1>1, <2>2, <4>1 DEF Moved
      <3>3. QED
        BY <3>1, <3>2
    <2>3. QED
      BY <1>1, <2>1, <2>2
  <1>5. Intent(job[c])'
    <2>1. PICK i : i = job'[c]
      OBVIOUS
    <2>2. CASE w.then = "end"
      BY <1>1, <2>2, IdleIntends
    <2>3. CASE w.then = "unlink"
      <3>1. w.file = "providers" /\ job[c].upgrade \in ConfigDocs /\ disk.config = None
        BY <1>1, <1>3, <2>3 DEF WriteOK
      <3>2. i.at = "unlink" /\ i.upgrade \in ConfigDocs /\ disk'.config = None
        BY <1>1, <2>1, <2>3, <3>1
      <3>3. w.doc.gateway = None
        BY <1>2, <2>3 DEF WriteMeans
      <3>4. Moved'
        BY <1>1, <3>1, <3>3 DEF Moved
      <3>5. Intent(i)'
        BY <3>2, <3>4 DEF Intent, UpgradeMeans, Writing
      <3>6. QED
        BY <2>1, <3>5
    <2>4. CASE w.then = "templates"
      <3>1. i.at = "templates" /\ i.upgrade = None /\ disk'.config # None
        <4>1. CASE w.file = "config"
          BY <1>1, <2>1, <2>4, <4>1, NoDocs
        <4>2. CASE w.file = "providers"
          <5>1. disk.config # None
            BY <1>1, <2>4, <4>2 DEF WriteOK, InUse
          <5>2. job[c].upgrade = None
            BY <1>2, <5>1 DEF UpgradeMeans
          <5>3. QED
            BY <1>1, <2>1, <2>4, <4>2, <5>1, <5>2
        <4>3. QED
          BY <1>1, <4>1, <4>2
      <3>2. Intent(i)'
        BY <3>1 DEF Intent, Writing
      <3>3. QED
        BY <2>1, <3>2
    <2>5. CASE w.then = "body"
      <3>1. w.file = "config"
        BY <1>1, <2>5 DEF Pending
      <3>2. i.at \in Mum /\ i.upgrade = None
        BY <1>1, <2>1, <2>5, <3>1 DEF Mum
      <3>3. Intent(i)'
        BY <3>2, Quiet
      <3>4. QED
        BY <2>1, <3>3
    <2>6. QED
      BY <1>1, <2>2, <2>3, <2>4, <2>5 DEF Pending
  <1>6. ASSUME NEW d \in Commands, d # c
        PROVE  Intent(job[d])'
    <2>1. PICK x : x = job[d]
      OBVIOUS
    <2>2. job'[d] = x
      BY <1>1, <1>6, <2>1
    <2>3. CASE x.op = None
      <3>1. x.at = "idle"
        BY <2>1, <2>3 DEF IInv, JobOK
      <3>2. x.upgrade = None
        BY <2>1, <3>1, NotUpgrading DEF Writing
      <3>3. QED
        BY <2>2, <3>1, <3>2, Quiet DEF Mum
    <2>4. CASE x.op # None
      <3>1. Settled /\ Replaces(job[c].op.kind) \cap Replaces(x.op.kind) = {}
        BY <1>1, <1>6, <2>1, <2>4 DEF IInv, Apart
      <3>2. /\ w.file \in Replaces(job[c].op.kind) /\ Intent(x) /\ JobOK(x)
            /\ disk.config # None /\ disk'.config # None
        BY <1>1, <2>1, <3>1, NoDocs DEF WriteOK, Intents, IInv, Settled
      <3>3. x.upgrade = None
        BY <3>2 DEF Intent, UpgradeMeans
      <3>4. ASSUME x.at \in Writing
            PROVE  WriteMeans(x)'
        <4>1. x.out.then = "end" /\ x.out.file \in {"config", "providers"} /\ x.out.file # w.file
          BY <1>1, <1>6, <2>1, <3>1, <3>4, WriterOK, WritersApart DEF WriteOK
        <4>2. WriteMeans(x)
          BY <3>2, <3>4 DEF Intent
        <4>3. CASE x.out.file = "config"
          <5>1. disk'.config = disk.config
            BY <1>1, <4>1, <4>3
          <5>2. \A k : WithKey(k)' = WithKey(k)
            BY <5>1 DEF WithKey
          <5>3. WithKey(None)' = WithKey(None)
            BY <5>1 DEF WithKey
          <5>4. \A op, doc : ConfigEdit(op, doc) => ConfigEdit(op, doc)'
            BY <5>1, <5>2, <5>3 DEF ConfigEdit
          <5>5. QED
            BY <4>1, <4>2, <4>3, <5>4 DEF WriteMeans
        <4>4. CASE x.out.file = "providers"
          <5>1. disk'.providers = disk.providers
            BY <1>1, <4>1, <4>4
          <5>2. \A doc : ProviderEdit(doc) => ProviderEdit(doc)'
            BY <5>1 DEF ProviderEdit
          <5>3. QED
            BY <4>1, <4>2, <4>4, <5>2 DEF WriteMeans
        <4>5. QED
          BY <4>1, <4>3, <4>4
      <3>5. ASSUME x.at \in {"ask", "save"}
            PROVE  disk'.providers = disk.providers
        <4>1. Replaces(x.op.kind) = {"providers"}
          BY <3>2, <3>5, ReplacesFile DEF JobOK
        <4>2. QED
          BY <1>1, <3>1, <3>2, <4>1
      <3>6. x.at = "ask" => x.read = disk'.providers
        BY <3>2, <3>5 DEF Intent
      <3>7. x.at = "save" => ProviderEdit(x.read)'
        BY <3>2, <3>5 DEF Intent, ProviderEdit
      <3>8. Intent(x)'
        BY <3>2, <3>3, <3>4, <3>6, <3>7 DEF Intent
      <3>9. QED
        BY <2>2, <3>8
    <2>5. QED
      BY <2>3, <2>4
  <1>7. QED
    BY <1>4, <1>5, <1>6 DEF Intents

LEMMA BeginIntends ==
  ASSUME IInv, Intents, NEW c \in Commands, NEW op \in Operations, Begin(c, op)
  PROVE  Intents'
  <1> DEFINE at == IF op.kind \in InitsFirst \cup {"start"} THEN "migrate" ELSE "body"
             j == [job[c] EXCEPT !.op = op, !.at = at]
  <1>1. job[c].at = "idle" /\ disk' = disk /\ Becomes(c, j)
    BY DEF Begin, IInv, JobOK
  <1>2. job[c].upgrade = None
    BY <1>1, NotUpgrading DEF Writing
  <1>3. j.at \in Mum /\ j.upgrade = None
    BY <1>2 DEF IInv, TypeOK, JobType, Mum
  <1> HIDE DEF j
  <1>4. QED
    BY <1>1, <1>3, Quiet, IntentLocal

\* What a user edits or deletes is not what an upgrade has moved.
LEMMA EditIntends ==
  ASSUME IInv, Intents, Spoil \/ Discard
  PROVE  Intents'
  <1>1. job' = job /\ \A c \in Commands : job[c].op = None
    BY DEF Spoil, Discard, Resting
  <1>2. \A c \in Commands : job[c].at \in {"idle", "migrate"}
    BY <1>1 DEF IInv, JobOK
  <1>3. /\ disk'.providers \in {disk.providers, None, Corrupt, NotAMapping}
        /\ InUse' => InUse
    BY InUseIfRead DEF Spoil, Discard, InUse, IInv, TypeOK, DiskType, Unreadables
  <1>4. (InUse => Moved)'
    BY <1>3, NoDocs DEF Intents, Moved
  <1>5. QED
    BY <1>1, <1>2, <1>4, AllQuiet

-----------------------------------------------------------------------------

LEMMA InitiallyIntended ==
  ASSUME Init
  PROVE  Intents
  <1>1. \A c \in Commands : job[c] = Idle
    BY DEF Init
  <1>2. InUse => Moved
    BY DisksOK DEF Init, InUse, Moved
  <1>3. QED
    BY <1>1, <1>2, IdleIntends DEF Intents

LEMMA IntentsKept ==
  ASSUME IInv, Intents, [Next]_vars
  PROVE  Intents'
  <1>1. ASSUME NEW c \in Commands, Step(c)
        PROVE  Intents'
    <2>1. ASSUME Open(c) \/ Write(c)
          PROVE  Intents'
      BY <2>1, WritingIntends DEF Open, Write, At, Writing
    <2>2. ASSUME Start(c)
          PROVE  Intents'
      BY <2>2, EndIntends DEF Start
    <2>3. QED
      BY <1>1, <2>1, <2>2, ReplaceIntends, BackUpIntends, UpgradedIntends, UpgradeIntends,
         UnlinkIntends, TemplatesStepIntends, KeysIntend, ProvidersIntend, ModelsIntend DEF Step
  <1>2. ASSUME NEW c \in Commands, Crash(c)
        PROVE  Intents'
    BY <1>2, EndIntends DEF Crash
  <1>3. CASE UNCHANGED vars
    <2>1. disk' = disk /\ job' = job
      BY <1>3 DEF vars
    <2>2. ASSUME NEW d \in Commands
          PROVE  Intent(job[d])'
      <3>1. PICK x : x = job[d]
        OBVIOUS
      <3>2. Intent(x)
        BY <3>1 DEF Intents
      <3>3. Intent(x)' /\ job'[d] = x
        BY <2>1, <3>1, <3>2, IntentSame
      <3>4. QED
        BY <3>3
    <2>3. QED
      BY <2>1, <2>2 DEF Intents, InUse, Moved
  <1>4. QED
    BY <1>1, <1>2, <1>3, BeginIntends, EditIntends DEF Next

\* What a command is about to write follows from the settings as they are then,
\* not only as they were when it read them; and an upgrade carries the settings
\* that the old files held (all commands that edit a file of the configuration).
THEOREM CommandsMeanWhatTheyWrite == Spec => []Intents
  BY InitiallyIntended, IntentsKept, Invariant, PTL DEF Spec

-----------------------------------------------------------------------------
(* The settings, seen from the files                                       *)

\* The settings as far as the files hold them.
DiskConf ==
  IF disk.config \in Unreadables THEN Unreadable
  ELSE IF disk.config \in ConfigDocs THEN SettingsOf(disk.config)
  ELSE SettingsOf(ConfigDoc(OldGateway, OldModels))

LEMMA NoUpgrade ==
  /\ (\A c \in Commands : job[c].upgrade = None) => ConfNow = DiskConf
  /\ (\A c \in Commands : job'[c].upgrade = None) => ConfNow' = DiskConf'
  BY DEF ConfNow, DiskConf

LEMMA Carried ==
  ASSUME NEW c \in Commands
  PROVE  /\ job[c].upgrade # None /\ (\A d \in Commands : d # c => job[d].upgrade = None)
              => ConfNow = SettingsOf(job[c].upgrade)
         /\ job'[c].upgrade # None /\ (\A d \in Commands : d # c => job'[d].upgrade = None)
              => ConfNow' = SettingsOf(job'[c].upgrade)
  <1>1. ASSUME job[c].upgrade # None, \A d \in Commands : d # c => job[d].upgrade = None
        PROVE  ConfNow = SettingsOf(job[c].upgrade)
    <2>1. (CHOOSE d \in Commands : job[d].upgrade # None) = c
      BY <1>1
    <2>2. QED
      BY <1>1, <2>1 DEF ConfNow
  <1>2. ASSUME job'[c].upgrade # None, \A d \in Commands : d # c => job'[d].upgrade = None
        PROVE  ConfNow' = SettingsOf(job'[c].upgrade)
    <2>1. (CHOOSE d \in Commands : job'[d].upgrade # None) = c
      BY <1>2
    <2>2. QED
      BY <1>2, <2>1 DEF ConfNow, SettingsOf
  <1>3. QED
    BY <1>1, <1>2

LEMMA SettingsTyped ==
  /\ \A doc \in ConfigDocs : SettingsOf(doc) # Unreadable
  /\ \A doc \in ProviderDocs : doc.entries # Unreadable
  BY NoDocuments DEF ConfigDocs, ProviderDocs, SettingsOf

\* Where a config.yaml is in use, nothing is being upgraded.
LEMMA NoneCarried ==
  ASSUME IInv, Intents, disk.config # None
  PROVE  \A c \in Commands : job[c].upgrade = None
  BY OneUpgrade

\* The settings are as the files and the upgrade are.
LEMMA SameSettings ==
  ASSUME IInv, Intents, disk' = disk,
         \A c \in Commands : job'[c].upgrade = job[c].upgrade
  PROVE  UNCHANGED <<ConfNow, ProvsNow>>
  <1>1. ProvsNow' = ProvsNow
    BY DEF ProvsNow, OldEntries
  <1>2. DiskConf' = DiskConf
    BY DEF DiskConf, OldGateway, OldModels
  <1>3. CASE \A c \in Commands : job[c].upgrade = None
    BY <1>1, <1>2, <1>3, NoUpgrade
  <1>4. ASSUME NEW c \in Commands, job[c].upgrade # None
        PROVE  UNCHANGED <<ConfNow, ProvsNow>>
    <2>1. \A d \in Commands : d # c => job[d].upgrade = None
      BY <1>4, OneUpgrade
    <2>2. QED
      BY <1>1, <1>4, <2>1, Carried
  <1>5. QED
    BY <1>3, <1>4

LEMMA LocalStutters ==
  ASSUME IInv, Intents, NEW c \in Commands, NEW j, Becomes(c, j), disk' = disk,
         j.upgrade = job[c].upgrade
  PROVE  UNCHANGED <<ConfNow, ProvsNow>>
  <1>1. \A d \in Commands : job'[d].upgrade = job[d].upgrade
    BY DEF Becomes, IInv, TypeOK
  <1>2. QED
    BY <1>1, SameSettings

LEMMA GotoStutters ==
  ASSUME IInv, Intents, NEW c \in Commands, NEW step, Goto(c, step), disk' = disk
  PROVE  UNCHANGED <<ConfNow, ProvsNow>>
  <1> DEFINE j == [job[c] EXCEPT !.at = step]
  <1>1. j.upgrade = job[c].upgrade /\ Becomes(c, j)
    BY DEF Goto, IInv, TypeOK, JobType
  <1> HIDE DEF j
  <1>2. QED
    BY <1>1, LocalStutters

LEMMA SaveStutters ==
  ASSUME IInv, Intents, NEW c \in Commands, NEW file, NEW doc, NEW step,
         Save(c, file, doc, step), disk' = disk
  PROVE  UNCHANGED <<ConfNow, ProvsNow>>
  <1> DEFINE j == [job[c] EXCEPT !.at = "open",
                     !.out = [file |-> file, doc |-> doc, then |-> step]]
  <1>1. j.upgrade = job[c].upgrade /\ Becomes(c, j)
    BY DEF Save, IInv, TypeOK, JobType
  <1> HIDE DEF j
  <1>2. QED
    BY <1>1, LocalStutters

LEMMA EndStutters ==
  ASSUME IInv, Intents, NEW c \in Commands, End(c), disk' = disk, job[c].upgrade = None
  PROVE  UNCHANGED <<ConfNow, ProvsNow>>
  BY IdleIntends, LocalStutters DEF End

-----------------------------------------------------------------------------
(* Each step is a step of Settings, or changes no setting                  *)

\* What a command does before it replaces a file shows nothing.
LEMMA PrepareStutters ==
  ASSUME IInv, Intents, NEW c \in Commands,
         \/ Open(c) \/ Write(c) \/ Upgraded(c) \/ Templates(c)
         \/ Setup(c) \/ KeySet(c) \/ KeyClear(c) \/ Start(c)
         \/ ProviderAdd(c) \/ ProviderKey(c) \/ ProviderRemove(c) \/ ProviderSave(c)
         \/ ModelAdd(c) \/ ModelSave(c) \/ ModelRemove(c)
  PROVE  UNCHANGED <<ConfNow, ProvsNow>>
  <1>1. disk' = disk
    BY DEF Open, Write, Upgraded, Templates, Setup, KeySet, KeyClear, Start, ProviderAdd,
       ProviderKey, ProviderRemove, ProviderSave, ModelAdd, ModelSave, ModelRemove
  <1>2. CASE Open(c) \/ Write(c) \/ Upgraded(c)
    BY <1>1, <1>2, GotoStutters DEF Open, Write, Upgraded
  <1>3. CASE ~(Open(c) \/ Write(c) \/ Upgraded(c))
    <2>1. job[c].upgrade = None
      <3>1. job[c].at \in {"templates", "body", "ask", "save", "models"}
        BY <1>3 DEF At, Templates, Setup, KeySet, KeyClear, Start, ProviderAdd,
           ProviderKey, ProviderRemove, ProviderSave, ModelAdd, ModelSave, ModelRemove
      <3>2. QED
        BY <3>1, NotUpgrading DEF Writing
    <2>2. End(c) => UNCHANGED <<ConfNow, ProvsNow>>
      BY <1>1, <2>1, EndStutters
    <2>3. ASSUME NEW doc, NEW k,
                 \/ Becomes(c, [job[c] EXCEPT !.at = "ask", !.read = doc])
                 \/ Becomes(c, [job[c] EXCEPT !.at = "save", !.read = doc])
                 \/ Becomes(c, [job[c] EXCEPT !.at = "save",
                       !.read.entries[job[c].op.provider] = [url |-> job[c].op.url, key |-> k]])
          PROVE  UNCHANGED <<ConfNow, ProvsNow>>
      <3> DEFINE j1(step) == [job[c] EXCEPT !.at = step, !.read = doc]
                 j2 == [job[c] EXCEPT !.at = "save",
                          !.read.entries[job[c].op.provider] = [url |-> job[c].op.url, key |-> k]]
      <3>1. job[c] \in JobType
        BY DEF IInv, TypeOK
      <3>2. /\ \A step : j1(step).upgrade = job[c].upgrade
            /\ j2.upgrade = job[c].upgrade
        BY <3>1 DEF JobType
      <3>3. Becomes(c, j1("ask")) \/ Becomes(c, j1("save")) \/ Becomes(c, j2)
        BY <2>3
      <3> HIDE DEF j1, j2
      <3>4. QED
        BY <1>1, <3>2, <3>3, LocalStutters
    <2>4. CASE Templates(c)
      BY <1>1, <2>2, <2>4, SaveStutters, GotoStutters DEF Templates
    <2>5. CASE Setup(c) \/ KeySet(c) \/ KeyClear(c) \/ Start(c)
      BY <1>1, <2>2, <2>5, SaveStutters DEF Setup, KeySet, KeyClear, Start
    <2>6. CASE ProviderAdd(c) \/ ProviderRemove(c)
      BY <2>2, <2>3, <2>6 DEF ProviderAdd, ProviderRemove
    <2>7. CASE ProviderKey(c)
      BY <2>2, <2>3, <2>7, Zenon DEF ProviderKey
    <2>8. CASE ProviderSave(c) \/ ModelAdd(c) \/ ModelSave(c) \/ ModelRemove(c)
      BY <1>1, <2>2, <2>8, SaveStutters, GotoStutters
         DEF ProviderSave, ModelAdd, ModelSave, ModelRemove, SaveModel
    <2>9. QED
      BY <1>3, <2>4, <2>5, <2>6, <2>7, <2>8
  <1>4. QED
    BY <1>2, <1>3

LEMMA UpgradeStutters ==
  ASSUME IInv, Intents, NEW c \in Commands, Upgrade(c)
  PROVE  UNCHANGED <<ConfNow, ProvsNow>>
  <1> DEFINE cfg == ConfigDoc(OldGateway, OldModels)
             out == [file |-> "providers", doc |-> [entries |-> OldEntries, gateway |-> None],
                     then |-> "unlink"]
             j1 == [job[c] EXCEPT !.at = "unlink", !.upgrade = cfg]
             j2 == [job[c] EXCEPT !.at = "open", !.upgrade = cfg, !.out = out]
  <1>1. /\ job[c].at = "migrate" /\ disk.config = None /\ disk' = disk
        /\ End(c) \/ Becomes(c, j1) \/ Becomes(c, j2)
    BY DEF Upgrade, At
  <1>2. \A d \in Commands : job[d].upgrade = None
    <2>1. \A d \in Commands : d # c => job[d].at = "idle"
      BY <1>1, Alone, AtWork DEF Settled
    <2>2. QED
      BY <1>1, <2>1, NotUpgrading DEF Writing
  <1>3. ConfNow = SettingsOf(cfg)
    BY <1>1, <1>2, NoUpgrade, NoDocs DEF DiskConf, Unreadables
  <1>4. cfg # None
    BY OldTyped, NoDocs DEF IInv, TypeOK
  <1> HIDE DEF cfg
  <1>5. ASSUME NEW j, Becomes(c, j), j.upgrade = cfg
        PROVE  UNCHANGED <<ConfNow, ProvsNow>>
    <2>1. job'[c].upgrade = cfg /\ \A d \in Commands : d # c => job'[d].upgrade = None
      BY <1>2, <1>5 DEF Becomes, IInv, TypeOK
    <2>2. ConfNow' = SettingsOf(cfg)
      BY <1>4, <2>1, Carried
    <2>3. ProvsNow' = ProvsNow
      BY <1>1 DEF ProvsNow, OldEntries
    <2>4. QED
      BY <1>3, <2>2, <2>3
  <1>6. j1.upgrade = cfg /\ j2.upgrade = cfg
    BY DEF IInv, TypeOK, JobType
  <1> HIDE DEF j1, j2
  <1>7. QED
    BY <1>1, <1>2, <1>5, <1>6, EndStutters

LEMMA BackUpStutters ==
  ASSUME IInv, Intents, NEW c \in Commands, BackUp(c)
  PROVE  UNCHANGED <<ConfNow, ProvsNow>>
  <1>1. /\ disk.config = Ancient /\ disk' = [disk EXCEPT !.config = None, !.backup = Ancient]
        /\ job' = job
    BY DEF BackUp
  <1>2. /\ disk'.config = None /\ disk'.providers = disk.providers
        /\ disk'.models = disk.models
    BY <1>1 DEF IInv, TypeOK, DiskType
  <1>3. \A d \in Commands : job[d].upgrade = None /\ job'[d].upgrade = None
    BY <1>1, NoneCarried, NoDocs
  <1>4. DiskConf' = DiskConf /\ ProvsNow' = ProvsNow
    BY <1>1, <1>2, NoDocs DEF DiskConf, OldGateway, OldModels, ProvsNow, OldEntries, Unreadables
  <1>5. QED
    BY <1>3, <1>4, NoUpgrade

LEMMA UnlinkStutters ==
  ASSUME IInv, Intents, NEW c \in Commands, UnlinkModels(c)
  PROVE  UNCHANGED <<ConfNow, ProvsNow>>
  <1> DEFINE j == [job[c] EXCEPT !.at = "open",
                     !.out = [file |-> "config", doc |-> job[c].upgrade,
                              then |-> AfterUpgrade(c)]]
  <1>1. /\ disk' = [disk EXCEPT !.models = None] /\ job' = [job EXCEPT ![c] = j]
        /\ job[c].at = "unlink"
    BY DEF UnlinkModels, At, Save, Becomes
  <1>2. job[c].upgrade # None
    BY <1>1, AtWork, NoDocs DEF JobOK
  <1>3. disk'.providers = disk.providers
    BY <1>1 DEF IInv, TypeOK, DiskType
  <1>4. j.upgrade = job[c].upgrade
    BY DEF IInv, TypeOK, JobType
  <1> HIDE DEF j
  <1>5. \A d \in Commands : job'[d].upgrade = job[d].upgrade
    BY <1>1, <1>4 DEF IInv, TypeOK
  <1>6. ConfNow' = ConfNow
    BY <1>2, <1>5, Carried, OneUpgrade
  <1>7. ProvsNow' = ProvsNow
    BY <1>3 DEF ProvsNow, OldEntries
  <1>8. QED
    BY <1>6, <1>7

\* A file is laid down, or an upgrade goes on.
LEMMA LayDown ==
  ASSUME IInv, Intents, NEW c \in Commands, Replace(c), job[c].out.then # "end"
  PROVE  [Abstract!Change]_<<ConfNow, ProvsNow>>
  <1> DEFINE w == job[c].out
  <1>1. /\ WriteOK(job[c]) /\ w \in Pending
        /\ job[c].at \in Writing /\ w.file \in {"config", "providers"}
        /\ disk'.models = disk.models
        /\ w.file = "config" =>
             w.doc \in ConfigDocs /\ disk'.config = w.doc /\ disk'.providers = disk.providers
        /\ w.file = "providers" =>
             w.doc \in ProviderDocs /\ disk'.providers = w.doc /\ disk'.config = disk.config
        /\ \A d \in Commands : d # c => job'[d] = job[d]
        /\ job'[c].upgrade = IF w.file = "config" THEN None ELSE job[c].upgrade
    BY Replaced
  <1>2. WriteMeans(job[c]) /\ (job[c].upgrade # None => UpgradeMeans(job[c]))
    BY <1>1 DEF Intents, Intent
  <1>3. \A d \in Commands : d # c => job[d].upgrade = None
    <2>1. \A d \in Commands : d # c => job[d].at = "idle"
      BY <1>1, Alone, Replaced DEF WriteOK
    <2>2. QED
      BY <2>1, NotUpgrading DEF Writing
  <1>4. CASE w.file = "config"
    <2>1. disk.config = None /\ disk.models = None
      BY <1>1, <1>4 DEF WriteOK
    <2>2. ConfNow' = SettingsOf(w.doc)
      <3>1. \A d \in Commands : job'[d].upgrade = None
        BY <1>1, <1>3, <1>4
      <3>2. DiskConf' = SettingsOf(w.doc)
        BY <1>1, <1>4, NoDocs DEF DiskConf, Unreadables, SettingsOf
      <3>3. QED
        BY <3>1, <3>2, NoUpgrade
    <2>3. ConfNow = SettingsOf(w.doc)
      <3>1. CASE job[c].upgrade = None
        <4>1. disk.providers = None /\ w.doc = [Defaults EXCEPT !.comments = TRUE]
          BY <1>2, <1>4, <3>1 DEF WriteMeans
        <4>2. OldGateway = DefaultGateway /\ OldModels = NoModels
          BY <2>1, <4>1, NoDocs DEF OldGateway, OldModels
        <4>3. DiskConf = SettingsOf(w.doc)
          BY <2>1, <4>1, <4>2, NoDocs
             DEF DiskConf, Unreadables, SettingsOf, Defaults, ConfigDoc
        <4>4. QED
          BY <1>3, <3>1, <4>3, NoUpgrade
      <3>2. CASE job[c].upgrade # None
        <4>1. w.doc = job[c].upgrade
          BY <1>1, <1>2, <1>4, <3>2 DEF UpgradeMeans, Pending
        <4>2. QED
          BY <1>3, <3>2, <4>1, Carried
      <3>3. QED
        BY <3>1, <3>2
    <2>4. ProvsNow' = ProvsNow
      BY <1>1, <1>4 DEF ProvsNow, OldEntries
    <2>5. QED
      BY <2>2, <2>3, <2>4
  <1>5. CASE w.file = "providers"
    <2>1. \A d \in Commands : job'[d].upgrade = job[d].upgrade
      BY <1>1, <1>5
    <2>2. ProvsNow' = w.doc.entries
      BY <1>1, <1>5, NoDocs DEF ProvsNow, OldEntries, Unreadables
    <2>3. CASE w.then = "templates"
      <3>1. disk.config \notin {None, Ancient} /\ disk.providers = None /\ w.doc.entries = NoEntries
        BY <1>1, <1>2, <1>5, <2>3 DEF WriteOK, WriteMeans, InUse
      <3>2. DiskConf' = DiskConf
        BY <1>1, <1>5, <3>1 DEF DiskConf, IInv, TypeOK, DiskType
      <3>3. ConfNow' = ConfNow
        BY <2>1, <3>1, <3>2, NoneCarried, NoUpgrade
      <3>4. ProvsNow = NoEntries
        BY <3>1, NoDocs DEF ProvsNow, OldEntries, Unreadables
      <3>5. QED
        BY <2>2, <3>1, <3>3, <3>4
    <2>4. CASE w.then = "unlink"
      <3>1. job[c].upgrade # None /\ w.doc.entries = OldEntries
        BY <1>1, <1>2, <2>4, NoDocs DEF WriteOK, WriteMeans
      <3>2. ConfNow' = ConfNow
        BY <1>3, <2>1, <3>1, Carried
      <3>3. CASE disk.providers \notin Unreadables
        BY <2>2, <3>1, <3>2, <3>3 DEF ProvsNow
      <3>4. CASE disk.providers \in Unreadables
        <4>1. OldEntries = NoEntries
          BY <3>4, NoDocs DEF OldEntries, Unreadables
        <4>2. ProvsNow' = Abstract!NoProviders /\ ProvsNow = Unreadable
          BY <2>2, <3>1, <3>4, <4>1 DEF ProvsNow, NoEntries, Abstract!NoProviders
        <4>3. QED
          BY <3>2, <4>2 DEF Abstract!Change, Abstract!Discard, Abstract!ReadableProvs
      <3>5. QED
        BY <3>3, <3>4
    <2>5. QED
      BY <1>1, <1>5, <2>3, <2>4 DEF Pending
  <1>6. QED
    BY <1>1, <1>4, <1>5

\* A change of one setting in config.yaml is one that Settings allows.
LEMMA ConfigEditChanges ==
  ASSUME NEW op, NEW doc, ConfigEdit(op, doc), InUse, disk \in DiskType,
         ConfNow = DiskConf, ConfNow' = SettingsOf(doc), ProvsNow' = ProvsNow
  PROVE  Abstract!Change
  <1>1. CASE disk.config \in ConfigDocs
    <2> DEFINE conf == SettingsOf(disk.config)
    <2>1. ConfNow = conf /\ conf # Unreadable
      BY <1>1, NoDocs, SettingsTyped DEF DiskConf, Unreadables
    <2>2. \A k : WithKey(k) = [disk.config EXCEPT !.key = k]
      BY <1>1 DEF WithKey
    <2>3. \A k : SettingsOf([disk.config EXCEPT !.key = k]) = [conf EXCEPT !.key = k]
      BY <1>1 DEF SettingsOf, ConfigDocs
    <2>4. WithKey(None) = [disk.config EXCEPT !.key = None]
      BY <1>1 DEF WithKey
    <2>5. CASE op.kind = "setup"
      <3>1. conf.key = None /\ \E k \in FreshKeys : ConfNow' = [conf EXCEPT !.key = k]
        BY <1>1, <2>2, <2>3, <2>5 DEF ConfigEdit, SettingsOf
      <3>2. Abstract!GenerateKey
        BY <2>1, <3>1
           DEF Abstract!GenerateKey, Abstract!WithNewKey, Abstract!ReadableConf
      <3>3. QED
        BY <3>2 DEF Abstract!Change
    <2>6. CASE op.kind = "key set"
      <3>1. \E k \in UserKeys : ConfNow' = [conf EXCEPT !.key = k]
        BY <2>2, <2>3, <2>6 DEF ConfigEdit
      <3>2. Abstract!SetKey
        BY <2>1, <3>1 DEF Abstract!SetKey, Abstract!WithNewKey, Abstract!ReadableConf
      <3>3. QED
        BY <3>2 DEF Abstract!Change
    <2>7. CASE op.kind = "key clear"
      <3>1. ConfNow' = [conf EXCEPT !.key = None]
        BY <2>3, <2>4, <2>7 DEF ConfigEdit
      <3>2. Abstract!ClearKey
        BY <2>1, <3>1 DEF Abstract!ClearKey, Abstract!ReadableConf
      <3>3. QED
        BY <3>2 DEF Abstract!Change
    <2>8. CASE op.kind \in {"model add", "model remove"}
      <3>1. PICK m \in Models, p \in Providers \cup {None} :
              doc = [disk.config EXCEPT !.models[m] = p, !.comments = FALSE]
        BY <2>8 DEF ConfigEdit
      <3>2. ConfNow' = [conf EXCEPT !.models[m] = p]
        BY <1>1, <3>1 DEF SettingsOf, ConfigDocs
      <3>3. Abstract!AddModel(m) \/ Abstract!RemoveModel(m)
        BY <2>1, <3>2 DEF Abstract!AddModel, Abstract!RemoveModel, Abstract!ReadableConf
      <3>4. QED
        BY <3>3 DEF Abstract!Change
    <2>9. QED
      BY <2>5, <2>6, <2>7, <2>8 DEF ConfigEdit
  <1>2. CASE disk.config \notin ConfigDocs
    <2>1. ConfNow = Unreadable
      BY <1>2 DEF DiskConf, InUse, DiskType
    <2>2. \A k : WithKey(k) = [Defaults EXCEPT !.key = k]
      BY <1>2 DEF WithKey
    <2>3. \A k : SettingsOf([Defaults EXCEPT !.key = k]) = [Abstract!Defaults EXCEPT !.key = k]
      BY DEF SettingsOf, Defaults, ConfigDoc, NoModels, Abstract!Defaults, Abstract!NoModels
    <2>4. \A k : ConfNow' = SettingsOf(WithKey(k)) => Abstract!WithNewKey(k)
      BY <2>1, <2>2, <2>3 DEF Abstract!WithNewKey, Abstract!ReadableConf
    <2>5. CASE op.kind = "setup"
      <3>1. Abstract!GenerateKey
        BY <1>2, <2>1, <2>4, <2>5 DEF ConfigEdit, Abstract!GenerateKey, Abstract!ReadableConf
      <3>2. QED
        BY <3>1 DEF Abstract!Change
    <2>6. CASE op.kind = "key set"
      <3>1. Abstract!SetKey
        BY <2>4, <2>6 DEF ConfigEdit, Abstract!SetKey
      <3>2. QED
        BY <3>1 DEF Abstract!Change
    <2>7. QED
      BY <1>2, <2>5, <2>6 DEF ConfigEdit
  <1>3. QED
    BY <1>1, <1>2

\* A command that replaces a file for its user changes one setting.
LEMMA OneChange ==
  ASSUME IInv, Intents, NEW c \in Commands, Replace(c), job[c].out.then = "end"
  PROVE  Abstract!Change
  <1> DEFINE w == job[c].out
  <1>1. /\ WriteOK(job[c]) /\ job[c].at \in Writing /\ w.file \in {"config", "providers"}
        /\ disk'.models = disk.models
        /\ w.file = "config" =>
             w.doc \in ConfigDocs /\ disk'.config = w.doc /\ disk'.providers = disk.providers
        /\ w.file = "providers" =>
             w.doc \in ProviderDocs /\ disk'.providers = w.doc /\ disk'.config = disk.config
        /\ \A d \in Commands : d # c => job'[d] = job[d]
        /\ job'[c] = Idle
    BY Replaced
  <1>2. WriteMeans(job[c]) /\ (job[c].upgrade # None => UpgradeMeans(job[c]))
    BY <1>1 DEF Intents, Intent
  <1>3. \A d \in Commands : job[d].upgrade = None /\ job'[d].upgrade = None
    <2>1. job[c].upgrade = None
      BY <1>1, <1>2 DEF UpgradeMeans
    <2>2. ASSUME NEW d \in Commands, d # c
          PROVE  job[d].upgrade = None
      <3>1. CASE Settled
        BY <3>1, NoneCarried DEF Settled
      <3>2. CASE ~Settled
        <4>1. job[d].at = "idle"
          BY <2>2, <3>2, Alone, Replaced
        <4>2. QED
          BY <4>1, NotUpgrading DEF Writing
      <3>3. QED
        BY <3>1, <3>2
    <2>3. QED
      BY <1>1, <2>1, <2>2, IdleIntends
  <1>4. ConfNow = DiskConf /\ ConfNow' = DiskConf'
    BY <1>3, NoUpgrade
  <1>5. CASE w.file = "config"
    <2>1. ConfNow' = SettingsOf(w.doc)
      BY <1>1, <1>4, <1>5, NoDocs DEF DiskConf, Unreadables, SettingsOf
    <2>2. ProvsNow' = ProvsNow
      BY <1>1, <1>5 DEF ProvsNow, OldEntries
    <2>3. ConfigEdit(job[c].op, w.doc) /\ InUse
      BY <1>1, <1>2, <1>5 DEF WriteMeans, WriteOK
    <2>4. QED
      BY <1>4, <2>1, <2>2, <2>3, ConfigEditChanges DEF IInv, TypeOK
  <1>6. CASE w.file = "providers"
    <2>1. PICK p \in Providers, e \in Entries \cup {None} :
            w.doc = [disk.providers EXCEPT !.entries[p] = e]
      BY <1>2, <1>6 DEF WriteMeans, ProviderEdit
    <2>2. disk.providers \in ProviderDocs
      BY <1>2, <1>6 DEF WriteMeans, ProviderEdit
    <2>3. w.doc.gateway = disk.providers.gateway /\ w.doc.entries = [disk.providers.entries EXCEPT ![p] = e]
      BY <2>1, <2>2 DEF ProviderDocs
    <2>4. OldGateway' = OldGateway /\ OldModels' = OldModels
      BY <1>1, <1>6, <2>2, <2>3 DEF OldGateway, OldModels
    <2>5. ConfNow' = ConfNow
      BY <1>1, <1>4, <1>6, <2>4 DEF DiskConf
    <2>6. ProvsNow = disk.providers.entries /\ ProvsNow' = w.doc.entries
      BY <1>1, <1>6, <2>2, NoDocs DEF ProvsNow, OldEntries, Unreadables
    <2>7. ProvsNow # Unreadable
      BY <2>2, <2>6, SettingsTyped
    <2>8. Abstract!AddProvider(p) \/ Abstract!RemoveProvider(p)
      BY <2>3, <2>5, <2>6, <2>7
         DEF Abstract!AddProvider, Abstract!RemoveProvider, Abstract!ReadableProvs
    <2>9. QED
      BY <2>8 DEF Abstract!Change
  <1>7. QED
    BY <1>1, <1>5, <1>6

\* What a user does by hand.
LEMMA HandEdits ==
  ASSUME IInv, Intents, "edit before upgrade" \notin Mishaps, Spoil \/ Discard
  PROVE  Abstract!Change
  <1>1. job' = job /\ \A c \in Commands : job[c].op = None
    BY DEF Spoil, Discard, Resting
  <1>2. \A c \in Commands : job[c].upgrade = None
    BY <1>1, NotUpgrading DEF IInv, JobOK, Writing
  <1>3. ConfNow = DiskConf /\ ConfNow' = DiskConf'
    BY <1>1, <1>2, NoUpgrade
  <1>4. CASE Spoil
    <2>1. disk.config \in ConfigDocs /\ disk.providers \in ProviderDocs
      BY <1>4 DEF Spoil
    <2>2. ASSUME NEW bad \in Unreadables, disk' = [disk EXCEPT !.config = bad]
          PROVE  Abstract!Spoil
      <3>1. disk'.config = bad /\ disk'.providers = disk.providers
        BY <2>2 DEF IInv, TypeOK, DiskType
      <3>2. ConfNow' = Unreadable
        BY <1>3, <3>1 DEF DiskConf
      <3>3. ProvsNow' = ProvsNow
        BY <3>1 DEF ProvsNow, OldEntries
      <3>4. QED
        BY <3>2, <3>3 DEF Abstract!Spoil
    <2>3. ASSUME NEW bad \in Unreadables, disk' = [disk EXCEPT !.providers = bad]
          PROVE  Abstract!Spoil
      <3>1. disk'.config = disk.config /\ disk'.providers = bad
        BY <2>3 DEF IInv, TypeOK, DiskType
      <3>2. ConfNow' = ConfNow
        BY <1>3, <2>1, <3>1 DEF DiskConf
      <3>3. ProvsNow' = Unreadable
        BY <3>1 DEF ProvsNow
      <3>4. QED
        BY <3>2, <3>3 DEF Abstract!Spoil
    <2>4. QED
      BY <1>4, <2>2, <2>3 DEF Spoil, Abstract!Change
  <1>5. CASE Discard
    <2>1. ASSUME disk.config \in Unreadables, disk' = [disk EXCEPT !.config = None]
          PROVE  Abstract!Discard
      <3>1. /\ disk'.config = None /\ disk'.providers = disk.providers
            /\ disk'.models = disk.models
        BY <2>1 DEF IInv, TypeOK, DiskType
      <3>2. disk.models = None /\ Moved
        BY <2>1, NoDocs DEF IInv, InUse, Intents, Unreadables
      <3>3. OldGateway' = DefaultGateway /\ OldModels' = NoModels
        BY <3>1, <3>2, NoDocs DEF OldGateway, OldModels, Moved
      <3>4. ConfNow' = Abstract!Defaults
        BY <1>3, <3>1, <3>3, NoDocs
           DEF DiskConf, Unreadables, SettingsOf, ConfigDoc, NoModels, Abstract!Defaults,
               Abstract!NoModels
      <3>5. ConfNow = Unreadable
        BY <1>3, <2>1 DEF DiskConf
      <3>6. ProvsNow' = ProvsNow
        BY <3>1 DEF ProvsNow, OldEntries
      <3>7. QED
        BY <3>4, <3>5, <3>6 DEF Abstract!Discard, Abstract!ReadableConf
    <2>2. ASSUME disk.providers \in Unreadables, disk' = [disk EXCEPT !.providers = None]
          PROVE  Abstract!Discard
      <3>1. /\ disk'.config = disk.config /\ disk'.providers = None
            /\ disk'.models = disk.models
        BY <2>2 DEF IInv, TypeOK, DiskType
      <3>2. OldGateway' = OldGateway /\ OldModels' = OldModels
        BY <2>2, <3>1, NoDocs DEF OldGateway, OldModels, Unreadables
      <3>3. ConfNow' = ConfNow
        BY <1>3, <3>1, <3>2 DEF DiskConf
      <3>4. ProvsNow = Unreadable /\ ProvsNow' = Abstract!NoProviders
        BY <2>2, <3>1, NoDocs
           DEF ProvsNow, OldEntries, NoEntries, Unreadables, Abstract!NoProviders
      <3>5. QED
        BY <3>3, <3>4 DEF Abstract!Discard, Abstract!ReadableProvs
    <2>3. QED
      BY <1>5, <2>1, <2>2 DEF Discard, Abstract!Change
  <1>6. QED
    BY <1>4, <1>5

LEMMA RefineStep ==
  ASSUME IInv, Intents, [Next]_vars,
         Mishaps \cap {"crash in upgrade", "edit before upgrade"} = {}
  PROVE  [Abstract!Change]_<<ConfNow, ProvsNow>>
  <1>1. ASSUME NEW c \in Commands, Step(c)
        PROVE  [Abstract!Change]_<<ConfNow, ProvsNow>>
    BY <1>1, PrepareStutters, UpgradeStutters, BackUpStutters, UnlinkStutters, LayDown, OneChange
       DEF Step
  <1>2. ASSUME NEW c \in Commands, Crash(c)
        PROVE  UNCHANGED <<ConfNow, ProvsNow>>
    BY <1>2, EndStutters DEF Crash
  <1>3. ASSUME NEW c \in Commands, NEW op \in Operations, Begin(c, op)
        PROVE  UNCHANGED <<ConfNow, ProvsNow>>
    <2> DEFINE j == [job[c] EXCEPT !.op = op,
                       !.at = IF op.kind \in InitsFirst \cup {"start"} THEN "migrate" ELSE "body"]
    <2>1. j.upgrade = job[c].upgrade /\ Becomes(c, j) /\ disk' = disk
      BY <1>3 DEF Begin, IInv, TypeOK, JobType
    <2> HIDE DEF j
    <2>2. QED
      BY <2>1, LocalStutters
  <1>4. CASE UNCHANGED vars
    BY <1>4, SameSettings DEF vars
  <1>5. QED
    BY <1>1, <1>2, <1>3, <1>4, HandEdits DEF Next

\* Whatever the directory was like at first and however the commands overlap, a
\* command that ends, fails or is killed has changed one setting as its user asked,
\* or none: no upgrade loses a setting, setup never overwrites a key, and settings
\* that cannot be read stay so until the user deletes them or asks for a new key.
\* Left out are the two mishaps that do lose settings: to be killed in an upgrade,
\* and to spoil a file that an upgrade would still have to read.
THEOREM ConfigImplementsSettings ==
  Mishaps \cap {"crash in upgrade", "edit before upgrade"} = {} =>
    (Spec => ImplementsSettings)
  <1> SUFFICES ASSUME Mishaps \cap {"crash in upgrade", "edit before upgrade"} = {}
               PROVE  Spec => ImplementsSettings
    OBVIOUS
  <1>1. IInv /\ Intents /\ [Next]_vars => [Abstract!Change]_(Abstract!settings)
    BY RefineStep DEF Abstract!settings
  <1>2. QED
    BY <1>1, Invariant, CommandsMeanWhatTheyWrite, PTL
       DEF Spec, ImplementsSettings, Abstract!SettingsSpec

\* Only the commands that load and dump config.yaml lose the comments in it
\* (set_api_key, clear_api_key, save_models_config).
THEOREM KeysKeepComments == Spec => CommentsKept
  <1>1. ASSUME IInv, Intents, NEW c \in Commands, Replace(c), job[c].out.file = "config",
               disk.config \in ConfigDocs, disk.config.comments
        PROVE  disk'.config.comments \/ Kind(c) \in {"model add", "model remove"}
    <2>1. disk.config # None /\ WriteOK(job[c]) /\ disk'.config = job[c].out.doc
      BY <1>1, NoDocs, Replaced
    <2>2. job[c].out.then = "end" /\ job[c].at \in Writing
      BY <1>1, <2>1, Replaced DEF WriteOK
    <2>3. ConfigEdit(job[c].op, job[c].out.doc)
      BY <1>1, <2>2 DEF Intents, Intent, WriteMeans
    <2>4. \A k : WithKey(k).comments = disk.config.comments
      BY <1>1 DEF WithKey, ConfigDocs
    <2>5. WithKey(None).comments = disk.config.comments
      BY <1>1 DEF WithKey, ConfigDocs
    <2>6. QED
      BY <1>1, <2>1, <2>3, <2>4, <2>5 DEF ConfigEdit, Kind
  <1>2. IInv /\ Intents =>
          \A c \in Commands :
            /\ Replace(c) /\ job[c].out.file = "config"
            /\ disk.config \in ConfigDocs /\ disk.config.comments
            => disk'.config.comments \/ Kind(c) \in {"model add", "model remove"}
    BY <1>1
  <1>3. QED
    BY <1>2, Invariant, CommandsMeanWhatTheyWrite, PTL DEF Spec, CommentsKept

=============================================================================
