------------------------------- MODULE Config -------------------------------
(***************************************************************************)
(* The configuration directory and the commands that edit it.  A command   *)
(* reads its files and replaces one of them as a whole, through a          *)
(* temporary file; an action is one such step.  Before that, commands lay  *)
(* down missing files and upgrade the older layouts.                       *)
(*                                                                         *)
(* The code takes no lock.  Here commands overlap only when they replace   *)
(* different files of an upgraded directory (MayOverlap).                  *)
(***************************************************************************)
EXTENDS Naturals

CONSTANTS
  Commands,        \* processes that may run at the same time
  Providers,       \* provider names
  Models,          \* public model names
  Urls,            \* base_urls
  ProviderKeys,    \* the providers' API keys
  UserKeys,        \* llmport keys that a user types in
  FreshKeys,       \* llmport keys that generate_api_key returns
  Gateways,        \* listen addresses
  DefaultGateway,  \* DEFAULT_GATEWAY
  Rejected,        \* listen address -> base_urls that validation refuses
  Disks,           \* the directories to start from
  Mishaps,         \* what may go wrong
  MaxTurns,        \* commands and edits by hand (bound of the model)
  None,            \* nothing: no file, no entry, no key
  Ancient,         \* a config.yaml from before the split, with providers in it
  Corrupt,         \* a file that is no YAML
  NotAMapping,     \* a file that is YAML, but no mapping
  Torn,            \* a file that is being written
  Unreadable       \* settings in a file that cannot be read

Entries == [url : Urls, key : ProviderKeys \cup {None}]
Keys == UserKeys \cup FreshKeys

\* The documents: config.yaml, providers.yaml (which held the gateway in the old
\* layout) and the old models.yaml.
ModelMaps == [Models -> Providers \cup {None}]
ConfigDocs ==
  [gateway : Gateways, models : ModelMaps, key : Keys \cup {None}, comments : BOOLEAN]
ProviderDocs == [entries : [Providers -> Entries \cup {None}], gateway : Gateways \cup {None}]

Unreadables == {Corrupt, NotAMapping}

DiskType ==
  [config    : ConfigDocs \cup Unreadables \cup {None, Ancient},
   providers : ProviderDocs \cup Unreadables \cup {None},
   models    : ModelMaps \cup {None, Corrupt},
   backup    : {None, Ancient}]

\* What a user may enter.
Operations ==
  [kind : {"setup", "key set", "key clear", "start", "config init"}]
  \cup [kind : {"provider add"}, provider : Providers, url : Urls,
        key : ProviderKeys \cup {None}, given : BOOLEAN]
  \cup [kind : {"provider remove"}, provider : Providers]
  \cup [kind : {"model add"}, model : Models, provider : Providers]
  \cup [kind : {"model remove"}, model : Models]

ASSUME ConstantsOK ==
  /\ DefaultGateway \in Gateways
  /\ Rejected \in [Gateways -> SUBSET Urls]
  /\ Mishaps \subseteq {"crash", "crash in upgrade", "edit", "edit before upgrade"}
  /\ UserKeys \cap FreshKeys = {}
  /\ MaxTurns \in Nat

\* Beside a config.yaml in use, what an upgrade moves into it is not anywhere else.
ASSUME DisksOK ==
  /\ Disks \subseteq DiskType
  /\ \A d \in Disks : d.config \notin {None, Ancient} =>
       d.models = None /\ (d.providers \in ProviderDocs => d.providers.gateway = None)

\* None of the values that stand for no document is one.
ASSUME NoDocuments ==
  /\ {None, Ancient, Corrupt, NotAMapping, Torn} \cap (ConfigDocs \cup ProviderDocs) = {}
  /\ {Ancient, Torn} \cap {None, Corrupt, NotAMapping} = {} /\ Ancient # Torn
  /\ None \notin Unreadables \cup ModelMaps \cup Entries \cup Gateways \cup Keys \cup Operations
  /\ Unreadable \notin [gateway : Gateways, models : ModelMaps, key : Keys \cup {None}]
  /\ Unreadable \notin [Providers -> Entries \cup {None}]

\* The steps of a command, and the write that one may be about to make.
Steps == {"idle", "migrate", "unlink", "templates", "body", "ask", "save", "models",
          "open", "write", "replace"}

Pending ==
  [file : {"config"}, doc : ConfigDocs, then : {"templates", "body", "end"}]
  \cup [file : {"providers"}, doc : ProviderDocs, then : {"unlink", "templates", "end"}]

JobType ==
  [op      : Operations \cup {None},
   at      : Steps,
   upgrade : ConfigDocs \cup {None},
   read    : ProviderDocs \cup {None},
   out     : Pending \cup {None}]

VARIABLES
  disk,            \* the files of the directory
  tmp,             \* the temporary file of config.yaml and of providers.yaml
  job,             \* command -> what it is doing
  turns            \* commands and edits so far

vars == <<disk, tmp, job, turns>>

\* A command's operation, the step it is at, the configuration that an upgrade
\* carries in memory, providers.yaml as last read, and the pending write.
Idle == [op |-> None, at |-> "idle", upgrade |-> None, read |-> None, out |-> None]

Init ==
  /\ disk \in Disks
  /\ tmp = [config |-> None, providers |-> None]
  /\ job = [c \in Commands |-> Idle]
  /\ turns = 0

-----------------------------------------------------------------------------
(* Steps that commands have in common                                      *)

At(c, step) == job[c].at = step
Kind(c) == job[c].op.kind

Becomes(c, j) == job' = [job EXCEPT ![c] = j]

Goto(c, step) == Becomes(c, [job[c] EXCEPT !.at = step])

\* The command returns, or ends with a message or a traceback.
End(c) == Becomes(c, Idle)

\* The command goes on to write doc to file, and then to step.
Save(c, file, doc, step) ==
  Becomes(c, [job[c] EXCEPT !.at = "open",
                            !.out = [file |-> file, doc |-> doc, then |-> step]])

\* Mutant: the file itself is opened, not a temporary one.
OpenInPlace(c) ==
  /\ At(c, "open")
  /\ disk' = [disk EXCEPT ![job[c].out.file] = Torn]
  /\ Goto(c, "write")
  /\ UNCHANGED <<tmp, turns>>

Open(c) ==
  /\ At(c, "open")
  /\ tmp' = [tmp EXCEPT ![job[c].out.file] = Torn]
  /\ Goto(c, "write")
  /\ UNCHANGED <<disk, turns>>

Write(c) ==
  /\ At(c, "write")
  /\ tmp' = [tmp EXCEPT ![job[c].out.file] = job[c].out.doc]
  /\ Goto(c, "replace")
  /\ UNCHANGED <<disk, turns>>

\* os.replace.  An upgrade is over when config.yaml is in place.
Replace(c) ==
  LET file == job[c].out.file
      then == job[c].out.then
  IN
  /\ At(c, "replace")
  /\ disk' = [disk EXCEPT ![file] = tmp[file]]
  /\ tmp' = [tmp EXCEPT ![file] = None]
  /\ IF then = "end" THEN End(c)
     ELSE Becomes(c, [job[c] EXCEPT !.at = then, !.out = None,
                        !.upgrade = IF file = "config" THEN None ELSE @])
  /\ UNCHANGED turns

-----------------------------------------------------------------------------
(* What the files say                                                      *)

NoModels == [m \in Models |-> None]
NoEntries == [p \in Providers |-> None]

ConfigDoc(gateway, models) ==
  [gateway |-> gateway, models |-> models, key |-> None, comments |-> FALSE]

Defaults == ConfigDoc(DefaultGateway, NoModels)

\* load_config raises what load_gateway and load_api_key do not catch.
ConfigRaises == disk.config = Corrupt

\* load_gateway
Gateway == IF disk.config \in ConfigDocs THEN disk.config.gateway ELSE DefaultGateway

\* load_api_key
ApiKey == IF disk.config \in ConfigDocs THEN disk.config.key ELSE None

\* Mutant: the file is loaded and dumped.
WithKeyDumped(key) ==
  IF disk.config \in ConfigDocs THEN [disk.config EXCEPT !.key = key, !.comments = FALSE]
  ELSE [Defaults EXCEPT !.key = key]

\* What set_api_key makes of config.yaml: it edits the line, and starts from
\* defaults if there is no file, or no mapping in it.
WithKey(key) ==
  IF disk.config \in ConfigDocs THEN [disk.config EXCEPT !.key = key]
  ELSE [Defaults EXCEPT !.key = key]

\* validate_providers_config lets all entries pass.
Accepted(entries, gateway) ==
  \A p \in Providers : entries[p] # None => entries[p].url \notin Rejected[gateway]

\* What migrate_layout reads of the old files; what it cannot read counts as empty.
OldGateway ==
  IF disk.providers \in ProviderDocs /\ disk.providers.gateway # None
  THEN disk.providers.gateway ELSE DefaultGateway

OldModels == IF disk.models \in ModelMaps THEN disk.models ELSE NoModels

OldEntries ==
  IF disk.providers \in ProviderDocs THEN disk.providers.entries ELSE NoEntries

-----------------------------------------------------------------------------
(* init_first_run and migrate_layout                                       *)

\* The commands that call init_first_run; start only calls migrate_layout.
InitsFirst == {"setup", "provider add", "model add", "key set", "config init"}

AfterUpgrade(c) == IF Kind(c) = "start" THEN "body" ELSE "templates"

\* An ancient config.yaml is put aside.
BackUp(c) ==
  /\ At(c, "migrate") /\ disk.config = Ancient
  /\ disk' = [disk EXCEPT !.config = None, !.backup = Ancient]
  /\ UNCHANGED <<tmp, job, turns>>

\* Nothing to upgrade.
Upgraded(c) ==
  /\ At(c, "migrate") /\ disk.config # Ancient
  /\ disk.config # None \/ (disk.providers = None /\ disk.models = None)
  /\ Goto(c, AfterUpgrade(c))
  /\ UNCHANGED <<disk, tmp, turns>>

\* The old layout: providers.yaml is to keep the providers only.  Its entries are
\* validated against the gateway that moves; a refusal ends the command.
Upgrade(c) ==
  LET cfg == ConfigDoc(OldGateway, OldModels)
      out == [file |-> "providers", doc |-> [entries |-> OldEntries, gateway |-> None],
              then |-> "unlink"]
  IN
  /\ At(c, "migrate") /\ disk.config = None
  /\ disk.providers # None \/ disk.models # None
  /\ IF disk.providers \in {None, NotAMapping}
       THEN Becomes(c, [job[c] EXCEPT !.at = "unlink", !.upgrade = cfg])
     ELSE IF ~Accepted(OldEntries, OldGateway) THEN End(c)
     ELSE Becomes(c, [job[c] EXCEPT !.at = "open", !.upgrade = cfg, !.out = out])
  /\ UNCHANGED <<disk, tmp, turns>>

\* Mutant: models.yaml stays.
KeepModels(c) ==
  /\ At(c, "unlink")
  /\ Save(c, "config", job[c].upgrade, AfterUpgrade(c))
  /\ UNCHANGED <<disk, tmp, turns>>

\* models.yaml is deleted, and then config.yaml is written.
UnlinkModels(c) ==
  /\ At(c, "unlink")
  /\ disk' = [disk EXCEPT !.models = None]
  /\ Save(c, "config", job[c].upgrade, AfterUpgrade(c))
  /\ UNCHANGED <<tmp, turns>>

\* Missing files are laid down from the templates.
Templates(c) ==
  /\ At(c, "templates")
  /\ IF disk.config = None
       THEN Save(c, "config", [Defaults EXCEPT !.comments = TRUE], "templates")
     ELSE IF disk.providers = None
       THEN Save(c, "providers", [entries |-> NoEntries, gateway |-> None], "templates")
     ELSE IF Kind(c) = "config init" THEN End(c)
     ELSE Goto(c, "body")
  /\ UNCHANGED <<disk, tmp, turns>>

-----------------------------------------------------------------------------
(* The commands                                                            *)

\* The file of an upgraded directory that a command may replace.
Replaces(kind) ==
  CASE kind \in {"provider add", "provider remove"} -> {"providers"}
    [] kind \in {"start", "config init"}            -> {}
    [] OTHER                                        -> {"config"}

MayOverlap(op, c) ==
  job[c].op # None =>
    /\ disk.config \notin {None, Ancient} /\ disk.providers # None
    /\ Replaces(op.kind) \cap Replaces(Kind(c)) = {}

\* A user enters a command.  config init refuses to run where there is a file.
Begin(c, op) ==
  /\ job[c].op = None /\ turns < MaxTurns
  /\ \A d \in Commands : MayOverlap(op, d)
  /\ turns' = turns + 1
  /\ op.kind = "config init" => disk.config = None /\ disk.providers = None
  /\ Becomes(c, [job[c] EXCEPT !.op = op,
       !.at = IF op.kind \in InitsFirst \cup {"start"} THEN "migrate" ELSE "body"])
  /\ UNCHANGED <<disk, tmp>>

\* Mutant: the key is generated without a look at the old one.
SetupAlways(c) ==
  /\ At(c, "body") /\ Kind(c) = "setup"
  /\ IF ConfigRaises THEN End(c)
     ELSE \E k \in FreshKeys : Save(c, "config", WithKey(k), "end")
  /\ UNCHANGED <<disk, tmp, turns>>

\* _cmd_setup generates a key if there is none.
Setup(c) ==
  /\ At(c, "body") /\ Kind(c) = "setup"
  /\ IF ConfigRaises \/ ApiKey # None THEN End(c)
     ELSE \E k \in FreshKeys : Save(c, "config", WithKey(k), "end")
  /\ UNCHANGED <<disk, tmp, turns>>

\* _api_key_set asks for the key, which may be left empty.
KeySet(c) ==
  /\ At(c, "body") /\ Kind(c) = "key set"
  /\ \/ End(c)
     \/ ~ConfigRaises /\ \E k \in UserKeys : Save(c, "config", WithKey(k), "end")
  /\ UNCHANGED <<disk, tmp, turns>>

\* _api_key_clear
KeyClear(c) ==
  /\ At(c, "body") /\ Kind(c) = "key clear"
  /\ IF ConfigRaises \/ ApiKey = None THEN End(c)
     ELSE Save(c, "config", WithKey(None), "end")
  /\ UNCHANGED <<disk, tmp, turns>>

\* _cmd_start reads its files and hands over to the daemon.
Start(c) ==
  /\ At(c, "body") /\ Kind(c) = "start"
  /\ End(c)
  /\ UNCHANGED <<disk, tmp, turns>>

\* _provider_add reads providers.yaml and checks the new base_url.
ProviderAdd(c) ==
  /\ At(c, "body") /\ Kind(c) = "provider add"
  /\ IF disk.providers \in Unreadables \/ ConfigRaises \/ job[c].op.url \in Rejected[Gateway]
     THEN End(c)
     ELSE Becomes(c, [job[c] EXCEPT !.at = "ask", !.read = disk.providers])
  /\ UNCHANGED <<disk, tmp, turns>>

\* The key comes from the command line, or from the entry that is updated, or
\* from a prompt, which may be broken off.
ProviderKey(c) ==
  LET op == job[c].op
      old == job[c].read.entries[op.provider]
      With(k) == Becomes(c, [job[c] EXCEPT !.at = "save",
                               !.read.entries[op.provider] = [url |-> op.url, key |-> k]])
  IN
  /\ At(c, "ask")
  /\ IF op.given THEN With(op.key)
     ELSE IF old # None THEN With(old.key)
     ELSE End(c) \/ \E k \in ProviderKeys \cup {None} : With(k)
  /\ UNCHANGED <<disk, tmp, turns>>

\* _provider_remove
ProviderRemove(c) ==
  LET p == job[c].op.provider IN
  /\ At(c, "body") /\ Kind(c) = "provider remove"
  /\ IF disk.providers \notin ProviderDocs THEN End(c)
     ELSE IF disk.providers.entries[p] = None THEN End(c)
     ELSE Becomes(c, [job[c] EXCEPT !.at = "save",
                        !.read = [disk.providers EXCEPT !.entries[p] = None]])
  /\ UNCHANGED <<disk, tmp, turns>>

\* save_providers_config validates all entries.
ProviderSave(c) ==
  /\ At(c, "save")
  /\ IF ConfigRaises \/ ~Accepted(job[c].read.entries, Gateway) THEN End(c)
     ELSE Save(c, "providers", job[c].read, "end")
  /\ UNCHANGED <<disk, tmp, turns>>

\* _model_add checks that the provider is there.
ModelAdd(c) ==
  /\ At(c, "body") /\ Kind(c) = "model add"
  /\ IF disk.providers \notin ProviderDocs THEN End(c)
     ELSE IF disk.providers.entries[job[c].op.provider] = None THEN End(c)
     ELSE Goto(c, "models")
  /\ UNCHANGED <<disk, tmp, turns>>

\* save_models_config
SaveModel(c, provider) ==
  Save(c, "config",
       [disk.config EXCEPT !.models[job[c].op.model] = provider, !.comments = FALSE], "end")

\* It puts the model into the configuration.
ModelSave(c) ==
  /\ At(c, "models")
  /\ IF disk.config \notin ConfigDocs THEN End(c) ELSE SaveModel(c, job[c].op.provider)
  /\ UNCHANGED <<disk, tmp, turns>>

\* _model_remove
ModelRemove(c) ==
  /\ At(c, "body") /\ Kind(c) = "model remove"
  /\ IF disk.config \notin ConfigDocs THEN End(c)
     ELSE IF disk.config.models[job[c].op.model] = None THEN End(c)
     ELSE SaveModel(c, None)
  /\ UNCHANGED <<disk, tmp, turns>>

-----------------------------------------------------------------------------
(* What may go wrong                                                       *)

\* A command is killed.
Crash(c) ==
  /\ job[c].op # None
  /\ "crash" \in Mishaps
  /\ job[c].upgrade # None => "crash in upgrade" \in Mishaps
  /\ End(c)
  /\ UNCHANGED <<disk, tmp, turns>>

Resting == \A c \in Commands : job[c].op = None

\* A user edits one of two readable files, and leaves it unreadable; not an ancient
\* one.
Spoil ==
  /\ Resting /\ turns < MaxTurns
  /\ "edit" \in Mishaps
  /\ \/ "edit before upgrade" \in Mishaps
     \/ disk.config \in ConfigDocs /\ disk.providers \in ProviderDocs
  /\ \E bad \in Unreadables :
       \/ disk.config \in ConfigDocs /\ disk' = [disk EXCEPT !.config = bad]
       \/ disk.providers # None /\ disk' = [disk EXCEPT !.providers = bad]
  /\ turns' = turns + 1
  /\ UNCHANGED <<tmp, job>>

\* A user deletes an unreadable file, as the message says.
Discard ==
  /\ Resting /\ turns < MaxTurns
  /\ \/ disk.config \in Unreadables /\ disk' = [disk EXCEPT !.config = None]
     \/ disk.providers \in Unreadables /\ disk' = [disk EXCEPT !.providers = None]
  /\ turns' = turns + 1
  /\ UNCHANGED <<tmp, job>>

-----------------------------------------------------------------------------
Step(c) ==
  \/ Open(c) \/ Write(c) \/ Replace(c)
  \/ BackUp(c) \/ Upgraded(c) \/ Upgrade(c) \/ UnlinkModels(c) \/ Templates(c)
  \/ Setup(c) \/ KeySet(c) \/ KeyClear(c) \/ Start(c)
  \/ ProviderAdd(c) \/ ProviderKey(c) \/ ProviderRemove(c) \/ ProviderSave(c)
  \/ ModelAdd(c) \/ ModelSave(c) \/ ModelRemove(c)

Next ==
  \/ \E c \in Commands : Step(c) \/ Crash(c) \/ \E op \in Operations : Begin(c, op)
  \/ Spoil \/ Discard

Spec == Init /\ [][Next]_vars

-----------------------------------------------------------------------------
(* Properties                                                              *)

\* Every variable has its type; in particular a file is at every moment a whole
\* document, whatever command was killed while it wrote (_atomic_write_bytes).
TypeOK ==
  /\ disk \in DiskType
  /\ tmp \in [config : ConfigDocs \cup {None, Torn}, providers : ProviderDocs \cup {None, Torn}]
  /\ job \in [Commands -> JobType]
  /\ turns \in 0..MaxTurns

\* An upgrade ends with all of it done: beside a config.yaml in use there is no
\* models.yaml, which no command would ever look at again (migrate_layout).
NothingLeftBehind ==
  disk.config \in ConfigDocs => disk.models = None

\* Only the commands that load and dump config.yaml may lose the comments in it;
\* a key is set and cleared in place (set_api_key, clear_api_key).
CommentsKept ==
  [][\A c \in Commands :
       /\ Replace(c) /\ job[c].out.file = "config"
       /\ disk.config \in ConfigDocs /\ disk.config.comments
       => disk'.config.comments \/ Kind(c) \in {"model add", "model remove"}]_vars

\* The settings in the files, or in the memory of the command that upgrades them.
SettingsOf(doc) == [gateway |-> doc.gateway, models |-> doc.models, key |-> doc.key]

ConfNow ==
  IF \E c \in Commands : job[c].upgrade # None
  THEN SettingsOf(job[CHOOSE c \in Commands : job[c].upgrade # None].upgrade)
  ELSE IF disk.config \in Unreadables THEN Unreadable
  ELSE IF disk.config \in ConfigDocs THEN SettingsOf(disk.config)
  ELSE SettingsOf(ConfigDoc(OldGateway, OldModels))

ProvsNow ==
  IF disk.providers \in Unreadables THEN Unreadable
  ELSE OldEntries

Abstract == INSTANCE Settings WITH conf <- ConfNow, provs <- ProvsNow

\* A command that runs to its end, fails or is killed has changed what it is for,
\* or nothing; an upgrade keeps all settings; setup keeps the key.
ImplementsSettings == Abstract!SettingsSpec

-----------------------------------------------------------------------------
(* What a comment says and the code does not do                            *)

\* "A corrupt/unreadable file is NOT silently replaced with the default -- that
\* would destroy the user's existing providers on the next provider add / setup"
\* (_safe_load_providers): providers.yaml that no command can read stays as it is.
UnreadableProvidersStay ==
  [][disk.providers \in Unreadables /\ turns' = turns
     => disk'.providers = disk.providers]_vars

=============================================================================
