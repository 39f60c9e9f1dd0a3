------------------------------ MODULE Settings ------------------------------
(***************************************************************************)
(* What the llmport commands promise about the user's settings, apart from *)
(* the files that hold them: a command changes one thing, all of it or     *)
(* nothing, also if it is killed.  Settings that cannot be read are left   *)
(* for the user to repair, but for a new key, which starts from defaults.  *)
(***************************************************************************)
CONSTANTS
  Providers,       \* provider names
  Models,          \* public model names
  Entries,         \* what providers.yaml says of a provider
  UserKeys,        \* llmport keys that a user types in
  FreshKeys,       \* llmport keys that setup generates
  DefaultGateway,  \* the address the gateway listens at unless told otherwise
  None,            \* nothing
  Unreadable       \* settings that cannot be read

VARIABLES
  conf,            \* gateway, models and llmport's key, or Unreadable
  provs            \* provider -> its entry or None; or Unreadable

settings == <<conf, provs>>

NoModels == [m \in Models |-> None]
NoProviders == [p \in Providers |-> None]
Defaults == [gateway |-> DefaultGateway, models |-> NoModels, key |-> None]

ReadableConf == conf # Unreadable
ReadableProvs == provs # Unreadable

AddProvider(p) ==
  /\ ReadableProvs
  /\ \E e \in Entries : provs' = [provs EXCEPT ![p] = e]
  /\ UNCHANGED conf

RemoveProvider(p) ==
  /\ ReadableProvs
  /\ provs' = [provs EXCEPT ![p] = None]
  /\ UNCHANGED conf

\* The provider need not exist any more: its removal leaves its models behind.
AddModel(m) ==
  /\ ReadableConf
  /\ \E p \in Providers : conf' = [conf EXCEPT !.models[m] = p]
  /\ UNCHANGED provs

RemoveModel(m) ==
  /\ ReadableConf
  /\ conf' = [conf EXCEPT !.models[m] = None]
  /\ UNCHANGED provs

WithNewKey(k) ==
  conf' = IF ReadableConf THEN [conf EXCEPT !.key = k] ELSE [Defaults EXCEPT !.key = k]

SetKey == (\E k \in UserKeys : WithNewKey(k)) /\ UNCHANGED provs

\* setup never overwrites a key.
GenerateKey ==
  /\ ReadableConf => conf.key = None
  /\ \E k \in FreshKeys : WithNewKey(k)
  /\ UNCHANGED provs

ClearKey ==
  /\ ReadableConf
  /\ conf' = [conf EXCEPT !.key = None]
  /\ UNCHANGED provs

\* By hand: a file becomes unreadable; one that was unreadable is deleted.
Spoil ==
  \/ conf' = Unreadable /\ UNCHANGED provs
  \/ provs' = Unreadable /\ UNCHANGED conf

Discard ==
  \/ ~ReadableConf /\ conf' = Defaults /\ UNCHANGED provs
  \/ ~ReadableProvs /\ provs' = NoProviders /\ UNCHANGED conf

Change ==
  \/ \E p \in Providers : AddProvider(p) \/ RemoveProvider(p)
  \/ \E m \in Models : AddModel(m) \/ RemoveModel(m)
  \/ SetKey \/ GenerateKey \/ ClearKey
  \/ Spoil \/ Discard

SettingsSpec == [][Change]_settings
=============================================================================
