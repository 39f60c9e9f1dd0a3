------------------------------ MODULE Requests ------------------------------
(***************************************************************************)
(* Translation of requests between the two protocols: the loop over the    *)
(* client's messages, one step per message, then the parameters.  OpenAI   *)
(* has a message of its own for each tool result and for system text;      *)
(* Anthropic has results as blocks of a user message, and one system text. *)
(*                                                                         *)
(* Content is a sequence of blocks, also where it is a string: that is one *)
(* text block, and none if it is empty.  To join texts is to concatenate.  *)
(***************************************************************************)
EXTENDS Naturals, SequencesExt

CONSTANTS
  Words,              \* what a text block may say
  CallIds,            \* ids of tool calls
  Arguments,          \* arguments of tool calls
  OpenaiMessages,     \* messages an OpenAI client may send
  AnthropicMessages,  \* messages an Anthropic client may send
  Systems,            \* system texts an Anthropic client may send
  FieldSets,          \* sets of other fields a request may have
  MaxMessages         \* bound on the messages of a request

\* The blocks of both protocols.  Of images, data of a known media type and
\* http(s) URLs are carried over.
TextBlocks == [type : {"text"}, text : Words]
Images == [type : {"image"}, source : {"data", "url", "bad"}]
Carried == TextBlocks \cup {b \in Images : b.source # "bad"}
Uses == [type : {"tool_use"}, id : CallIds, input : Arguments \ {"not JSON"}]
Results == [type : {"tool_result"}, id : CallIds, content : Seq(TextBlocks \cup Images)]
Blocks == TextBlocks \cup Images \cup Uses \cup Results

Roles == {"system", "developer", "user", "assistant", "tool", "function"}
OpenaiForms == [role : Roles, content : Seq(TextBlocks \cup Images),
                calls : Seq([id : CallIds, arguments : Arguments]), id : CallIds \cup {""}]
AnthropicForms == [role : Roles, content : Seq(Blocks)]

\* Only assistants call tools, and only tools answer with the id of a call.
\* The other fields are those other than the messages and the model, and
\* "default" is the name of none.
ASSUME ConstantsOK ==
  /\ "{}" \in Arguments /\ "" \notin CallIds
  /\ OpenaiMessages \subseteq OpenaiForms /\ AnthropicMessages \subseteq AnthropicForms
  /\ \A m \in OpenaiMessages : /\ m.role # "assistant" => m.calls = <<>>
                               /\ m.role = "tool" <=> m.id # ""
  /\ Systems \subseteq Seq(TextBlocks)
  /\ \A F \in FieldSets : F \cap {"default", "messages", "model"} = {}

VARIABLES
  direction,  \* the translation: "to_anthropic" or "to_openai"
  read,       \* the client's messages up to now
  system,     \* the system text
  out,        \* the messages of the translated request
  pending,    \* tool results that wait for the message they will be in
  fields,     \* the client's other fields, of those known the ones with a value
  odd,        \* those whose value has nothing to correspond in the provider's protocol
  params,     \* <<name, source>> of the fields of the translated request
  at          \* "messages" or "done"

vars == <<direction, read, system, out, pending, fields, odd, params, at>>

\* Op of each element, the elements of a set, what Op makes of each in one.
Map(s, Op(_)) == [i \in DOMAIN s |-> Op(s[i])]
Those(s, S) == FlattenSeq([i \in DOMAIN s |-> IF s[i] \in S THEN <<s[i]>> ELSE <<>>])
Joined(s, Op(_)) == FlattenSeq(Map(s, Op))

-----------------------------------------------------------------------------
(* Content                                                                 *)

\* _openai_content_to_text, _anthropic_content_to_text
Texts(content) == Those(content, TextBlocks)

\* _parse_json_or_empty: arguments that are not JSON are taken for none.
Parsed(arguments) == IF arguments = "not JSON" THEN "{}" ELSE arguments

\* Of the two roles of Anthropic's protocol.
Speaker(m) == IF m.role = "assistant" THEN "assistant" ELSE "user"

-----------------------------------------------------------------------------
(* OpenAI to Anthropic                                                     *)

Result(m) == [type |-> "tool_result", id |-> m.id, content |-> Texts(m.content)]

ToolUse(call) == [type |-> "tool_use", id |-> call.id, input |-> Parsed(call.arguments)]

\* Mutant: the text that comes with tool calls is dropped.
CallsOnly(m) == Map(m.calls, ToolUse)

\* An assistant's message with tool calls: what it says, then the calls.
CallBlocks(m) == Texts(m.content) \o Map(m.calls, ToolUse)

\* flush_tools
Flushed ==
  IF pending = <<>> THEN out ELSE Append(out, [role |-> "user", content |-> pending])

\* The next message is m, and what becomes of it is o, p and s.
Takes(m, o, p, s) ==
  /\ at = "messages" /\ Len(read) < MaxMessages
  /\ read' = Append(read, m)
  /\ out' = o /\ pending' = p /\ system' = s
  /\ UNCHANGED <<direction, fields, odd, params, at>>

ReadSystem(m) ==
  /\ m.role = "system"
  /\ Takes(m, Flushed, <<>>, system \o Texts(m.content))

\* Mutant: a user message of its own for each result.
ReadToolAlone(m) ==
  /\ m.role = "tool"
  /\ Takes(m, Append(out, [role |-> "user", content |-> <<Result(m)>>]), <<>>, system)

ReadTool(m) ==
  /\ m.role = "tool"
  /\ Takes(m, out, Append(pending, Result(m)), system)

ReadCalls(m) ==
  /\ m.role = "assistant" /\ m.calls # <<>>
  /\ Takes(m, Append(Flushed, [role |-> "assistant", content |-> CallBlocks(m)]), <<>>, system)

\* Mutant: the results are kept for later.
ReadPlainUnflushed(m) ==
  /\ m.role \notin {"system", "tool"} /\ m.calls = <<>>
  /\ Takes(m, Append(out, [role |-> Speaker(m), content |-> Those(m.content, Carried)]),
           pending, system)

\* Any other message; a role that is not known is taken for the user's.
ReadPlain(m) ==
  /\ m.role \notin {"system", "tool"} /\ m.calls = <<>>
  /\ Takes(m, Append(Flushed, [role |-> Speaker(m), content |-> Those(m.content, Carried)]),
           <<>>, system)

-----------------------------------------------------------------------------
(* Anthropic to OpenAI                                                     *)

Plain(role, content) == [role |-> role, content |-> content, calls |-> <<>>, id |-> ""]

ToolMessage(b) ==
  [role |-> "tool", content |-> Texts(b.content), calls |-> <<>>, id |-> b.id]

Call(b) == [id |-> b.id, arguments |-> b.input]

\* _anthropic_assistant_to_openai
AssistantToOpenai(content) ==
  <<[role |-> "assistant", content |-> Texts(content),
     calls |-> Map(Those(content, Uses), Call), id |-> ""]>>

\* Each result is a message of its own, then comes the rest, unless there is
\* none; empty content is an empty string, which has a message.
UserToOpenai(content) ==
  Map(Those(content, Results), ToolMessage)
  \o IF content # <<>> /\ Those(content, Blocks \ Results) = <<>> THEN <<>>
     ELSE <<Plain("user", Those(content, Carried))>>

ToOpenai(m) ==
  IF m.role = "assistant" THEN AssistantToOpenai(m.content) ELSE UserToOpenai(m.content)

\* The message that stands for the system text.
SystemMessage(text) == IF text = <<>> THEN <<>> ELSE <<Plain("system", text)>>

ReadAnthropic(m) == Takes(m, out \o ToOpenai(m), <<>>, system)

-----------------------------------------------------------------------------
(* The other fields                                                        *)

SameNames == {"temperature", "top_p", "stream", "tools", "tool_choice"}

\* Those whose value is converted, not just taken over.
Converted == {"tools", "tool_choice"}

\* The conversions return None for a tool or a choice they have no form for
\* (tools that are no functions, a choice not known), and such a field is left
\* out, and as a known one not passed through either.
Expressible == fields \ odd

\* Mutant: the renamed field is not known.
OpenaiKnownButStop == SameNames \cup {"max_tokens"}

OpenaiKnown == SameNames \cup {"max_tokens", "stop"}

AnthropicKnown == SameNames \cup {"max_tokens", "stop_sequences", "system"}

\* Those that are set (max_tokens always, to a default if need be), with where
\* they come from, and those not known, as they are, unless already set.
WithUnknown(set, known) ==
  set \cup {<<f, f>> : f \in {g \in fields : g \notin known /\ \A p \in set : p[1] # g}}

AnthropicParams ==
  WithUnknown(
    {<<f, f>> : f \in Expressible \cap SameNames}
    \cup {<<"stop_sequences", "stop">> : f \in fields \cap {"stop"}}
    \cup {<<"max_tokens", IF "max_tokens" \in fields THEN "max_tokens" ELSE "default">>}
    \cup (IF system = <<>> THEN {} ELSE {<<"system", "messages">>}),
    OpenaiKnown)

OpenaiParams ==
  WithUnknown(
    {<<f, f>> : f \in Expressible \cap (SameNames \cup {"max_tokens"})}
    \cup {<<"stop", "stop_sequences">> : f \in fields \cap {"stop_sequences"}},
    AnthropicKnown)

\* The messages are over.
Finish ==
  /\ at = "messages"
  /\ at' = "done"
  /\ out' = Flushed /\ pending' = <<>>
  /\ params' = IF direction = "to_anthropic" THEN AnthropicParams ELSE OpenaiParams
  /\ UNCHANGED <<direction, read, system, fields, odd>>

-----------------------------------------------------------------------------
Init ==
  /\ at = "messages" /\ read = <<>> /\ pending = <<>> /\ params = {}
  /\ fields \in FieldSets /\ odd \in SUBSET (fields \cap Converted)
  /\ \/ direction = "to_anthropic" /\ system = <<>> /\ out = <<>>
     \/ /\ direction = "to_openai" /\ "system" \notin fields
        /\ system \in Systems /\ out = SystemMessage(system)

Next ==
  \/ /\ direction = "to_anthropic"
     /\ \E m \in OpenaiMessages : ReadSystem(m) \/ ReadTool(m) \/ ReadCalls(m) \/ ReadPlain(m)
  \/ /\ direction = "to_openai"
     /\ \E m \in AnthropicMessages : ReadAnthropic(m)
  \/ Finish

Spec == Init /\ [][Next]_vars

-----------------------------------------------------------------------------
(* Properties                                                              *)

\* What is said in a message, in terms of both protocols; of the blocks in a
\* tool's result only the text is.
Said(who, s) == [i \in DOMAIN s |-> [who |-> who, what |-> s[i]]]

OfOpenai(m) ==
  CASE m.role = "tool"      -> Said("tool", <<Result(m)>>)
    [] m.role = "assistant" -> Said("assistant", Texts(m.content) \o Map(m.calls, ToolUse))
    [] m.role = "system"    -> Said("system", Texts(m.content))
    [] OTHER                -> Said("user", Those(m.content, Carried))

Heard(m) == IF m.role = "assistant" THEN TextBlocks \cup Uses ELSE Carried \cup Results

Saying(m, b) ==
  IF b \in Results THEN [who |-> "tool", what |-> [b EXCEPT !.content = Texts(b.content)]]
                   ELSE [who |-> Speaker(m), what |-> b]

OfAnthropic(m) ==
  LET heard == Those(m.content, Heard(m)) IN [i \in DOMAIN heard |-> Saying(m, heard[i])]

\* What is said by who, of a type.
Sayings == [who : {"user", "assistant", "tool", "system"}, what : Blocks]
By(who, type) == {x \in Sayings : x.who = who /\ x.what.type = type}

\* Nothing a client may say in both protocols gets lost, doubled or out of
\* order on the way, whatever messages follow each other: at every moment the
\* translated messages, with the results that wait, say what has been read.
NothingLost ==
  LET before == IF direction = "to_anthropic" THEN Joined(read, OfOpenai)
                                              ELSE Joined(read, OfAnthropic)
      now == IF direction = "to_anthropic" THEN Joined(Flushed, OfAnthropic)
                                           ELSE Joined(out, OfOpenai) IN
  \A who \in {"user", "assistant", "tool"}, type \in {"text", "image", "tool_use", "tool_result"} :
    Those(before, By(who, type)) = Those(now, By(who, type))

Ids(s) == {s[i].id : i \in DOMAIN s}
Distinct(s) == \A i, j \in DOMAIN s : s[i].id = s[j].id => i = j

\* Each call is answered, once.
Answer(answers, calls) ==
  Ids(answers) = Ids(calls) /\ Distinct(answers) /\ Distinct(calls)

\* Every call is answered by the messages right after it, as OpenAI wants it:
\* a tool message for each, and none that answers no call.
AnsweredInOpenai(messages) ==
  LET LastAnswer(i) == i + Len(messages[i].calls) IN
  /\ \A i \in DOMAIN messages :
       /\ \A j \in (i + 1)..LastAnswer(i) : j \in DOMAIN messages /\ messages[j].role = "tool"
       /\ Answer(SubSeq(messages, i + 1, LastAnswer(i)), messages[i].calls)
  /\ \A j \in DOMAIN messages : messages[j].role = "tool" =>
       \E i \in 1..(j - 1) : j <= LastAnswer(i)

\* As Anthropic wants it: the assistant calls, and all results are in the one
\* message of the user after the calls.
UsedIn(m) == Those(m.content, Uses)
ResultsIn(m) == Those(m.content, Results)

AnsweredInAnthropic(messages) ==
  /\ \A i \in DOMAIN messages :
       /\ IF messages[i].role = "assistant" THEN ResultsIn(messages[i]) = <<>>
                                            ELSE UsedIn(messages[i]) = <<>>
       /\ i = 1 => ResultsIn(messages[i]) = <<>>
       /\ Answer(IF i = Len(messages) THEN <<>> ELSE ResultsIn(messages[i + 1]),
                 UsedIn(messages[i]))

\* A conversation whose tool calls are answered the way the client's protocol
\* wants it is translated to one where they are the way the provider's does.
AnsweredAtOnce ==
  at = "done" =>
    IF direction = "to_anthropic"
      THEN AnsweredInOpenai(read) => AnsweredInAnthropic(out)
      ELSE AnsweredInAnthropic(read) => AnsweredInOpenai(out)

\* What is left of an OpenAI message in Anthropic's protocol, said in OpenAI's.
SystemText(m) == IF m.role = "system" THEN Texts(m.content) ELSE <<>>

NormalCall(call) == [id |-> call.id, arguments |-> Parsed(call.arguments)]

Normal(m) ==
  CASE m.role = "system"    -> <<>>
    [] m.role = "tool"      -> <<[role |-> "tool", content |-> Texts(m.content),
                                  calls |-> <<>>, id |-> m.id]>>
    [] m.role = "assistant" -> <<[role |-> "assistant", content |-> Texts(m.content),
                                  calls |-> Map(m.calls, NormalCall), id |-> ""]>>
    [] OTHER                -> <<Plain("user", Those(m.content, Carried))>>

\* A gateway behind a gateway: what is translated to Anthropic's protocol and
\* back is what the client sent, message by message, but for the system
\* messages, which come first and as one.
RoundTrip ==
  at = "done" /\ direction = "to_anthropic" =>
    /\ system = Joined(read, SystemText)
    /\ Joined(out, ToOpenai) = Joined(read, Normal)

\* Every other field of the client arrives, under one name, and the provider
\* gets no name twice: a field that is not known gives way to a translated one
\* of its name, and to nothing else.  Only tools and tool_choice may not arrive,
\* and if their values cannot be converted they are not sent in the client's form.
EveryFieldOnce ==
  at = "done" =>
    /\ \A p, q \in params : p[1] = q[1] \/ p[2] = q[2] => p = q
    /\ \A f \in fields \ odd : \E p \in params : p[2] = f \/ p[1] = f
    /\ \A p \in params : p[1] \notin odd /\ p[2] \notin odd

=============================================================================
