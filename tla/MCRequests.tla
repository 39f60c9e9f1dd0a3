----------------------------- MODULE MCRequests -----------------------------
(* Instances of Requests for TLC.                                          *)
EXTENDS Requests

T(x) == [type |-> "text", text |-> x]
Img(source) == [type |-> "image", source |-> source]
Use(id) == [type |-> "tool_use", id |-> id, input |-> "{..}"]
Res(id, x) == [type |-> "tool_result", id |-> id, content |-> <<T(x)>>]
Calls(content, calls) == [Plain("assistant", content) EXCEPT !.calls = calls]
ToolResult(id, content) == [Plain("tool", content) EXCEPT !.id = id]

TheWords == {"s", "t", "u", "v", "r", "q"}
TwoIds == {"a", "b"}
TheArguments == {"{}", "{..}", "not JSON"}

FromOpenai == {
  Plain("system", <<T("s")>>),
  Plain("user", <<T("u")>>),
  Plain("user", <<T("u"), Img("data"), Img("bad")>>),
  Plain("developer", <<Img("bad")>>),
  Plain("assistant", <<T("v")>>),
  Calls(<<>>, <<[id |-> "a", arguments |-> "{..}"]>>),
  Calls(<<T("v")>>, <<[id |-> "a", arguments |-> "{..}"], [id |-> "b", arguments |-> "not JSON"]>>),
  ToolResult("a", <<T("r")>>),
  ToolResult("b", <<Img("url"), T("q")>>)}

FromAnthropic == {
  [role |-> "user", content |-> <<>>],
  [role |-> "user", content |-> <<Img("url"), T("u"), Img("bad")>>],
  [role |-> "user", content |-> <<Res("a", "r")>>],
  [role |-> "user", content |-> <<Res("b", "q"), [Res("a", "r") EXCEPT !.content = @ \o <<Img("url")>>]>>],
  [role |-> "user", content |-> <<Res("a", "r"), T("u"), Res("b", "q")>>],
  [role |-> "assistant", content |-> <<T("v")>>],
  [role |-> "assistant", content |-> <<Use("a")>>],
  [role |-> "assistant", content |-> <<Use("a"), T("v"), Use("b")>>]}

SystemTexts == {<<>>, <<T("s"), T("t")>>}

Fields == {
  {},
  {"stop", "stop_sequences", "max_tokens"},
  {"stop_sequences", "top_k", "tools"},
  {"system", "stop", "tool_choice", "temperature", "top_p", "stream"}}
=============================================================================
