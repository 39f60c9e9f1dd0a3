----------------------------- MODULE MCGateway ------------------------------
(* Instances of Gateway for TLC.                                           *)
EXTENDS Gateway, TLC, FiniteSets

CONSTANTS p1, p2, p3, r1, r2, m1, gone

\* p1 speaks OpenAI, p2 Anthropic, p3 OpenAI behind a blocked base_url.
MCProtocol == p1 :> "openai" @@ p2 :> "anthropic" @@ p3 :> "openai"

\* The blocked provider and a dangling name come first, then p1 falls over to
\* p2, then p1 is bound once more (another upstream model of the same provider).
MCBindings == m1 :> <<p3, gone, p1, p2, p1>>

Ask(e, b, m, s) == [endpoint |-> e, credential |-> "valid", body |-> b,
                    model |-> m, stream |-> s]

\* Each endpoint, streaming and not, on a good body; and one request per way
\* of being turned away.
MCInputs ==
  {Ask("chat", "ok", m1, s) : s \in BOOLEAN}
    \cup {Ask("messages", "ok", m1, s) : s \in BOOLEAN}
    \cup {Ask("catchall", "ok", m1, FALSE), Ask("chat", "odd", m1, FALSE)}

Strangers ==
  {[endpoint |-> e, credential |-> "invalid", body |-> "ok", model |-> m1,
    stream |-> FALSE] : e \in {"health", "models", "chat"}}

MCTurnedAway ==
  Strangers \cup {Ask("chat", "bad", m1, FALSE), Ask("messages", "odd", None, TRUE),
                  Ask("models", "ok", None, FALSE)}

MCAllInputs == MCInputs \cup MCTurnedAway

\* For liveness: one streaming and one plain request, on either side of the
\* format translation.
MCLiveInputs == {Ask("chat", "ok", m1, TRUE), Ask("messages", "ok", m1, FALSE)}

MCStatuses == {200, 404, 429, 500}

Symmetry == Permutations(Requests)
=============================================================================
