------------------------------ MODULE Gateway -------------------------------
(***************************************************************************)
(* The gateway process: concurrent requests, each a coroutine that runs    *)
(* from one await to the next, over the health records of the providers    *)
(* they share.  An action is the code between two awaits.                  *)
(*                                                                         *)
(* Time is relative: health[p].until is the number of clock ticks left     *)
(* before the code's down_until, so that down_until > time.time() reads    *)
(* until > 0 and the clock needs no bound.                                 *)
(***************************************************************************)
EXTENDS Naturals, Sequences

CONSTANTS
  Providers,      \* the providers in providers.yaml
  Protocol,       \* provider -> the protocol it speaks
  Blocked,        \* providers that reload() finds down (SSRF-risky base_url)
  Models,         \* the public model names in config.yaml
  Bindings,       \* model -> sequence of provider names, in order
  Dangling,       \* names that are bound to and no provider has
  KeyConfigured,  \* state.api_key is not empty
  Requests,       \* connections: each serves one request after another
  Inputs,         \* the HTTP requests clients send
  Statuses,       \* the status codes upstreams answer with
  Cooldown,       \* COOLDOWN_SECONDS, in ticks
  None            \* Python's None

Codes == 200..599  \* the status codes that end an exchange

Endpoints == {"health", "models", "chat", "messages", "catchall"}

\* A request as far as the gateway tells requests apart.  model = None when
\* it is missing or unknown.  A body is "bad" when it is not a JSON object,
\* "odd" when it is one that the code raises on: the format translators do on
\* fields of unexpected types, and so does the lookup of a model that is a list.
HttpRequests == [endpoint : Endpoints, credential : {"valid", "invalid"},
                 body : {"ok", "odd", "bad"}, model : Models \cup {None},
                 stream : BOOLEAN]

ASSUME ConstantsOK ==
  /\ Cooldown \in Nat \ {0}
  /\ Blocked \subseteq Providers
  /\ None \notin Nat /\ None \notin {"timeout", "unreachable", "broken"}
  /\ None \notin Providers /\ None \notin Models
  /\ Statuses \subseteq Codes
  /\ Bindings \in [Models -> Seq(Providers \cup Dangling)]
  /\ KeyConfigured \in BOOLEAN
  /\ Inputs \subseteq HttpRequests
  /\ Protocol \in [Providers -> {"openai", "anthropic", "other"}]

VARIABLES
  health,    \* provider -> ProviderHealth
  pc,        \* request -> the await its coroutine is at
  inp,       \* request -> what the client sent
  target,    \* request -> the provider resolve() returned
  upstream,  \* request -> the upstream's answer (UpstreamResult.status, .reason)
  conn,      \* request -> state of its OpenedStream; "abandoned" when what
             \*   would close it never ran
  reply      \* request -> the status code sent to the client

vars == <<health, pc, inp, target, upstream, conn, reply>>

-----------------------------------------------------------------------------
(* Provider health (models/provider.py)                                    *)

HealthRecords == [status : {"unknown", "down"}, until : (0..Cooldown) \cup {None}]

Permanent == [status |-> "down", until |-> None]

\* Mutant: is_down() forgets that no deadline means for good.
IsDownTemporarily(h) == h.status = "down" /\ h.until # None /\ h.until > 0

IsDown(h) == h.status = "down" /\ (h.until = None \/ h.until > 0)

\* Mutant: mark_down() sets the status and forgets the deadline.
MarkDownForGood(h) == [status |-> "down", until |-> None]

MarkDown(h) == [status |-> "down", until |-> Cooldown]

\* Mutant: the remaining time runs past zero.
AgedPastZero(h) == IF h.until = None THEN h ELSE [h EXCEPT !.until = @ - 1]

\* A tick brings every temporary deadline nearer.  Nothing sets status back.
Aged(h) == IF h.until = None \/ h.until = 0 THEN h ELSE [h EXCEPT !.until = @ - 1]

-----------------------------------------------------------------------------
(* Routing (gateway/router.py) and what each endpoint accepts              *)

\* The positions in m's bindings whose provider exists and is not down.
Candidates(m) ==
  {i \in DOMAIN Bindings[m] :
     Bindings[m][i] \in Providers /\ ~IsDown(health[Bindings[m][i]])}

\* Mutant: any healthy binding will do.
ResolvesAny(m, p) == m \in Models /\ \E i \in Candidates(m) : Bindings[m][i] = p

Resolves(m, p) ==
  /\ m \in Models
  /\ \E i \in Candidates(m) : Bindings[m][i] = p /\ \A j \in Candidates(m) : i <= j

ClientFormat(q) == IF q.endpoint = "messages" THEN "anthropic" ELSE "openai"

Accepts(q, p) ==
  IF q.endpoint = "catchall" THEN Protocol[p] = "openai"
                             ELSE Protocol[p] \in {"openai", "anthropic"}

Translated(q, p) == Protocol[p] # ClientFormat(q)

IsAvailabilityFailure(s) == s >= 500 \/ s = 429

-----------------------------------------------------------------------------
(* Helpers                                                                 *)

Pending == [status |-> None, reason |-> None]
Answered(s) == [status |-> s, reason |-> None]
NotAnswered(why) == [status |-> None, reason |-> why]

\* The upstream exchange showed the provider unavailable.
Failed(u) ==
  \/ u.reason \in {"timeout", "unreachable"}
  \/ u.status # None /\ IsAvailabilityFailure(u.status)

\* The coroutine returns a response with status s; the client has it.
Respond(r, s) ==
  /\ reply' = [reply EXCEPT ![r] = s]
  /\ pc' = [pc EXCEPT ![r] = "answered"]

\* Mutant: every error status counts against the provider.
JudgeHarshly(r, u) ==
  health' = IF Failed(u) \/ (u.status # None /\ u.status >= 400)
              THEN [health EXCEPT ![target[r]] = MarkDown(@)] ELSE health

\* provider.health.mark_down(COOLDOWN_SECONDS) when the exchange u calls for it.
Judge(r, u) ==
  health' = IF Failed(u) THEN [health EXCEPT ![target[r]] = MarkDown(@)] ELSE health

Init ==
  /\ health \in [Providers -> {[status |-> "unknown", until |-> None], Permanent}]
  /\ \A p \in Providers : health[p] = Permanent <=> p \in Blocked
  /\ pc = [r \in Requests |-> "idle"]
  /\ inp = [r \in Requests |-> None]
  /\ target = [r \in Requests |-> None]
  /\ upstream = [r \in Requests |-> Pending]
  /\ conn = [r \in Requests |-> "none"]
  /\ reply = [r \in Requests |-> None]

-----------------------------------------------------------------------------
(* Admission: APIKeyAuthMiddleware, then the routes that need no upstream  *)

\* Mutant: only the presence of a configured key is checked.
GateAnyCredential(q) ==
  CASE q.endpoint \in {"health", "models"}                    -> 200
    [] q.endpoint \notin {"health", "models"} /\ ~KeyConfigured -> 503
    [] OTHER                                                  -> None

\* The status the gateway answers q with before it reads the body, or None.
Gate(q) ==
  CASE q.endpoint = "health"                                  -> 200
    [] q.endpoint # "health" /\ ~KeyConfigured                -> 503
    [] q.endpoint # "health" /\ KeyConfigured
         /\ q.credential # "valid"                            -> 401
    [] q.endpoint = "models" /\ KeyConfigured
         /\ q.credential = "valid"                            -> 200
    [] OTHER                                                  -> None

Receive(r, q) ==
  /\ pc[r] = "idle"
  /\ inp' = [inp EXCEPT ![r] = q]
  /\ IF Gate(q) = None
       THEN pc' = [pc EXCEPT ![r] = "reading"] /\ UNCHANGED reply
       ELSE Respond(r, Gate(q))
  /\ UNCHANGED <<health, target, upstream, conn>>

\* The body is read and the request refused: no JSON object, no model, no
\* healthy binding, or a provider whose protocol the endpoint does not take.
Reject(r) ==
  /\ pc[r] = "reading"
  /\ \/ inp[r].body = "bad"
     \/ \A p \in Providers : Resolves(inp[r].model, p) => ~Accepts(inp[r], p)
  /\ Respond(r, 400)
  /\ UNCHANGED <<health, inp, target, upstream, conn>>

\* The lookup of the model or the translator raises on the body before
\* anything is sent: Starlette's 500.
Choke(r) ==
  /\ pc[r] = "reading" /\ inp[r].body = "odd"
  /\ \/ inp[r].model = None
     \/ \E p \in Providers : /\ Resolves(inp[r].model, p)
                             /\ Accepts(inp[r], p) /\ Translated(inp[r], p)
  /\ Respond(r, 500)
  /\ UNCHANGED <<health, inp, target, upstream, conn>>

\* The body is read, routed, translated if need be, and sent upstream.
Dispatch(r, p) ==
  /\ pc[r] = "reading" /\ inp[r].body # "bad"
  /\ Resolves(inp[r].model, p) /\ Accepts(inp[r], p)
  /\ inp[r].body = "odd" => ~Translated(inp[r], p)
  /\ target' = [target EXCEPT ![r] = p]
  /\ pc' = [pc EXCEPT ![r] = "sending"]
  /\ UNCHANGED <<health, inp, upstream, conn, reply>>

-----------------------------------------------------------------------------
(* The upstream exchange (handler_base.forward / open_stream)              *)

\* Timeout or connection failure, streaming or not: 504, provider down.
NoResponse(r, why) ==
  /\ pc[r] = "sending" /\ why \in {"timeout", "unreachable"}
  /\ upstream' = [upstream EXCEPT ![r] = NotAnswered(why)]
  /\ Judge(r, NotAnswered(why))
  /\ Respond(r, 504)
  /\ UNCHANGED <<inp, target, conn>>

\* Any other httpx error (connection reset, protocol error) is not caught:
\* 500, and open_stream's client is left open.
Break(r) ==
  /\ pc[r] = "sending"
  /\ upstream' = [upstream EXCEPT ![r] = NotAnswered("broken")]
  /\ conn' = IF inp[r].stream THEN [conn EXCEPT ![r] = "open"] ELSE conn
  /\ Respond(r, 500)
  /\ UNCHANGED <<health, inp, target>>

\* forward() returned: the upstream's status goes to the client as it is.  A
\* success the response translator raises on becomes a 500.
Forward(r, s) ==
  /\ pc[r] = "sending" /\ ~inp[r].stream
  /\ upstream' = [upstream EXCEPT ![r] = Answered(s)]
  /\ Judge(r, Answered(s))
  /\ \/ Respond(r, s)
     \/ s < 400 /\ Translated(inp[r], target[r]) /\ Respond(r, 500)
  /\ UNCHANGED <<inp, target, conn>>

\* Mutant: the 200 is committed before the status is known to be no error.
OpenStreamEarly(r, s) ==
  /\ pc[r] = "sending" /\ inp[r].stream
  /\ upstream' = [upstream EXCEPT ![r] = Answered(s)]
  /\ conn' = [conn EXCEPT ![r] = "open"]
  /\ pc' = [pc EXCEPT ![r] = "piping"]
  /\ reply' = [reply EXCEPT ![r] = 200]
  /\ UNCHANGED <<health, inp, target>>

\* open_stream() returned: peek at the status, then drain an error or commit
\* a 200 and pipe.
OpenStream(r, s) ==
  /\ pc[r] = "sending" /\ inp[r].stream
  /\ upstream' = [upstream EXCEPT ![r] = Answered(s)]
  /\ conn' = [conn EXCEPT ![r] = "open"]
  /\ IF s >= 400
       THEN pc' = [pc EXCEPT ![r] = "draining"] /\ UNCHANGED reply
       ELSE /\ pc' = [pc EXCEPT ![r] = "piping"]
            /\ reply' = [reply EXCEPT ![r] = 200]
  /\ UNCHANGED <<health, inp, target>>

\* Mutant: an error status is retried within the request.
DrainAndRetry(r) ==
  /\ pc[r] = "draining"
  /\ pc' = [pc EXCEPT ![r] = "sending"]
  /\ UNCHANGED <<health, inp, target, upstream, conn, reply>>

\* await opened.aread() has the error body; await opened.aclose() comes next.
Drain(r) ==
  /\ pc[r] = "draining"
  /\ pc' = [pc EXCEPT ![r] = "closing"]
  /\ UNCHANGED <<health, inp, target, upstream, conn, reply>>

\* aread() raises: nothing closes the stream, the client gets a 500.
DrainBreak(r) ==
  /\ pc[r] = "draining"
  /\ upstream' = [upstream EXCEPT ![r] = NotAnswered("broken")]
  /\ Respond(r, 500)
  /\ UNCHANGED <<health, inp, target, conn>>

\* Mutant: the streaming path answers without judging the provider.
CloseDrainedUnjudged(r) ==
  /\ pc[r] = "closing" /\ reply[r] = None
  /\ conn' = [conn EXCEPT ![r] = "closed"]
  /\ Respond(r, upstream[r].status)
  /\ UNCHANGED <<health, inp, target, upstream>>

\* Mutant: the error path forgets aclose().
CloseDrainedUnclosed(r) ==
  /\ pc[r] = "closing" /\ reply[r] = None
  /\ Judge(r, upstream[r])
  /\ Respond(r, upstream[r].status)
  /\ UNCHANGED <<inp, target, upstream, conn>>

\* The drained stream is closed, the provider judged, the error passed on.
CloseDrained(r) ==
  /\ pc[r] = "closing" /\ reply[r] = None
  /\ conn' = [conn EXCEPT ![r] = "closed"]
  /\ Judge(r, upstream[r])
  /\ Respond(r, upstream[r].status)
  /\ UNCHANGED <<inp, target, upstream>>

\* The pipe ends: the upstream is done, breaks off, sends what the translator
\* raises on, or the client has gone, and the finally clause takes over.  Where
\* the client had gone before the pipe began, Starlette never starts the
\* generator: its finally clause does not run.
PipeEnd(r) ==
  /\ pc[r] = "piping"
  /\ \/ pc' = [pc EXCEPT ![r] = "closing"] /\ UNCHANGED conn
     \/ /\ pc' = [pc EXCEPT ![r] = "answered"]
        /\ conn' = [conn EXCEPT ![r] = "abandoned"]
  /\ UNCHANGED <<health, inp, target, upstream, reply>>

ClosePiped(r) ==
  /\ pc[r] = "closing" /\ reply[r] # None
  /\ conn' = [conn EXCEPT ![r] = "closed"]
  /\ pc' = [pc EXCEPT ![r] = "answered"]
  /\ UNCHANGED <<health, inp, target, upstream, reply>>

\* The client has its response; the connection may carry another request.
Release(r) ==
  /\ pc[r] = "answered"
  /\ pc' = [pc EXCEPT ![r] = "idle"]
  /\ inp' = [inp EXCEPT ![r] = None]
  /\ target' = [target EXCEPT ![r] = None]
  /\ upstream' = [upstream EXCEPT ![r] = Pending]
  /\ conn' = [conn EXCEPT ![r] = "none"]
  /\ reply' = [reply EXCEPT ![r] = None]
  /\ UNCHANGED health

Tick ==
  /\ health' = [p \in Providers |-> Aged(health[p])]
  /\ UNCHANGED <<pc, inp, target, upstream, conn, reply>>

-----------------------------------------------------------------------------
\* A step that a coroutine, its upstream or the event loop will take in time:
\* httpx times out a silent upstream, and of one that does send it is assumed
\* that its answer ends, so each await ends one way or another.
Progress(r) ==
  \/ Reject(r) \/ Choke(r) \/ \E p \in Providers : Dispatch(r, p)
  \/ \E why \in {"timeout", "unreachable"} : NoResponse(r, why)
  \/ Break(r)
  \/ \E s \in Statuses : Forward(r, s) \/ OpenStream(r, s)
  \/ Drain(r) \/ DrainBreak(r) \/ CloseDrained(r)
  \/ PipeEnd(r) \/ ClosePiped(r)

Next ==
  \/ \E r \in Requests : \/ \E q \in Inputs : Receive(r, q)
                         \/ Progress(r)
                         \/ Release(r)
  \/ Tick

Spec == Init /\ [][Next]_vars

FairSpec == Spec /\ WF_vars(Tick) /\ \A r \in Requests : WF_vars(Progress(r))

-----------------------------------------------------------------------------
(* Properties                                                              *)

Awaits == {"idle", "reading", "sending", "draining", "closing", "piping", "answered"}

UpstreamResults == [status : Statuses \cup {None},
                    reason : {None, "timeout", "unreachable", "broken"}]

\* Every variable has its type.
TypeOK ==
  /\ health \in [Providers -> HealthRecords]
  /\ pc \in [Requests -> Awaits]
  /\ inp \in [Requests -> Inputs \cup {None}]
  /\ target \in [Requests -> Providers \cup {None}]
  /\ upstream \in [Requests -> UpstreamResults]
  /\ conn \in [Requests -> {"none", "open", "closed", "abandoned"}]
  /\ reply \in [Requests -> Codes \cup {None}]

\* A provider that was down when the configuration was loaded stays down for
\* good and no request ever reaches it: mark_down(), which would turn its
\* permanent down into one that expires, never meets it.
PermanentStaysDown ==
  \A p \in Blocked : /\ health[p] = Permanent
                     /\ \A r \in Requests : target[r] # p

\* Only a request with llmport's key leads to an upstream exchange, and none
\* does when no key is configured (the middleware fails closed).
AuthorisedContact ==
  \A r \in Requests : target[r] # None =>
    KeyConfigured /\ inp[r].credential = "valid"

\* Error handling is transparent.  An upstream error status reaches the client
\* as it is, on all four paths (direct or translated, streaming or not); the
\* client is told of success only when the upstream reported none but success;
\* a 504 of the gateway's own stands for an upstream that did not respond.
Transparent ==
  \A r \in Requests : target[r] # None /\ reply[r] # None =>
    LET u == upstream[r] IN
    /\ u.status # None /\ u.status >= 400 => reply[r] = u.status
    /\ reply[r] < 400 => u.status # None /\ u.status < 400
    /\ reply[r] = 504 /\ u.status = None <=> u.reason \in {"timeout", "unreachable"}

\* What holds of a request at each of its awaits.
Coherent(r) ==
  LET u == upstream[r]
      error == u.status \in Statuses /\ u.status >= 400 /\ u.reason = None
      success == u.status \in Statuses /\ u.status < 400 /\ u.reason = None
  IN
  /\ target[r] # None => /\ target[r] \in Providers \ Blocked
                         /\ KeyConfigured /\ inp[r].credential = "valid"
  /\ pc[r] \in {"idle", "reading"} => target[r] = None
  /\ pc[r] \in {"idle", "reading", "sending"} =>
       u = Pending /\ conn[r] = "none" /\ reply[r] = None
  /\ pc[r] = "reading" => inp[r] \in Inputs /\ Gate(inp[r]) = None
  /\ pc[r] \in {"sending", "draining", "closing", "piping"} => target[r] # None
  /\ pc[r] = "draining" => error /\ conn[r] = "open" /\ reply[r] = None
  /\ pc[r] = "piping" => success /\ conn[r] = "open" /\ reply[r] = 200
  /\ pc[r] = "closing" => \/ error /\ conn[r] = "open" /\ reply[r] = None
                          \/ success /\ conn[r] = "open" /\ reply[r] = 200
  /\ pc[r] = "answered" => /\ reply[r] # None
                           /\ target[r] = None => u = Pending /\ conn[r] = "none"
                           /\ conn[r] = "open" => u.reason = "broken"
                           /\ conn[r] = "abandoned" => success
                           /\ target[r] # None =>
                                \/ error /\ reply[r] = u.status
                                \/ success /\ reply[r] \in {u.status, 200, 500}
                                \/ u = NotAnswered("broken") /\ reply[r] = 500
                                \/ /\ u \in {NotAnswered("timeout"), NotAnswered("unreachable")}
                                   /\ reply[r] = 504

\* A down without a deadline is a blocked provider's, and only theirs.
HealthSound ==
  \A p \in Providers : IF p \in Blocked
                       THEN health[p] = Permanent
                       ELSE health[p].status = "down" <=> health[p].until # None

\* The inductive invariant: no request in flight is bound for a blocked
\* provider, so none can turn its permanent down into a temporary one.
IInv ==
  /\ TypeOK
  /\ HealthSound
  /\ \A r \in Requests : Coherent(r)

\* Whatever ends an exchange with a failing provider leaves it down, for the
\* whole cooldown, in the step that answers the client: the next request is
\* already routed around it.
FailureCoolsDown ==
  [][\A r \in Requests :
       reply[r] = None /\ reply'[r] # None /\ Failed(upstream'[r])
         => health'[target[r]] = MarkDown(health[target[r]])]_vars

\* A provider goes down only through its own failure: no client's bad request,
\* however it fails, takes a provider away from the others.
OnlyFailureMarksDown ==
  [][\A p \in Providers :
       ~IsDown(health[p]) /\ IsDown(health[p])'
         => \E r \in Requests : /\ target[r] = p /\ Failed(upstream'[r])
                                /\ reply[r] = None /\ reply'[r] # None]_vars

\* A stream that was opened is closed by the time the request is over, unless
\* the transport broke under the code or the client left a successful stream
\* before its pipe began: then nothing closes it.
StreamsClosedUnlessBroken ==
  \A r \in Requests : pc[r] = "answered" =>
    /\ conn[r] = "open" => upstream[r].reason = "broken"
    /\ conn[r] = "abandoned" => upstream[r].status # None /\ upstream[r].status < 400

\* The down of a provider that was usable once ends: requests that were in
\* flight when it went down can extend the cooldown, but not for ever.
TemporaryDownEnds ==
  \A p \in Providers \ Blocked : IsDown(health[p]) ~> ~IsDown(health[p])

\* Every request is answered, whatever the upstream does.
EveryRequestAnswered ==
  \A r \in Requests : pc[r] = "reading" ~> pc[r] = "answered"

\* The gateway implements the failover it promises.
VerdictOf(r) ==
  CASE target[r] = None \/ reply[r] = None                                 -> "pending"
    [] target[r] # None /\ reply[r] # None /\ Failed(upstream[r])          -> "failed"
    [] target[r] # None /\ reply[r] # None /\ ~Failed(upstream[r])         -> "released"

TicksLeft(h) == IF h.until = None THEN 0 ELSE h.until

F == INSTANCE Failover WITH
       breaker <- [p \in Providers |-> TicksLeft(health[p])],
       serving <- target,
       verdict <- [r \in Requests |-> VerdictOf(r)]

ImplementsFailover == F!AbstractSpec

-----------------------------------------------------------------------------
(* What the documentation says and the code does not do                    *)

\* server.py says that a provider that fails is marked down.  A connection
\* that breaks (httpx.ReadError, RemoteProtocolError) is a failure too.
EveryFailureMarksDown ==
  [][\A r \in Requests :
       reply[r] = None /\ reply'[r] # None /\ upstream'[r].reason = "broken"
         => IsDown(health'[target[r]])]_vars

=============================================================================
