---------------------------- MODULE ToAnthropic -----------------------------
(***************************************************************************)
(* openai_stream_to_anthropic: an OpenAI chunk stream goes in, Anthropic's *)
(* typed blocks come out.  An action is the code from one yield to the     *)
(* next.  view is what a client of the Messages API makes of the events.   *)
(*                                                                         *)
(* Data that is no JSON and chunks without a choice leave no trace and are *)
(* the chunk in which everything is missing.                               *)
(***************************************************************************)
EXTENDS SequencesExt

CONSTANTS
  Pieces,     \* fragments of text or of a call's arguments
  Indexes,    \* the index of a tool call; a missing one counts as 0
  Chunks,     \* the chunks the upstream sends
  MaxChunks,  \* how many of them at most (bound of the model)
  None        \* Python's None, and whatever counts as false

Finishes == {"stop", "length", "tool_calls", "content_filter", "another"}

Calls == [index : Indexes, args : Pieces \cup {None}]

ASSUME ConstantsOK ==
  /\ MaxChunks \in Nat
  /\ "text" \notin Indexes
  /\ None \notin Pieces /\ None \notin Indexes /\ None \notin Nat
  /\ None \notin Finishes /\ None \notin {"end_turn", "max_tokens", "tool_use"}
  /\ Chunks \subseteq [text : Pieces \cup {None}, calls : Seq(Calls), finish : Finishes \cup {None}]

\* What a block holds: the text, or the arguments of one tool call.
Owners == {"text"} \cup Indexes

VARIABLES
  pc,          \* the yield the generator is about to reach
  chunk,       \* what is left of the chunk in work
  textBlock,   \* text_block_index
  nextIndex,   \* next_index
  blockOf,     \* tool_call_to_block
  openBlocks,  \* open_blocks
  closing,     \* the open blocks still to be closed
  stop,        \* the stop reason to be sent
  finished,    \* finished
  view,        \* what the client has made of the events
  given,       \* what the upstream has sent for each owner until its finish
  finish,      \* its first finish_reason
  trailing,    \* it has sent more after that
  received     \* the number of its chunks

code == <<pc, chunk, textBlock, nextIndex, blockOf, openBlocks, closing, stop, finished>>
history == <<given, finish, trailing, received>>
vars == <<code, view, history>>

-----------------------------------------------------------------------------
(* The client: what an Anthropic SDK accepts and accumulates               *)

Events == {"message_start", "content_block_start", "content_block_delta",
           "content_block_stop", "message_delta", "message_stop"}

StopReasons == {"end_turn", "max_tokens", "tool_use"}

Event(type, index, data) == [type |-> type, index |-> index, data |-> data]

\* Block i of the client's message is open.
IsOpen(v, i) == i \in Nat /\ i < Len(v.blocks) /\ v.blocks[i + 1].open

\* Event e makes sense to a client that has seen v.
Legal(v, e) ==
  /\ v.started <=> e.type # "message_start"
  /\ e.type = "content_block_start" => e.index = Len(v.blocks) /\ v.reason = None
  /\ e.type \in {"content_block_delta", "content_block_stop"} => IsOpen(v, e.index)
  /\ e.type = "message_delta" =>
       v.reason = None /\ \A i \in DOMAIN v.blocks : ~v.blocks[i].open
  /\ e.type = "message_stop" => v.reason # None

Accumulate(v, e) ==
  CASE e.type = "message_start" -> [v EXCEPT !.started = TRUE]
    [] e.type = "content_block_start" ->
         [v EXCEPT !.blocks = Append(@, [owner |-> e.data, data |-> <<>>, open |-> TRUE])]
    [] e.type = "content_block_delta" ->
         [v EXCEPT !.blocks[e.index + 1].data = Append(@, e.data)]
    [] e.type = "content_block_stop" -> [v EXCEPT !.blocks[e.index + 1].open = FALSE]
    [] e.type = "message_delta" -> [v EXCEPT !.reason = e.data]
    [] e.type = "message_stop" -> [v EXCEPT !.over = TRUE]

\* The client's view after e.  A client is done at message_stop.
After(v, e) ==
  CASE v.over                    -> [v EXCEPT !.late = TRUE]
    [] ~v.over /\ Legal(v, e)    -> Accumulate(v, e)
    [] ~v.over /\ ~Legal(v, e)   -> [v EXCEPT !.garbled = TRUE]

Blank == [started |-> FALSE, blocks |-> <<>>, reason |-> None, over |-> FALSE,
          garbled |-> FALSE, late |-> FALSE]

Emit(type, index, data) == view' = After(view, Event(type, index, data))

-----------------------------------------------------------------------------
(* The generator                                                           *)

Nothing == [text |-> None, calls |-> <<>>, finish |-> None]

\* Mutant: the reason is passed on unmapped.
StopReasonUnmapped(f) == IF f = None THEN "end_turn" ELSE f

StopReason(f) ==
  CASE f = "length"     -> "max_tokens"
    [] f = "tool_calls" -> "tool_use"
    [] OTHER            -> "end_turn"

Init ==
  /\ pc = "start" /\ chunk = Nothing
  /\ textBlock = None /\ nextIndex = 0 /\ blockOf = [i \in Indexes |-> None]
  /\ openBlocks = <<>> /\ closing = <<>> /\ stop = None /\ finished = FALSE
  /\ view = Blank
  /\ given = [o \in {} |-> <<>>] /\ finish = None /\ trailing = FALSE /\ received = 0

\* Block nextIndex is opened.
Open(owner) ==
  /\ Emit("content_block_start", nextIndex, owner)
  /\ openBlocks' = Append(openBlocks, nextIndex)
  /\ nextIndex' = nextIndex + 1

Start ==
  /\ pc = "start"
  /\ Emit("message_start", None, None)
  /\ pc' = "read"
  /\ UNCHANGED <<chunk, textBlock, nextIndex, blockOf, openBlocks, closing, stop, finished, history>>

\* The arguments that tc has for the call at index i, and all that calls have.
Piece(tc, i) == IF tc.index = i /\ tc.args # None THEN <<tc.args>> ELSE <<>>

ArgsFor(calls, i) ==
  LET upTo[n \in 0..Len(calls)] ==
        IF n = 0 THEN <<>> ELSE upTo[n - 1] \o Piece(calls[n], i)
  IN  upTo[Len(calls)]

\* The pieces chunk k has for owner o, and the owners it names.
PiecesFor(k, o) ==
  IF o # "text" THEN ArgsFor(k.calls, o)
  ELSE IF k.text = None THEN <<>> ELSE <<k.text>>

OwnersIn(k) ==
  (IF k.text = None THEN {} ELSE {"text"}) \cup {k.calls[j].index : j \in DOMAIN k.calls}

Supplied(k) ==
  [o \in DOMAIN given \cup OwnersIn(k) |->
     (IF o \in DOMAIN given THEN given[o] ELSE <<>>) \o PiecesFor(k, o)]

Receive(k) ==
  /\ pc = "read" /\ received < MaxChunks
  /\ chunk' = k
  /\ pc' = "text"
  /\ received' = received + 1
  /\ IF finish = None
       THEN given' = Supplied(k) /\ finish' = k.finish /\ UNCHANGED trailing
       ELSE /\ trailing' = (trailing \/ OwnersIn(k) # {})
            /\ UNCHANGED <<given, finish>>
  /\ UNCHANGED <<textBlock, nextIndex, blockOf, openBlocks, closing, stop, finished, view>>

NoText ==
  /\ pc = "text" /\ chunk.text = None
  /\ pc' = "calls"
  /\ UNCHANGED <<chunk, textBlock, nextIndex, blockOf, openBlocks, closing, stop, finished,
                 view, history>>

\* Mutant: text that comes after a tool call gets a block of its own.
StartTextAnew ==
  /\ pc = "text" /\ chunk.text # None
  /\ textBlock = None \/ textBlock # nextIndex - 1
  /\ textBlock' = nextIndex
  /\ Open("text")
  /\ UNCHANGED <<pc, chunk, blockOf, closing, stop, finished, history>>

StartText ==
  /\ pc = "text" /\ chunk.text # None /\ textBlock = None
  /\ textBlock' = nextIndex
  /\ Open("text")
  /\ UNCHANGED <<pc, chunk, blockOf, closing, stop, finished, history>>

TextDelta ==
  /\ pc = "text" /\ chunk.text # None /\ textBlock # None
  /\ Emit("content_block_delta", textBlock, chunk.text)
  /\ pc' = "calls"
  /\ UNCHANGED <<chunk, textBlock, nextIndex, blockOf, openBlocks, closing, stop, finished, history>>

\* Mutant: the block is not noted as open.
StartCallUnnoted ==
  /\ pc = "calls" /\ chunk.calls # <<>> /\ blockOf[Head(chunk.calls).index] = None
  /\ blockOf' = [blockOf EXCEPT ![Head(chunk.calls).index] = nextIndex]
  /\ Emit("content_block_start", nextIndex, Head(chunk.calls).index)
  /\ nextIndex' = nextIndex + 1
  /\ UNCHANGED <<pc, chunk, textBlock, openBlocks, closing, stop, finished, history>>

\* The first sight of a tool call.
StartCall ==
  /\ pc = "calls" /\ chunk.calls # <<>> /\ blockOf[Head(chunk.calls).index] = None
  /\ blockOf' = [blockOf EXCEPT ![Head(chunk.calls).index] = nextIndex]
  /\ Open(Head(chunk.calls).index)
  /\ UNCHANGED <<pc, chunk, textBlock, closing, stop, finished, history>>

\* Mutant: arguments go to the block that was opened last.
CallDeltaToLast ==
  /\ pc = "calls" /\ chunk.calls # <<>> /\ blockOf[Head(chunk.calls).index] # None
  /\ LET tc == Head(chunk.calls) IN
       IF tc.args # None THEN Emit("content_block_delta", nextIndex - 1, tc.args)
                         ELSE UNCHANGED view
  /\ chunk' = [chunk EXCEPT !.calls = Tail(@)]
  /\ UNCHANGED <<pc, textBlock, nextIndex, blockOf, openBlocks, closing, stop, finished, history>>

CallDelta ==
  /\ pc = "calls" /\ chunk.calls # <<>> /\ blockOf[Head(chunk.calls).index] # None
  /\ LET tc == Head(chunk.calls) IN
       IF tc.args # None THEN Emit("content_block_delta", blockOf[tc.index], tc.args)
                         ELSE UNCHANGED view
  /\ chunk' = [chunk EXCEPT !.calls = Tail(@)]
  /\ UNCHANGED <<pc, textBlock, nextIndex, blockOf, openBlocks, closing, stop, finished, history>>

\* The first finish_reason closes the message; later ones are ignored.
EndOfChunk ==
  /\ pc = "calls" /\ chunk.calls = <<>>
  /\ chunk' = Nothing
  /\ IF chunk.finish # None /\ ~finished
       THEN pc' = "close" /\ closing' = openBlocks /\ stop' = StopReason(chunk.finish)
       ELSE pc' = "read" /\ UNCHANGED <<closing, stop>>
  /\ UNCHANGED <<textBlock, nextIndex, blockOf, openBlocks, finished, view, history>>

\* Mutant: a stream that has finished is closed once more.
EndTwice ==
  /\ pc = "read"
  /\ pc' = "close-at-end" /\ closing' = openBlocks /\ stop' = "end_turn"
  /\ UNCHANGED <<chunk, textBlock, nextIndex, blockOf, openBlocks, finished, view, history>>

\* [DONE], or the upstream's stream ends: close what is not closed yet.
End ==
  /\ pc = "read"
  /\ IF finished
       THEN pc' = "over" /\ UNCHANGED <<closing, stop>>
       ELSE pc' = "close-at-end" /\ closing' = openBlocks /\ stop' = "end_turn"
  /\ UNCHANGED <<chunk, textBlock, nextIndex, blockOf, openBlocks, finished, view, history>>

Closes == {"close", "close-at-end"}

CloseBlock ==
  /\ pc \in Closes /\ closing # <<>>
  /\ Emit("content_block_stop", Head(closing), None)
  /\ closing' = Tail(closing)
  /\ UNCHANGED <<pc, chunk, textBlock, nextIndex, blockOf, openBlocks, stop, finished, history>>

MessageDelta ==
  /\ pc \in Closes /\ closing = <<>>
  /\ Emit("message_delta", None, stop)
  /\ pc' = IF pc = "close" THEN "stop" ELSE "stop-at-end"
  /\ UNCHANGED <<chunk, textBlock, nextIndex, blockOf, openBlocks, closing, stop, finished, history>>

\* The generator goes on reading after the message_stop for a finish_reason.
MessageStop ==
  /\ pc \in {"stop", "stop-at-end"}
  /\ Emit("message_stop", None, None)
  /\ IF pc = "stop" THEN pc' = "read" /\ finished' = TRUE
                    ELSE pc' = "over" /\ UNCHANGED finished
  /\ UNCHANGED <<chunk, textBlock, nextIndex, blockOf, openBlocks, closing, stop, history>>

\* The client goes away at a yield, the transport breaks, or a field has an
\* unexpected type: the generator ends where it is.
Cut ==
  /\ pc \notin {"over", "cut"}
  /\ pc' = "cut"
  /\ UNCHANGED <<chunk, textBlock, nextIndex, blockOf, openBlocks, closing, stop, finished,
                 view, history>>

Next ==
  \/ Start \/ NoText \/ StartText \/ TextDelta \/ StartCall \/ CallDelta \/ EndOfChunk
  \/ End \/ CloseBlock \/ MessageDelta \/ MessageStop \/ Cut
  \/ \E k \in Chunks : Receive(k)

Spec == Init /\ [][Next]_vars

-----------------------------------------------------------------------------
(* Properties                                                              *)

Blocks == [owner : Owners, data : Seq(Pieces), open : BOOLEAN]

Views == [started : BOOLEAN, blocks : Seq(Blocks), reason : StopReasons \cup {None},
          over : BOOLEAN, garbled : BOOLEAN, late : BOOLEAN]

\* The types of the code's variables and of the view.
CodeTyped ==
  /\ pc \in {"start", "read", "text", "calls", "stop", "stop-at-end", "over", "cut"} \cup Closes
  /\ chunk \in [text : Pieces \cup {None}, calls : Seq(Calls), finish : Finishes \cup {None}]
  /\ textBlock \in Nat \cup {None}
  /\ nextIndex \in Nat
  /\ blockOf \in [Indexes -> Nat \cup {None}]
  /\ openBlocks \in Seq(Nat) /\ closing \in Seq(Nat)
  /\ stop \in StopReasons \cup {None}
  /\ finished \in BOOLEAN
  /\ view \in Views

\* Every variable has its type.
TypeOK ==
  /\ CodeTyped
  /\ DOMAIN given \subseteq Owners /\ \A o \in DOMAIN given : given[o] \in Seq(Pieces)
  /\ finish \in Finishes \cup {None} /\ trailing \in BOOLEAN /\ received \in 0..MaxChunks

\* Up to message_stop the client can follow the stream, whatever the upstream
\* sends: blocks are numbered in order, a delta or stop is for an open block,
\* and every block is closed before the message ends.
WellFormed == ~view.garbled

Stops == {"stop", "stop-at-end"}

\* How the client's view and the code's variables hang together as long as the
\* message goes on: the code's open blocks are the client's, numbered alike, and
\* while they are being closed those in closing are the ones still open.
InStep ==
  /\ view.started <=> pc # "start"
  /\ view.reason # None <=> pc \in Stops
  /\ Len(view.blocks) = nextIndex /\ Len(openBlocks) = nextIndex
  /\ \A i \in 1..nextIndex : openBlocks[i] = i - 1
  /\ textBlock # None => textBlock < nextIndex
  /\ \A t \in Indexes : blockOf[t] # None => blockOf[t] < nextIndex
  /\ pc \notin Closes \cup Stops => \A i \in 1..nextIndex : view.blocks[i].open
  /\ pc \in Closes =>
       /\ stop # None
       /\ Len(closing) <= nextIndex
       /\ \A j \in 1..Len(closing) : closing[j] = nextIndex - Len(closing) + j - 1
       /\ \A i \in 1..nextIndex : view.blocks[i].open <=> i > nextIndex - Len(closing)

\* The inductive invariant.
IInv ==
  /\ CodeTyped
  /\ ~view.garbled
  /\ finished \/ pc = "over" => view.over
  /\ pc # "cut" /\ ~view.over => InStep

\* Each block carries the pieces of its owner, in their order, none twice and
\* none from another call: interleaved calls are not mixed up.
Unmixed ==
  \A i \in DOMAIN view.blocks :
    LET b == view.blocks[i] IN
    /\ b.owner \in DOMAIN given /\ IsPrefix(b.data, given[b.owner])
    /\ \A j \in DOMAIN view.blocks : view.blocks[j].owner = b.owner => i = j

\* openai_to_anthropic_response on the same completion sent in one piece.
Response ==
  [content |-> {[owner |-> o, data |-> given[o]] : o \in DOMAIN given},
   reason  |-> StopReason(finish)]

\* A client that streams and one that does not are told the same: content, up
\* to the place of the text among the calls, and the reason for its end.
AsInOnePiece ==
  view.over =>
    [content |-> {[owner |-> b.owner, data |-> b.data] : b \in ToSet(view.blocks)},
     reason  |-> view.reason] = Response

\* A stream that is not cut ends with one message_stop, also when the upstream
\* sends no finish_reason, several, or no [DONE]; and what is sent after it is
\* there only because the upstream sent content after its own finish_reason.
EndsOnce ==
  /\ pc = "over" => view.over
  /\ view.late => trailing

=============================================================================
