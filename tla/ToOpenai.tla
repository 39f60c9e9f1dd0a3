------------------------------ MODULE ToOpenai ------------------------------
(***************************************************************************)
(* anthropic_stream_to_openai: Anthropic's typed blocks go in, OpenAI      *)
(* chunks come out.  An upstream event leads to one chunk at most, so that *)
(* an action reads an event and yields its chunk.  view is what an OpenAI  *)
(* client makes of the chunks.                                             *)
(***************************************************************************)
EXTENDS SequencesExt

CONSTANTS
  Pieces,       \* fragments of text or of a call's input
  Kinds,        \* the block types the upstream uses, of BlockKinds
  MaxBlocks,    \* how many blocks (bound of the model)
  MaxPieces,    \* how many pieces in each (bound of the model)
  None          \* Python's None

\* Another kind is thinking, or a call of a tool that the server runs itself.
BlockKinds == {"text", "tool_use", "server_tool_use"}

ASSUME ConstantsOK ==
  /\ Kinds \subseteq BlockKinds
  /\ MaxBlocks \in Nat /\ MaxPieces \in Nat
  /\ None \notin Pieces /\ None \notin Nat /\ None \notin {"max_tokens", "tool_use"}

VARIABLES
  pc,           \* the generator reads, sends its last chunks, or is done
  toolIndexOf,  \* tool_index_map
  nextCall,     \* next_tc
  finished,     \* finished
  view,         \* what the client has made of the chunks
  blocks,       \* what the upstream has sent: its blocks
  stop,         \* its stop_reason
  phase         \* how far its message is

code == <<pc, toolIndexOf, nextCall, finished>>
upstream == <<blocks, stop, phase>>
vars == <<code, view, upstream>>

-----------------------------------------------------------------------------
(* The client: what an OpenAI SDK accumulates                              *)

Blank == [text |-> <<>>, calls |-> <<>>, finishes |-> <<>>, done |-> FALSE, garbled |-> FALSE]

\* A chunk with delta.content.
Content(piece) ==
  view' = [view EXCEPT !.text = Append(@, piece), !.garbled = @ \/ view.finishes # <<>>]

\* A chunk that opens tool call i, for the upstream's block b: calls come in
\* order and before the finish_reason.
NewCall(i, b) ==
  view' = [view EXCEPT !.calls = Append(@, [block |-> b, args |-> <<>>]),
                       !.garbled = @ \/ i # Len(view.calls) \/ view.finishes # <<>>]

\* A chunk with arguments for tool call i.
Arguments(i, piece) ==
  view' = IF i < Len(view.calls)
            THEN [view EXCEPT !.calls[i + 1].args = Append(@, piece),
                              !.garbled = @ \/ view.finishes # <<>>]
            ELSE [view EXCEPT !.garbled = TRUE]

Finish(reason) == view' = [view EXCEPT !.finishes = Append(@, reason)]

-----------------------------------------------------------------------------
(* The generator, fed by an upstream that follows its protocol             *)

StopReasons == {"end_turn", "max_tokens", "stop_sequence", "tool_use", "another"}

\* Mutant: the reason is passed on unmapped.
FinishReasonUnmapped(s) == IF s = None THEN "stop" ELSE s

FinishReason(s) ==
  CASE s = "max_tokens" -> "length"
    [] s = "tool_use"   -> "tool_calls"
    [] OTHER            -> "stop"

Init ==
  /\ pc = "read" /\ toolIndexOf = [i \in {} |-> 0] /\ nextCall = 0 /\ finished = FALSE
  /\ view = Blank
  /\ blocks = <<>> /\ stop = None /\ phase = "content"

\* f[x] = y of a dictionary.
Put(f, x, y) == [z \in DOMAIN f \cup {x} |-> IF z = x THEN y ELSE f[z]]

NewBlock(kind) == [kind |-> kind, data |-> <<>>, open |-> TRUE]

\* The upstream may start a block while others are open, but of text only one
\* is open at a time.
MayStart(kind) ==
  /\ pc = "read" /\ phase = "content" /\ Len(blocks) < MaxBlocks
  /\ kind = "text" => \A i \in DOMAIN blocks : blocks[i].kind = "text" => ~blocks[i].open

\* Mutant: a call takes the index of its block.
BlockStartKeepsIndex(kind) ==
  /\ MayStart(kind)
  /\ blocks' = Append(blocks, NewBlock(kind))
  /\ IF kind = "tool_use"
       THEN /\ toolIndexOf' = Put(toolIndexOf, Len(blocks), Len(blocks))
            /\ nextCall' = nextCall + 1
            /\ NewCall(Len(blocks), Len(blocks))
       ELSE UNCHANGED <<toolIndexOf, nextCall, view>>
  /\ UNCHANGED <<pc, finished, stop, phase>>

\* content_block_start.  Only a tool_use leads to a chunk.
BlockStart(kind) ==
  /\ MayStart(kind)
  /\ blocks' = Append(blocks, NewBlock(kind))
  /\ IF kind = "tool_use"
       THEN /\ toolIndexOf' = Put(toolIndexOf, Len(blocks), nextCall)
            /\ nextCall' = nextCall + 1
            /\ NewCall(nextCall, Len(blocks))
       ELSE UNCHANGED <<toolIndexOf, nextCall, view>>
  /\ UNCHANGED <<pc, finished, stop, phase>>

\* Mutant: arguments go to the call that was opened last.
ToolIndexOfLast(i) == IF nextCall = 0 THEN 0 ELSE nextCall - 1

\* The tool call that the arguments in block i belong to.
ToolIndex(i) == IF i \in DOMAIN toolIndexOf THEN toolIndexOf[i] ELSE 0

\* content_block_delta: a piece for block i.
BlockDelta(i, piece) ==
  /\ pc = "read" /\ phase = "content"
  /\ blocks[i].open /\ Len(blocks[i].data) < MaxPieces
  /\ blocks' = [blocks EXCEPT ![i].data = Append(@, piece)]
  /\ IF blocks[i].kind = "text" THEN Content(piece) ELSE Arguments(ToolIndex(i - 1), piece)
  /\ UNCHANGED <<code, stop, phase>>

\* content_block_stop, which the code has no use for.
BlockStop(i) ==
  /\ pc = "read" /\ phase = "content" /\ blocks[i].open
  /\ blocks' = [blocks EXCEPT ![i].open = FALSE]
  /\ UNCHANGED <<code, view, stop, phase>>

\* Mutant: the finish_reason is sent, and not remembered.
MessageDeltaForgotten(s) ==
  /\ pc = "read" /\ phase = "content" /\ \A i \in DOMAIN blocks : ~blocks[i].open
  /\ stop' = s /\ phase' = "ending"
  /\ Finish(FinishReason(s))
  /\ UNCHANGED <<pc, toolIndexOf, nextCall, finished, blocks>>

\* message_delta with the stop_reason.
MessageDelta(s) ==
  /\ pc = "read" /\ phase = "content" /\ \A i \in DOMAIN blocks : ~blocks[i].open
  /\ stop' = s /\ phase' = "ending"
  /\ Finish(FinishReason(s))
  /\ finished' = TRUE
  /\ UNCHANGED <<pc, toolIndexOf, nextCall, blocks>>

\* error, which the code ignores.
Error ==
  /\ pc = "read" /\ phase = "content"
  /\ phase' = "failed"
  /\ UNCHANGED <<code, view, blocks, stop>>

\* message_stop, [DONE] or the end of the upstream's stream.
End ==
  /\ pc = "read"
  /\ pc' = "closing"
  /\ IF finished THEN UNCHANGED view ELSE Finish("stop")
  /\ UNCHANGED <<toolIndexOf, nextCall, finished, upstream>>

Done ==
  /\ pc = "closing"
  /\ pc' = "over"
  /\ view' = [view EXCEPT !.done = TRUE]
  /\ UNCHANGED <<toolIndexOf, nextCall, finished, upstream>>

\* The client goes away, or the transport breaks, at a yield or an await.
Cut ==
  /\ pc \in {"read", "closing"}
  /\ pc' = "cut"
  /\ UNCHANGED <<toolIndexOf, nextCall, finished, view, upstream>>

Next ==
  \/ \E kind \in Kinds : BlockStart(kind)
  \/ \E i \in DOMAIN blocks : BlockStop(i) \/ \E piece \in Pieces : BlockDelta(i, piece)
  \/ \E s \in StopReasons : MessageDelta(s)
  \/ Error \/ End \/ Done \/ Cut

Spec == Init /\ [][Next]_vars

-----------------------------------------------------------------------------
(* Properties                                                              *)

\* Every variable has its type.
TypeOK ==
  /\ pc \in {"read", "closing", "over", "cut"}
  /\ DOMAIN toolIndexOf \subseteq Nat
  /\ \A i \in DOMAIN toolIndexOf : toolIndexOf[i] \in Nat
  /\ nextCall \in Nat /\ finished \in BOOLEAN
  /\ view \in [text : Seq(Pieces), calls : Seq([block : Nat, args : Seq(Pieces)]),
               finishes : Seq({"stop", "length", "tool_calls"}),
               done : BOOLEAN, garbled : BOOLEAN]
  /\ blocks \in Seq([kind : BlockKinds, data : Seq(Pieces), open : BOOLEAN])
  /\ stop \in StopReasons \cup {None}
  /\ phase \in {"content", "ending", "failed"}

\* The client can follow the stream: calls are numbered in order, arguments
\* belong to a call that is open, and the finish_reason comes after both.
WellFormed == ~view.garbled

\* Each call has the input of its own block, in order, also when the upstream
\* interleaves blocks and puts text between them.
Unmixed ==
  \A i \in DOMAIN view.calls :
    LET call == view.calls[i] IN
    /\ blocks[call.block + 1].kind = "tool_use"
    /\ call.args = blocks[call.block + 1].data

\* What each block adds to text_parts and to tool_calls.
TextParts == [i \in DOMAIN blocks |-> IF blocks[i].kind = "text" THEN blocks[i].data ELSE <<>>]
CallParts == [i \in DOMAIN blocks |-> IF blocks[i].kind = "tool_use" THEN <<blocks[i].data>> ELSE <<>>]

\* anthropic_to_openai_response on the same message sent in one piece.
Response == [text |-> FlattenSeq(TextParts), calls |-> FlattenSeq(CallParts),
             finish |-> FinishReason(stop)]

\* A client that streams and one that does not are told the same, unless the
\* upstream reports an error: the text, the calls and, once and only once, the
\* reason for the end.
AsInOnePiece ==
  view.done /\ phase # "failed" =>
    /\ view.text = Response.text
    /\ [j \in DOMAIN view.calls |-> view.calls[j].args] = Response.calls
    /\ view.finishes = <<Response.finish>>

=============================================================================
