------------------------- MODULE ToAnthropicProofs --------------------------
(* Theorems about ToAnthropic, for any pieces, tool calls and chunks and    *)
(* any number of them.                                                     *)
EXTENDS ToAnthropic, SequenceTheorems, WellFoundedInduction, TLAPS

\* None is none of the values that take its place.
LEMMA NoneApart ==
  /\ None \notin Nat /\ None \notin Pieces /\ None \notin StopReasons
  /\ \A f : StopReason(f) \in StopReasons
BY ConstantsOK DEF StopReasons, StopReason

\* What a client makes of an event is a view again; once its message is over,
\* no event garbles it or brings it back.
LEMMA AfterOver ==
  ASSUME NEW v \in Views, NEW e, v.over
  PROVE  /\ After(v, e) \in Views /\ After(v, e).over
         /\ After(v, e).garbled = v.garbled
         /\ After(v, e).blocks = v.blocks /\ After(v, e).reason = v.reason
BY DEF After, Views

\* What a client makes of an event that it can follow.
LEMMA AfterLegal ==
  ASSUME NEW v \in Views, ~v.over, NEW e, Legal(v, e)
  PROVE  /\ e.type = "content_block_start" => After(v, e) =
              [v EXCEPT !.blocks = Append(v.blocks, [owner |-> e.data, data |-> <<>>, open |-> TRUE])]
         /\ e.type = "content_block_delta" => After(v, e) =
              [v EXCEPT !.blocks = [v.blocks EXCEPT ![e.index + 1] =
                 [v.blocks[e.index + 1] EXCEPT !.data = Append(v.blocks[e.index + 1].data, e.data)]]]
         /\ e.type = "content_block_stop" => After(v, e) =
              [v EXCEPT !.blocks = [v.blocks EXCEPT ![e.index + 1] =
                 [v.blocks[e.index + 1] EXCEPT !.open = FALSE]]]
         /\ e.type = "message_start" => After(v, e) = [v EXCEPT !.started = TRUE]
         /\ e.type = "message_delta" => After(v, e) = [v EXCEPT !.reason = e.data]
         /\ e.type = "message_stop" => After(v, e) = [v EXCEPT !.over = TRUE]
<1>1. After(v, e) = Accumulate(v, e)
  BY Zenon DEF After
<1>2. CASE e.type = "content_block_start"
  BY <1>1, <1>2, Zenon DEF Accumulate
<1>3. CASE e.type = "content_block_delta"
  BY <1>1, <1>3, Zenon DEF Accumulate
<1>4. CASE e.type = "content_block_stop"
  BY <1>1, <1>4, Zenon DEF Accumulate
<1>5. CASE e.type = "message_start"
  BY <1>1, <1>5, Zenon DEF Accumulate
<1>6. CASE e.type = "message_delta"
  BY <1>1, <1>6, Zenon DEF Accumulate
<1>7. CASE e.type = "message_stop"
  BY <1>1, <1>7, Zenon DEF Accumulate
<1> QED BY <1>2, <1>3, <1>4, <1>5, <1>6, <1>7, Zenon

\* A client that is not done follows a block's start ...
LEMMA AfterStart ==
  ASSUME NEW v \in Views, ~v.over, v.started, v.reason = None,
         NEW owner \in Owners
  PROVE  LET w == After(v, Event("content_block_start", Len(v.blocks), owner)) IN
         /\ w \in Views /\ ~w.over /\ w.started /\ w.reason = None /\ w.garbled = v.garbled
         /\ w.late = v.late
         /\ Len(w.blocks) = Len(v.blocks) + 1
         /\ \A i \in 1..Len(v.blocks) :
              w.blocks[i] = v.blocks[i] /\ (w.blocks[i].open <=> v.blocks[i].open)
         /\ w.blocks[Len(v.blocks) + 1] = [owner |-> owner, data |-> <<>>, open |-> TRUE]
         /\ w.blocks[Len(v.blocks) + 1].open
<1> DEFINE e == Event("content_block_start", Len(v.blocks), owner)
           b == [owner |-> owner, data |-> <<>>, open |-> TRUE]
           bs == Append(v.blocks, b)
<1>1. Legal(v, e)
  BY DEF Legal, Event, Views
<1>2. After(v, e) = [v EXCEPT !.blocks = bs]
  <2>1. e.type = "content_block_start" /\ e.index = Len(v.blocks) /\ e.data = owner
    BY DEF Event
  <2> HIDE DEF e
  <2> QED BY <1>1, <2>1, AfterLegal, Zenon
<1>3. b \in Blocks
  BY DEF Blocks
<1>4. bs \in Seq(Blocks) /\ Len(bs) = Len(v.blocks) + 1 /\ bs[Len(v.blocks) + 1] = b
      /\ \A i \in 1..Len(v.blocks) : bs[i] = v.blocks[i]
  BY <1>3 DEF Views
<1> HIDE DEF b, bs, e
<1>5. [v EXCEPT !.blocks = bs] \in Views
  BY <1>4 DEF Views
<1>6. b.open
  BY DEF b
<1> QED BY <1>2, <1>4, <1>5, <1>6 DEF e, b, Views

\* ... a piece for an open block ...
LEMMA AfterDelta ==
  ASSUME NEW v \in Views, ~v.over, v.started, NEW i, IsOpen(v, i), NEW piece \in Pieces
  PROVE  LET w == After(v, Event("content_block_delta", i, piece)) IN
         /\ w \in Views /\ ~w.over /\ w.started /\ w.reason = v.reason /\ w.garbled = v.garbled
         /\ w.late = v.late
         /\ Len(w.blocks) = Len(v.blocks)
         /\ \A j \in 1..Len(v.blocks) : w.blocks[j].open <=> v.blocks[j].open
         /\ \A j \in 1..Len(v.blocks) : w.blocks[j].owner = v.blocks[j].owner
         /\ \A j \in 1..Len(v.blocks) :
              w.blocks[j].data = IF j = i + 1 THEN Append(v.blocks[j].data, piece)
                                              ELSE v.blocks[j].data
<1> DEFINE e == Event("content_block_delta", i, piece)
           b == [v.blocks[i + 1] EXCEPT !.data = Append(v.blocks[i + 1].data, piece)]
           bs == [v.blocks EXCEPT ![i + 1] = b]
<1>0. i \in Nat /\ i + 1 \in 1..Len(v.blocks) /\ v.blocks \in Seq(Blocks)
  BY DEF IsOpen, Views
<1>1. Legal(v, e)
  BY DEF Legal, Event
<1>2. After(v, e) = [v EXCEPT !.blocks = bs]
  <2>1. e.type = "content_block_delta" /\ e.index = i /\ e.data = piece
    BY DEF Event
  <2> HIDE DEF e
  <2> QED BY <1>1, <2>1, AfterLegal, Zenon
<1>3. v.blocks[i + 1] \in Blocks
  BY <1>0
<1>4. b \in Blocks /\ b.open = v.blocks[i + 1].open /\ b.owner = v.blocks[i + 1].owner
      /\ b.data = Append(v.blocks[i + 1].data, piece)
  <2>1. Append(v.blocks[i + 1].data, piece) \in Seq(Pieces)
    BY <1>3 DEF Blocks
  <2> DEFINE d == Append(v.blocks[i + 1].data, piece)
  <2> HIDE DEF d
  <2>2. d \in Seq(Pieces)
    BY <2>1 DEF d
  <2>3. [v.blocks[i + 1] EXCEPT !.data = d] \in Blocks
        /\ [v.blocks[i + 1] EXCEPT !.data = d].open = v.blocks[i + 1].open
        /\ [v.blocks[i + 1] EXCEPT !.data = d].owner = v.blocks[i + 1].owner
        /\ [v.blocks[i + 1] EXCEPT !.data = d].data = d
    BY <1>3, <2>2 DEF Blocks
  <2> QED BY <2>3 DEF d
<1> HIDE DEF b
<1>5. bs \in Seq(Blocks) /\ Len(bs) = Len(v.blocks)
      /\ \A j \in 1..Len(v.blocks) : bs[j] = IF j = i + 1 THEN b ELSE v.blocks[j]
  BY <1>0, <1>4, ExceptSeq
<1> HIDE DEF bs, e
<1>6. [v EXCEPT !.blocks = bs] \in Views
  BY <1>5 DEF Views
<1> DEFINE w == After(v, Event("content_block_delta", i, piece))
<1>7. w = [v EXCEPT !.blocks = bs]
  BY <1>2 DEF e
<1> HIDE DEF w
<1>8. /\ w \in Views /\ w.blocks = bs /\ w.late = v.late /\ ~w.over /\ w.started
      /\ w.reason = v.reason /\ w.garbled = v.garbled
  BY <1>6, <1>7 DEF Views
<1>9. \A j \in 1..Len(v.blocks) :
         /\ bs[j].open <=> v.blocks[j].open
         /\ bs[j].owner = v.blocks[j].owner
         /\ bs[j].data = IF j = i + 1 THEN Append(v.blocks[j].data, piece) ELSE v.blocks[j].data
  BY <1>4, <1>5
<1>10. /\ w \in Views /\ ~w.over /\ w.started /\ w.reason = v.reason /\ w.garbled = v.garbled
       /\ w.late = v.late
       /\ Len(w.blocks) = Len(v.blocks)
       /\ \A j \in 1..Len(v.blocks) : w.blocks[j].open <=> v.blocks[j].open
       /\ \A j \in 1..Len(v.blocks) : w.blocks[j].owner = v.blocks[j].owner
       /\ \A j \in 1..Len(v.blocks) :
            w.blocks[j].data = IF j = i + 1 THEN Append(v.blocks[j].data, piece)
                                            ELSE v.blocks[j].data
  BY <1>5, <1>8, <1>9
<1> QED BY <1>10 DEF w

\* ... its end ...
LEMMA AfterStop ==
  ASSUME NEW v \in Views, ~v.over, v.started, NEW i, IsOpen(v, i), NEW data
  PROVE  LET w == After(v, Event("content_block_stop", i, data)) IN
         /\ w \in Views /\ ~w.over /\ w.started /\ w.reason = v.reason /\ w.garbled = v.garbled
         /\ Len(w.blocks) = Len(v.blocks)
         /\ w.late = v.late
         /\ ~w.blocks[i + 1].open
         /\ \A j \in 1..Len(v.blocks) : j # i + 1 => w.blocks[j].open <=> v.blocks[j].open
         /\ \A j \in 1..Len(v.blocks) :
              w.blocks[j].owner = v.blocks[j].owner /\ w.blocks[j].data = v.blocks[j].data
<1> DEFINE e == Event("content_block_stop", i, data)
           b == [v.blocks[i + 1] EXCEPT !.open = FALSE]
           bs == [v.blocks EXCEPT ![i + 1] = b]
<1>0. i \in Nat /\ i + 1 \in 1..Len(v.blocks) /\ v.blocks \in Seq(Blocks)
  BY DEF IsOpen, Views
<1>1. Legal(v, e)
  BY DEF Legal, Event
<1>2. After(v, e) = [v EXCEPT !.blocks = bs]
  <2>1. e.type = "content_block_stop" /\ e.index = i /\ e.data = data
    BY DEF Event
  <2> HIDE DEF e
  <2> QED BY <1>1, <2>1, AfterLegal, Zenon
<1>3. v.blocks[i + 1] \in Blocks
  BY <1>0
<1>4. b \in Blocks /\ ~b.open /\ b.owner = v.blocks[i + 1].owner
      /\ b.data = v.blocks[i + 1].data
  BY <1>3 DEF Blocks
<1> HIDE DEF b
<1>5. bs \in Seq(Blocks) /\ Len(bs) = Len(v.blocks)
      /\ \A j \in 1..Len(v.blocks) : bs[j] = IF j = i + 1 THEN b ELSE v.blocks[j]
  BY <1>0, <1>4, ExceptSeq
<1> HIDE DEF bs, e
<1>6. [v EXCEPT !.blocks = bs] \in Views
  BY <1>5 DEF Views
<1> QED BY <1>0, <1>2, <1>4, <1>5, <1>6 DEF e, Views

\* ... the reason once all blocks are closed ...
LEMMA AfterReason ==
  ASSUME NEW v \in Views, ~v.over, v.started, v.reason = None,
         \A j \in 1..Len(v.blocks) : ~v.blocks[j].open, NEW reason \in StopReasons
  PROVE  LET w == After(v, Event("message_delta", None, reason)) IN
         /\ w \in Views /\ ~w.over /\ w.started /\ w.reason = reason /\ w.garbled = v.garbled
         /\ w.blocks = v.blocks /\ w.late = v.late
<1> DEFINE e == Event("message_delta", None, reason)
<1>1. DOMAIN v.blocks = 1..Len(v.blocks)
  BY DEF Views
<1>2. Legal(v, e)
  BY <1>1 DEF Legal, Event
<1>3. After(v, e) = [v EXCEPT !.reason = reason]
  BY <1>2, AfterLegal DEF Event
<1> QED BY <1>3 DEF Views

\* ... and the end of the message.
LEMMA AfterEnd ==
  ASSUME NEW v \in Views, ~v.over, v.started, v.reason # None
  PROVE  LET w == After(v, Event("message_stop", None, None)) IN
         /\ w \in Views /\ w.over /\ w.garbled = v.garbled
         /\ w.blocks = v.blocks /\ w.reason = v.reason /\ w.late = v.late
<1> DEFINE e == Event("message_stop", None, None)
<1>1. Legal(v, e)
  BY DEF Legal, Event
<1>2. After(v, e) = [v EXCEPT !.over = TRUE]
  BY <1>1, AfterLegal DEF Event
<1> QED BY <1>2 DEF Views

\* The conditions of the invariant hold at the start.
LEMMA InvInit == Init => IInv
<1> SUFFICES ASSUME Init PROVE IInv
  OBVIOUS
<1>1. view \in Views /\ ~view.garbled /\ ~view.over /\ ~view.started
      /\ view.reason = None /\ view.blocks = <<>>
  BY DEF Init, Blank, Views
<1>2. CodeTyped
  <2>1. chunk \in [text : Pieces \cup {None}, calls : Seq(Calls), finish : Finishes \cup {None}]
    BY DEF Init, Nothing
  <2>2. openBlocks \in Seq(Nat) /\ closing \in Seq(Nat)
    BY DEF Init
  <2>3. blockOf \in [Indexes -> Nat \cup {None}]
    BY DEF Init
  <2> QED BY <1>1, <2>1, <2>2, <2>3 DEF Init, CodeTyped
<1>3. InStep
  <2>1. pc = "start" /\ nextIndex = 0 /\ textBlock = None /\ openBlocks = <<>>
        /\ \A t \in Indexes : blockOf[t] = None
    BY DEF Init
  <2>2. 1..nextIndex = {}
    BY <2>1
  <2>3. Len(view.blocks) = 0 /\ Len(openBlocks) = 0
    BY <1>1, <2>1
  <2> QED BY <1>1, <2>1, <2>2, <2>3 DEF InStep, Closes, Stops
<1> QED BY <1>1, <1>2, <1>3 DEF Init, IInv

\* While the message goes on, the next block number is the client's, and a
\* block the code knows is one the client has open.
LEMMA OpenFacts ==
  ASSUME IInv, ~view.over, pc \in {"text", "calls"}
  PROVE  /\ view \in Views /\ view.started /\ view.reason = None
         /\ Len(view.blocks) = nextIndex
         /\ textBlock # None => IsOpen(view, textBlock)
         /\ \A t \in Indexes : blockOf[t] # None => IsOpen(view, blockOf[t])
<1>1. InStep /\ CodeTyped
  BY DEF IInv
<1>2. view \in Views /\ nextIndex \in Nat /\ view.started /\ view.reason = None
      /\ Len(view.blocks) = nextIndex
  BY <1>1 DEF InStep, CodeTyped, Stops
<1>3. \A i \in 1..nextIndex : view.blocks[i].open
  BY <1>1 DEF InStep, Closes, Stops
<1>4. ASSUME NEW i \in Nat, i < nextIndex PROVE IsOpen(view, i)
  <2>1. i + 1 \in 1..nextIndex
    BY <1>2, <1>4
  <2> QED BY <1>2, <1>3, <1>4, <2>1 DEF IsOpen
<1>5. textBlock # None => textBlock \in Nat /\ textBlock < nextIndex
  BY <1>1 DEF InStep, CodeTyped
<1>6. ASSUME NEW t \in Indexes, blockOf[t] # None PROVE IsOpen(view, blockOf[t])
  <2>1. blockOf[t] \in Nat /\ blockOf[t] < nextIndex
    BY <1>1, <1>6 DEF InStep, CodeTyped
  <2> QED BY <2>1, <1>4
<1> QED BY <1>2, <1>4, <1>5, <1>6

\* Opening a block keeps code and client in step.
LEMMA OpenStep ==
  ASSUME IInv, pc \in {"text", "calls"}, NEW owner \in Owners, Open(owner), pc' = pc
  PROVE  /\ view' \in Views /\ ~view'.garbled
         /\ view.over => view'.over
         /\ openBlocks' \in Seq(Nat) /\ nextIndex' \in Nat
         /\ nextIndex < nextIndex'
         /\ ~view'.over =>
              /\ ~view.over
              /\ view'.started /\ view'.reason = None
              /\ Len(view'.blocks) = nextIndex' /\ Len(openBlocks') = nextIndex'
              /\ \A i \in 1..nextIndex' : openBlocks'[i] = i - 1
              /\ \A i \in 1..nextIndex' : view'.blocks[i].open
<1> DEFINE e == Event("content_block_start", nextIndex, owner)
<1>1. view \in Views /\ ~view.garbled /\ nextIndex \in Nat /\ openBlocks \in Seq(Nat)
  BY DEF IInv, CodeTyped
<1>2. view' = After(view, e) /\ nextIndex' = nextIndex + 1
      /\ openBlocks' = Append(openBlocks, nextIndex)
  BY DEF Open, Emit
<1>3. CASE view.over
  BY <1>1, <1>2, <1>3, AfterOver
<1>4. CASE ~view.over
  <2>1. view.started /\ view.reason = None /\ Len(view.blocks) = nextIndex
    BY <1>4, OpenFacts
  <2>2. Len(openBlocks) = nextIndex /\ \A i \in 1..nextIndex : openBlocks[i] = i - 1
    BY <1>4 DEF IInv, InStep
  <2>3. \A i \in 1..nextIndex : view.blocks[i].open
    BY <1>4 DEF IInv, InStep, Closes, Stops
  <2>4. /\ view' \in Views /\ ~view'.over /\ view'.started /\ view'.reason = None
        /\ view'.garbled = view.garbled
        /\ Len(view'.blocks) = nextIndex + 1
        /\ \A i \in 1..nextIndex : view'.blocks[i].open <=> view.blocks[i].open
        /\ view'.blocks[nextIndex + 1].open
    <3> HIDE DEF e
    <3>1. After(view, Event("content_block_start", Len(view.blocks), owner)) = view'
      BY <1>2, <2>1 DEF e
    <3> QED BY <1>1, <1>4, <2>1, <3>1, AfterStart
  <2>5. \A i \in 1..nextIndex' : i \in 1..nextIndex \/ i = nextIndex + 1
    BY <1>1, <1>2
  <2>6. \A i \in 1..nextIndex' : openBlocks'[i] = i - 1
    BY <1>1, <1>2, <2>2, <2>5
  <2>7. \A i \in 1..nextIndex' : view'.blocks[i].open
    BY <2>3, <2>4, <2>5
  <2> QED BY <1>1, <1>2, <1>4, <2>2, <2>4, <2>6, <2>7
<1> QED BY <1>3, <1>4

\* Every action preserves the invariant.
LEMMA InvStep == IInv /\ [Next]_vars => IInv'
<1> SUFFICES ASSUME IInv, [Next]_vars PROVE IInv'
  OBVIOUS
<1> USE NoneApart
<1>0. CodeTyped /\ ~view.garbled /\ view \in Views /\ nextIndex \in Nat
  BY DEF IInv, CodeTyped
<1>1. CASE Start
  <2> DEFINE e == Event("message_start", None, None)
  <2>1. view' = After(view, e)
    BY <1>1 DEF Start, Emit
  <2>2. CASE view.over
    <3>1. view' \in Views /\ view'.over /\ ~view'.garbled
      BY <1>0, <2>1, <2>2, AfterOver
    <3>2. CodeTyped'
      BY <1>0, <1>1, <3>1 DEF Start, CodeTyped
    <3> QED BY <3>1, <3>2 DEF IInv
  <2>3. CASE ~view.over
    <3>1. InStep /\ pc = "start" /\ ~view.started
      BY <1>1, <2>3 DEF IInv, Start, InStep
    <3>2. e.type = "message_start"
      BY DEF Event
    <3>3. Legal(view, e)
      BY <3>1, <3>2 DEF Legal
    <3>4. view' = [view EXCEPT !.started = TRUE]
      <4> HIDE DEF e
      <4> QED BY <1>0, <2>1, <2>3, <3>2, <3>3, AfterLegal
    <3>5. /\ view' \in Views /\ view'.started /\ ~view'.over /\ ~view'.garbled
          /\ view'.blocks = view.blocks /\ view'.reason = view.reason
      BY <1>0, <2>3, <3>4 DEF Views
    <3>6. CodeTyped'
      BY <1>0, <1>1, <3>5 DEF Start, CodeTyped
    <3>7. InStep'
      BY <1>1, <3>1, <3>5 DEF Start, InStep, Closes, Stops
    <3>8. ~finished' /\ pc' # "over"
      BY <1>1, <2>3 DEF IInv, Start
    <3> QED BY <3>5, <3>6, <3>7, <3>8 DEF IInv
  <2> QED BY <2>2, <2>3
<1>2. ASSUME NEW k \in Chunks, Receive(k) PROVE IInv'
  <2>1. k \in [text : Pieces \cup {None}, calls : Seq(Calls), finish : Finishes \cup {None}]
    BY ConstantsOK
  <2>2. CodeTyped'
    BY <1>0, <1>2, <2>1 DEF Receive, CodeTyped
  <2>3. pc = "read" /\ pc' = "text"
        /\ UNCHANGED <<textBlock, nextIndex, blockOf, openBlocks, closing, stop, finished, view>>
    BY <1>2 DEF Receive
  <2>4. InStep => InStep'
    BY <2>3 DEF InStep, Closes, Stops
  <2> QED BY <2>2, <2>3, <2>4 DEF IInv
<1>3. CASE NoText
  <2>1. CodeTyped'
    BY <1>0, <1>3 DEF NoText, CodeTyped
  <2>2. pc = "text" /\ pc' = "calls"
        /\ UNCHANGED <<textBlock, nextIndex, blockOf, openBlocks, closing, stop, finished, view>>
    BY <1>3 DEF NoText
  <2>3. InStep => InStep'
    BY <2>2 DEF InStep, Closes, Stops
  <2> QED BY <2>1, <2>2, <2>3 DEF IInv
<1>4. CASE StartText
  <2>0. pc = "text" /\ pc' = pc /\ Open("text") /\ textBlock' = nextIndex
        /\ UNCHANGED <<chunk, blockOf, closing, stop, finished>>
    BY <1>4 DEF StartText
  <2>1. /\ view' \in Views /\ ~view'.garbled
        /\ view.over => view'.over
        /\ openBlocks' \in Seq(Nat) /\ nextIndex' \in Nat
        /\ nextIndex < nextIndex'
        /\ ~view'.over =>
             /\ ~view.over
             /\ view'.started /\ view'.reason = None
             /\ Len(view'.blocks) = nextIndex' /\ Len(openBlocks') = nextIndex'
             /\ \A i \in 1..nextIndex' : openBlocks'[i] = i - 1
             /\ \A i \in 1..nextIndex' : view'.blocks[i].open
    BY <2>0, OpenStep DEF Owners
  <2>2. CodeTyped'
    BY <1>0, <2>0, <2>1 DEF CodeTyped
  <2>3. ASSUME ~view'.over PROVE InStep'
    <3>1. \A t \in Indexes : blockOf'[t] # None => blockOf'[t] < nextIndex'
      <4>1. \A t \in Indexes : blockOf[t] # None => blockOf[t] < nextIndex /\ blockOf[t] \in Nat
        BY <1>0, <2>0, <2>1, <2>3 DEF IInv, InStep, CodeTyped
      <4> QED BY <1>0, <2>0, <2>1, <4>1
    <3> QED BY <2>0, <2>1, <2>3, <3>1 DEF InStep, Closes, Stops
  <2> QED BY <2>0, <2>1, <2>2, <2>3 DEF IInv
<1>5. CASE TextDelta
  <2> DEFINE e == Event("content_block_delta", textBlock, chunk.text)
  <2>0. pc = "text" /\ pc' = "calls" /\ view' = After(view, e) /\ textBlock # None
        /\ UNCHANGED <<chunk, textBlock, nextIndex, blockOf, openBlocks, closing, stop, finished>>
    BY <1>5 DEF TextDelta, Emit
  <2>1. chunk.text \in Pieces
    BY <1>0, <1>5 DEF TextDelta, CodeTyped
  <2>2. /\ view' \in Views /\ ~view'.garbled /\ view'.over = view.over
        /\ ~view.over => /\ view'.started /\ view'.reason = view.reason
                         /\ Len(view'.blocks) = Len(view.blocks)
                         /\ \A j \in 1..Len(view.blocks) : view'.blocks[j].open <=> view.blocks[j].open
    <3>1. CASE view.over
      <4> HIDE DEF e
      <4>1. After(view, e).over /\ After(view, e) \in Views
            /\ After(view, e).garbled = view.garbled
        BY <1>0, <3>1, AfterOver
      <4> QED BY <1>0, <2>0, <3>1, <4>1
    <3>2. CASE ~view.over
      <4>1. view.started /\ IsOpen(view, textBlock)
        BY <2>0, <3>2, OpenFacts
      <4>2. LET w == After(view, Event("content_block_delta", textBlock, chunk.text)) IN
            /\ w \in Views /\ ~w.over /\ w.started /\ w.reason = view.reason
            /\ w.garbled = view.garbled
            /\ Len(w.blocks) = Len(view.blocks)
            /\ \A j \in 1..Len(view.blocks) : w.blocks[j].open <=> view.blocks[j].open
        BY <1>0, <2>1, <3>2, <4>1, AfterDelta
      <4> QED BY <1>0, <2>0, <3>2, <4>2 DEF Views
    <3> QED BY <3>1, <3>2
  <2>3. CodeTyped'
    BY <1>0, <2>0, <2>2 DEF CodeTyped
  <2>4. ~view.over /\ InStep => InStep'
    BY <2>0, <2>2 DEF InStep, Closes, Stops
  <2> QED BY <2>0, <2>2, <2>3, <2>4 DEF IInv
<1>6. CASE StartCall
  <2> DEFINE t == Head(chunk.calls).index
  <2>0. pc = "calls" /\ pc' = pc /\ Open(t) /\ blockOf' = [blockOf EXCEPT ![t] = nextIndex]
        /\ UNCHANGED <<chunk, textBlock, closing, stop, finished>>
    BY <1>6 DEF StartCall
  <2>1. t \in Indexes
    <3>1. chunk.calls \in Seq(Calls) /\ chunk.calls # <<>>
      BY <1>0, <1>6 DEF StartCall, CodeTyped
    <3>2. Head(chunk.calls) \in Calls
      BY <3>1
    <3> QED BY <3>2 DEF Calls
  <2> HIDE DEF t
  <2>2. /\ view' \in Views /\ ~view'.garbled
        /\ view.over => view'.over
        /\ openBlocks' \in Seq(Nat) /\ nextIndex' \in Nat
        /\ nextIndex < nextIndex'
        /\ ~view'.over =>
             /\ ~view.over
             /\ view'.started /\ view'.reason = None
             /\ Len(view'.blocks) = nextIndex' /\ Len(openBlocks') = nextIndex'
             /\ \A i \in 1..nextIndex' : openBlocks'[i] = i - 1
             /\ \A i \in 1..nextIndex' : view'.blocks[i].open
    BY <2>0, <2>1, OpenStep DEF Owners
  <2>3. blockOf \in [Indexes -> Nat \cup {None}]
    BY <1>0 DEF CodeTyped
  <2>4. CodeTyped'
    BY <1>0, <2>0, <2>1, <2>2, <2>3 DEF CodeTyped
  <2>5. ASSUME ~view'.over PROVE InStep'
    <3>0. InStep
      BY <2>2, <2>5, <2>0 DEF IInv
    <3>1. \A i \in Indexes : blockOf'[i] # None => blockOf'[i] < nextIndex'
      <4>1. \A i \in Indexes : blockOf[i] # None => blockOf[i] < nextIndex /\ blockOf[i] \in Nat
        BY <2>3, <3>0 DEF InStep
      <4> QED BY <1>0, <2>0, <2>2, <2>3, <4>1
    <3>2. textBlock' # None => textBlock' < nextIndex'
      <4>1. textBlock # None => textBlock < nextIndex /\ textBlock \in Nat
        BY <1>0, <3>0 DEF InStep, CodeTyped
      <4> QED BY <1>0, <2>0, <2>2, <4>1
    <3> QED BY <2>0, <2>2, <2>5, <3>1, <3>2 DEF InStep, Closes, Stops
  <2> QED BY <2>0, <2>2, <2>4, <2>5 DEF IInv
<1>7. CASE CallDelta
  <2> DEFINE tc == Head(chunk.calls)
             e == Event("content_block_delta", blockOf[tc.index], tc.args)
  <2>0. pc = "calls" /\ pc' = "calls" /\ chunk' = [chunk EXCEPT !.calls = Tail(@)]
        /\ UNCHANGED <<textBlock, nextIndex, blockOf, openBlocks, closing, stop, finished>>
        /\ IF tc.args # None THEN view' = After(view, e) ELSE UNCHANGED view
    BY <1>7 DEF CallDelta, Emit
  <2>1. chunk.calls \in Seq(Calls) /\ chunk.calls # <<>> /\ blockOf[tc.index] # None
    BY <1>0, <1>7 DEF CallDelta, CodeTyped
  <2>2. tc \in Calls /\ Tail(chunk.calls) \in Seq(Calls)
    BY <2>1
  <2>3. tc.index \in Indexes /\ tc.args \in Pieces \cup {None}
    BY <2>2 DEF Calls
  <2>4. chunk' \in [text : Pieces \cup {None}, calls : Seq(Calls), finish : Finishes \cup {None}]
    BY <1>0, <2>0, <2>2 DEF CodeTyped
  <2> HIDE DEF tc
  <2>5. /\ view' \in Views /\ ~view'.garbled /\ view'.over = view.over
        /\ ~view.over => /\ view'.started = view.started /\ view'.reason = view.reason
                         /\ Len(view'.blocks) = Len(view.blocks)
                         /\ \A j \in 1..Len(view.blocks) : view'.blocks[j].open <=> view.blocks[j].open
    <3>1. CASE tc.args = None
      BY <1>0, <2>0, <3>1
    <3>2. CASE tc.args # None /\ view.over
      <4> HIDE DEF e
      <4>1. After(view, e).over /\ After(view, e) \in Views
            /\ After(view, e).garbled = view.garbled
        BY <1>0, <3>2, AfterOver
      <4> QED BY <1>0, <2>0, <3>2, <4>1
    <3>3. CASE tc.args # None /\ ~view.over
      <4>1. view.started /\ IsOpen(view, blockOf[tc.index])
        BY <2>0, <2>1, <2>3, <3>3, OpenFacts
      <4>2. tc.args \in Pieces
        BY <2>3, <3>3
      <4>3. LET w == After(view, Event("content_block_delta", blockOf[tc.index], tc.args)) IN
            /\ w \in Views /\ ~w.over /\ w.started /\ w.reason = view.reason
            /\ w.garbled = view.garbled
            /\ Len(w.blocks) = Len(view.blocks)
            /\ \A j \in 1..Len(view.blocks) : w.blocks[j].open <=> view.blocks[j].open
        BY <1>0, <3>3, <4>1, <4>2, AfterDelta
      <4> QED BY <1>0, <2>0, <3>3, <4>1, <4>3 DEF Views
    <3> QED BY <3>1, <3>2, <3>3
  <2>6. CodeTyped'
    BY <1>0, <2>0, <2>4, <2>5 DEF CodeTyped
  <2>7. ~view.over /\ InStep => InStep'
    BY <2>0, <2>5 DEF InStep, Closes, Stops
  <2> QED BY <2>0, <2>5, <2>6, <2>7 DEF IInv
<1>8. CASE EndOfChunk
  <2>0. pc = "calls" /\ chunk' = Nothing
        /\ UNCHANGED <<textBlock, nextIndex, blockOf, openBlocks, finished, view>>
        /\ \/ pc' = "close" /\ closing' = openBlocks /\ stop' = StopReason(chunk.finish)
           \/ pc' = "read" /\ UNCHANGED <<closing, stop>>
    BY <1>8 DEF EndOfChunk
  <2>1. chunk' \in [text : Pieces \cup {None}, calls : Seq(Calls), finish : Finishes \cup {None}]
    BY <2>0 DEF Nothing
  <2>2. CASE pc' = "close" /\ closing' = openBlocks /\ stop' = StopReason(chunk.finish)
    <3>1. CodeTyped'
      BY <1>0, <2>0, <2>1, <2>2 DEF CodeTyped, Closes
    <3>2. ~view.over /\ InStep => InStep'
      BY <1>0, <2>0, <2>2 DEF InStep, Closes, Stops
    <3> QED BY <2>0, <2>2, <3>1, <3>2 DEF IInv
  <2>3. CASE pc' = "read" /\ UNCHANGED <<closing, stop>>
    <3>1. CodeTyped'
      BY <1>0, <2>0, <2>1, <2>3 DEF CodeTyped
    <3>2. ~view.over /\ InStep => InStep'
      BY <2>0, <2>3 DEF InStep, Closes, Stops
    <3> QED BY <2>0, <2>3, <3>1, <3>2 DEF IInv
  <2> QED BY <2>0, <2>2, <2>3
<1>9. CASE End
  <2>0. pc = "read" /\ UNCHANGED <<chunk, textBlock, nextIndex, blockOf, openBlocks, finished, view>>
        /\ \/ finished /\ pc' = "over" /\ UNCHANGED <<closing, stop>>
           \/ pc' = "close-at-end" /\ closing' = openBlocks /\ stop' = "end_turn"
    BY <1>9 DEF End
  <2>1. CASE finished /\ pc' = "over" /\ UNCHANGED <<closing, stop>>
    <3>1. CodeTyped'
      BY <1>0, <2>0, <2>1 DEF CodeTyped
    <3> QED BY <2>0, <2>1, <3>1 DEF IInv
  <2>2. CASE pc' = "close-at-end" /\ closing' = openBlocks /\ stop' = "end_turn"
    <3>1. CodeTyped'
      BY <1>0, <2>0, <2>2 DEF CodeTyped, Closes, StopReasons
    <3>2. "end_turn" # None
      BY DEF StopReasons
    <3>3. ~view.over /\ InStep => InStep'
      BY <1>0, <2>0, <2>2, <3>2 DEF InStep, Closes, Stops
    <3> QED BY <2>0, <2>2, <3>1, <3>3 DEF IInv
  <2> QED BY <2>0, <2>1, <2>2
<1>10. CASE CloseBlock
  <2> DEFINE e == Event("content_block_stop", Head(closing), None)
  <2>0. pc \in Closes /\ pc' = pc /\ closing # <<>> /\ closing' = Tail(closing)
        /\ view' = After(view, e)
        /\ UNCHANGED <<chunk, textBlock, nextIndex, blockOf, openBlocks, stop, finished>>
    BY <1>10 DEF CloseBlock, Emit
  <2>1. closing \in Seq(Nat)
    BY <1>0 DEF CodeTyped
  <2>2. /\ closing' \in Seq(Nat) /\ Len(closing) \in Nat \ {0}
        /\ Len(closing') = Len(closing) - 1
        /\ Head(closing) = closing[1]
        /\ \A j \in 1..Len(closing') : closing'[j] = closing[j + 1]
    BY <2>0, <2>1
  <2>3. CASE view.over
    <3> HIDE DEF e
    <3>1. view' \in Views /\ view'.over /\ ~view'.garbled
      BY <1>0, <2>0, <2>3, AfterOver
    <3>2. CodeTyped'
      BY <1>0, <2>0, <2>2, <3>1 DEF CodeTyped
    <3> QED BY <3>1, <3>2 DEF IInv
  <2>4. CASE ~view.over
    <3> DEFINE n == nextIndex - Len(closing)
    <3>1. InStep /\ view.started /\ Len(view.blocks) = nextIndex
      BY <2>0, <2>4 DEF IInv, InStep, Closes
    <3>2. /\ Len(closing) <= nextIndex
          /\ \A j \in 1..Len(closing) : closing[j] = nextIndex - Len(closing) + j - 1
          /\ \A i \in 1..nextIndex : view.blocks[i].open <=> i > nextIndex - Len(closing)
      BY <2>0, <3>1 DEF InStep
    <3>3. n \in Nat /\ Head(closing) = n /\ n + 1 \in 1..nextIndex
      BY <1>0, <2>2, <3>2
    <3>4. IsOpen(view, Head(closing))
      BY <1>0, <2>2, <3>1, <3>2, <3>3 DEF IsOpen
    <3>5. LET w == After(view, Event("content_block_stop", Head(closing), None)) IN
          /\ w \in Views /\ ~w.over /\ w.started /\ w.reason = view.reason
          /\ w.garbled = view.garbled
          /\ Len(w.blocks) = Len(view.blocks)
          /\ ~w.blocks[Head(closing) + 1].open
          /\ \A j \in 1..Len(view.blocks) :
               j # Head(closing) + 1 => w.blocks[j].open <=> view.blocks[j].open
      BY <1>0, <2>4, <3>1, <3>4, AfterStop
    <3>6. /\ view' \in Views /\ ~view'.over /\ view'.started /\ view'.reason = view.reason
          /\ ~view'.garbled /\ Len(view'.blocks) = nextIndex
          /\ ~view'.blocks[n + 1].open
          /\ \A j \in 1..nextIndex : j # n + 1 => view'.blocks[j].open <=> view.blocks[j].open
      BY <1>0, <2>0, <3>1, <3>3, <3>5
    <3>7. CodeTyped'
      BY <1>0, <2>0, <2>2, <3>6 DEF CodeTyped
    <3>8. \A j \in 1..Len(closing') : closing'[j] = nextIndex - Len(closing') + j - 1
      <4> SUFFICES ASSUME NEW j \in 1..Len(closing')
                   PROVE  closing'[j] = nextIndex - Len(closing') + j - 1
        OBVIOUS
      <4>1. j + 1 \in 1..Len(closing) /\ closing'[j] = closing[j + 1]
        BY <2>1, <2>2
      <4>2. closing[j + 1] = nextIndex - Len(closing) + (j + 1) - 1
        BY <3>2, <4>1
      <4> QED BY <1>0, <2>2, <4>1, <4>2
    <3>9. \A i \in 1..nextIndex : view'.blocks[i].open <=> i > nextIndex - Len(closing')
      <4> SUFFICES ASSUME NEW i \in 1..nextIndex
                   PROVE  view'.blocks[i].open <=> i > nextIndex - Len(closing')
        OBVIOUS
      <4>1. nextIndex - Len(closing') = n + 1
        BY <1>0, <2>2
      <4>2. CASE i = n + 1
        BY <3>3, <3>6, <4>1, <4>2
      <4>3. CASE i # n + 1
        <5>0. view.blocks[i].open <=> i > n
          BY <3>2
        <5>1. view'.blocks[i].open <=> i > n
          <6> HIDE DEF n
          <6> QED BY <3>6, <4>3, <5>0
        <5>2. i > n <=> i > n + 1
          BY <1>0, <3>3, <4>3
        <5> QED BY <4>1, <5>1, <5>2
      <4> QED BY <4>2, <4>3
    <3>10. InStep'
      <4>1. Len(closing') <= nextIndex
        BY <1>0, <2>2, <3>2
      <4> HIDE DEF n, e
      <4> QED BY <2>0, <3>1, <3>6, <3>8, <3>9, <4>1 DEF InStep, Closes, Stops
    <3> QED BY <2>0, <2>4, <3>6, <3>7, <3>10 DEF IInv, Closes
  <2> QED BY <2>3, <2>4
<1>11. CASE MessageDelta
  <2> DEFINE e == Event("message_delta", None, stop)
  <2>0. pc \in Closes /\ closing = <<>> /\ view' = After(view, e)
        /\ pc' = (IF pc = "close" THEN "stop" ELSE "stop-at-end")
        /\ UNCHANGED <<chunk, textBlock, nextIndex, blockOf, openBlocks, closing, stop, finished>>
    BY <1>11 DEF MessageDelta, Emit
  <2>1. pc' \in Stops /\ pc' \notin Closes /\ pc' \notin {"start", "over", "cut"}
    BY <2>0 DEF Stops, Closes
  <2>2. CASE view.over
    <3> HIDE DEF e
    <3>1. view' \in Views /\ view'.over /\ ~view'.garbled
      BY <1>0, <2>0, <2>2, AfterOver
    <3>2. CodeTyped'
      BY <1>0, <2>0, <2>1, <3>1 DEF CodeTyped, Stops
    <3> QED BY <3>1, <3>2 DEF IInv
  <2>3. CASE ~view.over
    <3>1. InStep /\ view.started /\ view.reason = None /\ Len(view.blocks) = nextIndex
          /\ stop \in StopReasons
      BY <1>0, <2>0, <2>3 DEF IInv, InStep, Closes, Stops, CodeTyped
    <3>2. \A i \in 1..nextIndex : ~view.blocks[i].open
      <4>1. Len(closing) = 0
        BY <2>0
      <4>2. \A i \in 1..nextIndex : view.blocks[i].open <=> i > nextIndex - Len(closing)
        BY <2>0, <3>1 DEF InStep
      <4> QED BY <1>0, <4>1, <4>2
    <3>3. LET w == After(view, Event("message_delta", None, stop)) IN
          /\ w \in Views /\ ~w.over /\ w.started /\ w.reason = stop
          /\ w.garbled = view.garbled /\ w.blocks = view.blocks
      BY <1>0, <2>3, <3>1, <3>2, AfterReason
    <3>4. view' \in Views /\ ~view'.over /\ view'.started /\ view'.reason # None
          /\ ~view'.garbled /\ view'.blocks = view.blocks
      BY <1>0, <2>0, <3>1, <3>3
    <3>5. CodeTyped'
      BY <1>0, <2>0, <2>1, <3>4 DEF CodeTyped, Stops
    <3>6. InStep'
      <4> HIDE DEF e
      <4> QED BY <2>0, <2>1, <3>1, <3>4 DEF InStep
    <3> QED BY <2>0, <2>1, <2>3, <3>4, <3>5, <3>6 DEF IInv, Closes
  <2> QED BY <2>2, <2>3
<1>12. CASE MessageStop
  <2> DEFINE e == Event("message_stop", None, None)
  <2>0. pc \in Stops /\ view' = After(view, e)
        /\ \/ pc' = "read" /\ finished' = TRUE
           \/ pc' = "over" /\ UNCHANGED finished
        /\ UNCHANGED <<chunk, textBlock, nextIndex, blockOf, openBlocks, closing, stop>>
    BY <1>12 DEF MessageStop, Emit, Stops
  <2>1. view' \in Views /\ view'.over /\ ~view'.garbled
    <3>1. CASE view.over
      <4> HIDE DEF e
      <4> QED BY <1>0, <2>0, <3>1, AfterOver
    <3>2. CASE ~view.over
      <4>1. view.started /\ view.reason # None
        BY <2>0, <3>2 DEF IInv, InStep, Stops
      <4>2. LET w == After(view, Event("message_stop", None, None)) IN
            w \in Views /\ w.over /\ w.garbled = view.garbled
        BY <1>0, <3>2, <4>1, AfterEnd
      <4> QED BY <1>0, <2>0, <4>2
    <3> QED BY <3>1, <3>2
  <2>2. CodeTyped'
    BY <1>0, <2>0, <2>1 DEF CodeTyped
  <2> QED BY <2>1, <2>2 DEF IInv
<1>13. CASE Cut
  <2>1. CodeTyped'
    BY <1>0, <1>13 DEF Cut, CodeTyped
  <2> QED BY <1>13, <2>1 DEF Cut, IInv
<1>14. CASE UNCHANGED vars
  <2>1. CodeTyped'
    BY <1>0, <1>14 DEF vars, code, CodeTyped
  <2>2. InStep => InStep'
    BY <1>14 DEF vars, code, InStep
  <2> QED BY <1>14, <2>1, <2>2 DEF vars, code, IInv
<1> QED
  BY <1>1, <1>2, <1>3, <1>4, <1>5, <1>6, <1>7, <1>8, <1>9, <1>10, <1>11, <1>12, <1>13, <1>14
  DEF Next

\* Code and client stay in step, whatever the upstream sends and wherever the
\* stream is cut.
THEOREM Invariant == Spec => []IInv
<1> QED BY InvInit, InvStep, PTL DEF Spec

\* The client can follow every translated stream up to its message_stop: for
\* any number of tool calls, in any interleaving, in chunks of any shape.
THEOREM StreamsAreWellFormed == Spec => []WellFormed
<1>1. IInv => WellFormed
  BY DEF IInv, WellFormed
<1> QED BY <1>1, Invariant, PTL

-----------------------------------------------------------------------------
(* The pieces that a list of calls has for an owner                        *)

\* Induction over the naturals, with a set in the place of the predicate.
LEMMA SetInduction ==
  ASSUME NEW S, 0 \in S, \A n \in Nat : n \in S => n + 1 \in S
  PROVE  \A n \in Nat : n \in S
<1> DEFINE T == {n \in Nat : n \notin S}
<1>1. SUFFICES ASSUME T # {} PROVE FALSE
  OBVIOUS
<1>2. PICK x \in T : \A y \in T : ~ (<<y, x>> \in OpToRel(<, Nat))
  BY <1>1, NatLessThanWellFounded, WFMin, Zenon
<1>3. x \in Nat /\ x # 0
  OBVIOUS
<1>4. x - 1 \in Nat /\ x - 1 < x /\ (x - 1) + 1 = x
  BY <1>3
<1>5. <<x - 1, x>> \in OpToRel(<, Nat)
  BY <1>3, <1>4 DEF OpToRel
<1>6. x - 1 \notin T
  BY <1>2, <1>5
<1> QED BY <1>3, <1>4, <1>6

\* A call has at most one piece for an owner.
LEMMA PieceTyped ==
  ASSUME NEW tc \in Calls, NEW o
  PROVE  Piece(tc, o) \in Seq(Pieces)
BY DEF Piece, Calls

\* ArgsFor has a value, and it is the one that its recursion says.
LEMMA ArgsRecursion ==
  ASSUME NEW s \in Seq(Calls), NEW o
  PROVE  \E f :
           /\ f[0] = <<>>
           /\ \A n \in 1..Len(s) : f[n] = f[n - 1] \o Piece(s[n], o)
           /\ \A n \in 0..Len(s) : f[n] \in Seq(Pieces)
           /\ ArgsFor(s, o) = f[Len(s)]
<1> DEFINE Body(f, n) == [i \in 0..n |-> IF i = 0 THEN <<>> ELSE f[i - 1] \o Piece(s[i], o)]
           S == {n \in Nat : \E f : f = Body(f, n)}
<1>1. 0 \in S
  <2> DEFINE f == [i \in 0..0 |-> <<>>]
  <2>1. f = Body(f, 0)
    OBVIOUS
  <2> HIDE DEF f
  <2> QED BY <2>1
<1>2. ASSUME NEW n \in Nat, n \in S PROVE n + 1 \in S
  <2>1. PICK f : f = Body(f, n)
    BY <1>2
  <2> DEFINE g == [i \in 0..(n + 1) |->
                     IF i = n + 1 THEN f[n] \o Piece(s[n + 1], o) ELSE f[i]]
  <2>2. ASSUME NEW i \in 0..(n + 1)
        PROVE  g[i] = IF i = 0 THEN <<>> ELSE g[i - 1] \o Piece(s[i], o)
    <3>1. CASE i = n + 1
      BY <3>1
    <3>2. CASE i # n + 1
      <4>1. i \in 0..n /\ g[i] = f[i]
        BY <3>2
      <4>2. f[i] = IF i = 0 THEN <<>> ELSE f[i - 1] \o Piece(s[i], o)
        BY <2>1, <4>1
      <4>3. i # 0 => g[i - 1] = f[i - 1]
        BY <4>1
      <4> HIDE DEF g
      <4> QED BY <4>1, <4>2, <4>3
    <3> QED BY <3>1, <3>2
  <2>3. g = [i \in 0..(n + 1) |-> g[i]]
    OBVIOUS
  <2> HIDE DEF g
  <2>4. g = Body(g, n + 1)
    BY <2>2, <2>3
  <2> HIDE DEF Body
  <2> QED BY <2>4
<1>3. Len(s) \in Nat
  OBVIOUS
<1>4. \E f : f = Body(f, Len(s))
  <2> HIDE DEF Body
  <2>1. \A n \in Nat : n \in S
    <3> HIDE DEF S
    <3> QED BY <1>1, <1>2, SetInduction
  <2> QED BY <1>3, <2>1
<1> DEFINE f == CHOOSE f : f = Body(f, Len(s))
<1>5. f = Body(f, Len(s))
  BY <1>4
<1>6. ArgsFor(s, o) = f[Len(s)]
  BY DEF ArgsFor
<1> HIDE DEF f
<1>7. /\ f[0] = <<>>
      /\ \A n \in 1..Len(s) : f[n] = f[n - 1] \o Piece(s[n], o)
  BY <1>3, <1>5
<1>8. \A n \in 0..Len(s) : f[n] \in Seq(Pieces)
  <2> DEFINE R == {n \in Nat : n <= Len(s) => f[n] \in Seq(Pieces)}
  <2>1. 0 \in R
    <3>1. <<>> \in Seq(Pieces)
      OBVIOUS
    <3> QED BY <1>7, <3>1
  <2>2. ASSUME NEW n \in Nat, n \in R PROVE n + 1 \in R
    <3>1. CASE n + 1 <= Len(s)
      <4>1. f[n] \in Seq(Pieces) /\ n + 1 \in 1..Len(s) /\ (n + 1) - 1 = n
        BY <1>3, <2>2, <3>1
      <4>2. Piece(s[n + 1], o) \in Seq(Pieces)
        BY <4>1, PieceTyped
      <4>3. f[n + 1] = f[n] \o Piece(s[n + 1], o)
        BY <1>7, <4>1
      <4>4. f[n + 1] \in Seq(Pieces)
        BY <4>1, <4>2, <4>3
      <4> QED BY <4>4
    <3>2. CASE ~(n + 1 <= Len(s))
      BY <3>2
    <3> QED BY <3>1, <3>2
  <2>3. \A n \in Nat : n \in R
    <3> HIDE DEF R
    <3> QED BY <2>1, <2>2, SetInduction
  <2> QED BY <1>3, <2>3
<1> QED BY <1>6, <1>7, <1>8

\* A list of calls has pieces for each owner, and no calls have none.
LEMMA ArgsTyped ==
  ASSUME NEW s \in Seq(Calls), NEW o
  PROVE  ArgsFor(s, o) \in Seq(Pieces) /\ (s = <<>> => ArgsFor(s, o) = <<>>)
<1>1. PICK f : /\ f[0] = <<>>
               /\ \A n \in 0..Len(s) : f[n] \in Seq(Pieces)
               /\ ArgsFor(s, o) = f[Len(s)]
  BY ArgsRecursion
<1>2. Len(s) \in 0..Len(s) /\ (s = <<>> => Len(s) = 0)
  OBVIOUS
<1> QED BY <1>1, <1>2

\* The first call's arguments come first.
LEMMA ArgsHead ==
  ASSUME NEW s \in Seq(Calls), s # <<>>, NEW o
  PROVE  ArgsFor(s, o) = Piece(Head(s), o) \o ArgsFor(Tail(s), o)
<1> DEFINE t == Tail(s)
           h == Piece(Head(s), o)
<1>1. /\ t \in Seq(Calls) /\ Len(t) \in Nat /\ Len(s) = Len(t) + 1
      /\ Head(s) = s[1] /\ Head(s) \in Calls
      /\ \A n \in 1..Len(t) : t[n] = s[n + 1]
  OBVIOUS
<1>2. h \in Seq(Pieces)
  BY <1>1, PieceTyped
<1>3. PICK f : /\ f[0] = <<>>
               /\ \A n \in 1..Len(s) : f[n] = f[n - 1] \o Piece(s[n], o)
               /\ ArgsFor(s, o) = f[Len(s)]
  BY ArgsRecursion
<1>4. PICK g : /\ g[0] = <<>>
               /\ \A n \in 1..Len(t) : g[n] = g[n - 1] \o Piece(t[n], o)
               /\ \A n \in 0..Len(t) : g[n] \in Seq(Pieces)
               /\ ArgsFor(t, o) = g[Len(t)]
  BY <1>1, ArgsRecursion
<1> DEFINE S == {n \in Nat : n <= Len(t) => f[n + 1] = h \o g[n]}
<1>5. 0 \in S
  <2>1. 1 \in 1..Len(s) /\ 1 - 1 = 0
    BY <1>1
  <2>2. f[1] = f[0] \o Piece(s[1], o)
    BY <1>3, <2>1
  <2>3. f[1] = <<>> \o h
    BY <1>1, <1>3, <2>2
  <2> HIDE DEF h, t
  <2>4. f[1] = h \o <<>>
    BY <1>2, <2>3, ConcatEmptySeq
  <2>5. 0 + 1 = 1
    OBVIOUS
  <2> QED BY <1>4, <2>4, <2>5
<1>6. ASSUME NEW n \in Nat, n \in S PROVE n + 1 \in S
  <2> HIDE DEF h, t
  <2>1. CASE n + 1 <= Len(t)
    <3>1. /\ f[n + 1] = h \o g[n] /\ g[n] \in Seq(Pieces)
          /\ n + 1 \in 1..Len(t) /\ n + 2 \in 1..Len(s)
      BY <1>1, <1>4, <1>6, <2>1
    <3>2. t[n + 1] = s[n + 2] /\ t[n + 1] \in Calls
      BY <1>1, <3>1
    <3>3. f[n + 2] = f[n + 1] \o Piece(t[n + 1], o)
      <4>1. (n + 2) - 1 = n + 1
        OBVIOUS
      <4> QED BY <1>3, <3>1, <3>2, <4>1
    <3>4. g[n + 1] = g[n] \o Piece(t[n + 1], o)
      <4>1. (n + 1) - 1 = n
        OBVIOUS
      <4> QED BY <1>4, <3>1, <4>1
    <3>5. Piece(t[n + 1], o) \in Seq(Pieces)
      BY <3>2, PieceTyped
    <3>6. f[n + 2] = h \o g[n + 1]
      <4>1. (h \o g[n]) \o Piece(t[n + 1], o) = h \o (g[n] \o Piece(t[n + 1], o))
        <5> DEFINE a == g[n]
                   b == Piece(t[n + 1], o)
        <5>1. a \in Seq(Pieces) /\ b \in Seq(Pieces)
          BY <3>1, <3>5
        <5> HIDE DEF a, b
        <5>2. (h \o a) \o b = h \o (a \o b)
          BY <1>2, <5>1
        <5> QED BY <5>2 DEF a, b
      <4> QED BY <3>1, <3>3, <3>4, <4>1
    <3>7. (n + 1) + 1 = n + 2
      OBVIOUS
    <3> QED BY <3>6, <3>7
  <2>2. CASE ~(n + 1 <= Len(t))
    BY <2>2
  <2> QED BY <2>1, <2>2
<1>7. \A n \in Nat : n \in S
  <2> HIDE DEF S
  <2> QED BY <1>5, <1>6, SetInduction
<1> HIDE DEF h, t
<1>8. f[Len(t) + 1] = h \o g[Len(t)]
  BY <1>1, <1>7
<1>9. ArgsFor(s, o) = h \o ArgsFor(t, o)
  BY <1>1, <1>3, <1>4, <1>8
<1> QED BY <1>9 DEF h, t

-----------------------------------------------------------------------------
(* What the client is told                                                 *)

\* The owners that k, the chunk in work at p, still has something for, and what.
Due(p, k) ==
  (IF p = "text" /\ k.text # None THEN {"text"} ELSE {})
    \cup {k.calls[j].index : j \in DOMAIN k.calls}

Rest(p, k, o) ==
  IF o # "text" THEN ArgsFor(k.calls, o)
  ELSE IF p = "text" /\ k.text # None THEN <<k.text>> ELSE <<>>

\* Client v has a block for owner o.
Has(v, o) == \E i \in 1..Len(v.blocks) : v.blocks[i].owner = o

\* b is the number of that block, None if there is none.
Knows(v, b, o) ==
  IF b = None THEN ~Has(v, o)
              ELSE b + 1 \in 1..Len(v.blocks) /\ v.blocks[b + 1].owner = o

\* What the upstream has given is what the client has and what is still due,
\* and the code knows the block of each owner.
Complete ==
  /\ \A i \in 1..Len(view.blocks) :
       LET b == view.blocks[i] IN
       b.owner \in DOMAIN given /\ given[b.owner] = b.data \o Rest(pc, chunk, b.owner)
  /\ \A o \in DOMAIN given :
       Has(view, o) \/ (o \in Due(pc, chunk) /\ given[o] = Rest(pc, chunk, o))
  /\ Due(pc, chunk) \subseteq DOMAIN given
  /\ Knows(view, textBlock, "text") /\ \A t \in Indexes : Knows(view, blockOf[t], t)

\* The reason that the client is told is the one for the first finish_reason.
Reasons ==
  /\ pc \in {"start", "read"} => finish = None
  /\ pc \in {"text", "calls"} => finish = chunk.finish
  /\ pc \in {"close", "stop"} <=> finish # None /\ pc \notin {"text", "calls"}
  /\ pc \in Closes => stop = StopReason(finish)
  /\ pc \in Stops => view.reason = StopReason(finish)

\* A message that is over stays as it is: the generator reads on only after a
\* finish_reason, and what it then finds is trailing.
Done ==
  /\ pc = "over" \/ (pc \in {"read", "text", "calls"} /\ finished /\ finish # None)
  /\ Due(pc, chunk) # {} => trailing

\* The inductive invariant.
Told ==
  /\ Unmixed /\ AsInOnePiece /\ EndsOnce
  /\ pc \notin {"text", "calls", "cut"} => chunk = Nothing
  /\ pc # "cut" => IF view.over THEN Done ELSE Complete /\ Reasons

-----------------------------------------------------------------------------
(* The types                                                               *)

\* A chunk has pieces for each owner.
LEMMA PiecesTyped ==
  ASSUME NEW k \in [text : Pieces \cup {None}, calls : Seq(Calls), finish : Finishes \cup {None}],
         NEW o
  PROVE  PiecesFor(k, o) \in Seq(Pieces)
<1>1. k.calls \in Seq(Calls) /\ k.text \in Pieces \cup {None}
  OBVIOUS
<1>2. ArgsFor(k.calls, o) \in Seq(Pieces)
  BY <1>1, ArgsTyped
<1>3. k.text # None => <<k.text>> \in Seq(Pieces)
  BY <1>1
<1>4. <<>> \in Seq(Pieces)
  OBVIOUS
<1> QED BY <1>2, <1>3 DEF PiecesFor

\* The owners it names are owners.
LEMMA OwnersTyped ==
  ASSUME NEW k \in [text : Pieces \cup {None}, calls : Seq(Calls), finish : Finishes \cup {None}]
  PROVE  OwnersIn(k) \subseteq Owners
<1>1. k.calls \in Seq(Calls)
  OBVIOUS
<1>2. ASSUME NEW j \in DOMAIN k.calls PROVE k.calls[j].index \in Indexes
  <2>1. k.calls[j] \in Calls
    BY <1>1
  <2> QED BY <2>1 DEF Calls
<1>3. OwnersIn(k) \subseteq {"text"} \cup {k.calls[j].index : j \in DOMAIN k.calls}
  BY DEF OwnersIn
<1> QED BY <1>2, <1>3 DEF Owners

\* Every variable has its type at the start.
LEMMA TypeInit == Init => TypeOK
<1> SUFFICES ASSUME Init PROVE TypeOK
  OBVIOUS
<1>1. CodeTyped
  BY InvInit DEF IInv
<1>2. DOMAIN given = {} /\ finish = None /\ trailing = FALSE /\ received = 0
  BY DEF Init
<1>3. received \in 0..MaxChunks
  BY <1>2, ConstantsOK
<1>4. trailing \in BOOLEAN /\ finish \in Finishes \cup {None}
  BY <1>2, Zenon
<1>5. DOMAIN given \subseteq Owners /\ \A o \in DOMAIN given : given[o] \in Seq(Pieces)
  BY <1>2
<1> QED BY <1>1, <1>3, <1>4, <1>5 DEF TypeOK

\* Every action keeps the types.
LEMMA TypeStep == IInv' /\ TypeOK /\ [Next]_vars => TypeOK'
<1> SUFFICES ASSUME IInv', TypeOK, [Next]_vars PROVE TypeOK'
  OBVIOUS
<1>1. CodeTyped'
  BY DEF IInv
<1>2. CASE UNCHANGED history
  BY <1>1, <1>2 DEF TypeOK, history
<1>3. ASSUME NEW k \in Chunks, Receive(k) PROVE TypeOK'
  <2>1. k \in [text : Pieces \cup {None}, calls : Seq(Calls), finish : Finishes \cup {None}]
    BY ConstantsOK
  <2>2. received' \in 0..MaxChunks
    BY <1>3, ConstantsOK DEF Receive, TypeOK
  <2>3. CASE finish = None
    <3>1. given' = Supplied(k) /\ finish' = k.finish /\ trailing' = trailing
      BY <1>3, <2>3 DEF Receive
    <3>2. DOMAIN given' = DOMAIN given \cup OwnersIn(k)
      BY <3>1 DEF Supplied
    <3>3. ASSUME NEW o \in DOMAIN given' PROVE given'[o] \in Seq(Pieces)
      <4> DEFINE a == IF o \in DOMAIN given THEN given[o] ELSE <<>>
                 b == PiecesFor(k, o)
      <4>1. given'[o] = a \o b
        BY <3>1, <3>2 DEF Supplied
      <4>2. a \in Seq(Pieces)
        BY DEF TypeOK
      <4>3. b \in Seq(Pieces)
        BY <2>1, PiecesTyped
      <4> HIDE DEF a, b
      <4> QED BY <4>1, <4>2, <4>3
    <3>4. k.finish \in Finishes \cup {None}
      BY <2>1
    <3> QED BY <1>1, <2>1, <2>2, <3>1, <3>2, <3>3, <3>4, OwnersTyped DEF TypeOK
  <2>4. CASE finish # None
    <3>1. given' = given /\ finish' = finish /\ trailing' = (trailing \/ OwnersIn(k) # {})
      BY <1>3, <2>4 DEF Receive
    <3> QED BY <1>1, <2>2, <3>1 DEF TypeOK
  <2> QED BY <2>3, <2>4
<1>4. CASE UNCHANGED vars
  BY <1>2, <1>4 DEF vars
<1>5. ASSUME Next, \A k \in Chunks : ~Receive(k) PROVE UNCHANGED history
  BY <1>5, Zenon DEF Next, Start, NoText, StartText, TextDelta, StartCall, CallDelta,
     EndOfChunk, End, CloseBlock, MessageDelta, MessageStop, Cut, history
<1> QED BY <1>2, <1>3, <1>4, <1>5

\* The variables of the code and of the history have their types.
THEOREM TypeCorrect == Spec => []TypeOK
<1> QED BY InvInit, InvStep, TypeInit, TypeStep, PTL DEF Spec

\* So has what is left of it.
LEMMA RestTyped ==
  ASSUME NEW k \in [text : Pieces \cup {None}, calls : Seq(Calls), finish : Finishes \cup {None}],
         NEW p, NEW o
  PROVE  Rest(p, k, o) \in Seq(Pieces)
<1>1. k.calls \in Seq(Calls) /\ k.text \in Pieces \cup {None}
  OBVIOUS
<1>2. k.text # None => <<k.text>> \in Seq(Pieces)
  BY <1>1
<1>3. <<>> \in Seq(Pieces)
  OBVIOUS
<1> QED BY <1>1, <1>2, <1>3, ArgsTyped DEF Rest

\* The first part of a sequence is a prefix of it.
LEMMA PrefixOfConcat ==
  ASSUME NEW s \in Seq(Pieces), NEW t \in Seq(Pieces)
  PROVE  IsPrefix(s, s \o t)
<1>1. Len(s) <= Len(s \o t)
  OBVIOUS
<1>2. SubSeq(s, 1, Len(s)) = SubSeq(s \o t, 1, Len(s))
  OBVIOUS
<1> QED BY <1>1, <1>2 DEF IsPrefix

-----------------------------------------------------------------------------
(* Steps of the invariant                                                  *)

\* A client whose view an event does not garble could follow it.
LEMMA Followed ==
  ASSUME NEW v \in Views, ~v.over, NEW e, ~After(v, e).garbled
  PROVE  Legal(v, e)
<1> SUFFICES ASSUME ~Legal(v, e) PROVE FALSE
  OBVIOUS
<1>1. After(v, e) = [v EXCEPT !.garbled = TRUE]
  BY Zenon DEF After
<1> QED BY <1>1 DEF Views

\* What the upstream has given is neither lost nor mixed up by a step that
\* hands on P, the first part of what is still due.
LEMMA Deliver ==
  ASSUME TypeOK, TypeOK', Complete, Unmixed,
         given' = given, textBlock' = textBlock, blockOf' = blockOf, Len(view'.blocks) = Len(view.blocks),
         NEW P \in [Owners -> Seq(Pieces)],
         \A i \in 1..Len(view.blocks) :
            /\ view'.blocks[i].owner = view.blocks[i].owner
            /\ view'.blocks[i].data = view.blocks[i].data \o P[view.blocks[i].owner],
         \A o \in Owners : Rest(pc, chunk, o) = P[o] \o Rest(pc', chunk', o) /\ (Has(view, o) \/ P[o] = <<>>),
         Due(pc', chunk') \subseteq Due(pc, chunk), \A o \in Due(pc, chunk) : o \in Due(pc', chunk') \/ Has(view, o)
  PROVE  Complete' /\ Unmixed'
<1>1. /\ view.blocks \in Seq(Blocks) /\ view'.blocks \in Seq(Blocks)
      /\ DOMAIN given \subseteq Owners
  BY DEF TypeOK, CodeTyped, Views
<1>2. \A o : Has(view', o) <=> Has(view, o)
  BY DEF Has
<1>3. \A o \in Owners : Rest(pc', chunk', o) \in Seq(Pieces)
  BY RestTyped DEF TypeOK, CodeTyped
<1>4. ASSUME NEW i \in 1..Len(view.blocks)
      PROVE  /\ view'.blocks[i].owner \in DOMAIN given
             /\ given[view'.blocks[i].owner] = view'.blocks[i].data \o Rest(pc', chunk', view'.blocks[i].owner)
             /\ IsPrefix(view'.blocks[i].data, given[view'.blocks[i].owner])
  <2> DEFINE o == view.blocks[i].owner
             d == view.blocks[i].data
             r == Rest(pc', chunk', o)
             p == P[o]
  <2>0. view.blocks[i] \in Blocks
    BY <1>1
  <2>1. o \in Owners /\ d \in Seq(Pieces) /\ p \in Seq(Pieces) /\ r \in Seq(Pieces)
    <3>1. o \in Owners /\ d \in Seq(Pieces)
      BY <2>0 DEF Blocks
    <3>2. p \in Seq(Pieces)
      BY <3>1
    <3> QED BY <1>3, <3>1, <3>2
  <2>2. o \in DOMAIN given /\ given[o] = d \o Rest(pc, chunk, o)
    BY DEF Complete
  <2>3. Rest(pc, chunk, o) = p \o r
    <3> HIDE DEF o
    <3> QED BY <2>1
  <2>4. view'.blocks[i].owner = o /\ view'.blocks[i].data = d \o p
    OBVIOUS
  <2> HIDE DEF d, p
  <2>5. (d \o p) \o r = d \o (p \o r) /\ d \o p \in Seq(Pieces)
    <3> HIDE DEF r
    <3> QED BY <2>1, ConcatAssociative
  <2>6. given[o] = (d \o p) \o r
    BY <2>2, <2>3, <2>5
  <2>7. IsPrefix(d \o p, (d \o p) \o r)
    <3> DEFINE q == d \o p
    <3>1. q \in Seq(Pieces) /\ r \in Seq(Pieces)
      BY <2>1, <2>5
    <3> HIDE DEF q, r
    <3>2. IsPrefix(q, q \o r)
      BY <3>1, PrefixOfConcat
    <3> QED BY <3>2 DEF q
  <2> QED BY <2>2, <2>4, <2>6, <2>7
<1>5. DOMAIN view'.blocks = 1..Len(view.blocks) /\ DOMAIN view.blocks = 1..Len(view.blocks)
  BY <1>1
<1>6. Unmixed'
  <2>1. ASSUME NEW i \in 1..Len(view.blocks), NEW j \in 1..Len(view.blocks),
               view'.blocks[j].owner = view'.blocks[i].owner
        PROVE  i = j
    <3>1. view.blocks[j].owner = view.blocks[i].owner
      BY <2>1
    <3> QED BY <1>5, <3>1 DEF Unmixed
  <2> QED BY <1>4, <1>5, <2>1 DEF Unmixed
<1>7. \A o \in DOMAIN given : Has(view', o) \/ (o \in Due(pc', chunk') /\ given[o] = Rest(pc', chunk', o))
  <2> SUFFICES ASSUME NEW o \in DOMAIN given, ~Has(view, o)
               PROVE  o \in Due(pc', chunk') /\ given[o] = Rest(pc', chunk', o)
    BY <1>2
  <2>1. o \in Due(pc, chunk) /\ given[o] = Rest(pc, chunk, o)
    BY DEF Complete
  <2>2. o \in Owners /\ Rest(pc, chunk, o) = <<>> \o Rest(pc', chunk', o) /\ Rest(pc', chunk', o) \in Seq(Pieces)
    BY <1>1, <1>3
  <2> DEFINE r == Rest(pc', chunk', o)
  <2>3. <<>> \o r = r
    <3>1. r \in Seq(Pieces)
      BY <2>2
    <3> HIDE DEF r
    <3> QED BY <3>1, ConcatEmptySeq
  <2> QED BY <2>1, <2>2, <2>3
<1>8. \A b : \A o : Knows(view, b, o) => Knows(view', b, o)
  BY <1>2 DEF Knows
<1>9. Knows(view', textBlock', "text") /\ \A t \in Indexes : Knows(view', blockOf'[t], t)
  BY <1>8 DEF Complete
<1>10. Due(pc', chunk') \subseteq DOMAIN given
  BY DEF Complete
<1> QED BY <1>4, <1>6, <1>7, <1>9, <1>10 DEF Complete

\* A step that hands on nothing and changes nothing of what is still due.
LEMMA Steady ==
  ASSUME TypeOK, TypeOK', Complete, Unmixed,
         given' = given, textBlock' = textBlock, blockOf' = blockOf, Len(view'.blocks) = Len(view.blocks),
         \A i \in 1..Len(view.blocks) :
            /\ view'.blocks[i].owner = view.blocks[i].owner
            /\ view'.blocks[i].data = view.blocks[i].data,
         \A o \in Owners : Rest(pc', chunk', o) = Rest(pc, chunk, o),
         Due(pc', chunk') = Due(pc, chunk)
  PROVE  Complete' /\ Unmixed'
<1> DEFINE P == [o \in Owners |-> <<>>]
<1>1. P \in [Owners -> Seq(Pieces)]
  <2>1. <<>> \in Seq(Pieces)
    OBVIOUS
  <2> QED BY <2>1
<1>2. \A o \in Owners : P[o] = <<>>
  OBVIOUS
<1>3. ASSUME NEW o \in Owners PROVE Rest(pc, chunk, o) = P[o] \o Rest(pc', chunk', o)
  <2> DEFINE r == Rest(pc, chunk, o)
  <2>1. r \in Seq(Pieces)
    BY RestTyped DEF TypeOK, CodeTyped
  <2> HIDE DEF r
  <2>2. <<>> \o r = r
    BY <2>1, ConcatEmptySeq
  <2> QED BY <1>2, <2>2 DEF r
<1>4. ASSUME NEW i \in 1..Len(view.blocks)
      PROVE  view'.blocks[i].data = view.blocks[i].data \o P[view.blocks[i].owner]
  <2> DEFINE d == view.blocks[i].data
  <2>1. view.blocks[i] \in Blocks
    BY DEF TypeOK, CodeTyped, Views
  <2>2. d \in Seq(Pieces) /\ view.blocks[i].owner \in Owners
    BY <2>1 DEF Blocks
  <2> HIDE DEF P
  <2>3. P[view.blocks[i].owner] = <<>> /\ view'.blocks[i].data = d
    BY <1>2, <2>2
  <2> HIDE DEF d
  <2>4. d \o <<>> = d
    BY <2>2, ConcatEmptySeq
  <2> QED BY <2>3, <2>4 DEF d
<1> HIDE DEF P
<1> QED BY <1>1, <1>2, <1>3, <1>4, Deliver

\* A step that starts the block of an owner that has none yet.
LEMMA Begin ==
  ASSUME TypeOK, TypeOK', Complete, Unmixed,
         given' = given, pc' = pc, chunk' = chunk,
         NEW o \in Due(pc, chunk), ~Has(view, o),
         Len(view'.blocks) = Len(view.blocks) + 1,
         \A i \in 1..Len(view.blocks) : view'.blocks[i] = view.blocks[i],
         view'.blocks[Len(view.blocks) + 1] = [owner |-> o, data |-> <<>>, open |-> TRUE],
         textBlock' = IF o = "text" THEN Len(view.blocks) ELSE textBlock,
         \A t \in Indexes : blockOf'[t] = IF t = o THEN Len(view.blocks) ELSE blockOf[t]
  PROVE  Complete' /\ Unmixed'
<1> DEFINE n == Len(view.blocks)
<1>1. /\ view.blocks \in Seq(Blocks) /\ view'.blocks \in Seq(Blocks) /\ n \in Nat
      /\ DOMAIN given \subseteq Owners /\ None \notin Nat
  BY NoneApart DEF TypeOK, CodeTyped, Views
<1>2. /\ DOMAIN view.blocks = 1..n /\ DOMAIN view'.blocks = 1..(n + 1)
      /\ \A i \in 1..(n + 1) : i \in 1..n \/ i = n + 1
  BY <1>1
<1>3. view'.blocks[n + 1].owner = o /\ view'.blocks[n + 1].data = <<>>
  OBVIOUS
<1>4. \A x : Has(view', x) <=> Has(view, x) \/ x = o
  <2>1. \A i \in 1..n : i \in 1..(n + 1) /\ n + 1 \in 1..(n + 1)
    BY <1>1
  <2>2. n + 1 \in 1..(n + 1)
    BY <1>1
  <2> QED BY <1>2, <1>3, <2>1, <2>2 DEF Has
<1>5. /\ o \in DOMAIN given /\ Rest(pc, chunk, o) \in Seq(Pieces)
      /\ given[o] = <<>> \o Rest(pc, chunk, o) /\ IsPrefix(<<>>, given[o])
  <2> DEFINE r == Rest(pc, chunk, o)
  <2>1. o \in DOMAIN given /\ given[o] = r
    BY DEF Complete
  <2>2. r \in Seq(Pieces)
    BY RestTyped DEF TypeOK, CodeTyped
  <2> HIDE DEF r
  <2>3. <<>> \o r = r /\ <<>> \in Seq(Pieces)
    BY <2>2, ConcatEmptySeq
  <2>4. IsPrefix(<<>>, <<>> \o r)
    BY <2>2, <2>3, PrefixOfConcat
  <2> QED BY <2>1, <2>2, <2>3, <2>4 DEF r
<1>6. ASSUME NEW i \in 1..(n + 1)
      PROVE  /\ view'.blocks[i].owner \in DOMAIN given
             /\ given[view'.blocks[i].owner]
                  = view'.blocks[i].data \o Rest(pc', chunk', view'.blocks[i].owner)
             /\ IsPrefix(view'.blocks[i].data, given[view'.blocks[i].owner])
  <2>1. CASE i = n + 1
    BY <1>3, <1>5, <2>1
  <2>2. CASE i # n + 1
    <3>1. i \in 1..n
      BY <1>2, <2>2
    <3>2. view'.blocks[i] = view.blocks[i]
      BY <3>1
    <3>3. /\ view.blocks[i].owner \in DOMAIN given
          /\ given[view.blocks[i].owner]
               = view.blocks[i].data \o Rest(pc, chunk, view.blocks[i].owner)
      BY <3>1 DEF Complete
    <3>4. IsPrefix(view.blocks[i].data, given[view.blocks[i].owner])
      BY <1>2, <3>1 DEF Unmixed
    <3> QED BY <3>2, <3>3, <3>4
  <2> QED BY <2>1, <2>2
<1>7. ASSUME NEW i \in 1..(n + 1), NEW j \in 1..(n + 1),
             view'.blocks[j].owner = view'.blocks[i].owner
      PROVE  i = j
  <2>1. CASE i \in 1..n /\ j \in 1..n
    <3>1. view.blocks[j].owner = view.blocks[i].owner
      BY <1>7, <2>1
    <3> QED BY <1>2, <2>1, <3>1 DEF Unmixed
  <2>2. \A x \in 1..n : view'.blocks[x].owner # o
    BY DEF Has
  <2> QED BY <1>2, <1>3, <1>7, <2>1, <2>2
<1>8. Unmixed'
  BY <1>2, <1>6, <1>7 DEF Unmixed
<1>9. \A b : \A x : x # o /\ Knows(view, b, x) => Knows(view', b, x)
  <2>1. \A b : b + 1 \in 1..n => b + 1 \in 1..(n + 1)
    BY <1>1
  <2> QED BY <1>4, <2>1 DEF Knows
<1>10. Knows(view', n, o)
  <2>1. n + 1 \in 1..Len(view'.blocks)
    BY <1>1
  <2> QED BY <1>1, <1>3, <2>1 DEF Knows
<1>11. Knows(view', textBlock', "text") /\ \A t \in Indexes : Knows(view', blockOf'[t], t)
  BY <1>9, <1>10 DEF Complete
<1>12. \A x \in DOMAIN given :
         Has(view', x) \/ (x \in Due(pc', chunk') /\ given[x] = Rest(pc', chunk', x))
  BY <1>4 DEF Complete
<1> QED BY <1>6, <1>8, <1>11, <1>12 DEF Complete

\* A message that is over stays what it is.
LEMMA DoneStep ==
  ASSUME TypeOK, Told, IInv', pc # "cut", view.over, Next
  PROVE  Told'
<1>1. /\ view \in Views /\ Done /\ Unmixed /\ AsInOnePiece /\ EndsOnce
      /\ pc \notin {"text", "calls"} => chunk = Nothing
      /\ pc = "over" \/ (pc \in {"read", "text", "calls"} /\ finished /\ finish # None)
      /\ Due(pc, chunk) # {} => trailing
      /\ chunk.calls \in Seq(Calls)
  BY DEF Told, Done, TypeOK, CodeTyped
<1>2. ASSUME /\ view'.blocks = view.blocks /\ view'.reason = view.reason /\ view'.over
             /\ given' = given /\ finish' = finish /\ (trailing => trailing')
             /\ view'.late => trailing'
             /\ pc' \notin {"text", "calls", "cut"} => chunk' = Nothing
             /\ pc' # "cut" => Done'
      PROVE  Told'
  <2>1. Unmixed'
    BY <1>1, <1>2 DEF Unmixed
  <2>2. AsInOnePiece'
    BY <1>1, <1>2, Zenon DEF AsInOnePiece, Response
  <2>3. EndsOnce'
    BY <1>2 DEF EndsOnce
  <2> QED BY <1>2, <2>1, <2>2, <2>3 DEF Told
<1>3. ASSUME UNCHANGED <<view, given, finish, trailing>>,
             pc' \notin {"text", "calls", "cut"} => chunk' = Nothing,
             pc' # "cut" => Done'
      PROVE  Told'
  BY <1>1, <1>2, <1>3 DEF EndsOnce
<1>4. ASSUME pc \in {"text", "calls"}, Due(pc, chunk) # {},
             view' = view \/ \E e : view' = After(view, e),
             UNCHANGED <<given, finish, trailing, finished>>, pc' \in {"text", "calls"}
      PROVE  Told'
  <2>1. trailing /\ finished /\ finish # None
    BY <1>1, <1>4
  <2>2. view'.blocks = view.blocks /\ view'.reason = view.reason /\ view'.over
    BY <1>1, <1>4, AfterOver
  <2>3. Done'
    BY <1>4, <2>1 DEF Done
  <2> QED BY <1>2, <1>4, <2>1, <2>2, <2>3
<1>5. CASE Start
  BY <1>1, <1>5 DEF Start
<1>6. ASSUME NEW k \in Chunks, Receive(k) PROVE Told'
  <2>1. finished /\ finish # None
    BY <1>1, <1>6 DEF Receive
  <2>2. /\ UNCHANGED <<view, given, finish, finished>> /\ pc' = "text" /\ chunk' = k
        /\ trailing' = (trailing \/ OwnersIn(k) # {})
    BY <1>6, <2>1 DEF Receive
  <2>3. Due(pc', chunk') = OwnersIn(k)
    BY <2>2 DEF Due, OwnersIn
  <2>4. Done'
    BY <2>1, <2>2, <2>3 DEF Done
  <2>5. view'.late => trailing'
    BY <1>1, <2>2 DEF EndsOnce
  <2> QED BY <1>2, <2>2, <2>4, <2>5
<1>7. CASE NoText
  <2>1. /\ pc = "text" /\ pc' = "calls" /\ chunk.text = None
        /\ UNCHANGED <<chunk, view, given, finish, trailing, finished>>
    BY <1>7 DEF NoText, history
  <2>2. Due(pc', chunk') = Due(pc, chunk)
    BY <2>1 DEF Due
  <2>3. Done'
    BY <1>1, <2>1, <2>2 DEF Done
  <2> QED BY <1>3, <2>1, <2>3
<1>8. CASE StartText
  <2>1. pc = "text" /\ pc' = "text" /\ Due(pc, chunk) # {}
    BY <1>8 DEF StartText, Due
  <2> QED BY <1>4, <1>8, <2>1 DEF StartText, Open, Emit, history
<1>9. CASE TextDelta
  <2>1. pc = "text" /\ pc' = "calls" /\ Due(pc, chunk) # {}
    BY <1>9 DEF TextDelta, Due
  <2> QED BY <1>4, <1>9, <2>1 DEF TextDelta, Emit, history
<1>10. ASSUME pc = "calls", chunk.calls # <<>> PROVE Due(pc, chunk) # {}
  <2>1. 1 \in DOMAIN chunk.calls
    BY <1>1, <1>10
  <2> QED BY <2>1 DEF Due
<1>11. CASE StartCall
  <2>1. pc = "calls" /\ pc' = "calls" /\ Due(pc, chunk) # {}
    BY <1>10, <1>11 DEF StartCall
  <2> QED BY <1>4, <1>11, <2>1 DEF StartCall, Open, Emit, history
<1>12. CASE CallDelta
  <2>1. pc = "calls" /\ pc' = "calls" /\ Due(pc, chunk) # {}
    BY <1>10, <1>12 DEF CallDelta
  <2> QED BY <1>4, <1>12, <2>1 DEF CallDelta, Emit, history
<1>13. ASSUME chunk' = Nothing PROVE Due(pc', chunk') = {}
  BY <1>13 DEF Due, Nothing
<1>14. CASE EndOfChunk
  <2>1. pc = "calls" /\ finished /\ finish # None
    BY <1>1, <1>14 DEF EndOfChunk
  <2>2. /\ pc' = "read" /\ chunk' = Nothing
        /\ UNCHANGED <<view, given, finish, trailing, finished>>
    BY <1>14, <2>1 DEF EndOfChunk, history
  <2>3. Done'
    BY <1>13, <2>1, <2>2 DEF Done
  <2> QED BY <1>3, <2>2, <2>3
<1>15. CASE End
  <2>1. pc = "read" /\ finished /\ chunk = Nothing
    BY <1>1, <1>15 DEF End
  <2>2. pc' = "over" /\ chunk' = Nothing /\ UNCHANGED <<view, given, finish, trailing>>
    BY <1>15, <2>1 DEF End, history
  <2>3. Done'
    BY <1>13, <2>2 DEF Done
  <2> QED BY <1>3, <2>2, <2>3
<1>16. CASE CloseBlock
  BY <1>1, <1>16 DEF CloseBlock, Closes
<1>17. CASE MessageDelta
  BY <1>1, <1>17 DEF MessageDelta, Closes
<1>18. CASE MessageStop
  BY <1>1, <1>18 DEF MessageStop
<1>19. CASE Cut
  BY <1>3, <1>19 DEF Cut, history
<1> QED
  BY <1>5, <1>6, <1>7, <1>8, <1>9, <1>11, <1>12, <1>14, <1>15, <1>16, <1>17, <1>18, <1>19
  DEF Next

\* Nothing is due for a chunk that is done with.
LEMMA NothingDue ==
  /\ \A p : Due(p, Nothing) = {}
  /\ \A p, o : Rest(p, Nothing, o) = <<>>
  /\ \A k : k.calls = <<>> => Due("calls", k) = {} /\ \A o : Rest("calls", k, o) = <<>>
<1>1. \A o : ArgsFor(<<>>, o) = <<>>
  <2>1. <<>> \in Seq(Calls)
    OBVIOUS
  <2> QED BY <2>1, ArgsTyped
<1>2. \A k : k.calls = <<>> => Due("calls", k) = {} /\ \A o : Rest("calls", k, o) = <<>>
  BY <1>1 DEF Due, Rest
<1>3. Nothing.calls = <<>> /\ Nothing.text = None
  BY DEF Nothing
<1> HIDE DEF Nothing
<1> QED BY <1>1, <1>2, <1>3 DEF Due, Rest

\* A message that goes on, and whose client can follow it, is told what the
\* upstream has given.
LEMMA GoingFacts ==
  ASSUME IInv, TypeOK, Told, pc # "cut", ~view.over
  PROVE  /\ Complete /\ Reasons /\ Unmixed /\ InStep /\ ~finished /\ pc # "over"
         /\ view \in Views /\ (view.late => trailing)
         /\ pc \notin {"text", "calls"} => chunk = Nothing
BY DEF IInv, TypeOK, CodeTyped, Told, EndsOnce

\* What a step must keep while the message goes on.
LEMMA GoingOn ==
  ASSUME Told, IInv', ~view'.over, Complete', Unmixed', Reasons',
         view'.late = view.late, trailing' = trailing,
         pc' \notin {"text", "calls"} => chunk' = Nothing
  PROVE  Told'
<1>1. pc' # "over"
  BY DEF IInv
<1>2. EndsOnce'
  BY <1>1 DEF Told, EndsOnce
<1>3. AsInOnePiece'
  BY DEF AsInOnePiece
<1> QED BY <1>2, <1>3 DEF Told

\* The steps that hand on no piece.
LEMMA QuietStep ==
  ASSUME IInv, TypeOK, Told, IInv', TypeOK', pc # "cut", ~view.over,
         Start \/ NoText \/ EndOfChunk \/ End \/ CloseBlock \/ MessageDelta
  PROVE  Told'
<1>1. /\ Complete /\ Reasons /\ Unmixed /\ InStep /\ ~finished
      /\ view \in Views /\ view' \in Views /\ ~view'.garbled /\ (view.late => trailing)
      /\ pc \notin {"text", "calls"} => chunk = Nothing
  BY GoingFacts DEF IInv, CodeTyped
<1>2. ASSUME ~view'.over, view'.late = view.late, Len(view'.blocks) = Len(view.blocks),
             \A i \in 1..Len(view.blocks) :
                /\ view'.blocks[i].owner = view.blocks[i].owner
                /\ view'.blocks[i].data = view.blocks[i].data,
             \A o \in Owners : Rest(pc', chunk', o) = Rest(pc, chunk, o),
             Due(pc', chunk') = Due(pc, chunk),
             Reasons', pc' \notin {"text", "calls"} => chunk' = Nothing
      PROVE  Told'
  <2>1. UNCHANGED <<given, trailing, textBlock, blockOf>>
    BY DEF Start, NoText, EndOfChunk, End, CloseBlock, MessageDelta, history
  <2>2. Complete' /\ Unmixed'
    BY <1>1, <1>2, <2>1, Steady
  <2> QED BY <1>2, <2>1, <2>2, GoingOn
<1>3. \A e : view' = After(view, e) => Legal(view, e)
  BY <1>1, Followed
<1>4. ASSUME chunk = Nothing, chunk' = Nothing
      PROVE  /\ \A o \in Owners : Rest(pc', chunk', o) = Rest(pc, chunk, o)
             /\ Due(pc', chunk') = Due(pc, chunk)
  BY <1>4, NothingDue
<1>5. CASE Start
  <2> DEFINE e == Event("message_start", None, None)
  <2>1. /\ pc = "start" /\ pc' = "read" /\ view' = After(view, e)
        /\ chunk = Nothing /\ chunk' = Nothing /\ finish' = finish
    BY <1>1, <1>5 DEF Start, Emit, history
  <2>2. e.type = "message_start"
    BY DEF Event
  <2>3. view' = [view EXCEPT !.started = TRUE]
    <3> HIDE DEF e
    <3> QED BY <1>1, <1>3, <2>1, <2>2, AfterLegal
  <2>4. view'.blocks = view.blocks /\ ~view'.over /\ view'.late = view.late
    BY <1>1, <2>3 DEF Views
  <2>5. Reasons'
    BY <1>1, <2>1 DEF Reasons, Closes, Stops
  <2> QED BY <1>2, <1>4, <2>1, <2>4, <2>5
<1>6. CASE NoText
  <2>1. /\ pc = "text" /\ pc' = "calls" /\ chunk.text = None
        /\ UNCHANGED <<chunk, view, finish>>
    BY <1>6 DEF NoText, history
  <2>2. Due(pc', chunk') = Due(pc, chunk) /\ \A o \in Owners : Rest(pc', chunk', o) = Rest(pc, chunk, o)
    BY <2>1 DEF Due, Rest
  <2>3. Reasons'
    BY <1>1, <2>1 DEF Reasons, Closes, Stops
  <2> QED BY <1>2, <2>1, <2>2, <2>3
<1>7. CASE EndOfChunk
  <2>1. /\ pc = "calls" /\ chunk.calls = <<>> /\ chunk' = Nothing
        /\ IF chunk.finish # None THEN pc' = "close" /\ stop' = StopReason(chunk.finish)
                                  ELSE pc' = "read"
        /\ UNCHANGED <<view, finish>>
    BY <1>1, <1>7 DEF EndOfChunk, history
  <2>2. Due(pc', chunk') = Due(pc, chunk) /\ \A o \in Owners : Rest(pc', chunk', o) = Rest(pc, chunk, o)
    BY <2>1, NothingDue
  <2>3. Reasons'
    BY <1>1, <2>1 DEF Reasons, Closes, Stops
  <2> QED BY <1>2, <2>1, <2>2, <2>3
<1>8. CASE End
  <2>1. /\ pc = "read" /\ pc' = "close-at-end" /\ stop' = "end_turn"
        /\ chunk = Nothing /\ chunk' = Nothing /\ UNCHANGED <<view, finish>>
    BY <1>1, <1>8 DEF End, history
  <2>2. finish = None /\ StopReason(None) = "end_turn"
    BY <1>1, <2>1, ConstantsOK DEF Reasons, StopReason, Finishes
  <2>3. Reasons'
    BY <1>1, <2>1, <2>2 DEF Reasons, Closes, Stops
  <2> QED BY <1>2, <1>4, <2>1, <2>3
<1>9. CASE CloseBlock
  <2> DEFINE e == Event("content_block_stop", Head(closing), None)
  <2>1. /\ pc \in Closes /\ view' = After(view, e)
        /\ UNCHANGED <<pc, chunk, stop, finish>> /\ chunk = Nothing
    BY <1>1, <1>9 DEF CloseBlock, Emit, history, Closes
  <2>2. view.started /\ IsOpen(view, Head(closing))
    BY <1>1, <1>3, <2>1 DEF Legal, Event, InStep, Closes
  <2>3. LET w == After(view, e) IN
        /\ ~w.over /\ w.late = view.late /\ w.reason = view.reason
        /\ Len(w.blocks) = Len(view.blocks)
        /\ \A j \in 1..Len(view.blocks) :
             w.blocks[j].owner = view.blocks[j].owner /\ w.blocks[j].data = view.blocks[j].data
    BY <1>1, <2>2, AfterStop
  <2>4. /\ ~view'.over /\ view'.late = view.late /\ view'.reason = view.reason
        /\ Len(view'.blocks) = Len(view.blocks)
        /\ \A j \in 1..Len(view.blocks) :
             /\ view'.blocks[j].owner = view.blocks[j].owner
             /\ view'.blocks[j].data = view.blocks[j].data
    <3> HIDE DEF e
    <3> QED BY <2>1, <2>3
  <2>5. Reasons'
    BY <1>1, <2>1, <2>4 DEF Reasons
  <2> QED BY <1>2, <1>4, <2>1, <2>4, <2>5
<1>10. CASE MessageDelta
  <2> DEFINE e == Event("message_delta", None, stop)
  <2>1. /\ pc \in Closes /\ view' = After(view, e)
        /\ pc' = (IF pc = "close" THEN "stop" ELSE "stop-at-end")
        /\ chunk = Nothing /\ chunk' = Nothing /\ finish' = finish
    BY <1>1, <1>10 DEF MessageDelta, Emit, history, Closes
  <2>2. e.type = "message_delta" /\ e.data = stop
    BY DEF Event
  <2>3. view' = [view EXCEPT !.reason = stop]
    <3> HIDE DEF e
    <3> QED BY <1>1, <1>3, <2>1, <2>2, AfterLegal
  <2>4. view'.blocks = view.blocks /\ ~view'.over /\ view'.late = view.late /\ view'.reason = stop
    BY <1>1, <2>3 DEF Views
  <2>5. Reasons'
    BY <1>1, <2>1, <2>4 DEF Reasons, Closes, Stops
  <2> QED BY <1>2, <1>4, <2>1, <2>4, <2>5
<1> QED BY <1>5, <1>6, <1>7, <1>8, <1>9, <1>10

\* A chunk that arrives is due, whatever was given before it.
LEMMA ReceiveStep ==
  ASSUME IInv, TypeOK, Told, IInv', TypeOK', ~view.over, NEW k \in Chunks, Receive(k)
  PROVE  Told'
<1>1. /\ Complete /\ Reasons /\ Unmixed /\ (view.late => trailing)
      /\ pc = "read" /\ chunk = Nothing /\ finish = None
  BY GoingFacts DEF Receive, Reasons
<1>2. /\ pc' = "text" /\ chunk' = k /\ finish' = k.finish /\ given' = Supplied(k)
      /\ UNCHANGED <<view, trailing, textBlock, blockOf>>
  BY <1>1 DEF Receive
<1>3. /\ k \in [text : Pieces \cup {None}, calls : Seq(Calls), finish : Finishes \cup {None}]
      /\ DOMAIN given \subseteq Owners /\ OwnersIn(k) \subseteq Owners
      /\ \A o \in DOMAIN given : given[o] \in Seq(Pieces)
      /\ view.blocks \in Seq(Blocks)
  BY ConstantsOK, OwnersTyped DEF TypeOK, CodeTyped, Views
<1>4. Due(pc', chunk') = OwnersIn(k) /\ \A o : Rest(pc', chunk', o) = PiecesFor(k, o)
  BY <1>2 DEF Due, OwnersIn, Rest, PiecesFor
<1>5. \A o : PiecesFor(k, o) \in Seq(Pieces)
  BY <1>3, PiecesTyped
<1>6. Due(pc, chunk) = {} /\ \A o : Rest(pc, chunk, o) = <<>>
  BY <1>1, NothingDue
<1>7. DOMAIN given' = DOMAIN given \cup OwnersIn(k)
  BY <1>2 DEF Supplied
<1>8. \A o \in DOMAIN given : given'[o] = given[o] \o PiecesFor(k, o)
  BY <1>2 DEF Supplied
<1>9. ASSUME NEW o \in OwnersIn(k), o \notin DOMAIN given PROVE given'[o] = PiecesFor(k, o)
  <2> DEFINE p == PiecesFor(k, o)
  <2>1. given'[o] = <<>> \o p
    BY <1>2, <1>9 DEF Supplied
  <2>2. p \in Seq(Pieces)
    BY <1>5
  <2> HIDE DEF p
  <2>3. <<>> \o p = p
    BY <2>2, ConcatEmptySeq
  <2> QED BY <2>1, <2>3 DEF p
<1>10. ASSUME NEW i \in 1..Len(view.blocks)
       PROVE  /\ view.blocks[i].owner \in DOMAIN given'
              /\ given'[view.blocks[i].owner]
                   = view.blocks[i].data \o PiecesFor(k, view.blocks[i].owner)
              /\ IsPrefix(view.blocks[i].data, given'[view.blocks[i].owner])
  <2> DEFINE o == view.blocks[i].owner
             d == view.blocks[i].data
             p == PiecesFor(k, o)
  <2>1. o \in DOMAIN given /\ given[o] = d \o <<>>
    BY <1>1, <1>6 DEF Complete
  <2>2. d \in Seq(Pieces) /\ p \in Seq(Pieces)
    <3>1. view.blocks[i] \in Blocks
      BY <1>3
    <3> QED BY <1>5, <3>1 DEF Blocks
  <2>3. given'[o] = given[o] \o p
    BY <1>8, <2>1
  <2> HIDE DEF o, d, p
  <2>4. d \o <<>> = d
    BY <2>2, ConcatEmptySeq
  <2>5. given'[o] = d \o p
    BY <2>1, <2>3, <2>4
  <2>6. IsPrefix(d, d \o p)
    BY <2>2, PrefixOfConcat
  <2>7. o \in DOMAIN given' /\ given'[o] = d \o p /\ IsPrefix(d, given'[o])
    BY <1>7, <2>1, <2>5, <2>6
  <2> QED BY <2>7 DEF o, d, p
<1>11. Unmixed'
  <2>1. DOMAIN view.blocks = 1..Len(view.blocks)
    BY <1>3
  <2>2. \A i \in DOMAIN view.blocks : \A j \in DOMAIN view.blocks :
          view.blocks[j].owner = view.blocks[i].owner => i = j
    BY <1>1 DEF Unmixed
  <2> QED BY <1>2, <1>10, <2>1, <2>2 DEF Unmixed
<1>12. \A o \in DOMAIN given :
         Has(view', o) \/ (o \in Due(pc', chunk') /\ given'[o] = Rest(pc', chunk', o))
  <2>1. \A o \in DOMAIN given : Has(view, o)
    BY <1>1, <1>6 DEF Complete
  <2> QED BY <1>2, <2>1
<1>13. \A o \in DOMAIN given' :
         Has(view', o) \/ (o \in Due(pc', chunk') /\ given'[o] = Rest(pc', chunk', o))
  BY <1>4, <1>7, <1>9, <1>12
<1>14. Knows(view', textBlock', "text") /\ \A t \in Indexes : Knows(view', blockOf'[t], t)
  BY <1>1, <1>2 DEF Complete
<1>15. Complete'
  BY <1>2, <1>4, <1>7, <1>10, <1>13, <1>14 DEF Complete
<1>16. Reasons'
  BY <1>2 DEF Reasons, Closes, Stops
<1> QED BY <1>2, <1>11, <1>15, <1>16, GoingOn

\* A block is started for an owner with something due.
LEMMA StartStep ==
  ASSUME IInv, TypeOK, Told, IInv', TypeOK', ~view.over, StartText \/ StartCall
  PROVE  Told'
<1>1. /\ Complete /\ Reasons /\ Unmixed /\ InStep /\ (view.late => trailing)
      /\ view \in Views /\ ~view'.garbled /\ pc \in {"text", "calls"}
      /\ chunk.calls \in Seq(Calls) /\ blockOf \in [Indexes -> Nat \cup {None}]
  BY GoingFacts DEF IInv, CodeTyped, StartText, StartCall
<1>2. /\ UNCHANGED <<pc, chunk, given, finish, trailing, stop>>
      /\ nextIndex = Len(view.blocks)
  BY <1>1 DEF StartText, StartCall, history, InStep
<1>3. PICK o \in Owners :
        /\ o \in Due(pc, chunk) /\ ~Has(view, o)
        /\ view' = After(view, Event("content_block_start", Len(view.blocks), o))
        /\ textBlock' = IF o = "text" THEN Len(view.blocks) ELSE textBlock
        /\ \A t \in Indexes : blockOf'[t] = IF t = o THEN Len(view.blocks) ELSE blockOf[t]
  <2>1. CASE StartText
    <3> DEFINE o == "text"
    <3>1. o \in Owners /\ o \in Due(pc, chunk) /\ ~Has(view, o)
      BY <1>1, <2>1 DEF StartText, Due, Owners, Complete, Knows
    <3>2. /\ view' = After(view, Event("content_block_start", Len(view.blocks), o))
          /\ textBlock' = Len(view.blocks) /\ blockOf' = blockOf
      BY <1>2, <2>1 DEF StartText, Open, Emit
    <3>3. \A t \in Indexes : t # o
      BY ConstantsOK
    <3> QED BY <3>1, <3>2, <3>3
  <2>2. CASE StartCall
    <3> DEFINE o == Head(chunk.calls).index
    <3>1. /\ pc = "calls" /\ chunk.calls # <<>> /\ blockOf[o] = None
          /\ blockOf' = [blockOf EXCEPT ![o] = Len(view.blocks)] /\ textBlock' = textBlock
          /\ view' = After(view, Event("content_block_start", Len(view.blocks), o))
      BY <1>2, <2>2 DEF StartCall, Open, Emit
    <3>2. 1 \in DOMAIN chunk.calls /\ Head(chunk.calls) = chunk.calls[1]
          /\ chunk.calls[1] \in Calls
      BY <1>1, <3>1
    <3>3. o \in Indexes
      BY <3>2 DEF Calls
    <3>4. o \in Due(pc, chunk)
      BY <3>2 DEF Due
    <3>5. ~Has(view, o)
      BY <1>1, <3>1, <3>3 DEF Complete, Knows
    <3>6. o # "text" /\ o \in Owners
      BY <3>3, ConstantsOK DEF Owners
    <3> HIDE DEF o
    <3>7. \A t \in Indexes : blockOf'[t] = IF t = o THEN Len(view.blocks) ELSE blockOf[t]
      BY <1>1, <3>1
    <3> QED BY <3>1, <3>4, <3>5, <3>6, <3>7
  <2> QED BY <2>1, <2>2
<1>4. view.started /\ view.reason = None
  BY <1>1 DEF InStep, Stops
<1>5. LET w == After(view, Event("content_block_start", Len(view.blocks), o)) IN
      /\ ~w.over /\ w.late = view.late
      /\ Len(w.blocks) = Len(view.blocks) + 1
      /\ \A i \in 1..Len(view.blocks) : w.blocks[i] = view.blocks[i]
      /\ w.blocks[Len(view.blocks) + 1] = [owner |-> o, data |-> <<>>, open |-> TRUE]
  BY <1>1, <1>4, AfterStart
<1>6. /\ ~view'.over /\ view'.late = view.late
      /\ Len(view'.blocks) = Len(view.blocks) + 1
      /\ \A i \in 1..Len(view.blocks) : view'.blocks[i] = view.blocks[i]
      /\ view'.blocks[Len(view.blocks) + 1] = [owner |-> o, data |-> <<>>, open |-> TRUE]
  BY <1>3, <1>5
<1>7. Complete' /\ Unmixed'
  BY <1>1, <1>2, <1>3, <1>6, Begin
<1>8. Reasons'
  BY <1>1, <1>2 DEF Reasons, Closes, Stops
<1> QED BY <1>1, <1>2, <1>6, <1>7, <1>8, GoingOn

\* A text piece is handed on.
LEMMA TextStep ==
  ASSUME IInv, TypeOK, Told, IInv', TypeOK', ~view.over, TextDelta
  PROVE  Told'
<1>1. /\ Complete /\ Reasons /\ Unmixed /\ InStep /\ (view.late => trailing)
      /\ view \in Views /\ ~view'.garbled
  BY GoingFacts DEF IInv, CodeTyped, TextDelta
<1>2. /\ pc = "text" /\ pc' = "calls" /\ chunk.text # None /\ textBlock # None
      /\ view' = After(view, Event("content_block_delta", textBlock, chunk.text))
      /\ UNCHANGED <<chunk, given, finish, trailing, textBlock, blockOf>>
  BY DEF TextDelta, Emit, history
<1>3. chunk.text \in Pieces
  BY <1>2 DEF TypeOK, CodeTyped
<1>4. view.started /\ IsOpen(view, textBlock)
  <2>1. Legal(view, Event("content_block_delta", textBlock, chunk.text))
    BY <1>1, <1>2, Followed
  <2> QED BY <1>1, <1>2, <2>1 DEF Legal, Event, InStep
<1>5. LET w == After(view, Event("content_block_delta", textBlock, chunk.text)) IN
      /\ ~w.over /\ w.late = view.late
      /\ Len(w.blocks) = Len(view.blocks)
      /\ \A j \in 1..Len(view.blocks) : w.blocks[j].owner = view.blocks[j].owner
      /\ \A j \in 1..Len(view.blocks) :
           w.blocks[j].data = IF j = textBlock + 1 THEN Append(view.blocks[j].data, chunk.text)
                                                   ELSE view.blocks[j].data
  BY <1>1, <1>3, <1>4, AfterDelta
<1>6. /\ ~view'.over /\ view'.late = view.late /\ Len(view'.blocks) = Len(view.blocks)
      /\ \A j \in 1..Len(view.blocks) : view'.blocks[j].owner = view.blocks[j].owner
      /\ \A j \in 1..Len(view.blocks) :
           view'.blocks[j].data = IF j = textBlock + 1 THEN Append(view.blocks[j].data, chunk.text)
                                                       ELSE view.blocks[j].data
  BY <1>2, <1>5
<1>7. \A j \in 1..Len(view.blocks) : view.blocks[j].owner = "text" <=> j = textBlock + 1
  <2>1. textBlock + 1 \in 1..Len(view.blocks) /\ view.blocks[textBlock + 1].owner = "text"
    BY <1>1, <1>2 DEF Complete, Knows
  <2>2. DOMAIN view.blocks = 1..Len(view.blocks)
    BY <1>1 DEF Views
  <2> QED BY <1>1, <2>1, <2>2 DEF Unmixed
<1>8. Has(view, "text")
  BY <1>1, <1>2 DEF Complete, Knows, Has
<1> DEFINE P == [o \in Owners |-> IF o = "text" THEN <<chunk.text>> ELSE <<>>]
<1>9. P \in [Owners -> Seq(Pieces)]
  <2>1. <<chunk.text>> \in Seq(Pieces) /\ <<>> \in Seq(Pieces)
    BY <1>3
  <2> QED BY <2>1
<1>10. ASSUME NEW i \in 1..Len(view.blocks)
       PROVE  view'.blocks[i].data = view.blocks[i].data \o P[view.blocks[i].owner]
  <2> DEFINE o == view.blocks[i].owner
             d == view.blocks[i].data
             c == chunk.text
  <2>1. o \in Owners /\ d \in Seq(Pieces)
    <3>1. view.blocks[i] \in Blocks
      BY <1>1 DEF Views
    <3> QED BY <3>1 DEF Blocks
  <2>2. P[o] = IF o = "text" THEN <<c>> ELSE <<>>
    BY <2>1
  <2>3. view'.blocks[i].data = IF o = "text" THEN Append(d, c) ELSE d
    BY <1>6, <1>7
  <2>4. Append(d, c) = d \o <<c>> /\ d \o <<>> = d
    <3> HIDE DEF d, c
    <3>1. c \in Pieces
      BY <1>3 DEF c
    <3> QED BY <2>1, <3>1, AppendIsConcat, ConcatEmptySeq
  <2> HIDE DEF P
  <2> QED BY <2>2, <2>3, <2>4
<1>11. ASSUME NEW o \in Owners
       PROVE  /\ Rest(pc, chunk, o) = P[o] \o Rest(pc', chunk', o)
              /\ Has(view, o) \/ P[o] = <<>>
  <2>1. CASE o = "text"
    <3>1. Rest(pc, chunk, o) = <<chunk.text>> /\ Rest(pc', chunk', o) = <<>>
      BY <1>2, <2>1 DEF Rest
    <3>2. P[o] = <<chunk.text>>
      BY <2>1
    <3>3. <<chunk.text>> \o <<>> = <<chunk.text>>
      <4>1. <<chunk.text>> \in Seq(Pieces)
        BY <1>3
      <4> QED BY <4>1, ConcatEmptySeq
    <3> QED BY <1>8, <2>1, <3>1, <3>2, <3>3
  <2>2. CASE o # "text"
    <3> DEFINE r == Rest(pc, chunk, o)
    <3>1. r = Rest(pc', chunk', o)
      BY <1>2, <2>2 DEF Rest
    <3>2. r \in Seq(Pieces)
      BY RestTyped DEF TypeOK, CodeTyped
    <3>3. P[o] = <<>>
      BY <2>2
    <3> HIDE DEF r, P
    <3>4. <<>> \o r = r
      BY <3>2, ConcatEmptySeq
    <3> QED BY <3>1, <3>3, <3>4 DEF r
  <2> QED BY <2>1, <2>2
<1>12. Due(pc', chunk') \subseteq Due(pc, chunk)
       /\ \A o \in Due(pc, chunk) : o \in Due(pc', chunk') \/ Has(view, o)
  BY <1>2, <1>8 DEF Due
<1>13. Complete' /\ Unmixed'
  <2> HIDE DEF P
  <2> QED BY <1>1, <1>2, <1>6, <1>9, <1>10, <1>11, <1>12, Deliver
<1>14. Reasons'
  BY <1>1, <1>2 DEF Reasons, Closes, Stops
<1> QED BY <1>1, <1>2, <1>6, <1>13, <1>14, GoingOn

\* The arguments of a call are handed on, if it has any.
LEMMA CallStep ==
  ASSUME IInv, TypeOK, Told, IInv', TypeOK', ~view.over, CallDelta
  PROVE  Told'
<1> DEFINE tc == Head(chunk.calls)
           n == blockOf[tc.index]
<1>1. /\ Complete /\ Reasons /\ Unmixed /\ InStep /\ (view.late => trailing)
      /\ view \in Views /\ ~view'.garbled
      /\ chunk.calls \in Seq(Calls)
      /\ chunk \in [text : Pieces \cup {None}, calls : Seq(Calls), finish : Finishes \cup {None}]
  BY GoingFacts DEF IInv, CodeTyped, CallDelta
<1>2. /\ pc = "calls" /\ pc' = "calls" /\ chunk.calls # <<>> /\ n # None
      /\ IF tc.args # None THEN view' = After(view, Event("content_block_delta", n, tc.args))
                           ELSE view' = view
      /\ chunk' = [chunk EXCEPT !.calls = Tail(chunk.calls)]
      /\ UNCHANGED <<given, finish, trailing, textBlock, blockOf>>
  BY DEF CallDelta, Emit, history
<1>3. /\ tc \in Calls /\ tc = chunk.calls[1] /\ 1 \in DOMAIN chunk.calls
      /\ Tail(chunk.calls) \in Seq(Calls)
      /\ DOMAIN chunk.calls = 1..Len(chunk.calls) /\ DOMAIN Tail(chunk.calls) = 1..(Len(chunk.calls) - 1)
      /\ Len(chunk.calls) \in Nat
      /\ \A j \in 1..(Len(chunk.calls) - 1) : Tail(chunk.calls)[j] = chunk.calls[j + 1]
  BY <1>1, <1>2
<1>4. tc.index \in Indexes /\ tc.args \in Pieces \cup {None} /\ tc.index # "text"
  BY <1>3, ConstantsOK DEF Calls
<1>5. chunk'.calls = Tail(chunk.calls) /\ chunk'.finish = chunk.finish
  BY <1>1, <1>2
<1> HIDE DEF tc, n
<1>6. n + 1 \in 1..Len(view.blocks) /\ view.blocks[n + 1].owner = tc.index
  BY <1>1, <1>2, <1>4 DEF Complete, Knows, n
<1>7. \A j \in 1..Len(view.blocks) : view.blocks[j].owner = tc.index <=> j = n + 1
  <2>1. DOMAIN view.blocks = 1..Len(view.blocks)
    BY <1>1 DEF Views
  <2> QED BY <1>1, <1>6, <2>1 DEF Unmixed
<1>8. Has(view, tc.index)
  BY <1>6 DEF Has
<1>9. /\ ~view'.over /\ view'.late = view.late /\ Len(view'.blocks) = Len(view.blocks)
      /\ \A j \in 1..Len(view.blocks) : view'.blocks[j].owner = view.blocks[j].owner
      /\ \A j \in 1..Len(view.blocks) :
           view'.blocks[j].data = IF j = n + 1 /\ tc.args # None
                                    THEN Append(view.blocks[j].data, tc.args)
                                    ELSE view.blocks[j].data
  <2>1. CASE tc.args = None
    BY <1>2, <2>1
  <2>2. CASE tc.args # None
    <3>1. tc.args \in Pieces /\ view' = After(view, Event("content_block_delta", n, tc.args))
      BY <1>2, <1>4, <2>2
    <3>2. view.started /\ IsOpen(view, n)
      <4>1. Legal(view, Event("content_block_delta", n, tc.args))
        BY <1>1, <3>1, Followed
      <4> QED BY <1>1, <1>2, <4>1 DEF Legal, Event, InStep
    <3>3. LET w == After(view, Event("content_block_delta", n, tc.args)) IN
          /\ ~w.over /\ w.late = view.late
          /\ Len(w.blocks) = Len(view.blocks)
          /\ \A j \in 1..Len(view.blocks) : w.blocks[j].owner = view.blocks[j].owner
          /\ \A j \in 1..Len(view.blocks) :
               w.blocks[j].data = IF j = n + 1 THEN Append(view.blocks[j].data, tc.args)
                                               ELSE view.blocks[j].data
      BY <1>1, <3>1, <3>2, AfterDelta
    <3> QED BY <2>2, <3>1, <3>3
  <2> QED BY <2>1, <2>2
<1> DEFINE P == [o \in Owners |-> IF o = "text" THEN <<>> ELSE Piece(tc, o)]
<1>10. P \in [Owners -> Seq(Pieces)]
  <2>1. <<>> \in Seq(Pieces) /\ \A o : Piece(tc, o) \in Seq(Pieces)
    BY <1>3, PieceTyped
  <2> QED BY <2>1
<1>11. \A o \in Owners : P[o] = IF o = tc.index /\ tc.args # None THEN <<tc.args>> ELSE <<>>
  BY <1>4 DEF Piece
<1> HIDE DEF P
<1>12. ASSUME NEW i \in 1..Len(view.blocks)
       PROVE  view'.blocks[i].data = view.blocks[i].data \o P[view.blocks[i].owner]
  <2> DEFINE o == view.blocks[i].owner
             d == view.blocks[i].data
             c == tc.args
  <2>1. o \in Owners /\ d \in Seq(Pieces)
    <3>1. view.blocks[i] \in Blocks
      BY <1>1 DEF Views
    <3> QED BY <3>1 DEF Blocks
  <2>2. P[o] = IF o = tc.index /\ c # None THEN <<c>> ELSE <<>>
    BY <1>11, <2>1
  <2>3. view'.blocks[i].data = IF o = tc.index /\ c # None THEN Append(d, c) ELSE d
    BY <1>7, <1>9
  <2>4. d \o <<>> = d /\ (c # None => Append(d, c) = d \o <<c>>)
    <3> HIDE DEF d, c
    <3>1. c \in Pieces \cup {None}
      BY <1>4 DEF c
    <3> QED BY <2>1, <3>1, AppendIsConcat, ConcatEmptySeq
  <2> QED BY <2>2, <2>3, <2>4
<1>13. ASSUME NEW o \in Owners
       PROVE  /\ Rest(pc, chunk, o) = P[o] \o Rest(pc', chunk', o)
              /\ Has(view, o) \/ P[o] = <<>>
  <2>1. CASE o = "text"
    <3>1. P[o] = <<>> /\ Rest(pc, chunk, o) = <<>> /\ Rest(pc', chunk', o) = <<>>
      BY <1>2, <1>4, <1>11, <2>1 DEF Rest
    <3>2. <<>> \o <<>> = <<>>
      OBVIOUS
    <3> QED BY <3>1, <3>2
  <2>2. CASE o # "text"
    <3>1. ArgsFor(chunk.calls, o) = Piece(tc, o) \o ArgsFor(Tail(chunk.calls), o)
      BY <1>1, <1>2, ArgsHead DEF tc
    <3>2. P[o] = Piece(tc, o)
      BY <2>2 DEF P
    <3> QED BY <1>5, <1>8, <1>11, <2>2, <3>1, <3>2 DEF Rest
  <2> QED BY <2>1, <2>2
<1>14. Due(pc, chunk) = {tc.index} \cup Due(pc', chunk')
  <2>1. /\ Due(pc, chunk) = {chunk.calls[j].index : j \in 1..Len(chunk.calls)}
        /\ Due(pc', chunk') = {Tail(chunk.calls)[j].index : j \in 1..(Len(chunk.calls) - 1)}
    BY <1>2, <1>3, <1>5 DEF Due
  <2>2. \A j \in 1..Len(chunk.calls) :
          j = 1 \/ (j - 1 \in 1..(Len(chunk.calls) - 1) /\ Tail(chunk.calls)[j - 1] = chunk.calls[j])
    BY <1>3
  <2>3. \A j \in 1..(Len(chunk.calls) - 1) :
          j + 1 \in 1..Len(chunk.calls) /\ Tail(chunk.calls)[j] = chunk.calls[j + 1]
    BY <1>3
  <2> QED BY <1>3, <2>1, <2>2, <2>3
<1>15. Complete' /\ Unmixed'
  BY <1>1, <1>2, <1>8, <1>9, <1>10, <1>12, <1>13, <1>14, Deliver
<1>16. Reasons'
  BY <1>1, <1>2, <1>5 DEF Reasons, Closes, Stops
<1> QED BY <1>1, <1>2, <1>9, <1>15, <1>16, GoingOn

\* The message ends when everything given has been handed on.
LEMMA EndStep ==
  ASSUME IInv, TypeOK, Told, IInv', TypeOK', ~view.over, MessageStop
  PROVE  Told'
<1> DEFINE e == Event("message_stop", None, None)
<1>1. /\ Complete /\ Reasons /\ Unmixed /\ InStep /\ (view.late => trailing)
      /\ view \in Views /\ ~view'.garbled /\ pc \in Stops /\ chunk = Nothing
  BY GoingFacts DEF IInv, CodeTyped, MessageStop, Stops
<1>2. /\ view' = After(view, e)
      /\ IF pc = "stop" THEN pc' = "read" /\ finished' = TRUE ELSE pc' = "over"
      /\ UNCHANGED <<chunk, given, finish, trailing>>
  BY DEF MessageStop, Emit, history
<1>3. view.started /\ view.reason # None
  BY <1>1 DEF InStep, Stops
<1>4. view'.over /\ view'.blocks = view.blocks /\ view'.reason = view.reason /\ view'.late = view.late
  BY <1>1, <1>2, <1>3, AfterEnd
<1>5. Due(pc, chunk) = {} /\ Due(pc', chunk') = {} /\ \A o : Rest(pc, chunk, o) = <<>>
  BY <1>1, <1>2, NothingDue
<1>6. Unmixed'
  BY <1>1, <1>2, <1>4 DEF Unmixed
<1>7. EndsOnce'
  BY <1>1, <1>2, <1>4 DEF EndsOnce
<1>8. Done'
  BY <1>1, <1>2, <1>5 DEF Done, Reasons
<1>9. AsInOnePiece'
  <2>1. view.reason = StopReason(finish)
    BY <1>1 DEF Reasons
  <2>2. ASSUME NEW i \in 1..Len(view.blocks)
        PROVE  /\ view.blocks[i].owner \in DOMAIN given
               /\ given[view.blocks[i].owner] = view.blocks[i].data
    <3> DEFINE b == view.blocks[i]
    <3>1. b \in Blocks
      BY <1>1 DEF Views
    <3>2. b.data \in Seq(Pieces)
      BY <3>1 DEF Blocks
    <3>3. b.owner \in DOMAIN given /\ given[b.owner] = b.data \o <<>>
      BY <1>1, <1>5 DEF Complete
    <3> HIDE DEF b
    <3>4. b.data \o <<>> = b.data
      BY <3>2, ConcatEmptySeq
    <3> QED BY <3>3, <3>4 DEF b
  <2>3. \A o \in DOMAIN given : \E i \in 1..Len(view.blocks) : view.blocks[i].owner = o
    BY <1>1, <1>5 DEF Complete, Has
  <2>4. ToSet(view.blocks) = {view.blocks[i] : i \in 1..Len(view.blocks)}
    BY <1>1 DEF ToSet, Views
  <2>5. {[owner |-> b.owner, data |-> b.data] : b \in ToSet(view.blocks)}
          = {[owner |-> o, data |-> given[o]] : o \in DOMAIN given}
    BY <2>2, <2>3, <2>4
  <2> QED BY <1>2, <1>4, <2>1, <2>5 DEF AsInOnePiece, Response
<1>10. pc' \notin {"text", "calls", "cut"} /\ chunk' = Nothing
  BY <1>1, <1>2
<1> QED BY <1>4, <1>6, <1>7, <1>8, <1>9, <1>10 DEF Told

\* Nothing is given and nothing is told at the start.
LEMMA ToldInit == Init => Told
<1> SUFFICES ASSUME Init PROVE Told
  OBVIOUS
<1>1. /\ view = Blank /\ pc = "start" /\ chunk = Nothing /\ textBlock = None
      /\ blockOf = [i \in Indexes |-> None] /\ DOMAIN given = {} /\ finish = None
  BY DEF Init
<1>2. view.blocks = <<>> /\ DOMAIN view.blocks = {} /\ 1..Len(view.blocks) = {}
      /\ ~view.over /\ ~view.late
  BY <1>1 DEF Blank
<1>3. Unmixed /\ AsInOnePiece /\ EndsOnce
  BY <1>1, <1>2 DEF Unmixed, AsInOnePiece, EndsOnce
<1>4. Complete
  BY <1>1, <1>2, NothingDue DEF Complete, Knows, Has
<1>5. Reasons
  BY <1>1 DEF Reasons, Closes, Stops
<1> QED BY <1>1, <1>2, <1>3, <1>4, <1>5 DEF Told

\* Every action keeps the client told.
LEMMA ToldStep == IInv /\ TypeOK /\ Told /\ IInv' /\ TypeOK' /\ [Next]_vars => Told'
<1> SUFFICES ASSUME IInv, TypeOK, Told, IInv', TypeOK', [Next]_vars PROVE Told'
  OBVIOUS
<1>1. CASE UNCHANGED vars
  BY <1>1, Zenon DEF vars, code, history, Told, Unmixed, AsInOnePiece, Response, EndsOnce, Done,
     Complete, Reasons
<1>2. CASE Next /\ pc = "cut"
  BY <1>2 DEF Next, Start, Receive, NoText, StartText, TextDelta, StartCall, CallDelta,
     EndOfChunk, End, CloseBlock, MessageDelta, MessageStop, Cut, Closes
<1>3. CASE Next /\ pc # "cut" /\ view.over
  BY <1>3, DoneStep
<1>4. CASE Cut
  <2>1. UNCHANGED <<view, given, finish, trailing>> /\ pc' = "cut"
    BY <1>4 DEF Cut, history
  <2>2. Unmixed' /\ AsInOnePiece' /\ EndsOnce'
    BY <2>1, Zenon DEF Told, Unmixed, AsInOnePiece, Response, EndsOnce
  <2> QED BY <2>1, <2>2 DEF Told
<1>5. CASE Next /\ ~Cut /\ pc # "cut" /\ ~view.over
  BY <1>5, QuietStep, ReceiveStep, StartStep, TextStep, CallStep, EndStep, Zenon DEF Next
<1> QED BY <1>1, <1>2, <1>3, <1>4, <1>5

\* At every step the client has been told what the upstream has given, but for
\* what is still due of the chunk in work.
THEOREM ClientIsTold == Spec => []Told
<1> QED BY InvInit, InvStep, TypeInit, TypeStep, ToldInit, ToldStep, PTL DEF Spec

\* For any tool calls, chunks and interleaving, each block carries the pieces of
\* its owner in their order, and no owner has two blocks.
THEOREM StreamsAreUnmixed == Spec => []Unmixed
<1>1. Told => Unmixed
  BY DEF Told
<1> QED BY <1>1, ClientIsTold, PTL

\* A client that streams ends with the content and the reason that it would have
\* been told without streaming.
THEOREM StreamsTellTheSame == Spec => []AsInOnePiece
<1>1. Told => AsInOnePiece
  BY DEF Told
<1> QED BY <1>1, ClientIsTold, PTL

\* A stream that is not cut reaches its message_stop, and what follows it comes
\* from an upstream that sends content after its own finish_reason.
THEOREM StreamsEndOnce == Spec => []EndsOnce
<1>1. Told => EndsOnce
  BY DEF Told
<1> QED BY <1>1, ClientIsTold, PTL

=============================================================================
