--------------------------- MODULE ToOpenaiProofs ---------------------------
(* Theorems about ToOpenai, for any pieces and any number of blocks.        *)
EXTENDS ToOpenai, SequenceTheorems, WellFoundedInduction, TLAPS

Calls == [block : Nat, args : Seq(Pieces)]

Reasons == {"stop", "length", "tool_calls"}

Views == [text : Seq(Pieces), calls : Seq(Calls), finishes : Seq(Reasons),
          done : BOOLEAN, garbled : BOOLEAN]

Blocks == [kind : BlockKinds, data : Seq(Pieces), open : BOOLEAN]

LEMMA ReasonsOnly == \A s : FinishReason(s) \in Reasons
BY DEF FinishReason, Reasons

-----------------------------------------------------------------------------
(* Types                                                                   *)

LEMMA Typed ==
  TypeOK <=>
    /\ pc \in {"read", "closing", "over", "cut"}
    /\ DOMAIN toolIndexOf \subseteq Nat
    /\ \A i \in DOMAIN toolIndexOf : toolIndexOf[i] \in Nat
    /\ nextCall \in Nat /\ finished \in BOOLEAN
    /\ view \in Views
    /\ blocks \in Seq(Blocks)
    /\ stop \in StopReasons \cup {None}
    /\ phase \in {"content", "ending", "failed"}
BY DEF TypeOK, Views, Blocks, Calls, Reasons

\* What a chunk makes of the client is a client again.
LEMMA ViewsStay ==
  ASSUME view \in Views
  PROVE  /\ \A p \in Pieces : Content(p) => view' \in Views
         /\ \A i, b \in Nat : NewCall(i, b) => view' \in Views
         /\ \A i \in Nat, p \in Pieces : Arguments(i, p) => view' \in Views
         /\ \A r \in Reasons : Finish(r) => view' \in Views
<1> DEFINE late == view.finishes # <<>>
<1>0. /\ \A t \in Seq(Pieces), g \in BOOLEAN : [view EXCEPT !.text = t, !.garbled = g] \in Views
      /\ \A c \in Seq(Calls), g \in BOOLEAN : [view EXCEPT !.calls = c, !.garbled = g] \in Views
      /\ \A f \in Seq(Reasons) : [view EXCEPT !.finishes = f] \in Views
  BY DEF Views
<1>1. ASSUME NEW p \in Pieces, Content(p) PROVE view' \in Views
  <2> DEFINE g == view.garbled \/ late
             t == Append(view.text, p)
  <2>1. view' = [view EXCEPT !.text = t, !.garbled = g]
    BY <1>1, Zenon DEF Content
  <2>2. g \in BOOLEAN
    BY Zenon
  <2>3. t \in Seq(Pieces)
    BY DEF Views
  <2> HIDE DEF g, t
  <2> QED BY <1>0, <2>1, <2>2, <2>3
<1>2. ASSUME NEW i \in Nat, NEW b \in Nat, NewCall(i, b) PROVE view' \in Views
  <2> DEFINE g == view.garbled \/ i # Len(view.calls) \/ late
             c == Append(view.calls, [block |-> b, args |-> <<>>])
  <2>1. view' = [view EXCEPT !.calls = c, !.garbled = g]
    BY <1>2, Zenon DEF NewCall
  <2>2. g \in BOOLEAN
    BY Zenon
  <2>3. c \in Seq(Calls)
    BY DEF Views, Calls
  <2> HIDE DEF g, c
  <2> QED BY <1>0, <2>1, <2>2, <2>3
<1>3. ASSUME NEW i \in Nat, NEW p \in Pieces, Arguments(i, p) PROVE view' \in Views
  <2>1. CASE i < Len(view.calls)
    <3> DEFINE g == view.garbled \/ late
               k == [view.calls[i + 1] EXCEPT !.args = Append(view.calls[i + 1].args, p)]
               c == [view.calls EXCEPT ![i + 1] = k]
    <3>1. view' = [view EXCEPT !.calls = c, !.garbled = g]
      BY <1>3, <2>1, Zenon DEF Arguments
    <3>2. g \in BOOLEAN
      BY Zenon
    <3>3. i + 1 \in 1..Len(view.calls) /\ view.calls \in Seq(Calls) /\ view.calls[i + 1] \in Calls
      BY <2>1 DEF Views
    <3>4. k \in Calls
      <4>1. Append(view.calls[i + 1].args, p) \in Seq(Pieces)
        BY <3>3 DEF Calls
      <4> QED BY <3>3, <4>1, Zenon DEF Calls
    <3>5. c \in Seq(Calls)
      <4> HIDE DEF k
      <4> QED BY <3>3, <3>4
    <3> HIDE DEF g, c
    <3> QED BY <1>0, <3>1, <3>2, <3>5
  <2> QED BY <1>3, <2>1 DEF Arguments, Views
<1>4. ASSUME NEW r \in Reasons, Finish(r) PROVE view' \in Views
  <2> DEFINE f == Append(view.finishes, r)
  <2>1. f \in Seq(Reasons)
    BY DEF Views
  <2>2. view' = [view EXCEPT !.finishes = f]
    BY <1>4, Zenon DEF Finish
  <2> HIDE DEF f
  <2> QED BY <1>0, <2>1, <2>2
<1> QED BY <1>1, <1>2, <1>3, <1>4

\* What an event makes of a block is a block again.
LEMMA BlocksStay ==
  ASSUME NEW b \in Blocks
  PROVE  /\ [b EXCEPT !.open = FALSE] \in Blocks
         /\ \A p \in Pieces : [b EXCEPT !.data = Append(@, p)] \in Blocks
<1>1. [b EXCEPT !.open = FALSE] \in Blocks
  BY DEF Blocks
<1>2. ASSUME NEW p \in Pieces PROVE [b EXCEPT !.data = Append(@, p)] \in Blocks
  <2>1. Append(b.data, p) \in Seq(Pieces)
    BY DEF Blocks
  <2> QED BY <2>1, Zenon DEF Blocks
<1> QED BY <1>1, <1>2

LEMMA TypeInit == Init => TypeOK
<1> SUFFICES ASSUME Init PROVE TypeOK
  OBVIOUS
<1>1. view \in Views
  BY DEF Init, Blank, Views
<1>2. DOMAIN toolIndexOf = {}
  BY DEF Init
<1>3. blocks \in Seq(Blocks)
  BY DEF Init
<1>4. TypeOK <=> pc \in {"read", "closing", "over", "cut"}
                 /\ nextCall \in Nat /\ finished \in BOOLEAN
                 /\ stop \in StopReasons \cup {None}
                 /\ phase \in {"content", "ending", "failed"}
  BY <1>1, <1>2, <1>3, Typed
<1> QED BY <1>4 DEF Init

LEMMA TypeStep == TypeOK /\ [Next]_vars => TypeOK'
<1> SUFFICES ASSUME TypeOK, [Next]_vars PROVE TypeOK'
  OBVIOUS
<1>0. /\ pc \in {"read", "closing", "over", "cut"}
      /\ DOMAIN toolIndexOf \subseteq Nat
      /\ \A i \in DOMAIN toolIndexOf : toolIndexOf[i] \in Nat
      /\ nextCall \in Nat /\ finished \in BOOLEAN
      /\ view \in Views
      /\ blocks \in Seq(Blocks)
      /\ stop \in StopReasons \cup {None}
      /\ phase \in {"content", "ending", "failed"}
  BY Typed
<1> SUFFICES
      /\ pc' \in {"read", "closing", "over", "cut"}
      /\ DOMAIN toolIndexOf' \subseteq Nat
      /\ \A i \in DOMAIN toolIndexOf' : toolIndexOf'[i] \in Nat
      /\ nextCall' \in Nat /\ finished' \in BOOLEAN
      /\ view' \in Views
      /\ blocks' \in Seq(Blocks)
      /\ stop' \in StopReasons \cup {None}
      /\ phase' \in {"content", "ending", "failed"}
  BY Typed DEF TypeOK, Views, Blocks, Calls, Reasons
<1>1. ASSUME NEW kind \in Kinds, BlockStart(kind)
      PROVE  /\ UNCHANGED <<pc, finished, stop, phase>>
             /\ DOMAIN toolIndexOf' \subseteq Nat
             /\ \A i \in DOMAIN toolIndexOf' : toolIndexOf'[i] \in Nat
             /\ nextCall' \in Nat /\ view' \in Views /\ blocks' \in Seq(Blocks)
  <2>1. NewBlock(kind) \in Blocks
    BY ConstantsOK DEF NewBlock, Blocks
  <2>2. blocks' \in Seq(Blocks)
    BY <1>0, <1>1, <2>1 DEF BlockStart
  <2>3. Len(blocks) \in Nat
    BY <1>0
  <2>4. CASE kind = "tool_use"
    <3>1. toolIndexOf' = Put(toolIndexOf, Len(blocks), nextCall) /\ nextCall' = nextCall + 1
          /\ NewCall(nextCall, Len(blocks))
      BY <1>1, <2>4 DEF BlockStart
    <3>2. view' \in Views
      BY <1>0, <2>3, <3>1, ViewsStay
    <3>3. /\ DOMAIN toolIndexOf' \subseteq Nat
          /\ \A i \in DOMAIN toolIndexOf' : toolIndexOf'[i] \in Nat
      BY <1>0, <2>3, <3>1 DEF Put
    <3> QED BY <1>0, <1>1, <2>2, <3>1, <3>2, <3>3 DEF BlockStart
  <2> QED BY <1>0, <1>1, <2>2, <2>4 DEF BlockStart
<1>2. ASSUME NEW i \in DOMAIN blocks, BlockStop(i) PROVE blocks' \in Seq(Blocks)
  <2>1. [blocks[i] EXCEPT !.open = FALSE] \in Blocks
    BY <1>0, BlocksStay
  <2> QED BY <1>0, <1>2, <2>1 DEF BlockStop
<1>3. ASSUME NEW i \in DOMAIN blocks, NEW p \in Pieces, BlockDelta(i, p)
      PROVE  blocks' \in Seq(Blocks) /\ view' \in Views
  <2>1. [blocks[i] EXCEPT !.data = Append(@, p)] \in Blocks
    <3>1. blocks[i] \in Blocks
      BY <1>0
    <3> QED BY <3>1, BlocksStay, Zenon
  <2>2. ToolIndex(i - 1) \in Nat
    BY <1>0 DEF ToolIndex
  <2>3. Content(p) \/ Arguments(ToolIndex(i - 1), p)
    BY <1>3 DEF BlockDelta
  <2>4. view' \in Views
    BY <1>0, <2>2, <2>3, ViewsStay
  <2> QED BY <1>0, <1>3, <2>1, <2>4 DEF BlockDelta
<1>4. ASSUME NEW s \in StopReasons, MessageDelta(s) PROVE view' \in Views
  BY <1>0, <1>4, ViewsStay, ReasonsOnly DEF MessageDelta
<1>5. ASSUME End PROVE view' \in Views
  <2>1. "stop" \in Reasons
    BY DEF Reasons
  <2> QED BY <1>0, <1>5, <2>1, ViewsStay DEF End
<1>6. ASSUME Done PROVE view' \in Views
  BY <1>0, <1>6 DEF Done, Views
<1>7. CASE \E kind \in Kinds : BlockStart(kind)
  BY <1>0, <1>1, <1>7
<1>8. CASE \E i \in DOMAIN blocks : BlockStop(i)
  BY <1>0, <1>2, <1>8 DEF BlockStop, code
<1>9. CASE \E i \in DOMAIN blocks, p \in Pieces : BlockDelta(i, p)
  BY <1>0, <1>3, <1>9 DEF BlockDelta, code
<1>10. CASE \E s \in StopReasons : MessageDelta(s)
  BY <1>0, <1>4, <1>10 DEF MessageDelta
<1>11. CASE End
  BY <1>0, <1>5, <1>11 DEF End, upstream
<1>12. CASE Done
  BY <1>0, <1>6, <1>12 DEF Done, upstream
<1>13. CASE Error \/ Cut \/ UNCHANGED vars
  BY <1>0, <1>13 DEF Error, Cut, vars, code, upstream
<1> QED BY <1>7, <1>8, <1>9, <1>10, <1>11, <1>12, <1>13 DEF Next

\* Every variable keeps its type, whatever blocks the upstream sends.
THEOREM TypeCorrect == Spec => []TypeOK
BY TypeInit, TypeStep, PTL DEF Spec

-----------------------------------------------------------------------------
(* What a client makes of the chunks that the code sends                   *)

\* A client that has seen no finish_reason follows a piece of text,
LEMMA AfterContent ==
  ASSUME view \in Views, ~view.garbled, view.finishes = <<>>, NEW p \in Pieces, Content(p)
  PROVE  ~view'.garbled /\ view'.calls = view.calls /\ view'.text = Append(view.text, p)
         /\ view'.finishes = view.finishes /\ view'.done = view.done
<1> DEFINE t == Append(view.text, p)
<1>1. view' = [view EXCEPT !.text = t, !.garbled = FALSE]
  BY Zenon DEF Content
<1> HIDE DEF t
<1>2. ~view'.garbled /\ view'.calls = view.calls /\ view'.text = t
      /\ view'.finishes = view.finishes /\ view'.done = view.done
  BY <1>1 DEF Views
<1> QED BY <1>2 DEF t

\* ... the next call,
LEMMA AfterNewCall ==
  ASSUME view \in Views, ~view.garbled, view.finishes = <<>>,
         NEW b \in Nat, NewCall(Len(view.calls), b)
  PROVE  ~view'.garbled /\ view'.calls = Append(view.calls, [block |-> b, args |-> <<>>])
         /\ view'.finishes = view.finishes /\ view'.done = view.done /\ view'.text = view.text
<1> DEFINE c == Append(view.calls, [block |-> b, args |-> <<>>])
<1>1. view' = [view EXCEPT !.calls = c, !.garbled = FALSE]
  BY Zenon DEF NewCall
<1> HIDE DEF c
<1>2. ~view'.garbled /\ view'.calls = c /\ view'.finishes = view.finishes /\ view'.done = view.done
      /\ view'.text = view.text
  BY <1>1 DEF Views
<1> QED BY <1>2 DEF c

\* ... and the arguments of a call that it knows.
LEMMA AfterArguments ==
  ASSUME view \in Views, ~view.garbled, view.finishes = <<>>,
         NEW x \in Nat, x < Len(view.calls), NEW p \in Pieces, Arguments(x, p)
  PROVE  /\ ~view'.garbled
         /\ view'.finishes = view.finishes /\ view'.done = view.done /\ view'.text = view.text
         /\ Len(view'.calls) = Len(view.calls)
         /\ \A k \in 1..Len(view.calls) : k # x + 1 => view'.calls[k] = view.calls[k]
         /\ view'.calls[x + 1].block = view.calls[x + 1].block
         /\ view'.calls[x + 1].args = Append(view.calls[x + 1].args, p)
<1> DEFINE k == [view.calls[x + 1] EXCEPT !.args = Append(view.calls[x + 1].args, p)]
           c == [view.calls EXCEPT ![x + 1] = k]
<1>0. view.calls \in Seq(Calls) /\ x + 1 \in 1..Len(view.calls) /\ view.calls[x + 1] \in Calls
  BY DEF Views
<1>1. view' = [view EXCEPT !.calls = c, !.garbled = FALSE]
  BY Zenon DEF Arguments
<1>2. ~view'.garbled /\ view'.calls = c /\ view'.finishes = view.finishes /\ view'.done = view.done
      /\ view'.text = view.text
  <2> HIDE DEF c
  <2> QED BY <1>1 DEF Views
<1>3. k.block = view.calls[x + 1].block /\ k.args = Append(view.calls[x + 1].args, p)
  BY <1>0 DEF Calls
<1>4. /\ Len(c) = Len(view.calls)
      /\ \A j \in 1..Len(view.calls) : j # x + 1 => c[j] = view.calls[j]
      /\ c[x + 1] = k
  <2> HIDE DEF k
  <2> QED BY <1>0
<1> HIDE DEF k, c
<1> QED BY <1>2, <1>3, <1>4

\* The finish_reason.
LEMMA AfterFinish ==
  ASSUME view \in Views, view.finishes = <<>>, NEW r \in Reasons, Finish(r)
  PROVE  view'.garbled = view.garbled /\ view'.calls = view.calls
         /\ Len(view'.finishes) = 1 /\ view'.done = view.done
         /\ view'.finishes = <<r>> /\ view'.text = view.text
<1> DEFINE f == Append(view.finishes, r)
<1>1. view' = [view EXCEPT !.finishes = f]
  BY Zenon DEF Finish
<1>2. Len(f) = 1 /\ f = <<r>>
  BY DEF Views
<1> HIDE DEF f
<1>3. /\ view'.garbled = view.garbled /\ view'.calls = view.calls /\ view'.finishes = f
      /\ view'.done = view.done /\ view'.text = view.text
  BY <1>1 DEF Views
<1> QED BY <1>2, <1>3

-----------------------------------------------------------------------------
(* Code, upstream and client                                               *)

\* tool_index_map numbers the upstream's tool_use blocks as the client numbers
\* the calls it has, and each call has the data of its block.
InStep ==
  /\ nextCall = Len(view.calls)
  /\ \A i \in Nat : i \in DOMAIN toolIndexOf <=> i < Len(blocks) /\ blocks[i + 1].kind = "tool_use"
  /\ \A i \in DOMAIN toolIndexOf :
       toolIndexOf[i] < nextCall /\ view.calls[toolIndexOf[i] + 1].block = i
  /\ \A k \in 1..Len(view.calls) :
       /\ view.calls[k].block \in DOMAIN toolIndexOf
       /\ toolIndexOf[view.calls[k].block] = k - 1
       /\ view.calls[k].args = blocks[view.calls[k].block + 1].data

\* Where in the stream the finish_reason is.
Ending ==
  /\ pc = "read" => (finished <=> phase = "ending")
  /\ pc = "read" /\ ~finished => view.finishes = <<>>
  /\ finished \/ pc \in {"closing", "over"} => Len(view.finishes) = 1
  /\ view.done => pc = "over"

IInv ==
  /\ TypeOK /\ InStep /\ Ending
  /\ ~view.garbled
  /\ \A i \in 1..Len(blocks) : blocks[i].kind \in Kinds

LEMMA InvInit == Init => IInv
<1> SUFFICES ASSUME Init PROVE IInv
  OBVIOUS
<1>1. DOMAIN toolIndexOf = {} /\ Len(blocks) = 0 /\ Len(view.calls) = 0 /\ nextCall = 0
  BY DEF Init, Blank
<1>2. InStep
  BY <1>1 DEF InStep
<1>3. view.finishes = <<>> /\ ~view.done /\ ~view.garbled
  BY DEF Init, Blank
<1>4. Ending
  BY <1>3 DEF Init, Ending
<1> QED BY <1>1, <1>2, <1>3, <1>4, TypeInit DEF IInv

-----------------------------------------------------------------------------
(* The step                                                                *)

LEMMA StartStep ==
  ASSUME IInv, NEW kind \in Kinds, BlockStart(kind), TypeOK'
  PROVE  IInv'
<1>0. /\ view \in Views /\ blocks \in Seq(Blocks) /\ nextCall \in Nat
      /\ DOMAIN toolIndexOf \subseteq Nat
      /\ \A i \in DOMAIN toolIndexOf : toolIndexOf[i] \in Nat
      /\ view.calls \in Seq(Calls) /\ Len(blocks) \in Nat
      /\ pc = "read" /\ phase = "content" /\ ~finished /\ view.finishes = <<>> /\ ~view.done
  BY Typed DEF IInv, Ending, BlockStart, MayStart, Views
<1>1. /\ blocks' = Append(blocks, NewBlock(kind))
      /\ Len(blocks') = Len(blocks) + 1
      /\ \A i \in 1..Len(blocks) : blocks'[i] = blocks[i]
      /\ blocks'[Len(blocks) + 1].kind = kind /\ blocks'[Len(blocks) + 1].data = <<>>
  BY <1>0 DEF BlockStart, NewBlock
<1>2. \A i \in 1..Len(blocks') : blocks'[i].kind \in Kinds
  BY <1>0, <1>1 DEF IInv
<1>3. UNCHANGED <<pc, finished, phase>>
  BY DEF BlockStart
<1>4. CASE kind = "tool_use"
  <2> DEFINE b == Len(blocks)
             call == [block |-> b, args |-> <<>>]
  <2>1. toolIndexOf' = Put(toolIndexOf, b, nextCall) /\ nextCall' = nextCall + 1
        /\ NewCall(nextCall, b)
    BY <1>4 DEF BlockStart
  <2>2. nextCall = Len(view.calls)
    BY DEF IInv, InStep
  <2>3. ~view'.garbled /\ view'.calls = Append(view.calls, call)
        /\ view'.finishes = view.finishes /\ view'.done = view.done
    BY <1>0, <2>1, <2>2, AfterNewCall DEF IInv
  <2>4. b \notin DOMAIN toolIndexOf
    BY <1>0 DEF IInv, InStep
  <2>5. /\ DOMAIN toolIndexOf' = DOMAIN toolIndexOf \cup {b}
        /\ toolIndexOf'[b] = nextCall
        /\ \A i \in DOMAIN toolIndexOf : toolIndexOf'[i] = toolIndexOf[i]
    BY <2>1, <2>4 DEF Put
  <2>6. /\ Len(view'.calls) = nextCall + 1
        /\ \A k \in 1..nextCall : view'.calls[k] = view.calls[k]
        /\ view'.calls[nextCall + 1].block = b /\ view'.calls[nextCall + 1].args = <<>>
    BY <1>0, <2>2, <2>3
  <2>7. \A i \in Nat : i \in DOMAIN toolIndexOf' <=> i < Len(blocks') /\ blocks'[i + 1].kind = "tool_use"
    <3> SUFFICES ASSUME NEW i \in Nat
                 PROVE  i \in DOMAIN toolIndexOf' <=> i < Len(blocks') /\ blocks'[i + 1].kind = "tool_use"
      OBVIOUS
    <3>1. CASE i < b
      <4>1. blocks'[i + 1] = blocks[i + 1]
        BY <1>0, <1>1, <3>1
      <4>2. i \in DOMAIN toolIndexOf <=> blocks[i + 1].kind = "tool_use"
        BY <3>1 DEF IInv, InStep
      <4> QED BY <1>0, <1>1, <2>5, <3>1, <4>1, <4>2
    <3>2. CASE i = b
      BY <1>0, <1>1, <1>4, <2>5, <3>2
    <3>3. CASE i > b
      <4>1. i \notin DOMAIN toolIndexOf
        BY <1>0, <3>3 DEF IInv, InStep
      <4> QED BY <1>0, <1>1, <2>5, <3>3, <4>1
    <3> QED BY <1>0, <3>1, <3>2, <3>3
  <2>8. \A i \in DOMAIN toolIndexOf' :
          toolIndexOf'[i] < nextCall' /\ view'.calls[toolIndexOf'[i] + 1].block = i
    <3> SUFFICES ASSUME NEW i \in DOMAIN toolIndexOf'
                 PROVE  toolIndexOf'[i] < nextCall' /\ view'.calls[toolIndexOf'[i] + 1].block = i
      OBVIOUS
    <3>1. CASE i = b
      BY <1>0, <2>1, <2>5, <2>6, <3>1
    <3>2. CASE i \in DOMAIN toolIndexOf
      <4>1. toolIndexOf[i] \in Nat /\ toolIndexOf[i] < nextCall
            /\ view.calls[toolIndexOf[i] + 1].block = i
        BY <1>0, <3>2 DEF IInv, InStep
      <4> QED BY <1>0, <2>1, <2>5, <2>6, <3>2, <4>1
    <3> QED BY <2>5, <3>1, <3>2
  <2>9. \A k \in 1..Len(view'.calls) :
          /\ view'.calls[k].block \in DOMAIN toolIndexOf'
          /\ toolIndexOf'[view'.calls[k].block] = k - 1
          /\ view'.calls[k].args = blocks'[view'.calls[k].block + 1].data
    <3> SUFFICES ASSUME NEW k \in 1..(nextCall + 1)
                 PROVE  /\ view'.calls[k].block \in DOMAIN toolIndexOf'
                        /\ toolIndexOf'[view'.calls[k].block] = k - 1
                        /\ view'.calls[k].args = blocks'[view'.calls[k].block + 1].data
      BY <2>6
    <3>1. CASE k = nextCall + 1
      BY <1>0, <1>1, <2>5, <2>6, <3>1
    <3>2. CASE k \in 1..nextCall
      <4> DEFINE c == view.calls[k].block
      <4>1. c \in DOMAIN toolIndexOf /\ toolIndexOf[c] = k - 1
            /\ view.calls[k].args = blocks[c + 1].data
        BY <2>2, <3>2 DEF IInv, InStep
      <4>2. c \in Nat /\ c < Len(blocks)
        BY <1>0, <4>1 DEF IInv, InStep
      <4>3. blocks'[c + 1] = blocks[c + 1]
        BY <1>0, <1>1, <4>2
      <4>4. view'.calls[k] = view.calls[k]
        BY <2>6, <3>2
      <4> HIDE DEF c
      <4>5. view'.calls[k].block = c
        BY <4>4 DEF c
      <4> QED BY <2>5, <4>1, <4>3, <4>4, <4>5
    <3> QED BY <1>0, <3>1, <3>2
  <2>10. InStep'
    BY <2>1, <2>6, <2>7, <2>8, <2>9 DEF InStep
  <2>11. Ending'
    BY <1>0, <1>3, <2>3 DEF Ending
  <2> QED BY <1>2, <2>3, <2>10, <2>11 DEF IInv
<1>5. CASE kind # "tool_use"
  <2>1. UNCHANGED <<toolIndexOf, nextCall, view>>
    BY <1>5 DEF BlockStart
  <2>2. \A i \in Nat : i \in DOMAIN toolIndexOf <=> i < Len(blocks') /\ blocks'[i + 1].kind = "tool_use"
    <3> SUFFICES ASSUME NEW i \in Nat
                 PROVE  i \in DOMAIN toolIndexOf <=> i < Len(blocks') /\ blocks'[i + 1].kind = "tool_use"
      OBVIOUS
    <3>1. i \in DOMAIN toolIndexOf <=> i < Len(blocks) /\ blocks[i + 1].kind = "tool_use"
      BY DEF IInv, InStep
    <3>2. CASE i < Len(blocks)
      <4>1. blocks'[i + 1] = blocks[i + 1]
        BY <1>0, <1>1, <3>2
      <4> QED BY <1>0, <1>1, <3>1, <3>2, <4>1
    <3>3. CASE i >= Len(blocks)
      BY <1>0, <1>1, <1>5, <3>1, <3>3
    <3> QED BY <1>0, <3>2, <3>3
  <2>3. \A k \in 1..Len(view.calls) : view.calls[k].args = blocks'[view.calls[k].block + 1].data
    <3> SUFFICES ASSUME NEW k \in 1..Len(view.calls)
                 PROVE  view.calls[k].args = blocks'[view.calls[k].block + 1].data
      OBVIOUS
    <3>1. view.calls[k].block \in DOMAIN toolIndexOf
          /\ view.calls[k].args = blocks[view.calls[k].block + 1].data
      BY DEF IInv, InStep
    <3>2. view.calls[k].block \in Nat /\ view.calls[k].block < Len(blocks)
      BY <1>0, <3>1 DEF IInv, InStep
    <3> QED BY <1>0, <1>1, <3>1, <3>2
  <2>4. InStep'
    <3>1. InStep
      BY DEF IInv
    <3> QED BY <2>1, <2>2, <2>3, <3>1 DEF InStep
  <2>5. Ending'
    BY <1>0, <1>3, <2>1 DEF Ending
  <2> QED BY <1>2, <2>1, <2>4, <2>5 DEF IInv
<1> QED BY <1>4, <1>5

LEMMA DeltaStep ==
  ASSUME "server_tool_use" \notin Kinds,
         IInv, NEW i \in 1..Len(blocks), NEW p \in Pieces, BlockDelta(i, p), TypeOK'
  PROVE  IInv'
<1> DEFINE b == [blocks[i] EXCEPT !.data = Append(blocks[i].data, p)]
<1>0. /\ view \in Views /\ blocks \in Seq(Blocks) /\ Len(blocks) \in Nat /\ nextCall \in Nat
      /\ DOMAIN toolIndexOf \subseteq Nat
      /\ \A j \in DOMAIN toolIndexOf : toolIndexOf[j] \in Nat
      /\ view.calls \in Seq(Calls) /\ blocks[i] \in Blocks
      /\ pc = "read" /\ phase = "content" /\ ~finished /\ view.finishes = <<>> /\ ~view.done
  BY Typed DEF IInv, Ending, BlockDelta, Views
<1>1. UNCHANGED <<pc, toolIndexOf, nextCall, finished, phase>>
  BY DEF BlockDelta, code
<1>2. b.kind = blocks[i].kind /\ b.data = Append(blocks[i].data, p)
  BY <1>0 DEF Blocks
<1>3. /\ Len(blocks') = Len(blocks)
      /\ \A j \in 1..Len(blocks) : j # i => blocks'[j] = blocks[j]
      /\ blocks'[i] = b
  <2>1. blocks' = [blocks EXCEPT ![i] = b]
    BY DEF BlockDelta
  <2> HIDE DEF b
  <2> QED BY <1>0, <2>1
<1> HIDE DEF b
<1>4. \A j \in 1..Len(blocks) : blocks'[j].kind = blocks[j].kind
  BY <1>2, <1>3
<1>5. \A j \in 1..Len(blocks') : blocks'[j].kind \in Kinds
  BY <1>3, <1>4 DEF IInv
<1>6. \A j \in Nat : j \in DOMAIN toolIndexOf <=> j < Len(blocks') /\ blocks'[j + 1].kind = "tool_use"
  <2> SUFFICES ASSUME NEW j \in Nat
               PROVE  j \in DOMAIN toolIndexOf <=> j < Len(blocks') /\ blocks'[j + 1].kind = "tool_use"
    OBVIOUS
  <2>1. j \in DOMAIN toolIndexOf <=> j < Len(blocks) /\ blocks[j + 1].kind = "tool_use"
    BY DEF IInv, InStep
  <2>2. j < Len(blocks) => j + 1 \in 1..Len(blocks)
    BY <1>0
  <2> QED BY <1>3, <1>4, <2>1, <2>2
<1>7. ASSUME NEW k \in 1..Len(view.calls)
      PROVE  /\ view.calls[k].block \in DOMAIN toolIndexOf
             /\ view.calls[k].block + 1 \in 1..Len(blocks)
             /\ toolIndexOf[view.calls[k].block] = k - 1
             /\ view.calls[k].args = blocks[view.calls[k].block + 1].data
  <2>1. /\ view.calls[k].block \in DOMAIN toolIndexOf
        /\ toolIndexOf[view.calls[k].block] = k - 1
        /\ view.calls[k].args = blocks[view.calls[k].block + 1].data
    BY <1>7 DEF IInv, InStep
  <2>2. view.calls[k].block \in Nat /\ view.calls[k].block < Len(blocks)
    BY <1>0, <2>1 DEF IInv, InStep
  <2> QED BY <1>0, <2>1, <2>2
<1>8. CASE blocks[i].kind = "text"
  <2>1. Content(p)
    BY <1>8 DEF BlockDelta
  <2>2. ~view'.garbled /\ view'.calls = view.calls
        /\ view'.finishes = view.finishes /\ view'.done = view.done
    BY <1>0, <2>1, AfterContent DEF IInv
  <2>3. i - 1 \notin DOMAIN toolIndexOf
    BY <1>0, <1>8 DEF IInv, InStep
  <2>4. \A k \in 1..Len(view.calls) : view.calls[k].args = blocks'[view.calls[k].block + 1].data
    <3> SUFFICES ASSUME NEW k \in 1..Len(view.calls)
                 PROVE  view.calls[k].args = blocks'[view.calls[k].block + 1].data
      OBVIOUS
    <3>1. view.calls[k].block + 1 # i
      BY <1>0, <1>7, <2>3
    <3> QED BY <1>3, <1>7, <3>1
  <2>5. InStep'
    <3>1. InStep
      BY DEF IInv
    <3> QED BY <1>1, <1>6, <2>2, <2>4, <3>1 DEF InStep
  <2>6. Ending'
    BY <1>0, <1>1, <2>2 DEF Ending
  <2> QED BY <1>5, <2>2, <2>5, <2>6 DEF IInv
<1>9. CASE blocks[i].kind = "tool_use"
  <2> DEFINE x == toolIndexOf[i - 1]
  <2>1. i - 1 \in DOMAIN toolIndexOf /\ x \in Nat /\ x < nextCall /\ nextCall = Len(view.calls)
        /\ view.calls[x + 1].block = i - 1
    BY <1>0, <1>9 DEF IInv, InStep
  <2>2. Arguments(x, p)
    BY <1>9, <2>1 DEF BlockDelta, ToolIndex
  <2> HIDE DEF x
  <2>3. /\ ~view'.garbled
        /\ view'.finishes = view.finishes /\ view'.done = view.done
        /\ Len(view'.calls) = Len(view.calls)
        /\ \A k \in 1..Len(view.calls) : k # x + 1 => view'.calls[k] = view.calls[k]
        /\ view'.calls[x + 1].block = view.calls[x + 1].block
        /\ view'.calls[x + 1].args = Append(view.calls[x + 1].args, p)
    BY <1>0, <2>1, <2>2, AfterArguments DEF IInv
  <2>4. \A k \in 1..Len(view.calls) : view'.calls[k].block = view.calls[k].block
    BY <2>3
  <2>5. \A j \in DOMAIN toolIndexOf' :
          toolIndexOf'[j] < nextCall' /\ view'.calls[toolIndexOf'[j] + 1].block = j
    <3> SUFFICES ASSUME NEW j \in DOMAIN toolIndexOf
                 PROVE  toolIndexOf[j] < nextCall /\ view'.calls[toolIndexOf[j] + 1].block = j
      BY <1>1
    <3>1. toolIndexOf[j] \in Nat /\ toolIndexOf[j] < nextCall /\ view.calls[toolIndexOf[j] + 1].block = j
      BY <1>0 DEF IInv, InStep
    <3>2. toolIndexOf[j] + 1 \in 1..Len(view.calls)
      BY <1>0, <2>1, <3>1
    <3> QED BY <2>4, <3>1, <3>2
  <2>6. \A k \in 1..Len(view'.calls) :
          /\ view'.calls[k].block \in DOMAIN toolIndexOf'
          /\ toolIndexOf'[view'.calls[k].block] = k - 1
          /\ view'.calls[k].args = blocks'[view'.calls[k].block + 1].data
    <3> SUFFICES ASSUME NEW k \in 1..Len(view.calls)
                 PROVE  /\ view.calls[k].block \in DOMAIN toolIndexOf
                        /\ toolIndexOf[view.calls[k].block] = k - 1
                        /\ view'.calls[k].args = blocks'[view.calls[k].block + 1].data
      BY <1>1, <2>3, <2>4
    <3>1. CASE k = x + 1
      <4>1. view.calls[k].block + 1 = i
        BY <1>0, <2>1, <3>1
      <4>2. view.calls[k].args = blocks[i].data
        BY <1>7, <4>1
      <4> QED BY <1>2, <1>3, <1>7, <2>3, <3>1, <4>1, <4>2
    <3>2. CASE k # x + 1
      <4>1. view.calls[k].block + 1 # i
        <5>1. view.calls[k].block # i - 1
          BY <1>7, <2>1, <3>2 DEF x
        <5> QED BY <1>0, <1>7, <5>1
      <4> QED BY <1>3, <1>7, <2>3, <3>2, <4>1
    <3> QED BY <3>1, <3>2
  <2>7. InStep'
    BY <1>1, <1>6, <2>1, <2>3, <2>5, <2>6 DEF InStep
  <2>8. Ending'
    BY <1>0, <1>1, <2>3 DEF Ending
  <2> QED BY <1>5, <2>3, <2>7, <2>8 DEF IInv
<1>10. blocks[i].kind \in {"text", "tool_use"}
  BY ConstantsOK DEF IInv, BlockKinds
<1> QED BY <1>8, <1>9, <1>10

LEMMA StopStep ==
  ASSUME IInv, NEW i \in 1..Len(blocks), BlockStop(i), TypeOK'
  PROVE  IInv'
<1> DEFINE b == [blocks[i] EXCEPT !.open = FALSE]
<1>0. /\ blocks \in Seq(Blocks) /\ Len(blocks) \in Nat /\ blocks[i] \in Blocks
      /\ DOMAIN toolIndexOf \subseteq Nat
  BY Typed DEF IInv
<1>1. UNCHANGED <<pc, toolIndexOf, nextCall, finished, phase, view>>
  BY DEF BlockStop, code
<1>2. b.kind = blocks[i].kind /\ b.data = blocks[i].data
  BY <1>0 DEF Blocks
<1>3. /\ Len(blocks') = Len(blocks)
      /\ \A j \in 1..Len(blocks) : j # i => blocks'[j] = blocks[j]
      /\ blocks'[i] = b
  <2>1. blocks' = [blocks EXCEPT ![i] = b]
    BY DEF BlockStop
  <2> HIDE DEF b
  <2> QED BY <1>0, <2>1
<1> HIDE DEF b
<1>4. \A j \in 1..Len(blocks) : blocks'[j].kind = blocks[j].kind /\ blocks'[j].data = blocks[j].data
  BY <1>2, <1>3
<1>5. \A j \in Nat : j < Len(blocks) => blocks'[j + 1].kind = blocks[j + 1].kind
                                        /\ blocks'[j + 1].data = blocks[j + 1].data
  BY <1>0, <1>4
<1>6. InStep'
  <2>1. InStep /\ \A k \in 1..Len(view.calls) :
                    view.calls[k].block \in Nat /\ view.calls[k].block < Len(blocks)
    BY <1>0 DEF IInv, InStep
  <2> QED BY <1>1, <1>3, <1>5, <2>1 DEF InStep
<1>7. Ending'
  BY <1>1 DEF IInv, Ending
<1>8. \A j \in 1..Len(blocks') : blocks'[j].kind \in Kinds
  BY <1>3, <1>4 DEF IInv
<1> QED BY <1>1, <1>6, <1>7, <1>8 DEF IInv

LEMMA InvStep ==
  ASSUME "server_tool_use" \notin Kinds
  PROVE  IInv /\ [Next]_vars => IInv'
<1> SUFFICES ASSUME IInv, [Next]_vars PROVE IInv'
  OBVIOUS
<1>0. TypeOK' /\ view \in Views
  BY TypeStep, Typed DEF IInv
<1>1. CASE \E kind \in Kinds : BlockStart(kind)
  BY <1>0, <1>1, StartStep
<1>2. CASE \E i \in DOMAIN blocks : BlockStop(i) \/ \E p \in Pieces : BlockDelta(i, p)
  <2>1. DOMAIN blocks = 1..Len(blocks)
    BY Typed DEF IInv
  <2> QED BY <1>0, <1>2, <2>1, DeltaStep, StopStep
<1>3. ASSUME UNCHANGED <<toolIndexOf, nextCall, blocks>>, view'.calls = view.calls
      PROVE  InStep' /\ \A i \in 1..Len(blocks') : blocks'[i].kind \in Kinds
  BY <1>3 DEF IInv, InStep
<1>4. CASE \E s \in StopReasons : MessageDelta(s)
  <2>1. PICK s \in StopReasons : MessageDelta(s)
    BY <1>4
  <2>2. view.finishes = <<>> /\ ~view.done /\ pc = "read" /\ pc' = "read"
        /\ finished' = TRUE /\ phase' = "ending" /\ UNCHANGED <<toolIndexOf, nextCall, blocks>>
    BY <2>1 DEF MessageDelta, IInv, Ending
  <2>3. view'.garbled = view.garbled /\ view'.calls = view.calls
        /\ Len(view'.finishes) = 1 /\ view'.done = view.done
    BY <1>0, <2>1, <2>2, AfterFinish, ReasonsOnly DEF MessageDelta
  <2>4. Ending'
    BY <2>2, <2>3 DEF Ending
  <2> QED BY <1>0, <1>3, <2>2, <2>3, <2>4 DEF IInv
<1>5. CASE End
  <2>1. pc = "read" /\ pc' = "closing" /\ ~view.done
        /\ UNCHANGED <<toolIndexOf, nextCall, finished, blocks, phase>>
    BY <1>5 DEF End, upstream, IInv, Ending
  <2>2. view'.garbled = view.garbled /\ view'.calls = view.calls
        /\ Len(view'.finishes) = 1 /\ view'.done = view.done
    <3>1. CASE finished
      BY <1>5, <3>1 DEF End, IInv, Ending
    <3>2. CASE ~finished
      <4>1. view.finishes = <<>> /\ Finish("stop") /\ "stop" \in Reasons
        BY <1>5, <2>1, <3>2 DEF End, IInv, Ending, Reasons
      <4> QED BY <1>0, <4>1, AfterFinish
    <3> QED BY <3>1, <3>2
  <2>3. Ending'
    BY <2>1, <2>2 DEF Ending
  <2> QED BY <1>0, <1>3, <2>1, <2>2, <2>3 DEF IInv
<1>6. CASE Done
  <2>1. pc = "closing" /\ pc' = "over" /\ UNCHANGED <<toolIndexOf, nextCall, finished, blocks, phase>>
    BY <1>6 DEF Done, upstream
  <2>2. view'.garbled = view.garbled /\ view'.calls = view.calls /\ view'.finishes = view.finishes
    BY <1>0, <1>6 DEF Done, Views
  <2>3. Ending'
    BY <2>1, <2>2 DEF Ending, IInv
  <2> QED BY <1>0, <1>3, <2>1, <2>2, <2>3 DEF IInv
<1>7. CASE Error
  <2>1. pc = "read" /\ phase = "content" /\ phase' = "failed"
        /\ UNCHANGED <<pc, toolIndexOf, nextCall, finished, view, blocks>>
    BY <1>7 DEF Error, code
  <2>2. Ending'
    BY <2>1 DEF IInv, Ending
  <2> QED BY <1>0, <1>3, <2>1, <2>2 DEF IInv
<1>8. CASE Cut
  <2>1. pc # "over" /\ pc' = "cut" /\ UNCHANGED <<toolIndexOf, nextCall, finished, view, blocks, phase>>
    BY <1>8 DEF Cut, upstream
  <2>2. Ending'
    BY <2>1 DEF IInv, Ending
  <2> QED BY <1>0, <1>3, <2>1, <2>2 DEF IInv
<1>9. CASE UNCHANGED vars
  <2>1. UNCHANGED <<pc, toolIndexOf, nextCall, finished, view, blocks, phase>>
    BY <1>9 DEF vars, code, upstream
  <2>2. Ending'
    BY <2>1 DEF IInv, Ending
  <2> QED BY <1>0, <1>3, <2>1, <2>2 DEF IInv
<1> QED BY <1>1, <1>2, <1>4, <1>5, <1>6, <1>7, <1>8, <1>9 DEF Next

\* Code, upstream and client stay in step, as long as the upstream uses text
\* and tool_use blocks only.
THEOREM Invariant == "server_tool_use" \notin Kinds => (Spec => []IInv)
<1> SUFFICES ASSUME "server_tool_use" \notin Kinds PROVE Spec => []IInv
  OBVIOUS
<1>1. IInv /\ [Next]_vars => IInv'
  BY InvStep
<1> QED BY <1>1, InvInit, PTL DEF Spec

\* The client can follow every translated stream of text and tool_use blocks:
\* any number of them, interleaved at will, ended, failed or cut anywhere.
THEOREM StreamsAreWellFormed == "server_tool_use" \notin Kinds => (Spec => []WellFormed)
<1>1. IInv => WellFormed
  BY DEF IInv, WellFormed
<1> QED BY <1>1, Invariant, PTL

\* Whatever the upstream interleaves, each call a client has is one of its
\* tool_use blocks, with that block's input up to now.
THEOREM CallsAreUnmixed == "server_tool_use" \notin Kinds => (Spec => []Unmixed)
<1>1. IInv => Unmixed
  <2> SUFFICES ASSUME IInv, NEW i \in DOMAIN view.calls
               PROVE  /\ blocks[view.calls[i].block + 1].kind = "tool_use"
                      /\ view.calls[i].args = blocks[view.calls[i].block + 1].data
    BY DEF Unmixed
  <2>1. i \in 1..Len(view.calls) /\ DOMAIN toolIndexOf \subseteq Nat
    BY Typed DEF IInv, Views
  <2> QED BY <2>1 DEF IInv, InStep
<1> QED BY <1>1, Invariant, PTL

-----------------------------------------------------------------------------
(* Flattened sequences                                                     *)

\* Induction over the natural numbers, with a set in place of a predicate.
LEMMA SetInduction ==
  ASSUME NEW S, 0 \in S, \A n \in Nat : n \in S => n + 1 \in S
  PROVE  \A n \in Nat : n \in S
<1> DEFINE T == {n \in Nat : n \notin S}
<1>1. SUFFICES ASSUME T # {} PROVE FALSE
  OBVIOUS
<1>2. PICK x \in T : \A y \in T : ~ (<<y, x>> \in OpToRel(<, Nat))
  BY <1>1, NatLessThanWellFounded, WFMin, Zenon
<1>3. x \in Nat /\ x # 0
  OBVIOUS
<1>4. x - 1 \in Nat /\ x - 1 < x /\ (x - 1) + 1 = x
  BY <1>3
<1>5. <<x - 1, x>> \in OpToRel(<, Nat)
  BY <1>3, <1>4 DEF OpToRel
<1>6. x - 1 \notin T
  BY <1>2, <1>5
<1> QED BY <1>3, <1>4, <1>6

\* FlattenSeq has a value, and it is the one that its recursion says.
LEMMA FlattenRecursion ==
  ASSUME NEW P, NEW s \in Seq(Seq(P))
  PROVE  \E f :
           /\ f[0] = <<>>
           /\ \A n \in 1..Len(s) : f[n] = f[n - 1] \o s[n]
           /\ \A n \in 0..Len(s) : f[n] \in Seq(P)
           /\ FlattenSeq(s) = f[Len(s)]
<1> DEFINE Body(f, n) == [i \in 1..n |-> IF i = 1 THEN s[i] ELSE f[i - 1] \o s[i]]
           S == {n \in Nat : \E f : f = Body(f, n)}
<1>1. 0 \in S
  <2> DEFINE f == [i \in 1..0 |-> <<>>]
  <2>1. f = Body(f, 0)
    OBVIOUS
  <2> HIDE DEF f
  <2> QED BY <2>1
<1>2. ASSUME NEW n \in Nat, n \in S PROVE n + 1 \in S
  <2>1. PICK f : f = Body(f, n)
    BY <1>2
  <2> DEFINE g == [i \in 1..(n + 1) |->
                     IF i # n + 1 THEN f[i] ELSE IF i = 1 THEN s[i] ELSE f[n] \o s[i]]
  <2>2. ASSUME NEW i \in 1..(n + 1)
        PROVE  g[i] = IF i = 1 THEN s[i] ELSE g[i - 1] \o s[i]
    <3>1. CASE i = n + 1
      BY <3>1
    <3>2. CASE i # n + 1
      <4>1. i \in 1..n /\ g[i] = f[i]
        BY <3>2
      <4>2. f[i] = IF i = 1 THEN s[i] ELSE f[i - 1] \o s[i]
        BY <2>1, <4>1
      <4>3. i # 1 => g[i - 1] = f[i - 1]
        BY <4>1
      <4> HIDE DEF g
      <4> QED BY <4>1, <4>2, <4>3
    <3> QED BY <3>1, <3>2
  <2>3. g = [i \in 1..(n + 1) |-> g[i]]
    OBVIOUS
  <2> HIDE DEF g
  <2>4. g = Body(g, n + 1)
    BY <2>2, <2>3
  <2> HIDE DEF Body
  <2> QED BY <2>4
<1>3. Len(s) \in Nat
  OBVIOUS
<1>4. \E f : f = Body(f, Len(s))
  <2> HIDE DEF Body
  <2>1. \A n \in Nat : n \in S
    <3> HIDE DEF S
    <3> QED BY <1>1, <1>2, SetInduction
  <2> QED BY <1>3, <2>1
<1> DEFINE b == CHOOSE f : f = Body(f, Len(s))
<1>5. b = Body(b, Len(s))
  BY <1>4
<1>6. Len(s) # 0 => FlattenSeq(s) = b[Len(s)]
  BY DEF FlattenSeq
<1> HIDE DEF b
<1> DEFINE f == [n \in 0..Len(s) |-> IF n = 0 THEN <<>> ELSE b[n]]
<1>7. \A n \in 1..Len(s) : f[n] = f[n - 1] \o s[n]
  <2> SUFFICES ASSUME NEW n \in 1..Len(s) PROVE f[n] = f[n - 1] \o s[n]
    OBVIOUS
  <2>1. b[n] = IF n = 1 THEN s[n] ELSE b[n - 1] \o s[n]
    BY <1>5
  <2>2. f[n] = b[n] /\ f[n - 1] = IF n = 1 THEN <<>> ELSE b[n - 1]
    BY <1>3
  <2>3. s[n] \in Seq(P)
    OBVIOUS
  <2> HIDE DEF f
  <2>4. n = 1 => <<>> \o s[n] = s[n]
    BY <2>3, ConcatEmptySeq
  <2> QED BY <2>1, <2>2, <2>4
<1>8. f[0] = <<>> /\ FlattenSeq(s) = f[Len(s)]
  <2>1. CASE Len(s) = 0
    <3>1. FlattenSeq(s) = s /\ s = <<>>
      BY <2>1 DEF FlattenSeq
    <3> QED BY <2>1, <3>1
  <2>2. CASE Len(s) # 0
    BY <1>3, <1>6, <2>2
  <2> QED BY <2>1, <2>2
<1> HIDE DEF f
<1>9. \A n \in 0..Len(s) : f[n] \in Seq(P)
  <2> DEFINE R == {n \in Nat : n <= Len(s) => f[n] \in Seq(P)}
  <2>1. 0 \in R
    <3>1. <<>> \in Seq(P)
      OBVIOUS
    <3> QED BY <1>8, <3>1
  <2>2. ASSUME NEW n \in Nat, n \in R PROVE n + 1 \in R
    <3>1. CASE n + 1 <= Len(s)
      <4>1. f[n] \in Seq(P) /\ n + 1 \in 1..Len(s) /\ (n + 1) - 1 = n
        BY <1>3, <2>2, <3>1
      <4>2. s[n + 1] \in Seq(P)
        BY <4>1
      <4>3. f[n + 1] = f[n] \o s[n + 1]
        BY <1>7, <4>1
      <4>4. f[n + 1] \in Seq(P)
        BY <4>1, <4>2, <4>3
      <4> QED BY <4>4
    <3>2. CASE ~(n + 1 <= Len(s))
      BY <3>2
    <3> QED BY <3>1, <3>2
  <2>3. \A n \in Nat : n \in R
    <3> HIDE DEF R
    <3> QED BY <2>1, <2>2, SetInduction
  <2> QED BY <1>3, <2>3
<1> QED BY <1>7, <1>8, <1>9

\* A block more, and what it adds comes last.
LEMMA FlattenAppend ==
  ASSUME NEW P, NEW s \in Seq(Seq(P)), NEW x \in Seq(P)
  PROVE  FlattenSeq(Append(s, x)) = FlattenSeq(s) \o x
<1> DEFINE t == Append(s, x)
<1>1. /\ t \in Seq(Seq(P)) /\ Len(s) \in Nat /\ Len(t) = Len(s) + 1
      /\ t[Len(s) + 1] = x
      /\ \A n \in 1..Len(s) : t[n] = s[n]
  OBVIOUS
<1> HIDE DEF t
<1>2. PICK f : /\ f[0] = <<>>
               /\ \A n \in 1..Len(s) : f[n] = f[n - 1] \o s[n]
               /\ FlattenSeq(s) = f[Len(s)]
  BY FlattenRecursion
<1>3. PICK g : /\ g[0] = <<>>
               /\ \A n \in 1..Len(t) : g[n] = g[n - 1] \o t[n]
               /\ FlattenSeq(t) = g[Len(t)]
  BY <1>1, FlattenRecursion
<1> DEFINE S == {n \in Nat : n <= Len(s) => g[n] = f[n]}
<1>4. 0 \in S
  BY <1>2, <1>3
<1>5. ASSUME NEW n \in Nat, n \in S PROVE n + 1 \in S
  <2>1. CASE n + 1 <= Len(s)
    <3>1. g[n] = f[n] /\ n + 1 \in 1..Len(s) /\ n + 1 \in 1..Len(t) /\ (n + 1) - 1 = n
      BY <1>1, <1>5, <2>1
    <3>2. f[n + 1] = f[n] \o s[n + 1] /\ g[n + 1] = g[n] \o t[n + 1] /\ t[n + 1] = s[n + 1]
      BY <1>1, <1>2, <1>3, <3>1
    <3>3. g[n + 1] = f[n + 1]
      <4>1. g[n + 1] = f[n] \o s[n + 1]
        BY <3>1, <3>2, Zenon
      <4> QED BY <3>2, <4>1, Zenon
    <3> QED BY <3>3
  <2>2. CASE ~(n + 1 <= Len(s))
    BY <2>2
  <2> QED BY <2>1, <2>2
<1>6. \A n \in Nat : n \in S
  <2> HIDE DEF S
  <2> QED BY <1>4, <1>5, SetInduction
<1>7. g[Len(s)] = f[Len(s)]
  BY <1>1, <1>6
<1>8. Len(s) + 1 \in 1..Len(t) /\ (Len(s) + 1) - 1 = Len(s)
  BY <1>1
<1>9. FlattenSeq(t) = FlattenSeq(s) \o x
  BY <1>1, <1>2, <1>3, <1>7, <1>8
<1> QED BY <1>9 DEF t

\* A piece more for a block that nothing comes after is the last of all.
LEMMA FlattenExtend ==
  ASSUME NEW P
  PROVE  \A s, t \in Seq(Seq(P)), d \in Seq(P) : \A i \in 1..Len(s) :
           /\ Len(t) = Len(s) /\ t[i] = s[i] \o d
           /\ \A j \in 1..Len(s) : j # i => t[j] = s[j]
           /\ \A j \in 1..Len(s) : j > i => s[j] = <<>>
           => FlattenSeq(t) = FlattenSeq(s) \o d
<1>a. \A x, y, z \in Seq(P) : (x \o y) \o z = x \o (y \o z)
  BY ConcatAssociative
<1> SUFFICES ASSUME NEW s \in Seq(Seq(P)), NEW t \in Seq(Seq(P)), NEW d \in Seq(P),
                    NEW i \in 1..Len(s), Len(t) = Len(s),
                    \A j \in 1..Len(s) : j # i => t[j] = s[j],
                    \A j \in 1..Len(s) : j > i => s[j] = <<>>
             PROVE  t[i] = s[i] \o d => FlattenSeq(t) = FlattenSeq(s) \o d
  OBVIOUS
<1>0. SUFFICES ASSUME t[i] = s[i] \o d PROVE FlattenSeq(t) = FlattenSeq(s) \o d
  OBVIOUS
<1>1. Len(s) \in Nat /\ i \in Nat /\ 0 < i /\ i <= Len(s)
  OBVIOUS
<1>2. PICK f : /\ f[0] = <<>>
               /\ \A n \in 1..Len(s) : f[n] = f[n - 1] \o s[n]
               /\ \A n \in 0..Len(s) : f[n] \in Seq(P)
               /\ FlattenSeq(s) = f[Len(s)]
  BY FlattenRecursion
<1>3. PICK g : /\ g[0] = <<>>
               /\ \A n \in 1..Len(t) : g[n] = g[n - 1] \o t[n]
               /\ FlattenSeq(t) = g[Len(t)]
  BY FlattenRecursion
<1>b. \E h : \A n \in 0..Len(s) : h[n] = f[n] \o d
  <2> DEFINE h == [n \in 0..Len(s) |-> f[n] \o d]
  <2>1. \A n \in 0..Len(s) : h[n] = f[n] \o d
    OBVIOUS
  <2> HIDE DEF h
  <2> QED BY <2>1, Zenon
<1>c. PICK after : \A n \in 0..Len(s) : after[n] = f[n] \o d
  BY <1>b, Zenon
<1> DEFINE S == {n \in Nat : n <= Len(s) => (n < i => g[n] = f[n]) /\ (i <= n => g[n] = after[n])}
<1>4. 0 \in S
  BY <1>2, <1>3
<1>5. ASSUME NEW n \in Nat, n \in S PROVE n + 1 \in S
  <2>1. CASE n + 1 <= Len(s)
    <3>1. n + 1 \in 1..Len(s) /\ n + 1 \in 1..Len(t) /\ (n + 1) - 1 = n /\ n \in 0..Len(s)
      BY <1>1, <2>1
    <3>2. f[n + 1] = f[n] \o s[n + 1] /\ g[n + 1] = g[n] \o t[n + 1] /\ f[n] \in Seq(P)
      BY <1>2, <1>3, <3>1
    <3>3. s[n + 1] \in Seq(P)
      BY <3>1
    <3>4. CASE n + 1 < i
      <4>1. g[n] = f[n] /\ t[n + 1] = s[n + 1]
        <5>1. n <= Len(s) /\ n < i /\ n + 1 # i
          BY <1>1, <2>1, <3>4
        <5>2. g[n] = f[n]
          BY <1>5, <5>1
        <5> QED BY <3>1, <5>1, <5>2
      <4>2. g[n + 1] = f[n] \o s[n + 1]
        BY <3>2, <4>1, Zenon
      <4>3. g[n + 1] = f[n + 1]
        BY <3>2, <4>2, Zenon
      <4> QED BY <3>4, <4>3
    <3>5. CASE n + 1 = i
      <4>1. g[n] = f[n] /\ t[n + 1] = s[n + 1] \o d
        <5>1. n <= Len(s) /\ n < i
          BY <1>1, <2>1, <3>5
        <5>2. g[n] = f[n]
          BY <1>5, <5>1
        <5> QED BY <1>0, <3>5, <5>2, Zenon
      <4>2. g[n + 1] = f[n] \o (s[n + 1] \o d)
        BY <3>2, <4>1, Zenon
      <4>3. f[n] \o (s[n + 1] \o d) = (f[n] \o s[n + 1]) \o d
        BY <1>a, <3>2, <3>3, Zenon
      <4>4. g[n + 1] = f[n + 1] \o d
        BY <3>2, <4>2, <4>3, Zenon
      <4>5. ~(n + 1 < i)
        BY <1>1, <3>5
      <4>6. g[n + 1] = after[n + 1]
        BY <1>c, <3>1, <4>4
      <4> QED BY <4>5, <4>6
    <3>6. CASE n + 1 > i
      <4>1. s[n + 1] = <<>> /\ t[n + 1] = <<>>
        <5>1. n + 1 # i
          BY <1>1, <3>6
        <5> QED BY <3>1, <3>6, <5>1
      <4>2. g[n] = f[n] \o d
        <5>1. n <= Len(s) /\ i <= n
          BY <1>1, <2>1, <3>6
        <5>2. g[n] = after[n]
          BY <1>5, <5>1
        <5> QED BY <1>c, <3>1, <5>2
      <4>3. f[n + 1] = f[n]
        BY <3>2, <4>1, ConcatEmptySeq, Zenon
      <4>4. f[n] \o d \in Seq(P)
        BY <3>2
      <4>5. g[n + 1] = f[n] \o d
        BY <3>2, <4>1, <4>2, <4>4, ConcatEmptySeq, Zenon
      <4>6. ~(n + 1 < i)
        BY <1>1, <3>6
      <4>7. f[n] \o d = f[n + 1] \o d
        BY <4>3, Zenon
      <4>8. g[n + 1] = after[n + 1]
        BY <1>c, <3>1, <4>5, <4>7
      <4> QED BY <4>6, <4>8
    <3> QED BY <1>1, <3>4, <3>5, <3>6
  <2>2. CASE ~(n + 1 <= Len(s))
    BY <2>2
  <2> QED BY <2>1, <2>2
<1>6. \A n \in Nat : n \in S
  <2> HIDE DEF S
  <2> QED BY <1>4, <1>5, SetInduction
<1>7. g[Len(s)] = f[Len(s)] \o d
  <2>1. g[Len(s)] = after[Len(s)]
    BY <1>1, <1>6
  <2> QED BY <1>1, <1>c, <2>1
<1> QED BY <1>2, <1>3, <1>7

-----------------------------------------------------------------------------
(* A client that streams is told what one that does not is told            *)

TextOf(bs) == [i \in DOMAIN bs |-> IF bs[i].kind = "text" THEN bs[i].data ELSE <<>>]
CallsOf(bs) == [i \in DOMAIN bs |-> IF bs[i].kind = "tool_use" THEN <<bs[i].data>> ELSE <<>>]

\* Of text, only one block is open, and it is the last: what comes for it comes
\* after all text before.
OneText ==
  \A i, j \in 1..Len(blocks) :
    i < j /\ blocks[i].kind = "text" /\ blocks[i].open => blocks[j].kind # "text"

\* The calls are in the order of their blocks.
Ordered == \A k, l \in 1..Len(view.calls) : k < l => view.calls[k].block < view.calls[l].block

\* The reason that was given is the message's.
ReasonTold ==
  /\ pc = "read" /\ ~finished => stop = None
  /\ (pc = "read" /\ finished) \/ pc \in {"closing", "over"}
       => view.finishes = <<FinishReason(stop)>>

Told == view.text = FlattenSeq(TextOf(blocks)) /\ OneText /\ Ordered /\ ReasonTold

\* Sequences with the same elements are the same.
LEMMA SameSequence ==
  ASSUME NEW P, NEW s \in Seq(P), NEW t \in Seq(P), Len(t) = Len(s),
         \A i \in 1..Len(s) : t[i] = s[i]
  PROVE  t = s
OBVIOUS

\* What the blocks add to the text, one by one and together.
LEMMA TextOfTyped ==
  ASSUME NEW bs \in Seq(Blocks)
  PROVE  /\ TextOf(bs) \in Seq(Seq(Pieces)) /\ Len(TextOf(bs)) = Len(bs)
         /\ \A i \in 1..Len(bs) : TextOf(bs)[i] = IF bs[i].kind = "text" THEN bs[i].data ELSE <<>>
         /\ FlattenSeq(TextOf(bs)) \in Seq(Pieces)
<1> DEFINE t == TextOf(bs)
<1>0. Len(bs) \in Nat /\ DOMAIN bs = 1..Len(bs)
  OBVIOUS
<1>1. \A i \in 1..Len(bs) : t[i] = IF bs[i].kind = "text" THEN bs[i].data ELSE <<>>
  BY DEF TextOf
<1>2. \A i \in 1..Len(bs) : t[i] \in Seq(Pieces)
  <2>1. ASSUME NEW i \in 1..Len(bs) PROVE bs[i].data \in Seq(Pieces)
    <3>1. bs[i] \in Blocks
      OBVIOUS
    <3> QED BY <3>1, Zenon DEF Blocks
  <2>2. <<>> \in Seq(Pieces)
    OBVIOUS
  <2> QED BY <1>1, <2>1, <2>2
<1>3. t = [i \in 1..Len(bs) |-> t[i]]
  BY <1>0 DEF TextOf
<1> HIDE DEF t
<1>4. t \in Seq(Seq(Pieces)) /\ Len(t) = Len(bs)
  BY <1>0, <1>2, <1>3
<1>5. FlattenSeq(t) \in Seq(Pieces)
  <2>1. PICK f : (\A n \in 0..Len(t) : f[n] \in Seq(Pieces)) /\ FlattenSeq(t) = f[Len(t)]
    BY <1>4, FlattenRecursion
  <2>2. Len(t) \in 0..Len(t)
    BY <1>4
  <2> QED BY <2>1, <2>2
<1> QED BY <1>1, <1>4, <1>5 DEF t

LEMMA ToldInit == Init => Told
<1> SUFFICES ASSUME Init PROVE Told
  OBVIOUS
<1>0. blocks = <<>> /\ view.text = <<>> /\ view.calls = <<>> /\ pc = "read" /\ stop = None /\ ~finished
  BY DEF Init, Blank
<1>1. FlattenSeq(TextOf(blocks)) = <<>>
  <2>1. TextOf(blocks) = <<>>
    BY <1>0 DEF TextOf
  <2> QED BY <2>1 DEF FlattenSeq
<1> QED BY <1>0, <1>1 DEF Told, OneText, Ordered, ReasonTold

\* A block more: it is the last, and so is its call.
LEMMA ToldStart ==
  ASSUME IInv, Told, NEW kind \in Kinds, BlockStart(kind)
  PROVE  Told'
<1>0. /\ view \in Views /\ blocks \in Seq(Blocks) /\ Len(blocks) \in Nat
      /\ view.calls \in Seq(Calls) /\ nextCall = Len(view.calls)
      /\ DOMAIN toolIndexOf \subseteq Nat
      /\ ~view.garbled /\ view.finishes = <<>> /\ pc = "read" /\ ~finished
  BY Typed DEF IInv, InStep, Ending, BlockStart, MayStart, Views
<1>1. UNCHANGED <<pc, finished, stop>> /\ blocks' = Append(blocks, NewBlock(kind)) /\ MayStart(kind)
  BY DEF BlockStart
<1> DEFINE b == NewBlock(kind)
<1>2. b \in Blocks /\ b.kind = kind /\ b.data = <<>>
  BY ConstantsOK DEF NewBlock, Blocks
<1> HIDE DEF b
<1>3. /\ blocks' \in Seq(Blocks) /\ Len(blocks') = Len(blocks) + 1
      /\ \A i \in 1..Len(blocks) : blocks'[i] = blocks[i]
      /\ blocks'[Len(blocks) + 1] = b
  <2>1. blocks' = Append(blocks, b)
    BY <1>1 DEF b
  <2> QED BY <1>0, <1>2, <2>1
<1>4. OneText'
  <2> SUFFICES ASSUME NEW i \in 1..Len(blocks'), NEW j \in 1..Len(blocks'), i < j,
                      blocks'[i].kind = "text", blocks'[i].open
               PROVE  blocks'[j].kind # "text"
    BY DEF OneText
  <2>1. i \in 1..Len(blocks) /\ blocks'[i] = blocks[i]
    BY <1>0, <1>3
  <2>2. CASE j \in 1..Len(blocks)
    BY <1>3, <2>1, <2>2 DEF Told, OneText
  <2>3. CASE j = Len(blocks) + 1
    <3>1. kind # "text"
      BY <1>0, <1>1, <2>1 DEF MayStart
    <3> QED BY <1>2, <1>3, <2>3, <3>1
  <2> QED BY <1>0, <1>3, <2>2, <2>3
<1>5. FlattenSeq(TextOf(blocks')) = FlattenSeq(TextOf(blocks))
  <2> DEFINE s == TextOf(blocks)
             t == TextOf(blocks')
  <2>1. /\ s \in Seq(Seq(Pieces)) /\ Len(s) = Len(blocks)
        /\ \A i \in 1..Len(blocks) :
             s[i] = IF blocks[i].kind = "text" THEN blocks[i].data ELSE <<>>
        /\ FlattenSeq(s) \in Seq(Pieces)
    BY <1>0, TextOfTyped
  <2>2. /\ t \in Seq(Seq(Pieces)) /\ Len(t) = Len(blocks')
        /\ \A i \in 1..Len(blocks') :
             t[i] = IF blocks'[i].kind = "text" THEN blocks'[i].data ELSE <<>>
    BY <1>3, TextOfTyped
  <2> HIDE DEF s, t
  <2>3. ASSUME NEW i \in 1..Len(blocks) PROVE t[i] = s[i]
    <3>1. i \in 1..Len(blocks') /\ blocks'[i] = blocks[i]
      BY <1>0, <1>3
    <3> QED BY <2>1, <2>2, <3>1, Zenon
  <2>4. t[Len(blocks) + 1] = <<>>
    BY <1>0, <1>2, <1>3, <2>2
  <2>5. <<>> \in Seq(Pieces)
    OBVIOUS
  <2>6. t = Append(s, <<>>)
    <3> DEFINE u == Append(s, <<>>)
    <3>1. u \in Seq(Seq(Pieces)) /\ Len(u) = Len(s) + 1 /\ u[Len(s) + 1] = <<>>
          /\ \A i \in 1..Len(s) : u[i] = s[i]
      BY <2>1, <2>5
    <3> HIDE DEF u
    <3>2. ASSUME NEW i \in 1..Len(u) PROVE t[i] = u[i]
      <4>1. CASE i \in 1..Len(blocks)
        BY <2>1, <2>3, <3>1, <4>1, Zenon
      <4>2. CASE i = Len(blocks) + 1
        BY <2>1, <2>4, <3>1, <4>2, Zenon
      <4>3. i \in 1..(Len(blocks) + 1)
        BY <2>1, <3>1
      <4> QED BY <1>0, <4>1, <4>2, <4>3
    <3>3. Len(t) = Len(u)
      BY <1>3, <2>1, <2>2, <3>1
    <3>4. t = u
      BY <2>2, <3>1, <3>2, <3>3, SameSequence
    <3> QED BY <3>4 DEF u
  <2>7. FlattenSeq(t) = FlattenSeq(s) \o <<>>
    BY <2>1, <2>5, <2>6, FlattenAppend, Zenon
  <2>8. FlattenSeq(t) = FlattenSeq(s)
    BY <2>1, <2>7, ConcatEmptySeq
  <2> QED BY <2>8 DEF s, t
<1>6. view'.text = view.text /\ view'.finishes = view.finishes /\ Ordered'
  <2>1. CASE kind = "tool_use"
    <3> DEFINE call == [block |-> Len(blocks), args |-> <<>>]
    <3>1. NewCall(Len(view.calls), Len(blocks))
      BY <1>0, <2>1 DEF BlockStart
    <3>2. view'.calls = Append(view.calls, call) /\ view'.text = view.text
          /\ view'.finishes = view.finishes
      BY <1>0, <3>1, AfterNewCall
    <3>3. call.block = Len(blocks)
      OBVIOUS
    <3> HIDE DEF call
    <3>4. /\ Len(view'.calls) = Len(view.calls) + 1
          /\ \A k \in 1..Len(view.calls) : view'.calls[k] = view.calls[k]
          /\ view'.calls[Len(view.calls) + 1].block = Len(blocks)
      BY <1>0, <3>2, <3>3
    <3>5. \A k \in 1..Len(view.calls) : view.calls[k].block < Len(blocks)
      BY <1>0 DEF IInv, InStep
    <3>6. ASSUME NEW k \in 1..(Len(view.calls) + 1), NEW l \in 1..(Len(view.calls) + 1), k < l
          PROVE  view'.calls[k].block < view'.calls[l].block
      <4>1. k \in 1..Len(view.calls) /\ view'.calls[k] = view.calls[k]
        BY <1>0, <3>4, <3>6
      <4>2. CASE l \in 1..Len(view.calls)
        BY <3>4, <3>6, <4>1, <4>2 DEF Told, Ordered
      <4>3. CASE l = Len(view.calls) + 1
        BY <3>4, <3>5, <4>1, <4>3
      <4> QED BY <1>0, <4>2, <4>3
    <3>7. Ordered'
      BY <3>4, <3>6 DEF Ordered
    <3> QED BY <3>2, <3>7
  <2>2. CASE kind # "tool_use"
    <3>1. view' = view
      BY <2>2 DEF BlockStart
    <3> QED BY <3>1 DEF Told, Ordered
  <2> QED BY <2>1, <2>2
<1>7. ReasonTold'
  BY <1>0, <1>1 DEF Told, ReasonTold
<1> QED BY <1>4, <1>5, <1>6, <1>7 DEF Told

\* A piece more: of text it is the last, and a call knows its own.
LEMMA ToldDelta ==
  ASSUME "server_tool_use" \notin Kinds,
         IInv, Told, NEW i \in 1..Len(blocks), NEW p \in Pieces, BlockDelta(i, p)
  PROVE  Told'
<1> DEFINE b == [blocks[i] EXCEPT !.data = Append(blocks[i].data, p)]
           s == TextOf(blocks)
           t == TextOf(blocks')
<1>0. /\ view \in Views /\ blocks \in Seq(Blocks) /\ Len(blocks) \in Nat
      /\ view.calls \in Seq(Calls) /\ blocks[i] \in Blocks /\ nextCall = Len(view.calls)
      /\ \A j \in DOMAIN toolIndexOf : toolIndexOf[j] \in Nat
      /\ ~view.garbled /\ view.finishes = <<>> /\ pc = "read" /\ ~finished
  BY Typed DEF IInv, InStep, Ending, BlockDelta, Views
<1>1. UNCHANGED <<pc, finished, stop>> /\ blocks' = [blocks EXCEPT ![i] = b] /\ blocks[i].open
  BY DEF BlockDelta, code
<1>2. b \in Blocks /\ b.kind = blocks[i].kind /\ b.open = blocks[i].open
      /\ b.data = Append(blocks[i].data, p)
  <2>1. b \in Blocks
    BY <1>0, BlocksStay, Zenon
  <2>2. b.kind = blocks[i].kind /\ b.open = blocks[i].open /\ b.data = Append(blocks[i].data, p)
    BY <1>0 DEF Blocks
  <2> QED BY <2>1, <2>2
<1> HIDE DEF b
<1>3. /\ blocks' \in Seq(Blocks) /\ Len(blocks') = Len(blocks)
      /\ \A j \in 1..Len(blocks) : j # i => blocks'[j] = blocks[j]
      /\ blocks'[i] = b
  BY <1>0, <1>1, <1>2
<1>4. OneText'
  <2>1. \A j \in 1..Len(blocks) : blocks'[j].kind = blocks[j].kind /\ blocks'[j].open = blocks[j].open
    BY <1>2, <1>3
  <2> QED BY <1>3, <2>1 DEF Told, OneText
<1>5. ReasonTold'
  BY <1>0, <1>1 DEF Told, ReasonTold
<1>6. /\ s \in Seq(Seq(Pieces)) /\ Len(s) = Len(blocks)
      /\ \A j \in 1..Len(blocks) :
           s[j] = IF blocks[j].kind = "text" THEN blocks[j].data ELSE <<>>
      /\ FlattenSeq(s) \in Seq(Pieces)
  BY <1>0, TextOfTyped
<1>7. /\ t \in Seq(Seq(Pieces)) /\ Len(t) = Len(blocks')
      /\ \A j \in 1..Len(blocks') :
           t[j] = IF blocks'[j].kind = "text" THEN blocks'[j].data ELSE <<>>
  BY <1>3, TextOfTyped
<1>8. view.text = FlattenSeq(s)
  BY DEF Told
<1> HIDE DEF s, t
<1>9. \A j \in 1..Len(s) : j # i => t[j] = s[j]
  BY <1>3, <1>6, <1>7
<1>10. CASE blocks[i].kind = "text"
  <2>1. Content(p)
    BY <1>10 DEF BlockDelta
  <2>2. view'.calls = view.calls /\ view'.finishes = view.finishes
        /\ view'.text = Append(view.text, p)
    BY <1>0, <2>1, AfterContent
  <2>3. \A j \in 1..Len(s) : j > i => s[j] = <<>>
    BY <1>0, <1>1, <1>6, <1>10 DEF Told, OneText
  <2>4. s[i] \in Seq(Pieces) /\ t[i] = Append(s[i], p)
    <3>1. s[i] = blocks[i].data /\ t[i] = b.data
      <4>1. i \in 1..Len(blocks') /\ b.kind = "text" /\ blocks'[i] = b
        BY <1>2, <1>3, <1>10
      <4> QED BY <1>6, <1>7, <1>10, <4>1, Zenon
    <3> QED BY <1>0, <1>2, <3>1, Zenon DEF Blocks
  <2>5. t[i] = s[i] \o <<p>>
    BY <2>4
  <2>6. <<p>> \in Seq(Pieces) /\ i \in 1..Len(s) /\ Len(t) = Len(s)
    BY <1>3, <1>6, <1>7
  <2>7. FlattenSeq(t) = FlattenSeq(s) \o <<p>>
    <3>1. \A d \in Seq(Pieces) : t[i] = s[i] \o d => FlattenSeq(t) = FlattenSeq(s) \o d
      <4>1. \A u, v \in Seq(Seq(Pieces)), d \in Seq(Pieces) : \A k \in 1..Len(u) :
              /\ Len(v) = Len(u) /\ v[k] = u[k] \o d
              /\ \A j \in 1..Len(u) : j # k => v[j] = u[j]
              /\ \A j \in 1..Len(u) : j > k => u[j] = <<>>
              => FlattenSeq(v) = FlattenSeq(u) \o d
        BY FlattenExtend, Zenon
      <4> QED BY <1>6, <1>7, <1>9, <2>3, <2>6, <4>1, Zenon
    <3> QED BY <2>5, <2>6, <3>1, Zenon
  <2>8. Append(FlattenSeq(s), p) = FlattenSeq(s) \o <<p>>
    BY <1>6
  <2>9. view'.text = FlattenSeq(t)
    BY <1>8, <2>2, <2>7, <2>8, Zenon
  <2>10. Ordered'
    BY <2>2 DEF Told, Ordered
  <2> QED BY <1>4, <1>5, <2>9, <2>10 DEF Told, t
<1>11. CASE blocks[i].kind = "tool_use"
  <2> DEFINE x == toolIndexOf[i - 1]
  <2>1. i - 1 \in DOMAIN toolIndexOf /\ x \in Nat /\ x < Len(view.calls)
    BY <1>0, <1>11 DEF IInv, InStep
  <2>2. Arguments(x, p)
    BY <1>11, <2>1 DEF BlockDelta, ToolIndex
  <2> HIDE DEF x
  <2>3. /\ view'.finishes = view.finishes /\ view'.text = view.text
        /\ Len(view'.calls) = Len(view.calls)
        /\ \A k \in 1..Len(view.calls) : k # x + 1 => view'.calls[k] = view.calls[k]
        /\ view'.calls[x + 1].block = view.calls[x + 1].block
    BY <1>0, <2>1, <2>2, AfterArguments
  <2>4. Ordered'
    <3>1. \A k \in 1..Len(view.calls) : view'.calls[k].block = view.calls[k].block
      BY <2>3
    <3> QED BY <2>3, <3>1 DEF Told, Ordered
  <2>5. t = s
    <3>1. \A j \in 1..Len(s) : t[j] = s[j]
      BY <1>2, <1>3, <1>6, <1>7, <1>11
    <3>2. Len(t) = Len(s)
      BY <1>3, <1>6, <1>7
    <3> QED BY <1>6, <1>7, <3>1, <3>2, SameSequence, Zenon
  <2> QED BY <1>4, <1>5, <1>8, <2>3, <2>4, <2>5 DEF Told, t
<1>12. blocks[i].kind \in {"text", "tool_use"}
  BY ConstantsOK DEF IInv, BlockKinds
<1> QED BY <1>10, <1>11, <1>12

LEMMA ToldStop ==
  ASSUME IInv, Told, NEW i \in 1..Len(blocks), BlockStop(i)
  PROVE  Told'
<1> DEFINE b == [blocks[i] EXCEPT !.open = FALSE]
           s == TextOf(blocks)
           t == TextOf(blocks')
<1>0. blocks \in Seq(Blocks) /\ Len(blocks) \in Nat /\ blocks[i] \in Blocks
  BY Typed DEF IInv
<1>1. UNCHANGED <<pc, finished, stop, view>> /\ blocks' = [blocks EXCEPT ![i] = b]
  BY DEF BlockStop, code
<1>2. b \in Blocks /\ b.kind = blocks[i].kind /\ b.data = blocks[i].data /\ ~b.open
  BY <1>0 DEF Blocks
<1> HIDE DEF b
<1>3. /\ blocks' \in Seq(Blocks) /\ Len(blocks') = Len(blocks)
      /\ \A j \in 1..Len(blocks) : j # i => blocks'[j] = blocks[j]
      /\ blocks'[i] = b
  BY <1>0, <1>1, <1>2
<1>4. OneText'
  <2>1. \A j \in 1..Len(blocks) : blocks'[j].kind = blocks[j].kind
                                  /\ (blocks'[j].open => blocks[j].open)
    BY <1>2, <1>3
  <2> QED BY <1>3, <2>1 DEF Told, OneText
<1>5. /\ s \in Seq(Seq(Pieces)) /\ Len(s) = Len(blocks)
      /\ \A j \in 1..Len(blocks) :
           s[j] = IF blocks[j].kind = "text" THEN blocks[j].data ELSE <<>>
  BY <1>0, TextOfTyped
<1>6. /\ t \in Seq(Seq(Pieces)) /\ Len(t) = Len(blocks')
      /\ \A j \in 1..Len(blocks') :
           t[j] = IF blocks'[j].kind = "text" THEN blocks'[j].data ELSE <<>>
  BY <1>3, TextOfTyped
<1>7. view.text = FlattenSeq(s)
  BY DEF Told
<1> HIDE DEF s, t
<1>8. t = s
  <2>1. \A j \in 1..Len(s) : t[j] = s[j]
    BY <1>2, <1>3, <1>5, <1>6
  <2> QED BY <1>3, <1>5, <1>6, <2>1
<1>9. Ordered' /\ ReasonTold'
  BY <1>1 DEF Told, Ordered, ReasonTold
<1> QED BY <1>1, <1>4, <1>7, <1>8, <1>9 DEF Told, t

LEMMA ToldStep ==
  ASSUME "server_tool_use" \notin Kinds
  PROVE  IInv /\ Told /\ [Next]_vars => Told'
<1> SUFFICES ASSUME IInv, Told, [Next]_vars PROVE Told'
  OBVIOUS
<1>0. view \in Views
  BY Typed DEF IInv
<1>1. CASE \E kind \in Kinds : BlockStart(kind)
  BY <1>1, ToldStart
<1>2. CASE \E i \in DOMAIN blocks : BlockStop(i) \/ \E p \in Pieces : BlockDelta(i, p)
  <2>1. DOMAIN blocks = 1..Len(blocks)
    BY Typed DEF IInv
  <2> QED BY <1>2, <2>1, ToldDelta, ToldStop
<1>3. ASSUME blocks' = blocks, view'.calls = view.calls, view'.text = view.text, ReasonTold'
      PROVE  Told'
  BY <1>3 DEF Told, OneText, Ordered
<1>4. CASE \E s \in StopReasons : MessageDelta(s)
  <2>1. PICK s \in StopReasons : MessageDelta(s)
    BY <1>4
  <2>2. /\ view.finishes = <<>> /\ pc = "read" /\ pc' = pc /\ finished' = TRUE /\ stop' = s
        /\ blocks' = blocks /\ Finish(FinishReason(s))
    BY <2>1 DEF MessageDelta, IInv, Ending
  <2>3. view'.calls = view.calls /\ view'.text = view.text /\ view'.finishes = <<FinishReason(s)>>
    BY <1>0, <2>2, AfterFinish, ReasonsOnly
  <2>4. ReasonTold'
    BY <2>2, <2>3 DEF ReasonTold
  <2> QED BY <1>3, <2>2, <2>3, <2>4
<1>5. CASE End
  <2>1. pc = "read" /\ pc' = "closing" /\ UNCHANGED <<finished, blocks, stop>>
    BY <1>5 DEF End, upstream
  <2>2. CASE finished
    <3>1. view' = view
      BY <1>5, <2>2 DEF End
    <3>2. view.finishes = <<FinishReason(stop)>>
      BY <2>1, <2>2 DEF Told, ReasonTold
    <3>3. ReasonTold'
      BY <2>1, <3>1, <3>2 DEF ReasonTold
    <3> QED BY <1>3, <2>1, <3>1, <3>3
  <2>3. CASE ~finished
    <3>1. view.finishes = <<>> /\ Finish("stop") /\ stop = None
      BY <1>5, <2>1, <2>3 DEF End, IInv, Ending, Told, ReasonTold
    <3>2. FinishReason(stop) = "stop" /\ "stop" \in Reasons
      BY <3>1, ConstantsOK DEF FinishReason, Reasons
    <3>3. view'.calls = view.calls /\ view'.text = view.text /\ view'.finishes = <<"stop">>
      BY <1>0, <3>1, <3>2, AfterFinish
    <3>4. ReasonTold'
      BY <2>1, <3>2, <3>3 DEF ReasonTold
    <3> QED BY <1>3, <2>1, <3>3, <3>4
  <2> QED BY <2>2, <2>3
<1>6. CASE Done
  <2>1. pc = "closing" /\ pc' = "over" /\ UNCHANGED <<finished, blocks, stop>>
    BY <1>6 DEF Done, upstream
  <2>2. view'.calls = view.calls /\ view'.text = view.text /\ view'.finishes = view.finishes
    BY <1>0, <1>6 DEF Done, Views
  <2>3. ReasonTold'
    BY <2>1, <2>2 DEF Told, ReasonTold
  <2> QED BY <1>3, <2>1, <2>2, <2>3
<1>7. CASE Error \/ Cut \/ UNCHANGED vars
  <2>1. UNCHANGED <<finished, blocks, stop, view>> /\ (pc' = pc \/ pc' = "cut")
    BY <1>7 DEF Error, Cut, code, upstream, vars
  <2>2. ReasonTold'
    BY <2>1 DEF Told, ReasonTold
  <2> QED BY <1>3, <2>1, <2>2
<1> QED BY <1>1, <1>2, <1>4, <1>5, <1>6, <1>7 DEF Next

\* What the blocks add to the calls, one by one.
LEMMA CallsOfTyped ==
  ASSUME NEW bs \in Seq(Blocks)
  PROVE  /\ CallsOf(bs) \in Seq(Seq(Seq(Pieces))) /\ Len(CallsOf(bs)) = Len(bs)
         /\ \A i \in 1..Len(bs) :
              CallsOf(bs)[i] = IF bs[i].kind = "tool_use" THEN <<bs[i].data>> ELSE <<>>
<1> DEFINE t == CallsOf(bs)
<1>0. Len(bs) \in Nat /\ DOMAIN bs = 1..Len(bs)
  OBVIOUS
<1>1. \A i \in 1..Len(bs) : t[i] = IF bs[i].kind = "tool_use" THEN <<bs[i].data>> ELSE <<>>
  BY DEF CallsOf
<1>2. t = [i \in 1..Len(bs) |-> t[i]]
  BY <1>0 DEF CallsOf
<1> HIDE DEF t
<1>3. ASSUME NEW i \in 1..Len(bs) PROVE t[i] \in Seq(Seq(Pieces))
  <2>1. bs[i].data \in Seq(Pieces)
    <3>1. bs[i] \in Blocks
      OBVIOUS
    <3> QED BY <3>1, Zenon DEF Blocks
  <2> DEFINE d == bs[i].data
  <2> HIDE DEF d
  <2>2. \A x \in Seq(Pieces) : <<x>> \in Seq(Seq(Pieces))
    OBVIOUS
  <2>3. <<>> \in Seq(Seq(Pieces))
    OBVIOUS
  <2> QED BY <1>1, <2>1, <2>2, <2>3, Zenon
<1>4. t \in Seq(Seq(Seq(Pieces))) /\ Len(t) = Len(bs)
  <2> DEFINE Q == Seq(Seq(Pieces))
  <2>1. \A i \in 1..Len(bs) : t[i] \in Q
    BY <1>3
  <2> HIDE DEF Q
  <2>2. t \in Seq(Q) /\ Len(t) = Len(bs)
    BY <1>0, <1>2, <2>1
  <2> QED BY <2>2 DEF Q
<1> QED BY <1>1, <1>4 DEF t

\* A call for each tool_use block, in the order of the blocks, with its data.
LEMMA CallsAsSent ==
  ASSUME IInv, Told
  PROVE  [j \in DOMAIN view.calls |-> view.calls[j].args] = FlattenSeq(CallsOf(blocks))
<1> DEFINE c == view.calls
           N == Len(c)
           L == Len(blocks)
           s == CallsOf(blocks)
           Args(m) == [k \in 1..m |-> c[k].args]
<1>0. /\ blocks \in Seq(Blocks) /\ L \in Nat /\ c \in Seq(Calls) /\ N \in Nat
      /\ DOMAIN toolIndexOf \subseteq Nat
      /\ \A i \in DOMAIN toolIndexOf : toolIndexOf[i] \in Nat
  BY Typed DEF IInv, Views
<1>1. /\ nextCall = N
      /\ \A i \in Nat : i \in DOMAIN toolIndexOf <=> i < L /\ blocks[i + 1].kind = "tool_use"
      /\ \A i \in DOMAIN toolIndexOf : toolIndexOf[i] < nextCall /\ c[toolIndexOf[i] + 1].block = i
      /\ \A k \in 1..N : /\ c[k].block \in DOMAIN toolIndexOf
                         /\ c[k].args = blocks[c[k].block + 1].data
  BY DEF IInv, InStep
<1>2. \A k \in 1..N : c[k].block \in Nat /\ c[k].block < L /\ c[k].args \in Seq(Pieces)
  <2>1. \A k \in 1..N : c[k] \in Calls
    BY <1>0
  <2> QED BY <1>0, <1>1, <2>1 DEF Calls
<1>3. \A k, l \in 1..N : k < l => c[k].block < c[l].block
  BY DEF Told, Ordered
<1>4. /\ s \in Seq(Seq(Seq(Pieces))) /\ Len(s) = L
      /\ \A i \in 1..L : s[i] = IF blocks[i].kind = "tool_use" THEN <<blocks[i].data>> ELSE <<>>
  BY <1>0, CallsOfTyped
<1> HIDE DEF c, N, L, s
<1>5. PICK f : /\ f[0] = <<>>
               /\ \A n \in 1..L : f[n] = f[n - 1] \o s[n]
               /\ FlattenSeq(s) = f[L]
  <2>1. \E f : /\ f[0] = <<>>
               /\ \A n \in 1..Len(s) : f[n] = f[n - 1] \o s[n]
               /\ \A n \in 0..Len(s) : f[n] \in Seq(Seq(Pieces))
               /\ FlattenSeq(s) = f[Len(s)]
    BY <1>4, FlattenRecursion
  <2> QED BY <1>4, <2>1, Zenon
<1>6. \A m \in 0..N : Args(m) \in Seq(Seq(Pieces)) /\ Len(Args(m)) = m
  <2> DEFINE Q == Seq(Pieces)
  <2>1. \A k \in 1..N : c[k].args \in Q
    BY <1>2
  <2> HIDE DEF Q
  <2>2. \A m \in 0..N : Args(m) \in Seq(Q) /\ Len(Args(m)) = m
    BY <1>0, <2>1
  <2> QED BY <2>2 DEF Q
<1> DEFINE Upto(n, m) == (\A k \in 1..N : c[k].block < n <=> k <= m) /\ f[n] = Args(m)
           S == {n \in Nat : n <= L => \E m \in 0..N : Upto(n, m)}
<1>7. 0 \in S
  <2>1. \A k \in 1..N : c[k].block < 0 <=> k <= 0
    BY <1>0, <1>2
  <2>2. f[0] = Args(0)
    BY <1>5
  <2>3. 0 \in 0..N
    BY <1>0
  <2> QED BY <2>1, <2>2, <2>3
<1>8. ASSUME NEW n \in Nat, n \in S PROVE n + 1 \in S
  <2> SUFFICES ASSUME n + 1 <= L PROVE \E m \in 0..N : Upto(n + 1, m)
    OBVIOUS
  <2>1. PICK m \in 0..N : Upto(n, m)
    <3>1. n <= L
      BY <1>0
    <3> HIDE DEF Upto
    <3> QED BY <1>8, <3>1
  <2>2. n + 1 \in 1..L /\ n < L /\ f[n + 1] = f[n] \o s[n + 1]
    <3>1. n + 1 \in 1..L /\ (n + 1) - 1 = n /\ n < L
      BY <1>0
    <3> QED BY <1>5, <3>1, Zenon
  <2>3. CASE blocks[n + 1].kind = "tool_use"
    <3> DEFINE j == toolIndexOf[n] + 1
    <3>1. n \in DOMAIN toolIndexOf /\ j \in 1..N /\ c[j].block = n
          /\ c[j].args = blocks[n + 1].data
      <4>1. n \in DOMAIN toolIndexOf
        BY <1>1, <2>2, <2>3, Zenon
      <4>2. toolIndexOf[n] \in Nat /\ toolIndexOf[n] < N /\ c[j].block = n
        BY <1>0, <1>1, <4>1, Zenon
      <4>3. j \in 1..N
        BY <1>0, <4>2
      <4>4. c[j].args = blocks[n + 1].data
        BY <1>1, <4>2, <4>3, Zenon
      <4> QED BY <4>1, <4>2, <4>3, <4>4
    <3> HIDE DEF j
    <3>2. ~(j <= m)
      BY <2>1, <3>1
    <3>3. m + 1 \in 1..N
      BY <1>0, <3>1, <3>2
    <3>4. ~(m + 1 < j)
      <4>1. m + 1 < j => c[m + 1].block < n
        BY <1>3, <3>1, <3>3
      <4>2. ~(m + 1 <= m)
        OBVIOUS
      <4>3. ~(c[m + 1].block < n)
        BY <2>1, <3>3, <4>2
      <4> QED BY <4>1, <4>3
    <3>5. j = m + 1
      BY <1>0, <3>1, <3>2, <3>4
    <3>6. ASSUME NEW k \in 1..N PROVE c[k].block < n + 1 <=> k <= m + 1
      <4>0. c[k].block \in Nat /\ k \in Nat /\ m \in Nat /\ (c[k].block < n <=> k <= m)
        BY <1>0, <1>2, <2>1
      <4>1. CASE k <= m
        BY <4>0, <4>1
      <4>2. CASE k = m + 1
        BY <3>1, <3>5, <4>2
      <4>3. CASE k > m + 1
        <5>1. c[j].block < c[k].block
          BY <1>3, <3>1, <3>5, <4>3
        <5> QED BY <3>1, <4>0, <4>3, <5>1
      <4> QED BY <4>0, <4>1, <4>2, <4>3
    <3>7. f[n + 1] = Args(m) \o <<c[m + 1].args>>
      <4>1. s[n + 1] = <<c[m + 1].args>>
        BY <1>4, <2>2, <2>3, <3>1, <3>5, Zenon
      <4>2. f[n] = Args(m)
        BY <2>1
      <4> HIDE DEF Args
      <4> QED BY <2>2, <4>1, <4>2, Zenon
    <3>8. Args(m) \o <<c[m + 1].args>> = Args(m + 1)
      <4> DEFINE Q == Seq(Pieces)
                 a == Args(m)
                 b == Args(m + 1)
                 x == c[m + 1].args
      <4>1. a \in Seq(Q) /\ Len(a) = m /\ b \in Seq(Q) /\ Len(b) = m + 1 /\ x \in Q /\ m \in Nat
        BY <1>0, <1>2, <1>6, <3>3
      <4>2. (\A k \in 1..m : b[k] = a[k]) /\ b[m + 1] = x
        OBVIOUS
      <4> HIDE DEF Q, a, b, x
      <4>3. Append(a, x) \in Seq(Q) /\ Len(Append(a, x)) = m + 1
            /\ \A k \in 1..(m + 1) : Append(a, x)[k] = b[k]
        BY <4>1, <4>2
      <4>4. Append(a, x) = b
        BY <4>1, <4>3, SameSequence
      <4>5. a \o <<x>> = Append(a, x)
        BY <4>1
      <4> QED BY <4>4, <4>5 DEF a, b, x
    <3>9. Upto(n + 1, m + 1)
      <4>1. f[n + 1] = Args(m + 1)
        <5> HIDE DEF Args
        <5> QED BY <3>7, <3>8, Zenon
      <4> HIDE DEF Args
      <4> QED BY <3>6, <4>1
    <3>10. m + 1 \in 0..N
      BY <1>0, <3>3
    <3> HIDE DEF Upto
    <3> QED BY <3>9, <3>10
  <2>4. CASE blocks[n + 1].kind # "tool_use"
    <3>1. n \notin DOMAIN toolIndexOf
      BY <1>1, <2>4
    <3>2. ASSUME NEW k \in 1..N PROVE c[k].block < n + 1 <=> k <= m
      <4>1. c[k].block # n /\ c[k].block \in Nat
        BY <1>1, <1>2, <3>1
      <4>2. c[k].block < n <=> k <= m
        BY <2>1
      <4> QED BY <4>1, <4>2
    <3>3. f[n + 1] = Args(m)
      <4>1. s[n + 1] = <<>>
        BY <1>4, <2>2, <2>4, Zenon
      <4>2. f[n] = Args(m) /\ Args(m) \in Seq(Seq(Pieces))
        BY <1>6, <2>1
      <4> HIDE DEF Args
      <4>3. f[n + 1] = Args(m) \o <<>>
        BY <2>2, <4>1, <4>2, Zenon
      <4>4. \A a \in Seq(Seq(Pieces)) : a \o <<>> = a
        BY ConcatEmptySeq, Zenon
      <4> QED BY <4>2, <4>3, <4>4, Zenon
    <3>4. Upto(n + 1, m)
      <4> HIDE DEF Args
      <4> QED BY <3>2, <3>3
    <3> HIDE DEF Upto
    <3> QED BY <3>4
  <2> QED BY <2>3, <2>4
<1>9. \A n \in Nat : n \in S
  <2> HIDE DEF S
  <2> QED BY <1>7, <1>8, SetInduction
<1>10. PICK m \in 0..N : Upto(L, m)
  <2> HIDE DEF Upto
  <2> QED BY <1>0, <1>9
<1>11. m = N
  <2>1. N \in 1..N => N <= m
    BY <1>2, <1>10
  <2> QED BY <1>0, <2>1
<1>12. FlattenSeq(s) = Args(N)
  <2>1. f[L] = Args(m)
    BY <1>10
  <2> HIDE DEF Args
  <2> QED BY <1>5, <1>11, <2>1, Zenon
<1>13. DOMAIN view.calls = 1..N
  BY <1>0 DEF c, N
<1>14. [j \in DOMAIN view.calls |-> view.calls[j].args] = Args(N)
  BY <1>13 DEF c
<1> QED BY <1>12, <1>14 DEF s

\* Unless the upstream reports an error, a client that streams has, when [DONE]
\* comes, what a client that does not has: the same text, the same calls in the
\* same order, and the reason for the end once.  It holds of every interleaving
\* of text and tool_use blocks.
THEOREM StreamsTellTheSame == "server_tool_use" \notin Kinds => (Spec => []AsInOnePiece)
<1> SUFFICES ASSUME "server_tool_use" \notin Kinds PROVE Spec => []AsInOnePiece
  OBVIOUS
<1>1. IInv /\ [Next]_vars => IInv'
  BY InvStep
<1>2. IInv /\ Told /\ [Next]_vars => Told'
  BY ToldStep
<1>3. IInv /\ Told => AsInOnePiece
  <2> SUFFICES ASSUME IInv, Told, view.done
               PROVE  /\ view.text = Response.text
                      /\ [j \in DOMAIN view.calls |-> view.calls[j].args] = Response.calls
                      /\ view.finishes = <<Response.finish>>
    BY DEF AsInOnePiece
  <2>1. Response.text = FlattenSeq(TextOf(blocks)) /\ Response.calls = FlattenSeq(CallsOf(blocks))
        /\ Response.finish = FinishReason(stop)
    BY DEF Response, TextParts, CallParts, TextOf, CallsOf
  <2>2. view.finishes = <<FinishReason(stop)>>
    BY DEF IInv, Ending, Told, ReasonTold
  <2> QED BY <2>1, <2>2, CallsAsSent DEF Told
<1> QED BY <1>1, <1>2, <1>3, InvInit, ToldInit, PTL DEF Spec

=============================================================================
