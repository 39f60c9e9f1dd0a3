------------------------------- MODULE Frames -------------------------------
(***************************************************************************)
(* Framing of server-sent events: bytes come in chunks that the network    *)
(* cuts anywhere, and leave as events.  A field's name is one symbol, a    *)
(* cut inside it is like one between letters; one character takes two      *)
(* bytes.                                                                  *)
(***************************************************************************)
EXTENDS Naturals, Sequences, SequencesExt, FiniteSetsExt

CONSTANTS
  MaxBytes,  \* bound on the bytes of a stream
  None       \* Python's None

Plain == {"\n", "data:", "event:", "x"}

\* The two bytes of the character "xx", and what stands for bytes that are not
\* UTF-8.
Bytes == Plain \cup {"lead", "trail"}
Chars == Plain \cup {"xx", "?"}

ASSUME ConstantsOK == MaxBytes \in Nat /\ None \notin Seq(Chars)

VARIABLES
  sent,    \* the bytes the upstream has sent
  held,    \* the incremental decoder: the start of a character
  buffer,  \* characters of a block that is not complete
  events,  \* what has been yielded
  ended    \* is the stream over?

vars == <<sent, held, buffer, events, ended>>

-----------------------------------------------------------------------------
(* Decoding                                                                *)

\* What a start of a character becomes when the rest of it does not follow.
Final(h) == IF h = <<>> THEN <<>> ELSE <<"?">>

\* What the decoder, which holds h, puts out for byte b.
Out(h, b) ==
  CASE b = "lead"  -> Final(h)
    [] b = "trail" -> <<IF h = <<>> THEN "?" ELSE "xx">>
    [] OTHER       -> Append(Final(h), b)

\* The decoder after byte b: what it holds, and the characters it has put out.
Fed(d, b) == [held |-> IF b = "lead" THEN <<b>> ELSE <<>>, text |-> d.text \o Out(d.held, b)]

Decode(h, bytes) ==
  LET after[n \in 0..Len(bytes)] ==
        IF n = 0 THEN [held |-> h, text |-> <<>>] ELSE Fed(after[n - 1], bytes[n])
  IN  after[Len(bytes)]

-----------------------------------------------------------------------------
(* Blocks                                                                  *)

\* Where a blank line begins.
Blanks(s) == {i \in 1..(Len(s) - 1) : s[i] = "\n" /\ s[i + 1] = "\n"}

After(s, i) == SubSeq(s, i + 1, Len(s))

\* split("\n")
Lines[s \in Seq(Chars)] ==
  IF ~Contains(s, "\n") THEN <<s>>
  ELSE LET i == Min({j \in DOMAIN s : s[j] = "\n"}) IN
       <<SubSeq(s, 1, i - 1)>> \o Lines[After(s, i)]

ValueOf(line, field) == IF line # <<>> /\ Head(line) = field THEN <<Tail(line)>> ELSE <<>>

\* The values of the lines of block raw that have this field.
Values(raw, field) ==
  LET lines == Lines[raw] IN FlattenSeq([i \in DOMAIN lines |-> ValueOf(lines[i], field)])

\* Lines put together, each after a "\n"; "\n".join is what comes after the first.
Joined(lines) == FlattenSeq([i \in DOMAIN lines |-> <<"\n">> \o lines[i]])

\* _parse_sse_block: the last event line, and the data lines joined.
ParseBlock(raw) ==
  LET names == Values(raw, "event:")
      data  == Values(raw, "data:") IN
  [event |-> IF names = <<>> THEN None ELSE Last(names),
   data  |-> IF data = <<>> THEN None ELSE Tail(Joined(data))]

\* A block without data (a comment) is no event.
EventOf(raw) == IF ParseBlock(raw).data = None THEN <<>> ELSE <<ParseBlock(raw)>>

\* The events of all complete blocks, and what is left.
SplitAll[s \in Seq(Chars)] ==
  IF Blanks(s) = {} THEN [events |-> <<>>, rest |-> s]
  ELSE LET i == Min(Blanks(s))
           tail == SplitAll[After(s, i + 1)] IN
       [events |-> EventOf(SubSeq(s, 1, i - 1)) \o tail.events, rest |-> tail.rest]

Split(s) == SplitAll[s]

-----------------------------------------------------------------------------
(* _iter_sse_events                                                        *)

Init ==
  /\ sent = <<>> /\ held = <<>> /\ buffer = <<>> /\ events = <<>>
  /\ ended = FALSE

\* Mutant: each chunk is decoded for itself.
ReceiveAlone(chunk) ==
  /\ ~ended
  /\ LET d == Decode(<<>>, chunk)
         s == Split(buffer \o d.text \o Final(d.held)) IN
     held' = <<>> /\ buffer' = s.rest /\ events' = events \o s.events
  /\ sent' = sent \o chunk
  /\ UNCHANGED ended

\* A chunk arrives.
Receive(chunk) ==
  /\ ~ended
  /\ LET d == Decode(held, chunk)
         s == Split(buffer \o d.text) IN
     held' = d.held /\ buffer' = s.rest /\ events' = events \o s.events
  /\ sent' = sent \o chunk
  /\ UNCHANGED ended

\* Mutant: the decoder is not asked for what it still holds.
EndUndecoded ==
  /\ ~ended
  /\ ended' = TRUE
  /\ events' = events \o (IF \E i \in DOMAIN buffer : buffer[i] # "\n" THEN EventOf(buffer) ELSE <<>>)
  /\ buffer' = <<>>
  /\ UNCHANGED <<sent, held>>

\* The stream is over: a trailing block needs no blank line.
End ==
  /\ ~ended
  /\ ended' = TRUE
  /\ LET last == buffer \o Final(held) IN
     events' = events \o (IF \E i \in DOMAIN last : last[i] # "\n" THEN EventOf(last) ELSE <<>>)
  /\ held' = <<>> /\ buffer' = <<>>
  /\ UNCHANGED sent

Next ==
  \/ \E n \in 1..(MaxBytes - Len(sent)) : \E chunk \in [1..n -> Bytes] : Receive(chunk)
  \/ End

Spec == Init /\ [][Next]_vars

-----------------------------------------------------------------------------
(* Properties                                                              *)

\* The stream as a whole, cut nowhere.
Whole == Decode(<<>>, sent)

\* Wherever the network cuts, at every moment the events of the blocks that are
\* complete have been yielded, unharmed, and no others: none waits for the next
\* chunk, no character is torn, no line is lost between two chunks.
CutsDoNotMatter ==
  ~ended => /\ events = Split(Whole.text).events
            /\ buffer = Split(Whole.text).rest

\* Every data line arrives once and in order, in whichever events and however
\* the stream ends: with a blank line, within a line or within a character.
AllDataArrives ==
  ended =>
    LET text == Whole.text \o Final(Whole.held) IN
    Joined([i \in DOMAIN events |-> events[i].data]) = Joined(Values(text, "data:"))

=============================================================================
