-------------------------- MODULE ConstraintsProofs --------------------------
(***************************************************************************)
(* Proofs about Constraints, for any vocabulary, any tags, any sets of     *)
(* tools and any schemas that SchemaAssumption lets through.               *)
(*                                                                         *)
(* A text leaves a call in one state at most (Single), so that Feed is a   *)
(* walk and a text cut in pieces is read as a whole; with the kept end of  *)
(* the text the automaton sees the tag where the history sees it (Follow). *)
(* Of a document, two lists of configurations that differ only in counts   *)
(* that no bound of the schema reads (TwinLists) refuse the same bytes and *)
(* end together, which is why a mask kept for a state key is exact.        *)
(***************************************************************************)
EXTENDS Constraints, Induction, SequenceTheorems

-----------------------------------------------------------------------------
(* The automaton of a tool call: whatever byte comes, a state of a call has one*)
(* outcome at most.                                                        *)

\* The fields of the automaton of a tool call, and what each of them can hold.
Phases == {"scanning", "json", "close", "finished"}

\* The modes of its JSON walker.
Modes ==
  {"value", "objKeyOrEnd", "objKey", "colon", "string", "objCommaOrEnd", "arrCommaOrEnd",
   "arrValueOrEnd", "number", "literal", "done"}

\* What its walker pushes.
Brackets == {"{", "["}

\* What is left of true, false or null once it began.
Letters == {"r", "u", "e", "a", "l", "s"}

\* A state of ToolCallConstraint with every field in its range.
ToolState ==
  [phase : Phases, tail : Seq(Bytes), started : BOOLEAN,
   mode : Modes, stack : Seq(Brackets), inKey : BOOLEAN, esc : BOOLEAN, hex : 0..4,
   rest : Seq(Letters), key : Seq(Bytes), topKey : Seq(Bytes), name : Seq(Bytes),
   reading : BOOLEAN, closing : 0..Len(CloseTag)]

\* Writing the phase leaves every other field.
LEMMA SetPhase ==
  ASSUME NEW s \in ToolState, NEW v \in Phases, NEW t, t = [s EXCEPT !.phase = v]
  PROVE  /\ t \in ToolState
         /\ t.phase = v /\ t.tail = s.tail /\ t.started = s.started /\ t.mode = s.mode
         /\ t.stack = s.stack /\ t.inKey = s.inKey /\ t.esc = s.esc /\ t.hex = s.hex
         /\ t.rest = s.rest /\ t.key = s.key /\ t.topKey = s.topKey /\ t.name = s.name
         /\ t.reading = s.reading /\ t.closing = s.closing
BY DEF ToolState

\* Writing the kept end of the text leaves every other field.
LEMMA SetTail ==
  ASSUME NEW s \in ToolState, NEW v \in Seq(Bytes), NEW t, t = [s EXCEPT !.tail = v]
  PROVE  /\ t \in ToolState
         /\ t.phase = s.phase /\ t.tail = v /\ t.started = s.started /\ t.mode = s.mode
         /\ t.stack = s.stack /\ t.inKey = s.inKey /\ t.esc = s.esc /\ t.hex = s.hex
         /\ t.rest = s.rest /\ t.key = s.key /\ t.topKey = s.topKey /\ t.name = s.name
         /\ t.reading = s.reading /\ t.closing = s.closing
BY DEF ToolState

\* Writing the mark of a call begun leaves every other field.
LEMMA SetStarted ==
  ASSUME NEW s \in ToolState, NEW v \in BOOLEAN, NEW t, t = [s EXCEPT !.started = v]
  PROVE  /\ t \in ToolState
         /\ t.phase = s.phase /\ t.tail = s.tail /\ t.started = v /\ t.mode = s.mode
         /\ t.stack = s.stack /\ t.inKey = s.inKey /\ t.esc = s.esc /\ t.hex = s.hex
         /\ t.rest = s.rest /\ t.key = s.key /\ t.topKey = s.topKey /\ t.name = s.name
         /\ t.reading = s.reading /\ t.closing = s.closing
BY DEF ToolState

\* Writing the mode leaves every other field.
LEMMA SetMode ==
  ASSUME NEW s \in ToolState, NEW v \in Modes, NEW t, t = [s EXCEPT !.mode = v]
  PROVE  /\ t \in ToolState
         /\ t.phase = s.phase /\ t.tail = s.tail /\ t.started = s.started /\ t.mode = v
         /\ t.stack = s.stack /\ t.inKey = s.inKey /\ t.esc = s.esc /\ t.hex = s.hex
         /\ t.rest = s.rest /\ t.key = s.key /\ t.topKey = s.topKey /\ t.name = s.name
         /\ t.reading = s.reading /\ t.closing = s.closing
BY DEF ToolState

\* Writing the stack leaves every other field.
LEMMA SetStack ==
  ASSUME NEW s \in ToolState, NEW v \in Seq(Brackets), NEW t, t = [s EXCEPT !.stack = v]
  PROVE  /\ t \in ToolState
         /\ t.phase = s.phase /\ t.tail = s.tail /\ t.started = s.started /\ t.mode = s.mode
         /\ t.stack = v /\ t.inKey = s.inKey /\ t.esc = s.esc /\ t.hex = s.hex /\ t.rest = s.rest
         /\ t.key = s.key /\ t.topKey = s.topKey /\ t.name = s.name /\ t.reading = s.reading
         /\ t.closing = s.closing
BY DEF ToolState

\* Writing the mark of a key leaves every other field.
LEMMA SetInKey ==
  ASSUME NEW s \in ToolState, NEW v \in BOOLEAN, NEW t, t = [s EXCEPT !.inKey = v]
  PROVE  /\ t \in ToolState
         /\ t.phase = s.phase /\ t.tail = s.tail /\ t.started = s.started /\ t.mode = s.mode
         /\ t.stack = s.stack /\ t.inKey = v /\ t.esc = s.esc /\ t.hex = s.hex /\ t.rest = s.rest
         /\ t.key = s.key /\ t.topKey = s.topKey /\ t.name = s.name /\ t.reading = s.reading
         /\ t.closing = s.closing
BY DEF ToolState

\* Writing the mark of an escape leaves every other field.
LEMMA SetEsc ==
  ASSUME NEW s \in ToolState, NEW v \in BOOLEAN, NEW t, t = [s EXCEPT !.esc = v]
  PROVE  /\ t \in ToolState
         /\ t.phase = s.phase /\ t.tail = s.tail /\ t.started = s.started /\ t.mode = s.mode
         /\ t.stack = s.stack /\ t.inKey = s.inKey /\ t.esc = v /\ t.hex = s.hex /\ t.rest = s.rest
         /\ t.key = s.key /\ t.topKey = s.topKey /\ t.name = s.name /\ t.reading = s.reading
         /\ t.closing = s.closing
BY DEF ToolState

\* Writing the hex digits that are due leaves every other field.
LEMMA SetHex ==
  ASSUME NEW s \in ToolState, NEW v \in 0..4, NEW t, t = [s EXCEPT !.hex = v]
  PROVE  /\ t \in ToolState
         /\ t.phase = s.phase /\ t.tail = s.tail /\ t.started = s.started /\ t.mode = s.mode
         /\ t.stack = s.stack /\ t.inKey = s.inKey /\ t.esc = s.esc /\ t.hex = v /\ t.rest = s.rest
         /\ t.key = s.key /\ t.topKey = s.topKey /\ t.name = s.name /\ t.reading = s.reading
         /\ t.closing = s.closing
BY DEF ToolState

\* Writing the rest of a literal leaves every other field.
LEMMA SetRest ==
  ASSUME NEW s \in ToolState, NEW v \in Seq(Letters), NEW t, t = [s EXCEPT !.rest = v]
  PROVE  /\ t \in ToolState
         /\ t.phase = s.phase /\ t.tail = s.tail /\ t.started = s.started /\ t.mode = s.mode
         /\ t.stack = s.stack /\ t.inKey = s.inKey /\ t.esc = s.esc /\ t.hex = s.hex /\ t.rest = v
         /\ t.key = s.key /\ t.topKey = s.topKey /\ t.name = s.name /\ t.reading = s.reading
         /\ t.closing = s.closing
BY DEF ToolState

\* Writing the key read so far leaves every other field.
LEMMA SetKey ==
  ASSUME NEW s \in ToolState, NEW v \in Seq(Bytes), NEW t, t = [s EXCEPT !.key = v]
  PROVE  /\ t \in ToolState
         /\ t.phase = s.phase /\ t.tail = s.tail /\ t.started = s.started /\ t.mode = s.mode
         /\ t.stack = s.stack /\ t.inKey = s.inKey /\ t.esc = s.esc /\ t.hex = s.hex
         /\ t.rest = s.rest /\ t.key = v /\ t.topKey = s.topKey /\ t.name = s.name
         /\ t.reading = s.reading /\ t.closing = s.closing
BY DEF ToolState

\* Writing the key of the call leaves every other field.
LEMMA SetTopKey ==
  ASSUME NEW s \in ToolState, NEW v \in Seq(Bytes), NEW t, t = [s EXCEPT !.topKey = v]
  PROVE  /\ t \in ToolState
         /\ t.phase = s.phase /\ t.tail = s.tail /\ t.started = s.started /\ t.mode = s.mode
         /\ t.stack = s.stack /\ t.inKey = s.inKey /\ t.esc = s.esc /\ t.hex = s.hex
         /\ t.rest = s.rest /\ t.key = s.key /\ t.topKey = v /\ t.name = s.name
         /\ t.reading = s.reading /\ t.closing = s.closing
BY DEF ToolState

\* Writing the name read so far leaves every other field.
LEMMA SetName ==
  ASSUME NEW s \in ToolState, NEW v \in Seq(Bytes), NEW t, t = [s EXCEPT !.name = v]
  PROVE  /\ t \in ToolState
         /\ t.phase = s.phase /\ t.tail = s.tail /\ t.started = s.started /\ t.mode = s.mode
         /\ t.stack = s.stack /\ t.inKey = s.inKey /\ t.esc = s.esc /\ t.hex = s.hex
         /\ t.rest = s.rest /\ t.key = s.key /\ t.topKey = s.topKey /\ t.name = v
         /\ t.reading = s.reading /\ t.closing = s.closing
BY DEF ToolState

\* Writing the mark of a name leaves every other field.
LEMMA SetReading ==
  ASSUME NEW s \in ToolState, NEW v \in BOOLEAN, NEW t, t = [s EXCEPT !.reading = v]
  PROVE  /\ t \in ToolState
         /\ t.phase = s.phase /\ t.tail = s.tail /\ t.started = s.started /\ t.mode = s.mode
         /\ t.stack = s.stack /\ t.inKey = s.inKey /\ t.esc = s.esc /\ t.hex = s.hex
         /\ t.rest = s.rest /\ t.key = s.key /\ t.topKey = s.topKey /\ t.name = s.name
         /\ t.reading = v /\ t.closing = s.closing
BY DEF ToolState

\* Writing the place in the close tag leaves every other field.
LEMMA SetClosing ==
  ASSUME NEW s \in ToolState, NEW v \in 0..Len(CloseTag), NEW t, t = [s EXCEPT !.closing = v]
  PROVE  /\ t \in ToolState
         /\ t.phase = s.phase /\ t.tail = s.tail /\ t.started = s.started /\ t.mode = s.mode
         /\ t.stack = s.stack /\ t.inKey = s.inKey /\ t.esc = s.esc /\ t.hex = s.hex
         /\ t.rest = s.rest /\ t.key = s.key /\ t.topKey = s.topKey /\ t.name = s.name
         /\ t.reading = s.reading /\ t.closing = v
BY DEF ToolState

\* The states in a call that the automaton reaches: an object or an array is open
\* once the call began, a literal has letters left, and a close tag is not at its end.
Live ==
  {s \in ToolState :
     /\ s.phase # "scanning"
     /\ s.phase = "json" => IF s.started THEN s.stack # <<>> ELSE s.mode = "value"
     /\ s.mode = "literal" => s.rest # <<>>
     /\ s.phase = "close" => s.closing < Len(CloseTag)}

\* The call began.
Begun == {s \in ToolState : s.phase = "json" /\ s.started}

\* In the JSON of a call, below its first bracket.
Inside == Live \cap Begun

\* A state that keeps phase and start has begun as well.
LEMMA LikeBegun ==
  ASSUME NEW s \in Begun, NEW t \in ToolState, t.phase = s.phase, t.started = s.started
  PROVE  t \in Begun
BY DEF Begun

\* At most one live state: what a text makes of one state of a call.
Single == {T \in SUBSET Live : \A x, y \in T : x = y}

\* A state in a call that differs in other fields is one still.
LEMMA LikeInside ==
  ASSUME NEW s \in Inside, NEW t \in ToolState,
         t.phase = s.phase, t.started = s.started, t.stack = s.stack,
         t.mode = "literal" => t.rest # <<>>
  PROVE  t \in Inside
BY DEF Inside, Live, Begun

\* What a state in the JSON of a call is.
LEMMA InsideIs ==
  ASSUME NEW s \in Inside
  PROVE  /\ s \in ToolState /\ s \in Live /\ s.phase = "json" /\ s.started /\ s.stack # <<>>
         /\ s.mode = "literal" => s.rest # <<>>
BY DEF Inside, Live, Begun

\* Turning to another mode stays in the JSON, on the same stack.
LEMMA TurnFacts ==
  ASSUME NEW s \in Inside, NEW m \in Modes, m # "literal"
  PROVE  /\ Turn(s, m) \in Inside
         /\ Turn(s, m).stack = s.stack /\ Turn(s, m).name = s.name /\ Turn(s, m).mode = m
<1>1. s \in ToolState
  BY DEF Inside, Live
<1> DEFINE t == Turn(s, m)
<1>2. t = [s EXCEPT !.mode = m]
  BY DEF Turn
<1> HIDE DEF t
<1>3. /\ t \in ToolState
      /\ t.phase = s.phase /\ t.started = s.started /\ t.stack = s.stack /\ t.mode = m
      /\ t.name = s.name
  BY <1>1, <1>2, SetMode
<1>4. t \in Inside
  BY <1>3, LikeInside
<1> QED
  BY <1>3, <1>4 DEF t

\* A value is over: the call goes on in what is around it, or closes.
LEMMA AfterValueFacts ==
  ASSUME NEW s \in Begun
  PROVE  /\ AfterValue(s) \in Live
         /\ s.stack # <<>> => /\ AfterValue(s) \in Inside
                              /\ AfterValue(s).stack = s.stack
                              /\ AfterValue(s).mode \in {"objCommaOrEnd", "arrCommaOrEnd"}
<1>0. s \in ToolState
  BY DEF Begun
<1>1. CASE s.stack = <<>>
  <2> DEFINE p == IF CloseTag = <<>> THEN "finished" ELSE "close"
             a == [s EXCEPT !.mode = "done"]
             b == [a EXCEPT !.closing = 0]
             t == [b EXCEPT !.phase = p]
  <2>1. AfterValue(s) = t
    BY <1>1 DEF AfterValue
  <2>2. Len(CloseTag) \in Nat /\ (CloseTag # <<>> => Len(CloseTag) > 0)
    BY GrammarAssumption
  <2>3. "done" \in Modes /\ 0 \in 0..Len(CloseTag) /\ p \in Phases
    BY <2>2 DEF Modes, Phases
  <2>4. a \in ToolState /\ a.mode = "done"
    BY <1>0, <2>3, SetMode
  <2>5. b \in ToolState /\ b.mode = "done" /\ b.closing = 0
    <3> HIDE DEF a
    <3> QED
      BY <2>3, <2>4, SetClosing
  <2>6. t \in ToolState /\ t.mode = "done" /\ t.closing = 0 /\ t.phase = p
    <3> HIDE DEF b
    <3> QED
      BY <2>3, <2>5, SetPhase
  <2> HIDE DEF t
  <2> QED
    BY <2>1, <2>2, <2>6, <1>1 DEF Live
<1>2. CASE s.stack # <<>>
  <2> DEFINE m == IF Last(s.stack) = "{" THEN "objCommaOrEnd" ELSE "arrCommaOrEnd"
             t == [s EXCEPT !.mode = m]
  <2>1. AfterValue(s) = t
    BY <1>2 DEF AfterValue, Turn
  <2>2. m \in Modes /\ m \in {"objCommaOrEnd", "arrCommaOrEnd"}
    BY DEF Modes
  <2>3. t = [s EXCEPT !.mode = m]
    OBVIOUS
  <2> HIDE DEF m, t
  <2>4. t \in ToolState /\ t.mode = m /\ t.phase = s.phase /\ t.started = s.started /\ t.stack = s.stack
    BY <1>0, <2>2, <2>3, SetMode
  <2>5. t \in Begun
    BY <2>4, LikeBegun
  <2>6. t \in Inside
    BY <2>2, <2>4, <2>5, <1>2 DEF Inside, Live, Begun
  <2> QED
    BY <2>1, <2>2, <2>4, <2>6 DEF Inside
<1> QED
  BY <1>1, <1>2

\* Writing the mark of a key stays in the JSON.
LEMMA InKeyInside ==
  ASSUME NEW s \in Inside, NEW v \in BOOLEAN
  PROVE  [s EXCEPT !.inKey = v] \in Inside
<1> DEFINE t == [s EXCEPT !.inKey = v]
<1>1. s \in ToolState /\ (s.mode = "literal" => s.rest # <<>>)
  BY DEF Inside, Live
<1>2. t = [s EXCEPT !.inKey = v]
  OBVIOUS
<1> HIDE DEF t
<1>3. /\ t \in ToolState /\ t.phase = s.phase /\ t.started = s.started /\ t.stack = s.stack
      /\ t.mode = s.mode /\ t.rest = s.rest
  BY <1>1, <1>2, SetInKey
<1>4. t \in Inside
  BY <1>1, <1>3, LikeInside
<1> QED
  BY <1>4 DEF t

\* Writing the mark of an escape stays in the JSON.
LEMMA EscInside ==
  ASSUME NEW s \in Inside, NEW v \in BOOLEAN
  PROVE  [s EXCEPT !.esc = v] \in Inside
<1> DEFINE t == [s EXCEPT !.esc = v]
<1>1. s \in ToolState /\ (s.mode = "literal" => s.rest # <<>>)
  BY DEF Inside, Live
<1>2. t = [s EXCEPT !.esc = v]
  OBVIOUS
<1> HIDE DEF t
<1>3. /\ t \in ToolState /\ t.phase = s.phase /\ t.started = s.started /\ t.stack = s.stack
      /\ t.mode = s.mode /\ t.rest = s.rest
  BY <1>1, <1>2, SetEsc
<1>4. t \in Inside
  BY <1>1, <1>3, LikeInside
<1> QED
  BY <1>4 DEF t

\* Writing the hex digits stays in the JSON.
LEMMA HexInside ==
  ASSUME NEW s \in Inside, NEW v \in 0..4
  PROVE  [s EXCEPT !.hex = v] \in Inside
<1> DEFINE t == [s EXCEPT !.hex = v]
<1>1. s \in ToolState /\ (s.mode = "literal" => s.rest # <<>>)
  BY DEF Inside, Live
<1>2. t = [s EXCEPT !.hex = v]
  OBVIOUS
<1> HIDE DEF t
<1>3. /\ t \in ToolState /\ t.phase = s.phase /\ t.started = s.started /\ t.stack = s.stack
      /\ t.mode = s.mode /\ t.rest = s.rest
  BY <1>1, <1>2, SetHex
<1>4. t \in Inside
  BY <1>1, <1>3, LikeInside
<1> QED
  BY <1>4 DEF t

\* Writing the key stays in the JSON.
LEMMA KeyInside ==
  ASSUME NEW s \in Inside, NEW v \in Seq(Bytes)
  PROVE  [s EXCEPT !.key = v] \in Inside
<1> DEFINE t == [s EXCEPT !.key = v]
<1>1. s \in ToolState /\ (s.mode = "literal" => s.rest # <<>>)
  BY DEF Inside, Live
<1>2. t = [s EXCEPT !.key = v]
  OBVIOUS
<1> HIDE DEF t
<1>3. /\ t \in ToolState /\ t.phase = s.phase /\ t.started = s.started /\ t.stack = s.stack
      /\ t.mode = s.mode /\ t.rest = s.rest
  BY <1>1, <1>2, SetKey
<1>4. t \in Inside
  BY <1>1, <1>3, LikeInside
<1> QED
  BY <1>4 DEF t

\* Writing the key of the call stays in the JSON.
LEMMA TopKeyInside ==
  ASSUME NEW s \in Inside, NEW v \in Seq(Bytes)
  PROVE  [s EXCEPT !.topKey = v] \in Inside
<1> DEFINE t == [s EXCEPT !.topKey = v]
<1>1. s \in ToolState /\ (s.mode = "literal" => s.rest # <<>>)
  BY DEF Inside, Live
<1>2. t = [s EXCEPT !.topKey = v]
  OBVIOUS
<1> HIDE DEF t
<1>3. /\ t \in ToolState /\ t.phase = s.phase /\ t.started = s.started /\ t.stack = s.stack
      /\ t.mode = s.mode /\ t.rest = s.rest
  BY <1>1, <1>2, SetTopKey
<1>4. t \in Inside
  BY <1>1, <1>3, LikeInside
<1> QED
  BY <1>4 DEF t

\* Writing the name stays in the JSON.
LEMMA NameInside ==
  ASSUME NEW s \in Inside, NEW v \in Seq(Bytes)
  PROVE  [s EXCEPT !.name = v] \in Inside
<1> DEFINE t == [s EXCEPT !.name = v]
<1>1. s \in ToolState /\ (s.mode = "literal" => s.rest # <<>>)
  BY DEF Inside, Live
<1>2. t = [s EXCEPT !.name = v]
  OBVIOUS
<1> HIDE DEF t
<1>3. /\ t \in ToolState /\ t.phase = s.phase /\ t.started = s.started /\ t.stack = s.stack
      /\ t.mode = s.mode /\ t.rest = s.rest
  BY <1>1, <1>2, SetName
<1>4. t \in Inside
  BY <1>1, <1>3, LikeInside
<1> QED
  BY <1>4 DEF t

\* Writing the mark of a name stays in the JSON.
LEMMA ReadingInside ==
  ASSUME NEW s \in Inside, NEW v \in BOOLEAN
  PROVE  [s EXCEPT !.reading = v] \in Inside
<1> DEFINE t == [s EXCEPT !.reading = v]
<1>1. s \in ToolState /\ (s.mode = "literal" => s.rest # <<>>)
  BY DEF Inside, Live
<1>2. t = [s EXCEPT !.reading = v]
  OBVIOUS
<1> HIDE DEF t
<1>3. /\ t \in ToolState /\ t.phase = s.phase /\ t.started = s.started /\ t.stack = s.stack
      /\ t.mode = s.mode /\ t.rest = s.rest
  BY <1>1, <1>2, SetReading
<1>4. t \in Inside
  BY <1>1, <1>3, LikeInside
<1> QED
  BY <1>4 DEF t

\* A bracket that closes leaves a live state: its parent goes on, or the call is at its close tag.
LEMMA ClosedFacts ==
  ASSUME NEW s \in Inside
  PROVE  Closed(s) \in Live
<1>1. s \in ToolState /\ s.stack \in Seq(Brackets) /\ s.stack # <<>>
  BY DEF Inside, Live, Begun, ToolState
<1>2. Front(s.stack) \in Seq(Brackets)
  <2>1. Len(s.stack) \in Nat /\ Len(s.stack) > 0
    BY <1>1, EmptySeq, LenProperties
  <2>2. SubSeq(s.stack, 1, Len(s.stack) - 1) \in Seq(Brackets)
    BY <1>1, <2>1, SubSeqProperties
  <2> QED
    BY <2>2 DEF Front
<1> DEFINE t == [s EXCEPT !.stack = Front(@)]
           v == Front(s.stack)
<1>3. t = [s EXCEPT !.stack = v]
  OBVIOUS
<1> HIDE DEF t, v
<1>4. t \in ToolState /\ t.phase = s.phase /\ t.started = s.started
  <2>1. v \in Seq(Brackets)
    BY <1>2 DEF v
  <2> QED
    BY <1>1, <2>1, <1>3, SetStack
<1>5. t \in Begun
  BY <1>4, LikeBegun DEF Inside
<1>6. AfterValue(t) \in Live
  BY <1>5, AfterValueFacts
<1> QED
  BY <1>6 DEF Closed, t

\* A bracket that opens leads into the JSON.
LEMMA OpenedFacts ==
  ASSUME NEW s \in Begun, NEW b \in Brackets, NEW m \in Modes, m # "literal"
  PROVE  Opened(s, b, m) \in Inside
<1>1. Append(s.stack, b) \in Seq(Brackets) /\ Append(s.stack, b) # <<>>
  <2>1. s.stack \in Seq(Brackets)
    BY DEF Begun, ToolState
  <2> QED
    BY <2>1, AppendProperties
<1>0. s \in ToolState
  BY DEF Begun
<1> DEFINE t == [s EXCEPT !.stack = Append(@, b)]
           u == [t EXCEPT !.mode = m]
           v == Append(s.stack, b)
<1>2. t = [s EXCEPT !.stack = v]
  OBVIOUS
<1>3. Opened(s, b, m) = u
  BY DEF Opened
<1>4. u = [t EXCEPT !.mode = m]
  OBVIOUS
<1>a. v \in Seq(Brackets) /\ v # <<>>
  BY <1>1
<1> HIDE DEF t, u, v
<1>5. t \in ToolState /\ t.phase = s.phase /\ t.started = s.started /\ t.stack = v
  BY <1>0, <1>a, <1>2, SetStack
<1>6. /\ u \in ToolState /\ u.phase = t.phase /\ u.started = t.started /\ u.stack = t.stack
      /\ u.mode = m
  BY <1>5, <1>4, SetMode
<1>7. t \in Begun
  BY <1>5, LikeBegun
<1>8. u \in Begun
  BY <1>6, <1>7, LikeBegun
<1>9. u \in Inside
  BY <1>a, <1>5, <1>6, <1>8 DEF Inside, Live, Begun
<1> QED
  BY <1>3, <1>9

\* After a value, one byte has one outcome at most.
LEMMA CommaOrEndSingle ==
  ASSUME NEW names, NEW s \in Inside, NEW c
  PROVE  CommaOrEnd(names, s, c) \in Single
<1>1. Turn(s, "objKey") \in Live /\ Turn(s, "value") \in Live /\ Closed(s) \in Live
  BY TurnFacts, ClosedFacts DEF Inside, Modes
<1> QED
  BY <1>1 DEF CommaOrEnd, Only, Single

\* Where a value may begin, one byte has one outcome at most.
LEMMA ValueSingle ==
  ASSUME NEW s \in Inside, NEW c
  PROVE  Value(s, c) \in Single
<1>1. Opened(s, "{", "objKeyOrEnd") \in Live /\ Opened(s, "[", "arrValueOrEnd") \in Live
  BY OpenedFacts DEF Inside, Modes, Brackets
<1> DEFINE reading == AtTop(s) /\ s.topKey = NameKey
           str == [s EXCEPT !.mode = "string", !.inKey = FALSE, !.reading = reading,
                            !.name = IF reading THEN <<>> ELSE @]
<1>2. str \in Live
  <2> DEFINE a == [s EXCEPT !.mode = "string"]
             b == [a EXCEPT !.inKey = FALSE]
             d == [b EXCEPT !.reading = reading]
             nm == IF reading THEN <<>> ELSE s.name
             e == [d EXCEPT !.name = nm]
  <2>1. a \in Inside /\ a.name = s.name
    BY TurnFacts DEF Turn, Modes
  <2>2. b \in Inside
    <3> HIDE DEF a
    <3> QED
      BY <2>1, InKeyInside
  <2>3. d \in Inside
    <3>1. reading \in BOOLEAN
      OBVIOUS
    <3> HIDE DEF b, reading
    <3> QED
      BY <2>2, <3>1, ReadingInside
  <2>4. nm \in Seq(Bytes)
    <3>1. s.name \in Seq(Bytes) /\ <<>> \in Seq(Bytes)
      BY EmptySeq DEF Inside, Live, ToolState
    <3> QED
      BY <3>1
  <2>5. e \in Inside
    <3> HIDE DEF d, nm
    <3> QED
      BY <2>3, <2>4, NameInside
  <2>6. str = e
    OBVIOUS
  <2> HIDE DEF str, e
  <2> QED
    BY <2>5, <2>6 DEF Inside
<1>3. Turn(s, "number") \in Live
  BY TurnFacts DEF Inside, Modes
<1> DEFINE words == {[Turn(s, "literal") EXCEPT !.rest = Literals[c]] : x \in {c} \cap DOMAIN Literals}
<1>4. words \in Single /\ (words # {} => c \in {"t", "f", "n"})
  <2>1. c \in DOMAIN Literals => Literals[c] \in Seq(Letters) /\ Literals[c] # <<>> /\ c \in {"t", "f", "n"}
    <3>1. DOMAIN Literals = {"t", "f", "n"}
      BY DEF Literals
    <3>2. /\ Literals["t"] = <<"r", "u", "e">> /\ Literals["f"] = <<"a", "l", "s", "e">>
          /\ Literals["n"] = <<"u", "l", "l">>
      BY DEF Literals
    <3>3. /\ <<"r", "u", "e">> \in Seq(Letters) /\ <<"a", "l", "s", "e">> \in Seq(Letters)
          /\ <<"u", "l", "l">> \in Seq(Letters)
      BY DEF Letters
    <3>5. <<"r", "u", "e">> # <<>> /\ <<"a", "l", "s", "e">> # <<>> /\ <<"u", "l", "l">> # <<>>
      OBVIOUS
    <3>4. ASSUME c \in DOMAIN Literals
          PROVE  Literals[c] \in Seq(Letters) /\ Literals[c] # <<>> /\ c \in {"t", "f", "n"}
      <4>1. CASE c = "t"
        BY <3>2, <3>3, <3>5, <4>1, Zenon
      <4>2. CASE c = "f"
        BY <3>2, <3>3, <3>5, <4>2, Zenon
      <4>3. CASE c = "n"
        BY <3>2, <3>3, <3>5, <4>3, Zenon
      <4> QED
        BY <3>1, <3>4, <4>1, <4>2, <4>3
    <3> QED
      BY <3>4
  <2>2. c \in DOMAIN Literals => [Turn(s, "literal") EXCEPT !.rest = Literals[c]] \in Live
    <3> SUFFICES ASSUME c \in DOMAIN Literals
                 PROVE  [Turn(s, "literal") EXCEPT !.rest = Literals[c]] \in Live
      OBVIOUS
    <3> DEFINE a == [s EXCEPT !.mode = "literal"]
               w == Literals[c]
               b == [a EXCEPT !.rest = w]
    <3>1. a \in ToolState /\ a.phase = s.phase /\ a.started = s.started /\ a.stack = s.stack
      BY SetMode DEF Inside, Live, Modes
    <3>2. w \in Seq(Letters) /\ w # <<>>
      BY <2>1
    <3>3. b \in ToolState /\ b.phase = s.phase /\ b.started = s.started /\ b.stack = s.stack /\ b.rest = w
      <4> HIDE DEF a, w
      <4> QED
        BY <3>1, <3>2, SetRest
    <3>4. b = [Turn(s, "literal") EXCEPT !.rest = Literals[c]]
      BY DEF Turn
    <3> HIDE DEF b, w
    <3>5. b \in Inside
      BY <3>2, <3>3, LikeInside
    <3> QED
      BY <3>4, <3>5 DEF Inside
  <2> QED
    BY <2>1, <2>2 DEF Single
<1>5. Value(s, c) = IF c \in Space THEN {s} ELSE IF WrongType(s, c) THEN {}
                    ELSE Only(c = "{", Opened(s, "{", "objKeyOrEnd"))
                         \cup Only(c = "[", Opened(s, "[", "arrValueOrEnd"))
                         \cup Only(c = Quote, str) \cup words
                         \cup Only(c \in Digit \cup {"-"}, Turn(s, "number"))
  BY DEF Value
<1> HIDE DEF str, words
<1> QED
  BY <1>1, <1>2, <1>3, <1>4, <1>5 DEF Only, Single, Quote, Digit, Inside

-----------------------------------------------------------------------------
\* A state alone, or none.
LEMMA OnlySingle ==
  ASSUME NEW p, NEW s \in Live
  PROVE  Only(p, s) \in Single
BY DEF Only, Single

\* Where a key may begin, one byte has one outcome at most.
LEMMA KeySingle ==
  ASSUME NEW s \in Inside, NEW c
  PROVE  Key(s, c) \in Single
<1> DEFINE str == [s EXCEPT !.mode = "string", !.inKey = TRUE, !.key = <<>>]
<1>1. str \in Live
  <2> DEFINE a == [s EXCEPT !.mode = "string"]
             b == [a EXCEPT !.inKey = TRUE]
             e == [b EXCEPT !.key = <<>>]
  <2>1. a \in Inside
    BY TurnFacts DEF Turn, Modes
  <2>2. b \in Inside
    <3> HIDE DEF a
    <3> QED
      BY <2>1, InKeyInside
  <2>3. e \in Inside
    <3>1. <<>> \in Seq(Bytes)
      BY EmptySeq
    <3> HIDE DEF b
    <3> QED
      BY <2>2, <3>1, KeyInside
  <2>4. str = e
    OBVIOUS
  <2> HIDE DEF str, e
  <2> QED
    BY <2>3, <2>4 DEF Inside
<1>2. Closed(s) \in Live
  BY ClosedFacts
<1>3. s \in Live
  BY DEF Inside
<1>4. Key(s, c) = Only(c \in Space, s) \cup Only(c = Quote, str)
                  \cup Only(c = "}" /\ s.mode = "objKeyOrEnd" /\ ~AtTop(s), Closed(s))
  BY DEF Key
<1> HIDE DEF str
<1> QED
  BY <1>1, <1>2, <1>3, <1>4 DEF Only, Single, Quote, Space

\* The end of a string, the check of a name included, has one outcome at most.
LEMMA StringEndSingle ==
  ASSUME NEW names, NEW s \in Inside
  PROVE  StringEnd(names, s) \in Single
<1>1. Turn(s, "colon") \in Live
  BY TurnFacts DEF Inside, Modes
<1> DEFINE t == [s EXCEPT !.reading = FALSE]
<1>2. t \in Begun
  BY ReadingInside DEF Inside
<1>3. AfterValue(t) \in Live
  <2> HIDE DEF t
  <2> QED
    BY <1>2, AfterValueFacts
<1> HIDE DEF t
<1>4. StringEnd(names, s) = IF s.inKey THEN Only(AtTop(s) => s.key \in {NameKey, ArgsKey}, Turn(s, "colon"))
                            ELSE Only(s.reading => NameOk(names, s.name), AfterValue(t))
  BY DEF StringEnd, t
<1> QED
  BY <1>1, <1>3, <1>4, OnlySingle

\* After a backslash, one byte has one outcome at most.
LEMMA EscapedSingle ==
  ASSUME NEW s \in Inside, NEW c
  PROVE  Escaped(s, c) \in Single
<1> DEFINE t == [s EXCEPT !.esc = FALSE]
           u == [t EXCEPT !.hex = 4]
<1>1. t \in Inside
  BY EscInside
<1>2. u \in Inside
  <2>1. 4 \in 0..4
    OBVIOUS
  <2> DEFINE v == 4
  <2>2. u = [t EXCEPT !.hex = v] /\ v \in 0..4
    BY <2>1
  <2> HIDE DEF t, u, v
  <2> QED
    BY <1>1, <2>2, HexInside
<1>3. Escaped(s, c) = Only(c = "u", u) \cup Only(c \in Escapable /\ ~s.reading, t)
  BY DEF Escaped
<1> HIDE DEF t, u
<1>4. "u" \notin Escapable
  BY DEF Escapable, Quote, Escape
<1>5. t \in Live /\ u \in Live
  BY <1>1, <1>2 DEF Inside
<1> QED
  BY <1>3, <1>4, <1>5 DEF Only, Single

\* A byte of a string has one outcome at most.
LEMMA StringByteSingle ==
  ASSUME NEW names, NEW s \in Inside, NEW c \in Bytes
  PROVE  StringByte(names, s, c) \in Single
<1> DEFINE key == Append(s.key, c)
           name == Append(s.name, c)
           k == [s EXCEPT !.key = key]
           n == [s EXCEPT !.name = name]
<1>1. s.key \in Seq(Bytes) /\ s.name \in Seq(Bytes)
  BY DEF Inside, Live, ToolState
<1>2. key \in Seq(Bytes) /\ name \in Seq(Bytes)
  BY <1>1, AppendProperties
<1>3. k \in Live /\ n \in Live
  <2> HIDE DEF key, name
  <2> QED
    BY <1>2, KeyInside, NameInside DEF Inside
<1>4. StringByte(names, s, c) =
        IF s.inKey /\ AtTop(s) THEN Only(IsPrefix(key, NameKey) \/ IsPrefix(key, ArgsKey), k)
        ELSE IF ~s.inKey /\ s.reading THEN Only(PrefixOk(names, name), n)
        ELSE {s}
  BY DEF StringByte
<1>5. s \in Live
  BY DEF Inside
<1>6. {s} \in Single
  BY <1>5 DEF Single
<1> HIDE DEF k, n, key, name
<1> QED
  BY <1>3, <1>4, <1>6, OnlySingle

\* In a string, escapes and hex digits included, one byte has one outcome at most.
LEMMA StringSingle ==
  ASSUME NEW names, NEW s \in Inside, NEW c \in Bytes
  PROVE  String(names, s, c) \in Single
<1>1. s.hex \in 0..4
  BY DEF Inside, Live, ToolState
<1> DEFINE h == [s EXCEPT !.hex = @ - 1]
           e == [s EXCEPT !.esc = TRUE]
<1>2. CASE s.hex > 0
  <2>1. s.hex - 1 \in 0..4
    BY <1>1, <1>2
  <2>2. h \in Live
    <3> DEFINE v == s.hex - 1
    <3>1. h = [s EXCEPT !.hex = v]
      OBVIOUS
    <3>2. v \in 0..4
      BY <2>1
    <3> HIDE DEF v, h
    <3> QED
      BY <3>1, <3>2, HexInside DEF Inside
  <2>3. String(names, s, c) = Only(c \in Hex, h)
    BY <1>2 DEF String
  <2> HIDE DEF h
  <2> QED
    BY <2>2, <2>3, OnlySingle
<1>3. CASE ~(s.hex > 0)
  <2>1. e \in Live
    BY EscInside DEF Inside
  <2>2. String(names, s, c) = IF s.esc THEN Escaped(s, c)
                              ELSE IF c = Escape THEN {e}
                              ELSE IF c \in Control THEN {}
                              ELSE IF c = Quote THEN StringEnd(names, s)
                              ELSE StringByte(names, s, c)
    BY <1>3 DEF String
  <2>3. {e} \in Single /\ {} \in Single
    <3> HIDE DEF e
    <3> QED
      BY <2>1 DEF Single
  <2> HIDE DEF e
  <2> QED
    BY <2>2, <2>3, EscapedSingle, StringEndSingle, StringByteSingle
<1> QED
  BY <1>2, <1>3

\* In a number, one byte has one outcome at most: it goes on, or the byte is its parent's.
LEMMA NumberSingle ==
  ASSUME NEW names, NEW s \in Inside, NEW c
  PROVE  Number(names, s, c) \in Single
<1>1. AfterValue(s) \in Inside
  BY AfterValueFacts, InsideIs DEF Inside
<1>2. CommaOrEnd(names, AfterValue(s), c) \in Single
  BY <1>1, CommaOrEndSingle
<1>3. {s} \in Single /\ {AfterValue(s)} \in Single
  BY <1>1 DEF Single, Inside
<1> QED
  BY <1>2, <1>3 DEF Number

\* In true, false or null, one byte has one outcome at most.
LEMMA LiteralSingle ==
  ASSUME NEW s \in Inside, s.mode = "literal", NEW c
  PROVE  Literal(s, c) \in Single
<1>0. s \in ToolState /\ s \in Begun /\ s.rest # <<>> /\ s.rest \in Seq(Letters)
  BY InsideIs DEF Inside, ToolState
<1> DEFINE v == Tail(s.rest)
           t == [s EXCEPT !.rest = v]
<1>1. v \in Seq(Letters)
  BY <1>0, HeadTailProperties
<1>2. /\ t \in ToolState /\ t.phase = s.phase /\ t.started = s.started /\ t.stack = s.stack
      /\ t.rest = v
  <2>1. t = [s EXCEPT !.rest = v]
    OBVIOUS
  <2> HIDE DEF t, v
  <2> QED
    BY <1>0, <1>1, <2>1, SetRest
<1>3. Literal(s, c) = Only(c = Head(s.rest), IF t.rest = <<>> THEN AfterValue(t) ELSE t)
  BY DEF Literal
<1> HIDE DEF t, v
<1>4. t \in Begun
  BY <1>0, <1>2, LikeBegun
<1>5. AfterValue(t) \in Live
  BY <1>4, AfterValueFacts
<1>6. t.rest # <<>> => t \in Live
  BY <1>2, LikeInside DEF Inside
<1> QED
  BY <1>3, <1>5, <1>6, OnlySingle

\* What the walker does where a colon is due.
AtColon(s, c) ==
  Only(c \in Space, s)
  \cup Only(c = ":", [s EXCEPT !.mode = "value", !.topKey = IF AtTop(s) THEN s.key ELSE @])

\* Where a colon is due, one byte has one outcome at most.
LEMMA ColonSingle ==
  ASSUME NEW s \in Inside, NEW c
  PROVE  AtColon(s, c) \in Single
<1> DEFINE k == IF AtTop(s) THEN s.key ELSE s.topKey
           a == [s EXCEPT !.mode = "value"]
           t == [a EXCEPT !.topKey = k]
<1>1. a \in Inside
  BY TurnFacts DEF Turn, Modes
<1>2. k \in Seq(Bytes)
  BY DEF Inside, Live, ToolState
<1>3. t \in Live /\ s \in Live
  <2> HIDE DEF a, k
  <2> QED
    BY <1>1, <1>2, TopKeyInside DEF Inside
<1>4. [s EXCEPT !.mode = "value", !.topKey = IF AtTop(s) THEN s.key ELSE @] = t
  OBVIOUS
<1> HIDE DEF t
<1> QED
  BY <1>3, <1>4 DEF Only, Single, Space, AtColon

\* Before the first bracket of a call, one byte has one outcome at most.
LEMMA BeginSingle ==
  ASSUME NEW s \in Live, s.phase = "json", ~s.started, NEW c
  PROVE  Only(c \in Space, s) \cup Only(c = "{", Opened([s EXCEPT !.started = TRUE], "{", "objKeyOrEnd"))
           \in Single
<1> DEFINE t == [s EXCEPT !.started = TRUE]
<1>1. s \in ToolState
  BY DEF Live
<1>2. t \in ToolState /\ t.phase = s.phase /\ t.started = TRUE
  <2> DEFINE v == TRUE
  <2>1. t = [s EXCEPT !.started = v] /\ v \in BOOLEAN
    OBVIOUS
  <2>2. t \in ToolState /\ t.phase = s.phase /\ t.started = v
    <3> HIDE DEF t, v
    <3> QED
      BY <1>1, <2>1, SetStarted
  <2> QED
    BY <2>2
<1>3. t \in Begun
  <2> HIDE DEF t
  <2> QED
    BY <1>2 DEF Begun
<1>4. Opened(t, "{", "objKeyOrEnd") \in Live
  <2> HIDE DEF t
  <2> QED
    BY <1>3, OpenedFacts DEF Inside, Modes, Brackets
<1> HIDE DEF t
<1> QED
  BY <1>4 DEF Only, Single, Space, t

\* In the JSON of a call a byte has one state to go to, or none.
LEMMA InJsonSingle ==
  ASSUME NEW names, NEW s \in Live, s.phase = "json", NEW c \in Bytes
  PROVE  InJson(names, s, c) \in Single
<1>1. CASE ~s.started
  <2>1. InJson(names, s, c) =
          Only(c \in Space, s) \cup Only(c = "{", Opened([s EXCEPT !.started = TRUE], "{", "objKeyOrEnd"))
    BY <1>1 DEF InJson, Live
  <2> QED
    BY <1>1, <2>1, BeginSingle
<1>2. CASE s.started
  <2>1. s \in Inside
    BY <1>2 DEF Inside, Begun, Live
  <2> HIDE <1>2
  <2>2. InJson(names, s, c) =
    CASE s.mode = "value" -> Value(s, c)
    [] s.mode \in {"objKeyOrEnd", "objKey"} -> Key(s, c)
    [] s.mode = "string" -> String(names, s, c)
    [] s.mode = "colon" -> AtColon(s, c)
    [] s.mode \in {"objCommaOrEnd", "arrCommaOrEnd"} ->
         Only(c \in Space, s) \cup CommaOrEnd(names, s, c)
    [] s.mode = "arrValueOrEnd" ->
         IF c \in Space THEN {s}
         ELSE IF c = "]" THEN {Closed(s)}
         ELSE Value(Turn(s, "value"), c)
    [] s.mode = "number" -> Number(names, s, c)
    [] s.mode = "literal" -> Literal(s, c)
    [] OTHER -> {}
    BY <1>2 DEF InJson, AtColon
  <2>3. s \in Live /\ {s} \in Single /\ {} \in Single
    BY DEF Single
  <2>4. CASE s.mode = "value"
    BY <2>1, <2>2, <2>4, ValueSingle
  <2>5. CASE s.mode \in {"objKeyOrEnd", "objKey"}
    BY <2>1, <2>2, <2>5, KeySingle
  <2>6. CASE s.mode = "string"
    BY <2>1, <2>2, <2>6, StringSingle
  <2>7. CASE s.mode = "colon"
    BY <2>1, <2>2, <2>7, ColonSingle
  <2>8. CASE s.mode \in {"objCommaOrEnd", "arrCommaOrEnd"}
    <3>1. CommaOrEnd(names, s, c) \in Single
      BY <2>1, CommaOrEndSingle
    <3>2. c \in Space => CommaOrEnd(names, s, c) = {}
      BY DEF CommaOrEnd, Only, Space
    <3>3. InJson(names, s, c) = Only(c \in Space, s) \cup CommaOrEnd(names, s, c)
      BY <2>2, <2>8
    <3> QED
      BY <2>3, <3>1, <3>2, <3>3 DEF Only
  <2>9. CASE s.mode = "arrValueOrEnd"
    <3>1. Closed(s) \in Live
      BY <2>1, ClosedFacts
    <3>2. Turn(s, "value") \in Inside
      BY <2>1, TurnFacts DEF Modes
    <3>3. Value(Turn(s, "value"), c) \in Single
      BY <3>2, ValueSingle
    <3>4. {Closed(s)} \in Single
      BY <3>1 DEF Single
    <3>5. InJson(names, s, c) = IF c \in Space THEN {s} ELSE IF c = "]" THEN {Closed(s)}
                                ELSE Value(Turn(s, "value"), c)
      BY <2>2, <2>9
    <3> QED
      BY <2>3, <3>3, <3>4, <3>5
  <2>10. CASE s.mode = "number"
    BY <2>1, <2>2, <2>10, NumberSingle
  <2>11. CASE s.mode = "literal"
    BY <2>1, <2>2, <2>11, LiteralSingle
  <2>12. CASE s.mode \notin {"value", "objKeyOrEnd", "objKey", "string", "colon", "objCommaOrEnd",
                            "arrCommaOrEnd", "arrValueOrEnd", "number", "literal"}
    BY <2>2, <2>3, <2>12
  <2> QED
    BY <2>4, <2>5, <2>6, <2>7, <2>8, <2>9, <2>10, <2>11, <2>12
<1> QED
  BY <1>1, <1>2

\* In the close tag, one byte has one outcome at most.
LEMMA ClosingSingle ==
  ASSUME NEW s \in Live, s.phase = "close", NEW c
  PROVE  Closing(s, c) \in Single
<1>1. s \in ToolState /\ s.closing \in 0..Len(CloseTag) /\ s.closing < Len(CloseTag) /\ Len(CloseTag) \in Nat
  BY GrammarAssumption, LenProperties DEF Live, ToolState
<1> DEFINE v == s.closing + 1
           t == [s EXCEPT !.closing = v]
           w == "finished"
           u == [t EXCEPT !.phase = w]
<1>2. v \in 0..Len(CloseTag)
  BY <1>1
<1>3. t \in ToolState /\ t.phase = s.phase /\ t.mode = s.mode /\ t.rest = s.rest /\ t.closing = v
  <2>1. t = [s EXCEPT !.closing = v]
    OBVIOUS
  <2> HIDE DEF t, v
  <2> QED
    BY <1>1, <1>2, <2>1, SetClosing
<1>4. u \in ToolState /\ u.phase = w /\ u.mode = t.mode /\ u.rest = t.rest
  <2>1. u = [t EXCEPT !.phase = w] /\ w \in Phases
    BY DEF Phases
  <2> HIDE DEF t, u, w
  <2> QED
    BY <1>3, <2>1, SetPhase
<1>5. Closing(s, c) = IF s.closing = 0 /\ c \in Space THEN {s}
                      ELSE Only(c = CloseTag[v], IF v = Len(CloseTag) THEN u ELSE t)
  BY <1>3 DEF Closing
<1>6. u \in Live
  <2> HIDE DEF t, u, v
  <2> QED
    BY <1>3, <1>4 DEF Live
<1>7. v # Len(CloseTag) => t \in Live
  <2> HIDE DEF t, u
  <2> QED
    BY <1>1, <1>3 DEF Live
<1>8. {s} \in Single
  BY DEF Single
<1> HIDE DEF t, u, v
<1> QED
  BY <1>5, <1>6, <1>7, <1>8, OnlySingle

\* A byte takes a state of a call to one state of it, or is refused.
LEMMA StepSingle ==
  ASSUME NEW names, NEW s \in Live, NEW c \in Bytes
  PROVE  Step(names, s, c) \in Single
<1>1. {} \in Single
  BY DEF Single
<1> QED
  BY <1>1, InJsonSingle, ClosingSingle DEF Step

-----------------------------------------------------------------------------
(* A walk along a text, byte by byte, and where it ends.                   *)

\* A set of sequences that has the empty one, and with each all that are one longer, has all.
LEMMA GrowSeq ==
  ASSUME NEW S, NEW Q, <<>> \in Q, \A q \in Seq(S) : q \in Q => \A c \in S : Append(q, c) \in Q
  PROVE  Seq(S) \subseteq Q
<1> DEFINE Bad == {q \in Seq(S) : q \notin Q}
           T == {Len(q) : q \in Bad}
<1> SUFFICES ASSUME Bad # {} PROVE FALSE
  OBVIOUS
<1>1. T \subseteq Nat /\ T # {}
  BY LenProperties
<1>2. PICK n \in T : \A y \in T : n <= y
  <2> HIDE DEF T
  <2> QED
    BY <1>1, LeastNat
<1>3. PICK q \in Bad : n = Len(q)
  OBVIOUS
<1>4. q # <<>> /\ q \in Seq(S)
  OBVIOUS
<1>5. PICK p \in Seq(S), c \in S : q = Append(p, c)
  BY <1>4, SequenceEmptyOrAppend
<1>6. Len(p) \in Nat /\ Len(p) < n
  BY <1>3, <1>5, AppendProperties, LenProperties
<1>7. p \notin Bad
  <2>1. ASSUME p \in Bad PROVE FALSE
    <3>1. n <= Len(p)
      BY <1>2, <2>1
    <3> QED
      BY <1>6, <1>3, <3>1, LenProperties
  <2> QED
    BY <2>1
<1> QED
  BY <1>5, <1>7

-----------------------------------------------------------------------------
\* The ways to go on from an element of V at an element of B.
Moves(V, B) == [V \X B -> V]

\* f follows w from base, by a step of G for each of its elements.
Follows(f, G, base, w) ==
  \A i \in 0..Len(w) : f[i] = IF i = 0 THEN base ELSE G[<<f[i - 1], w[i]>>]

\* Where w leads from base by the steps G.
Reached(V, G, base, w) == (CHOOSE f \in [0..Len(w) -> V] : Follows(f, G, base, w))[Len(w)]

\* A walk along a text exists, and there is one.
LEMMA Followed ==
  ASSUME NEW V, NEW B, NEW G \in Moves(V, B), NEW base \in V, NEW w \in Seq(B)
  PROVE  /\ \E f \in [0..Len(w) -> V] : Follows(f, G, base, w)
         /\ \A f, g \in [0..Len(w) -> V] :
              Follows(f, G, base, w) /\ Follows(g, G, base, w) => f = g
<1> DEFINE n == Len(w)
           H == [x \in V \X (1..n) |-> G[<<x[1], w[x[2]]>>]]
<1>1. n \in Nat /\ \A i \in 1..n : w[i] \in B
  BY LenProperties, ElementOfSeq
<1>0. G \in [V \X B -> V]
  BY DEF Moves
<1>2. H \in [V \X (1..n) -> V]
  BY <1>0, <1>1
<1>3. ASSUME NEW f \in [0..n -> V]
      PROVE  Iterates(f, base, H, n) <=> Follows(f, G, base, w)
  <2>1. \A i \in 1..n : f[i - 1] \in V /\ H[<<f[i - 1], i>>] = G[<<f[i - 1], w[i]>>]
    <3>1. \A i \in 1..n : i - 1 \in 0..n
      BY <1>1
    <3>2. \A i \in 1..n : f[i - 1] \in V
      BY <3>1
    <3> QED
      BY <3>2
  <2>2. \A i \in 0..n : i # 0 => i \in 1..n
    BY <1>1
  <2> HIDE DEF H
  <2> QED
    BY <2>1, <2>2 DEF Iterates, Follows
<1> HIDE DEF H
<1>4. \E f \in [0..n -> V] : Iterates(f, base, H, n)
  <2> HIDE DEF n
  <2> QED
    BY <1>1, <1>2, Iterated
<1>5. \E f \in [0..n -> V] : Follows(f, G, base, w)
  BY <1>3, <1>4
<1>6. ASSUME NEW f \in [0..n -> V], NEW g \in [0..n -> V],
             Follows(f, G, base, w), Follows(g, G, base, w)
      PROVE  f = g
  <2>1. Iterates(f, base, H, n) /\ Iterates(g, base, H, n)
    BY <1>3, <1>6
  <2>2. \A i \in 0..n : f[i] = g[i]
    <3> HIDE DEF n
    <3> QED
      BY <1>1, <2>1, IteratesOnce
  <2> QED
    BY <2>2
<1> QED
  BY <1>5, <1>6

\* Any walk along a text ends where Reached says.
LEMMA ReachedBy ==
  ASSUME NEW V, NEW B, NEW G \in Moves(V, B), NEW base \in V, NEW w \in Seq(B),
         NEW f \in [0..Len(w) -> V], Follows(f, G, base, w)
  PROVE  Reached(V, G, base, w) = f[Len(w)]
BY Followed DEF Reached

\* A walk stays in its states.
LEMMA ReachedIn ==
  ASSUME NEW V, NEW B, NEW G \in Moves(V, B), NEW base \in V, NEW w \in Seq(B)
  PROVE  Reached(V, G, base, w) \in V
<1>1. PICK f \in [0..Len(w) -> V] : Follows(f, G, base, w)
  BY Followed
<1>2. Len(w) \in 0..Len(w)
  BY LenProperties
<1> QED
  BY <1>1, <1>2, ReachedBy

\* No text leads nowhere.
LEMMA ReachedEmpty ==
  ASSUME NEW V, NEW B, NEW G \in Moves(V, B), NEW base \in V
  PROVE  Reached(V, G, base, <<>>) = base
<1> DEFINE e == <<>>
<1>0. e \in Seq(B)
  BY EmptySeq
<1>1. e \in Seq(B) /\ Len(e) = 0
  BY EmptySeq
<1> HIDE DEF e
<1>2. PICK f \in [0..Len(e) -> V] : Follows(f, G, base, e)
  BY <1>0, Followed
<1>3. f[0] = base
  BY <1>1, <1>2 DEF Follows
<1>4. Reached(V, G, base, e) = base
  BY <1>1, <1>2, <1>3, ReachedBy
<1> QED
  BY <1>4 DEF e

\* The last byte is the last step.
LEMMA ReachedAppend ==
  ASSUME NEW V, NEW B, NEW G \in Moves(V, B), NEW base \in V, NEW w \in Seq(B), NEW c \in B
  PROVE  Reached(V, G, base, Append(w, c)) = G[<<Reached(V, G, base, w), c>>]
<1> DEFINE n == Len(w)
           u == Append(w, c)
<1>1. n \in Nat /\ u \in Seq(B) /\ Len(u) = n + 1 /\ u[n + 1] = c /\ \A i \in 1..n : u[i] = w[i]
  BY LenProperties, AppendProperties
<1> HIDE DEF u
<1>2. PICK f \in [0..Len(u) -> V] : Follows(f, G, base, u)
  BY <1>1, Followed
<1> DEFINE g == [i \in 0..n |-> f[i]]
<1>3. g \in [0..n -> V]
  BY <1>1
<1>4. Follows(g, G, base, w)
  <2>1. ASSUME NEW i \in 0..n
        PROVE  g[i] = IF i = 0 THEN base ELSE G[<<g[i - 1], w[i]>>]
    <3>1. i \in 0..Len(u) /\ (i # 0 => i \in 1..n /\ i - 1 \in 0..n)
      BY <1>1
    <3>2. f[i] = IF i = 0 THEN base ELSE G[<<f[i - 1], u[i]>>]
      BY <1>2, <3>1 DEF Follows
    <3>3. g[i] = f[i] /\ (i # 0 => g[i - 1] = f[i - 1] /\ u[i] = w[i])
      BY <1>1, <3>1
    <3> HIDE DEF g
    <3> QED
      BY <3>2, <3>3
  <2> QED
    BY <2>1 DEF Follows
<1>5. Reached(V, G, base, w) = g[n]
  <2> HIDE DEF g
  <2> QED
    BY <1>3, <1>4, ReachedBy
<1>6. Reached(V, G, base, u) = f[n + 1]
  BY <1>1, <1>2, ReachedBy
<1>7. f[n + 1] = G[<<f[n], c>>]
  <2>1. n + 1 \in 0..Len(u) /\ n + 1 # 0 /\ (n + 1) - 1 = n
    BY <1>1
  <2> QED
    BY <1>1, <1>2, <2>1 DEF Follows
<1>8. g[n] = f[n]
  BY <1>1
<1> QED
  BY <1>5, <1>6, <1>7, <1>8 DEF u

\* A text cut in two is walked in two.
LEMMA ReachedConcat ==
  ASSUME NEW V, NEW B, NEW G \in Moves(V, B), NEW base \in V, NEW v \in Seq(B), NEW w \in Seq(B)
  PROVE  Reached(V, G, base, v \o w) = Reached(V, G, Reached(V, G, base, v), w)
<1> DEFINE a == Reached(V, G, base, v)
           Q == {q \in Seq(B) : Reached(V, G, base, v \o q) = Reached(V, G, a, q)}
<1>0. a \in V
  BY ReachedIn
<1>1. <<>> \in Q
  <2>1. <<>> \in Seq(B) /\ v \o <<>> = v
    BY EmptySeq, ConcatEmptySeq
  <2>2. Reached(V, G, a, <<>>) = a
    <3> HIDE DEF a
    <3> QED
      BY <1>0, ReachedEmpty
  <2> QED
    BY <2>1, <2>2
<1>2. ASSUME NEW q \in Seq(B), q \in Q, NEW c \in B
      PROVE  Append(q, c) \in Q
  <2>1. v \o Append(q, c) = Append(v \o q, c) /\ v \o q \in Seq(B) /\ Append(q, c) \in Seq(B)
    BY ConcatProperties, AppendProperties
  <2>2. Reached(V, G, base, Append(v \o q, c)) = G[<<Reached(V, G, base, v \o q), c>>]
    <3> DEFINE x == v \o q
    <3>1. x \in Seq(B)
      BY <2>1
    <3> HIDE DEF x
    <3>2. Reached(V, G, base, Append(x, c)) = G[<<Reached(V, G, base, x), c>>]
      BY <3>1, ReachedAppend
    <3> QED
      BY <3>2 DEF x
  <2>3. Reached(V, G, a, Append(q, c)) = G[<<Reached(V, G, a, q), c>>]
    <3> HIDE DEF a
    <3> QED
      BY <1>0, ReachedAppend
  <2>4. Reached(V, G, base, v \o q) = Reached(V, G, a, q)
    BY <1>2
  <2> QED
    BY <2>1, <2>2, <2>3, <2>4
<1> HIDE DEF Q
<1>3. Seq(B) \subseteq Q
  BY <1>1, <1>2, GrowSeq
<1> QED
  BY <1>3 DEF Q

-----------------------------------------------------------------------------
(* Feed of a call is such a walk: a text cut in pieces is read as a whole. *)

\* What a byte makes of the states of a call: of one, one or none.
Moved(names, T, c) == UNION {Step(names, s, c) : s \in T}

\* The step of a set of states on a byte, as a function: that of the walk of Feed.
Steps(names) == [x \in Single \X Bytes |-> Moved(names, x[1], x[2])]

\* One live state at most stays one at most.
LEMMA MovedSingle ==
  ASSUME NEW names, NEW T \in Single, NEW c \in Bytes
  PROVE  Moved(names, T, c) \in Single
<1>1. \A s \in T : Step(names, s, c) \in Single
  BY StepSingle DEF Single
<1>2. \A s \in T, t \in T : s = t
  BY DEF Single
<1>3. Moved(names, T, c) \subseteq Live
  BY <1>1 DEF Single, Moved
<1>4. ASSUME NEW x \in Moved(names, T, c), NEW y \in Moved(names, T, c)
      PROVE  x = y
  <2>1. PICK s \in T : x \in Step(names, s, c)
    BY DEF Moved
  <2>2. y \in Step(names, s, c)
    BY <1>2 DEF Moved
  <2> QED
    BY <1>1, <2>1, <2>2 DEF Single
<1> QED
  BY <1>3, <1>4 DEF Single

\* The step of a call, on sets of one state at most.
LEMMA StepsMove ==
  ASSUME NEW names
  PROVE  Steps(names) \in Moves(Single, Bytes)
BY MovedSingle DEF Steps, Moves

\* The states after each byte of a piece, as Feed defines them.
Walks(f, names, S, piece) ==
  f = [n \in 0..Len(piece) |-> IF n = 0 THEN S ELSE UNION {Step(names, s, piece[n]) : s \in f[n - 1]}]

\* Feed is the end of that walk.
LEMMA FeedWalks ==
  ASSUME NEW names, NEW S, NEW piece
  PROVE  Feed(names, S, piece) = (CHOOSE f : Walks(f, names, S, piece))[Len(piece)]
BY DEF Feed, Walks

\* Feed is what the walk along the piece reaches.
LEMMA FeedReached ==
  ASSUME NEW names, NEW S \in Single, NEW piece \in Seq(Bytes)
  PROVE  Feed(names, S, piece) = Reached(Single, Steps(names), S, piece)
<1> DEFINE n == Len(piece)
<1>1. n \in Nat /\ \A i \in 1..n : piece[i] \in Bytes
  BY LenProperties, ElementOfSeq
<1>2. Steps(names) \in Moves(Single, Bytes)
  BY StepsMove
<1>3. PICK g \in [0..n -> Single] : Follows(g, Steps(names), S, piece)
  BY <1>2, Followed
<1>4. ASSUME NEW i \in 0..n
      PROVE  g[i] = IF i = 0 THEN S ELSE Moved(names, g[i - 1], piece[i])
  <2>1. i # 0 => g[i - 1] \in Single /\ piece[i] \in Bytes
    <3>1. i # 0 => i \in 1..n /\ i - 1 \in 0..n
      BY <1>1
    <3> QED
      BY <1>1, <3>1
  <2>2. g[i] = IF i = 0 THEN S ELSE Steps(names)[<<g[i - 1], piece[i]>>]
    BY <1>3 DEF Follows
  <2>3. i # 0 => Steps(names)[<<g[i - 1], piece[i]>>] = Moved(names, g[i - 1], piece[i])
    BY <2>1 DEF Steps
  <2> QED
    BY <2>2, <2>3
<1>5. Walks(g, names, S, piece)
  <2>1. g = [i \in 0..n |-> g[i]]
    OBVIOUS
  <2> QED
    BY <1>4, <2>1 DEF Walks, Moved
<1> DEFINE f == CHOOSE h : Walks(h, names, S, piece)
<1>6. Walks(f, names, S, piece)
  BY <1>5
<1> HIDE DEF f
<1>7. ASSUME NEW i \in 0..n
      PROVE  f[i] = IF i = 0 THEN S ELSE Moved(names, f[i - 1], piece[i])
  BY <1>6 DEF Walks, Moved
<1> DEFINE T == {i \in 0..n : f[i] # g[i]}
<1>8. T = {}
  <2> SUFFICES ASSUME T # {} PROVE FALSE
    OBVIOUS
  <2>1. PICK i \in T : \A y \in T : i <= y
    <3>1. T \subseteq Nat
      OBVIOUS
    <3> QED
      BY <3>1, LeastNat
  <2>2. i \in 0..n /\ f[i] # g[i]
    OBVIOUS
  <2>3. i # 0 => f[i - 1] = g[i - 1]
    BY <2>1, <2>2
  <2> HIDE DEF T
  <2> QED
    BY <1>4, <1>7, <2>2, <2>3
<1>9. f[n] = g[n]
  BY <1>1, <1>8
<1>10. Feed(names, S, piece) = f[n]
  BY FeedWalks DEF f
<1>11. Reached(Single, Steps(names), S, piece) = g[n]
  BY <1>2, <1>3, ReachedBy
<1> QED
  BY <1>9, <1>10, <1>11

\* A text leads a call to one state or to none.
LEMMA FeedSingle ==
  ASSUME NEW names, NEW S \in Single, NEW piece \in Seq(Bytes)
  PROVE  Feed(names, S, piece) \in Single
<1>1. Steps(names) \in Moves(Single, Bytes)
  BY StepsMove
<1>2. Reached(Single, Steps(names), S, piece) \in Single
  BY <1>1, ReachedIn
<1> QED
  BY <1>2, FeedReached

\* An empty piece changes nothing.
LEMMA FeedEmpty ==
  ASSUME NEW names, NEW S \in Single
  PROVE  Feed(names, S, <<>>) = S
<1>1. <<>> \in Seq(Bytes)
  BY EmptySeq
<1>2. Feed(names, S, <<>>) = Reached(Single, Steps(names), S, <<>>)
  BY <1>1, FeedReached
<1> QED
  BY <1>2, StepsMove, ReachedEmpty

\* The last byte of a piece is a step.
LEMMA FeedAppend ==
  ASSUME NEW names, NEW S \in Single, NEW p \in Seq(Bytes), NEW c \in Bytes
  PROVE  Feed(names, S, Append(p, c)) = Moved(names, Feed(names, S, p), c)
<1>1. Append(p, c) \in Seq(Bytes)
  BY AppendProperties
<1>2. Feed(names, S, Append(p, c)) = Steps(names)[<<Feed(names, S, p), c>>]
  <2> DEFINE q == Append(p, c)
  <2>1. Feed(names, S, q) = Reached(Single, Steps(names), S, q)
    <3> HIDE DEF q
    <3> QED
      BY <1>1, FeedReached DEF q
  <2> QED
    BY <2>1, FeedReached, StepsMove, ReachedAppend
<1> QED
  BY <1>2, FeedSingle DEF Steps

\* However a text is cut, the pieces lead where the whole does.
LEMMA FeedConcat ==
  ASSUME NEW names, NEW S \in Single, NEW p \in Seq(Bytes), NEW q \in Seq(Bytes)
  PROVE  Feed(names, S, p \o q) = Feed(names, Feed(names, S, p), q)
<1> DEFINE r == p \o q
<1>1. r \in Seq(Bytes)
  BY ConcatProperties
<1>2. Feed(names, S, r) = Reached(Single, Steps(names), S, r)
  <2> HIDE DEF r
  <2> QED
    BY <1>1, FeedReached
<1>3. Reached(Single, Steps(names), S, r) = Reached(Single, Steps(names), Reached(Single, Steps(names), S, p), q)
  BY StepsMove, ReachedConcat
<1>4. Feed(names, S, p) = Reached(Single, Steps(names), S, p) /\ Feed(names, S, p) \in Single
  BY FeedReached, FeedSingle
<1>5. Feed(names, Feed(names, S, p), q) = Reached(Single, Steps(names), Feed(names, S, p), q)
  BY <1>4, FeedReached
<1> QED
  BY <1>2, <1>3, <1>4, <1>5

\* What is refused stays so.
LEMMA FeedNone ==
  ASSUME NEW names, NEW q \in Seq(Bytes)
  PROVE  Feed(names, {}, q) = {}
<1>0. {} \in Single
  BY DEF Single
<1> DEFINE Q == {w \in Seq(Bytes) : Feed(names, {}, w) = {}}
<1>1. <<>> \in Q
  BY <1>0, EmptySeq, FeedEmpty
<1>2. ASSUME NEW w \in Seq(Bytes), w \in Q, NEW c \in Bytes
      PROVE  Append(w, c) \in Q
  <2> DEFINE e == {}
  <2>0. e \in Single /\ Feed(names, e, w) = e
    BY <1>0, <1>2
  <2> HIDE DEF e
  <2>3. Feed(names, e, Append(w, c)) = Moved(names, e, c)
    BY <2>0, FeedAppend
  <2>1. Feed(names, {}, Append(w, c)) = Moved(names, {}, c)
    BY <2>3 DEF e
  <2>2. Append(w, c) \in Seq(Bytes)
    BY AppendProperties
  <2> QED
    BY <2>1, <2>2 DEF Moved
<1> HIDE DEF Q
<1>3. Seq(Bytes) \subseteq Q
  BY <1>1, <1>2, GrowSeq
<1> QED
  BY <1>3 DEF Q

-----------------------------------------------------------------------------
\* In a string of a call, only the case of a string acts.
LEMMA InJsonString ==
  ASSUME NEW names, NEW s \in Live, s.phase = "json", s.mode = "string", NEW c
  PROVE  Step(names, s, c) = String(names, s, c)
<1>1. s.started
  BY DEF Live
<1>2. Step(names, s, c) = InJson(names, s, c)
  BY DEF Step
<1>3. InJson(names, s, c) = String(names, s, c)
  BY <1>1 DEF InJson
<1> QED
  BY <1>2, <1>3

\* In a string the grammar does not look into, plain bytes change nothing.
LEMMA PlainByte ==
  ASSUME NEW names, NEW s \in Live, InPlainString(s), NEW c, c \notin Control \cup {Quote, Escape}
  PROVE  Step(names, s, c) = {s}
<1>1. Step(names, s, c) = String(names, s, c)
  BY InJsonString DEF InPlainString
<1>2. String(names, s, c) = StringByte(names, s, c)
  BY DEF String, InPlainString
<1>3. StringByte(names, s, c) = {s}
  BY DEF StringByte, InPlainString
<1> QED
  BY <1>1, <1>2, <1>3

\* A piece without quote, backslash or control leaves a plain string where it is.
LEMMA PlainFeed ==
  ASSUME NEW names, NEW s \in Live, InPlainString(s),
         NEW w \in Seq(Bytes), \A i \in DOMAIN w : w[i] \notin Control \cup {Quote, Escape}
  PROVE  Feed(names, {s}, w) = {s}
<1> DEFINE B == {c \in Bytes : c \notin Control \cup {Quote, Escape}}
           Q == {v \in Seq(B) : Feed(names, {s}, v) = {s}}
           S == {s}
<1>0. S \in Single /\ Seq(B) \subseteq Seq(Bytes)
  <2>1. {s} \in Single
    BY DEF Single
  <2>2. ASSUME NEW v \in Seq(B)
        PROVE  v \in Seq(Bytes)
    <3>1. v \in [1..Len(v) -> B] /\ Len(v) \in Nat
      BY LenProperties
    <3>2. v \in [1..Len(v) -> Bytes]
      BY <3>1
    <3> HIDE DEF B
    <3> QED
      BY <3>1, <3>2, SeqDef
  <2> QED
    BY <2>1, <2>2
<1>1. <<>> \in Q
  <2>1. Feed(names, S, <<>>) = S
    <3> HIDE DEF S
    <3> QED
      BY <1>0, FeedEmpty
  <2>2. <<>> \in Seq(B)
    BY EmptySeq
  <2> QED
    BY <2>1, <2>2
<1>2. ASSUME NEW v \in Seq(B), v \in Q, NEW c \in B
      PROVE  Append(v, c) \in Q
  <2>1. Append(v, c) \in Seq(B)
    <3> HIDE DEF B
    <3> QED
      BY AppendProperties
  <2>2. v \in Seq(Bytes) /\ c \in Bytes
    BY <1>0
  <2>3. Feed(names, S, Append(v, c)) = Moved(names, Feed(names, S, v), c)
    <3> HIDE DEF S
    <3> QED
      BY <1>0, <2>2, FeedAppend
  <2>4. Step(names, s, c) = {s}
    BY PlainByte
  <2>5. Moved(names, S, c) = S
    BY <2>4 DEF Moved
  <2> QED
    BY <1>2, <2>1, <2>3, <2>5
<1>3. w \in Seq(B)
  <2>1. w \in [1..Len(w) -> Bytes] /\ Len(w) \in Nat /\ DOMAIN w = 1..Len(w)
    BY LenProperties
  <2>2. w \in [1..Len(w) -> B]
    BY <2>1
  <2> HIDE DEF B
  <2> QED
    BY <2>1, <2>2, SeqDef
<1> HIDE DEF Q, B
<1>4. Seq(B) \subseteq Q
  BY <1>1, <1>2, GrowSeq
<1> QED
  BY <1>3, <1>4 DEF Q

\* A text is refused once its first byte is.
LEMMA HeadFeed ==
  ASSUME NEW names, NEW s \in Live, NEW w \in Seq(Bytes), w # <<>>, Feed(names, {s}, w) # {}
  PROVE  Feed(names, {s}, <<Head(w)>>) # {}
<1> DEFINE S == {s}
           h == <<Head(w)>>
           t == Tail(w)
<1>1. S \in Single
  BY DEF Single
<1>2. h \in Seq(Bytes) /\ t \in Seq(Bytes) /\ w = h \o t
  <2>1. Head(w) \in Bytes /\ Tail(w) \in Seq(Bytes)
    BY HeadTailProperties
  <2>2. w = <<Head(w)>> \o Tail(w)
    <3>1. 1 \in 1..Len(w) /\ Len(w) \in 1..Len(w)
      BY EmptySeq
    <3>2. SubSeq(w, 1, Len(w)) = <<w[1]>> \o SubSeq(w, 1 + 1, Len(w))
      BY <3>1, SubSeqRecursiveFirst
    <3>3. SubSeq(w, 1, Len(w)) = w /\ Tail(w) = SubSeq(w, 2, Len(w))
      BY SubSeqFull, TailIsSubSeq
    <3>4. Head(w) = w[1]
      OBVIOUS
    <3> QED
      BY <3>2, <3>3, <3>4
  <2> QED
    BY <2>1, <2>2
<1> HIDE DEF S, h, t
<1>3. Feed(names, S, w) = Feed(names, Feed(names, S, h), t)
  BY <1>1, <1>2, FeedConcat
<1>4. Feed(names, {}, t) = {}
  BY <1>2, FeedNone
<1>5. Feed(names, S, h) # {}
  BY <1>3, <1>4 DEF S
<1> QED
  BY <1>5 DEF S, h

-----------------------------------------------------------------------------
(* The open tag in a text, and in the end of it that is kept.              *)

\* The length of the open tag.
N == Len(OpenTag)

\* The open tag has bytes.
LEMMA NIs == N \in Nat /\ N > 0
BY GrammarAssumption, EmptySeq DEF N

\* The end of a text.
LEMMA LastBytesIs ==
  ASSUME NEW w \in Seq(Bytes), NEW n \in Nat
  PROVE  /\ LastBytes(w, n) \in Seq(Bytes)
         /\ Len(LastBytes(w, n)) = IF Len(w) <= n THEN Len(w) ELSE n
         /\ \A i \in 1..Len(LastBytes(w, n)) : LastBytes(w, n)[i] = w[Len(w) - Len(LastBytes(w, n)) + i]
<1> DEFINE k == Len(w) - n
           M == {0, k}
           l == Len(w)
<1>1. l \in Nat /\ k \in Int /\ \A i \in 1..l : w[i] \in Bytes
  BY LenProperties, ElementOfSeq
<1>2. Max(M) = IF k > 0 THEN k ELSE 0
  <2>1. Max(M) \in M /\ \A x \in M : Max(M) >= x
    <3>1. \E x \in M : \A y \in M : x >= y
      BY <1>1
    <3> HIDE DEF M
    <3> QED
      BY <3>1 DEF Max
  <2> DEFINE x == Max(M)
  <2>2. x \in M /\ \A y \in M : x >= y
    BY <2>1
  <2> HIDE DEF x
  <2>3. x = IF k > 0 THEN k ELSE 0
    BY <1>1, <2>2
  <2> QED
    BY <2>3 DEF x
<1> DEFINE m == (IF k > 0 THEN k ELSE 0) + 1
           u == SubSeq(w, m, l)
<1>3. LastBytes(w, n) = u
  <2>1. LastBytes(w, n) = SubSeq(w, Max(M) + 1, l)
    BY DEF LastBytes
  <2> HIDE DEF M
  <2> QED
    BY <1>2, <2>1
<1>4. m \in Int /\ m >= 1 /\ m <= l + 1 /\ (l <= n => m = 1) /\ (l > n => m = l - n + 1)
  BY <1>1
<1>5. \A i \in m..l : w[i] \in Bytes
  <2> HIDE DEF m
  <2> QED
    BY <1>1, <1>4
<1> HIDE DEF m
<1>6. /\ u \in Seq(Bytes)
      /\ Len(u) = IF m <= l THEN l - m + 1 ELSE 0
      /\ \A i \in 1..l - m + 1 : u[i] = w[m + i - 1]
  <2> HIDE DEF l
  <2> QED
    BY <1>1, <1>4, <1>5, SubSeqProperties
<1> HIDE DEF u
<1>7. Len(u) = l - m + 1 /\ (IF l <= n THEN l ELSE n) = l - m + 1
  BY <1>1, <1>4, <1>6
<1>8. \A i \in 1..Len(u) : l - Len(u) + i = m + i - 1
  BY <1>1, <1>4, <1>7
<1>9. \A i \in 1..Len(u) : u[i] = w[l - Len(u) + i]
  BY <1>6, <1>7, <1>8
<1> QED
  BY <1>3, <1>6, <1>7, <1>9

\* v is the end of w.
EndsWith(w, v) == Len(v) <= Len(w) /\ \A i \in 1..Len(v) : v[i] = w[Len(w) - Len(v) + i]

\* The last bytes of a text are an end of it.
LEMMA LastBytesEnd ==
  ASSUME NEW w \in Seq(Bytes), NEW n \in Nat
  PROVE  EndsWith(w, LastBytes(w, n))
<1>1. Len(w) \in Nat
  BY LenProperties
<1> QED
  BY <1>1, LastBytesIs DEF EndsWith

\* The last bytes of a text are those of its end.
LEMMA LastBytesOfEnd ==
  ASSUME NEW w \in Seq(Bytes), NEW v \in Seq(Bytes), EndsWith(w, v), NEW n \in Nat, Len(v) >= n \/ Len(v) = Len(w)
  PROVE  LastBytes(w, n) = LastBytes(v, n)
<1> DEFINE a == LastBytes(w, n)
           b == LastBytes(v, n)
<1>1. a \in Seq(Bytes) /\ b \in Seq(Bytes) /\ Len(w) \in Nat /\ Len(v) \in Nat /\ Len(v) <= Len(w)
  BY LastBytesIs, LenProperties DEF EndsWith
<1>2. /\ Len(a) = IF Len(w) <= n THEN Len(w) ELSE n
      /\ \A i \in 1..Len(a) : a[i] = w[Len(w) - Len(a) + i]
      /\ Len(b) = IF Len(v) <= n THEN Len(v) ELSE n
      /\ \A i \in 1..Len(b) : b[i] = v[Len(v) - Len(b) + i]
  BY LastBytesIs
<1> HIDE DEF a, b
<1>3. Len(a) = Len(b) /\ Len(a) \in Nat /\ Len(a) <= Len(v)
  BY <1>1, <1>2
<1>4. ASSUME NEW i \in 1..Len(a)
      PROVE  a[i] = b[i]
  <2> DEFINE j == Len(v) - Len(b) + i
             h == Len(w) - Len(v) + j
  <2>1. j \in 1..Len(v) /\ h = Len(w) - Len(a) + i
    BY <1>1, <1>3
  <2>2. a[i] = w[h] /\ b[i] = v[j]
    BY <1>2, <1>3, <2>1
  <2>3. v[j] = w[h]
    <3> HIDE DEF j
    <3> QED
      BY <2>1 DEF EndsWith
  <2> QED
    BY <2>2, <2>3
<1>5. a = b
  BY <1>1, <1>3, <1>4, SeqEqual
<1> QED
  BY <1>5 DEF a, b

\* What ends alike ends alike when both go on.
LEMMA EndsConcat ==
  ASSUME NEW w \in Seq(Bytes), NEW v \in Seq(Bytes), EndsWith(w, v), NEW p \in Seq(Bytes)
  PROVE  EndsWith(w \o p, v \o p)
<1> DEFINE a == w \o p
           b == v \o p
<1>1. /\ Len(a) = Len(w) + Len(p)
      /\ \A i \in 1..Len(w) + Len(p) : a[i] = IF i <= Len(w) THEN w[i] ELSE p[i - Len(w)]
      /\ Len(b) = Len(v) + Len(p)
      /\ \A i \in 1..Len(v) + Len(p) : b[i] = IF i <= Len(v) THEN v[i] ELSE p[i - Len(v)]
  BY ConcatProperties
<1>2. Len(w) \in Nat /\ Len(v) \in Nat /\ Len(p) \in Nat
  BY LenProperties
<1>3. Len(v) <= Len(w) /\ \A i \in 1..Len(v) : v[i] = w[Len(w) - Len(v) + i]
  BY DEF EndsWith
<1> HIDE DEF a, b
<1>4. ASSUME NEW i \in 1..Len(b)
      PROVE  b[i] = a[Len(a) - Len(b) + i]
  <2> DEFINE j == Len(a) - Len(b) + i
  <2>1. j \in 1..Len(a) /\ j = Len(w) - Len(v) + i
    BY <1>1, <1>2, <1>3
  <2>2. a[j] = IF j <= Len(w) THEN w[j] ELSE p[j - Len(w)]
    <3> HIDE DEF j
    <3> QED
      BY <1>1, <2>1
  <2>3. b[i] = IF i <= Len(v) THEN v[i] ELSE p[i - Len(v)]
    BY <1>1
  <2>4. (j <= Len(w) <=> i <= Len(v)) /\ j - Len(w) = i - Len(v)
    BY <1>1, <1>2, <2>1
  <2>5. i <= Len(v) => v[i] = w[j]
    BY <1>1, <1>2, <1>3, <2>1
  <2>6. CASE i <= Len(v)
    BY <2>2, <2>3, <2>4, <2>5, <2>6
  <2>7. CASE ~(i <= Len(v))
    <3> HIDE DEF j
    <3>1. b[i] = a[j]
      BY <2>2, <2>3, <2>4, <2>7
    <3> QED
      BY <3>1 DEF j
  <2> QED
    BY <2>6, <2>7
<1>5. EndsWith(a, b)
  BY <1>1, <1>2, <1>3, <1>4 DEF EndsWith
<1> QED
  BY <1>5 DEF a, b

\* Where the open tag is.
LEMMA FoundIs ==
  ASSUME NEW w \in Seq(Bytes), NEW i
  PROVE  i \in Found(OpenTag, w) <=>
           i \in 1..(Len(w) - N + 1) /\ \A k \in 1..N : w[i + k - 1] = OpenTag[k]
<1>0. Len(w) \in Nat /\ (\A j \in 1..Len(w) : w[j] \in Bytes) /\ OpenTag \in Seq(Bytes) /\ N \in Nat /\ N > 0
  BY LenProperties, ElementOfSeq, GrammarAssumption, NIs
<1> SUFFICES ASSUME i \in 1..(Len(w) - N + 1)
             PROVE  SubSeq(w, i, i + N - 1) = OpenTag <=> \A k \in 1..N : w[i + k - 1] = OpenTag[k]
  BY DEF Found, N
<1> DEFINE e == i + N - 1
           u == SubSeq(w, i, e)
<1>1. i \in Int /\ e \in Int /\ i <= e /\ e - i + 1 = N /\ \A j \in i..e : j \in 1..Len(w)
  BY <1>0
<1>2. u \in Seq(Bytes) /\ Len(u) = N /\ \A k \in 1..N : u[k] = w[i + k - 1]
  <2>1. \A j \in i..e : w[j] \in Bytes
    BY <1>0, <1>1
  <2> HIDE DEF e
  <2>2. /\ u \in Seq(Bytes) /\ Len(u) = (IF i <= e THEN e - i + 1 ELSE 0)
        /\ \A k \in 1..e - i + 1 : u[k] = w[i + k - 1]
    BY <1>1, <2>1, SubSeqProperties
  <2> QED
    BY <1>1, <2>2
<1> HIDE DEF u, e
<1>3. (\A k \in 1..N : u[k] = OpenTag[k]) => u = OpenTag
  BY <1>0, <1>2, SeqEqual DEF N
<1> QED
  BY <1>2, <1>3 DEF u, e

\* A tag in the end of a text is one in the text.
LEMMA FoundInEnd ==
  ASSUME NEW w \in Seq(Bytes), NEW v \in Seq(Bytes), EndsWith(w, v), NEW i \in Int, i >= 1
  PROVE  i \in Found(OpenTag, v) <=> i + (Len(w) - Len(v)) \in Found(OpenTag, w)
<1> DEFINE d == Len(w) - Len(v)
<1>1. Len(w) \in Nat /\ Len(v) \in Nat /\ d \in Nat /\ N \in Nat /\ N > 0
  BY LenProperties, NIs DEF EndsWith
<1>2. i \in 1..(Len(v) - N + 1) <=> i + d \in 1..(Len(w) - N + 1)
  BY <1>1
<1>3. i \in 1..(Len(v) - N + 1) => \A k \in 1..N : w[(i + d) + k - 1] = v[i + k - 1]
  <2> SUFFICES ASSUME i \in 1..(Len(v) - N + 1), NEW k \in 1..N
               PROVE  w[(i + d) + k - 1] = v[i + k - 1]
    OBVIOUS
  <2> DEFINE j == i + k - 1
  <2>1. j \in 1..Len(v) /\ (i + d) + k - 1 = d + j
    BY <1>1
  <2>2. v[j] = w[d + j]
    <3> HIDE DEF j
    <3> QED
      BY <2>1 DEF EndsWith
  <2> QED
    BY <2>1, <2>2
<1> HIDE DEF d
<1>4. i \in Found(OpenTag, v) <=> i \in 1..(Len(v) - N + 1) /\ \A k \in 1..N : v[i + k - 1] = OpenTag[k]
  BY FoundIs
<1>5. i + d \in Found(OpenTag, w) <=>
        i + d \in 1..(Len(w) - N + 1) /\ \A k \in 1..N : w[(i + d) + k - 1] = OpenTag[k]
  BY FoundIs
<1>6. i \in Found(OpenTag, v) <=> i + d \in Found(OpenTag, w)
  BY <1>2, <1>3, <1>4, <1>5
<1> QED
  BY <1>6 DEF d

\* The bytes of a text from the m-th on.
LEMMA RestIs ==
  ASSUME NEW w \in Seq(Bytes), NEW m \in Nat, m >= 1
  PROVE  /\ SubSeq(w, m, Len(w)) \in Seq(Bytes)
         /\ Len(SubSeq(w, m, Len(w))) = IF m <= Len(w) THEN Len(w) - m + 1 ELSE 0
         /\ \A i \in 1..Len(w) - m + 1 : SubSeq(w, m, Len(w))[i] = w[m + i - 1]
<1> DEFINE l == Len(w)
<1>1. l \in Nat /\ \A i \in m..l : w[i] \in Bytes
  BY LenProperties, ElementOfSeq
<1> HIDE DEF l
<1>2. /\ SubSeq(w, m, l) \in Seq(Bytes)
      /\ Len(SubSeq(w, m, l)) = IF m <= l THEN l - m + 1 ELSE 0
      /\ \A i \in 1..l - m + 1 : SubSeq(w, m, l)[i] = w[m + i - 1]
  BY <1>1, SubSeqProperties
<1> QED
  BY <1>2 DEF l

\* What follows a place of the end of a text follows it in the text.
LEMMA RestOfEnd ==
  ASSUME NEW w \in Seq(Bytes), NEW v \in Seq(Bytes), EndsWith(w, v), NEW m \in Nat, m >= 1
  PROVE  SubSeq(v, m, Len(v)) = SubSeq(w, m + (Len(w) - Len(v)), Len(w))
<1> DEFINE d == Len(w) - Len(v)
           a == SubSeq(v, m, Len(v))
           b == SubSeq(w, m + d, Len(w))
<1>1. Len(w) \in Nat /\ Len(v) \in Nat /\ d \in Nat /\ m + d \in Nat /\ m + d >= 1
  BY LenProperties DEF EndsWith
<1>2. /\ a \in Seq(Bytes) /\ Len(a) = (IF m <= Len(v) THEN Len(v) - m + 1 ELSE 0)
      /\ \A i \in 1..Len(v) - m + 1 : a[i] = v[m + i - 1]
  BY RestIs
<1>3. /\ b \in Seq(Bytes) /\ Len(b) = (IF m + d <= Len(w) THEN Len(w) - (m + d) + 1 ELSE 0)
      /\ \A i \in 1..Len(w) - (m + d) + 1 : b[i] = w[(m + d) + i - 1]
  <2> HIDE DEF d
  <2> QED
    BY <1>1, RestIs
<1> HIDE DEF a, b
<1>4. Len(a) = Len(b)
  BY <1>1, <1>2, <1>3
<1>5. ASSUME NEW i \in 1..Len(a)
      PROVE  a[i] = b[i]
  <2> DEFINE j == m + i - 1
  <2>1. i \in 1..Len(v) - m + 1 /\ i \in 1..Len(w) - (m + d) + 1 /\ j \in 1..Len(v) /\ (m + d) + i - 1 = d + j
    BY <1>1, <1>2
  <2>2. a[i] = v[j] /\ b[i] = w[d + j]
    BY <1>2, <1>3, <2>1
  <2>3. v[j] = w[d + j]
    <3> HIDE DEF j
    <3> QED
      BY <2>1 DEF EndsWith
  <2> QED
    BY <2>2, <2>3
<1>6. a = b
  BY <1>2, <1>3, <1>4, <1>5, SeqEqual
<1> QED
  BY <1>6 DEF a, b

\* The first of some numbers.
LEMMA MinIs ==
  ASSUME NEW T, T \subseteq Nat, T # {}
  PROVE  Min(T) \in T /\ \A x \in T : Min(T) <= x
<1>1. \E x \in T : \A y \in T : x <= y
  BY LeastNat
<1> QED
  BY <1>1 DEF Min

\* A tag that is found lies inside the text.
LEMMA FoundNat ==
  ASSUME NEW w \in Seq(Bytes), NEW i \in Found(OpenTag, w)
  PROVE  i \in Nat /\ i >= 1 /\ i + N - 1 <= Len(w)
<1>1. Len(w) \in Nat /\ N \in Nat
  BY LenProperties, NIs
<1>2. i \in 1..(Len(w) - N + 1)
  BY FoundIs
<1> QED
  BY <1>1, <1>2

\* Where no tag begins before the end of a text, those of the text are those of its end.
LEMMA FoundOfEnd ==
  ASSUME NEW w \in Seq(Bytes), NEW v \in Seq(Bytes), EndsWith(w, v),
         \A i \in Found(OpenTag, w) : i - (Len(w) - Len(v)) >= 1
  PROVE  Found(OpenTag, w) = {i + (Len(w) - Len(v)) : i \in Found(OpenTag, v)}
<1> DEFINE d == Len(w) - Len(v)
<1>1. d \in Int
  BY LenProperties
<1>2. ASSUME NEW i \in Int, i >= 1
      PROVE  i \in Found(OpenTag, v) <=> i + d \in Found(OpenTag, w)
  BY <1>2, FoundInEnd
<1>3. \A i \in Found(OpenTag, w) : i \in Nat
  BY FoundNat
<1>4. \A i \in Found(OpenTag, v) : i \in Nat /\ i >= 1
  BY FoundNat
<1> HIDE DEF d
<1>5. ASSUME NEW x \in Found(OpenTag, w)
      PROVE  \E i \in Found(OpenTag, v) : x = i + d
  <2> DEFINE i == x - d
  <2>1. i \in Int /\ i >= 1 /\ i + d = x
    BY <1>1, <1>3 DEF d
  <2> HIDE DEF i
  <2>2. i \in Found(OpenTag, v)
    BY <1>2, <2>1
  <2> QED
    BY <2>1, <2>2
<1>6. ASSUME NEW i \in Found(OpenTag, v)
      PROVE  i + d \in Found(OpenTag, w)
  BY <1>2, <1>4
<1>7. Found(OpenTag, w) = {i + d : i \in Found(OpenTag, v)}
  BY <1>5, <1>6
<1> QED
  BY <1>7 DEF d

\* The texts that no open tag was found in: heard is what is kept of one to hear the tag in.
Heeds(tail, heard) == Found(OpenTag, tail) = {} /\ heard = LastBytes(tail, N - 1)

\* Both go on with p.
Longer(tail, heard, p, w, v) == w = tail \o p /\ v = heard \o p

\* Hearing what was kept finds the tag where all that was said has it.
LEMMA HeedsFound ==
  ASSUME NEW tail \in Seq(Bytes), NEW heard, Heeds(tail, heard), NEW p \in Seq(Bytes),
         NEW w, NEW v, Longer(tail, heard, p, w, v)
  PROVE  /\ w \in Seq(Bytes) /\ v \in Seq(Bytes) /\ EndsWith(w, v)
         /\ Len(v) >= N - 1 \/ Len(v) = Len(w)
         /\ Found(OpenTag, w) = {i + (Len(w) - Len(v)) : i \in Found(OpenTag, v)}
<1>0. w = tail \o p /\ v = heard \o p
  BY DEF Longer
<1>1. N \in Nat /\ N > 0 /\ N - 1 \in Nat /\ Len(tail) \in Nat /\ Len(p) \in Nat
  BY NIs, LenProperties
<1>2. /\ heard \in Seq(Bytes) /\ EndsWith(tail, heard)
      /\ Len(heard) = IF Len(tail) <= N - 1 THEN Len(tail) ELSE N - 1
  BY <1>1, LastBytesIs, LastBytesEnd DEF Heeds
<1>3. /\ w \in Seq(Bytes) /\ v \in Seq(Bytes) /\ EndsWith(w, v)
      /\ Len(w) = Len(tail) + Len(p) /\ Len(v) = Len(heard) + Len(p)
      /\ \A i \in 1..Len(tail) : w[i] = tail[i]
  <2>1. \A i \in 1..Len(tail) + Len(p) : w[i] = IF i <= Len(tail) THEN tail[i] ELSE p[i - Len(tail)]
    BY <1>0, ConcatProperties
  <2>2. \A i \in 1..Len(tail) : w[i] = tail[i]
    BY <1>1, <2>1
  <2> QED
    BY <1>0, <1>2, <2>2, ConcatProperties, EndsConcat
<1> DEFINE d == Len(w) - Len(v)
<1>4. d \in Nat /\ d = Len(tail) - Len(heard)
  BY <1>1, <1>2, <1>3
<1>5. ASSUME NEW i \in Found(OpenTag, w)
      PROVE  i - d \in Nat /\ i - d >= 1
  <2>1. i \in Nat /\ i >= 1 /\ \A k \in 1..N : w[i + k - 1] = OpenTag[k]
    BY <1>3, FoundNat, FoundIs
  <2>2. ASSUME i <= d PROVE FALSE
    <3>1. i + N - 1 <= Len(tail)
      BY <1>1, <1>2, <1>4, <2>1, <2>2
    <3>2. \A k \in 1..N : tail[i + k - 1] = OpenTag[k]
      <4> SUFFICES ASSUME NEW k \in 1..N PROVE tail[i + k - 1] = OpenTag[k]
        OBVIOUS
      <4>1. i + k - 1 \in 1..Len(tail)
        BY <1>1, <2>1, <3>1
      <4> QED
        BY <1>3, <2>1, <4>1
    <3>3. i \in 1..(Len(tail) - N + 1)
      BY <1>1, <2>1, <3>1
    <3>4. i \in Found(OpenTag, tail)
      BY <3>2, <3>3, FoundIs
    <3> QED
      BY <3>4 DEF Heeds
  <2> QED
    BY <1>4, <2>1, <2>2
<1>6. \A i \in Found(OpenTag, w) : i - (Len(w) - Len(v)) >= 1
  BY <1>5
<1>7. Found(OpenTag, w) = {i + d : i \in Found(OpenTag, v)}
  BY <1>3, <1>6, FoundOfEnd
<1>8. Len(v) >= N - 1 \/ Len(v) = Len(w)
  BY <1>1, <1>2, <1>3
<1> QED
  BY <1>3, <1>7, <1>8

-----------------------------------------------------------------------------
(* What a piece makes of the automaton.                                    *)

\* The automaton while it looks for the open tag: w is what it keeps.
Scanning(w) == [Idle EXCEPT !.tail = w]

\* A scanning state is one of the automaton and masks nothing.
LEMMA ScanningIs ==
  ASSUME NEW w \in Seq(Bytes)
  PROVE  /\ Scanning(w) \in ToolState /\ ~Constraining(Scanning(w)) /\ Scanning(w).tail = w
         /\ Scanning(w).phase = "scanning"
         /\ \A v : [Scanning(w) EXCEPT !.tail = v] = Scanning(v)
<1>2. \A v : [Scanning(w) EXCEPT !.tail = v] = Scanning(v)
  BY DEF Scanning, Idle
<1>3. <<>> \in Seq(Bytes) /\ <<>> \in Seq(Brackets) /\ <<>> \in Seq(Letters)
  BY EmptySeq
<1>4. 0 \in 0..4 /\ 0 \in 0..Len(CloseTag)
  BY GrammarAssumption, LenProperties
<1>5. "scanning" \in Phases /\ "value" \in Modes
  BY DEF Phases, Modes
<1>1. Idle \in ToolState /\ Idle.phase = "scanning"
  BY <1>3, <1>4, <1>5 DEF ToolState, Idle
<1>6. Scanning(w) \in ToolState /\ Scanning(w).tail = w /\ Scanning(w).phase = "scanning"
  <2> DEFINE t == Scanning(w)
  <2>1. t = [Idle EXCEPT !.tail = w]
    BY DEF Scanning
  <2> HIDE DEF t
  <2>2. t \in ToolState /\ t.tail = w /\ t.phase = Idle.phase
    BY <1>1, <2>1, SetTail
  <2> QED
    BY <1>1, <2>2 DEF t
<1> QED
  BY <1>2, <1>6 DEF Constraining

\* The automaton starts scanning, with nothing kept.
LEMMA IdleIs == Idle = Scanning(<<>>) /\ <<>> \in Seq(Bytes)
<1>1. Idle.tail = <<>>
  BY DEF Idle
<1>2. Idle = [Idle EXCEPT !.tail = <<>>]
  BY DEF Idle
<1> QED
  BY <1>2, EmptySeq DEF Scanning

\* Behind the open tag the automaton is in a call.
LEMMA InCallIs == InCall \in Live /\ {InCall} \in Single
<1> DEFINE v == "json"
<1>1. Idle \in ToolState
  BY IdleIs, ScanningIs
<1>2. InCall = [Idle EXCEPT !.phase = v] /\ v \in Phases
  BY DEF InCall, Phases
<1>3. InCall \in ToolState /\ InCall.phase = v /\ InCall.started = Idle.started /\ InCall.mode = Idle.mode
  <2> HIDE DEF v
  <2> QED
    BY <1>1, <1>2, SetPhase
<1>4. Idle.started = FALSE /\ Idle.mode = "value"
  BY DEF Idle
<1>5. InCall \in Live
  BY <1>3, <1>4 DEF Live
<1> QED
  BY <1>5 DEF Single

\* In a call the automaton masks.
LEMMA LiveConstrains ==
  ASSUME NEW s \in Live
  PROVE  Constraining(s) /\ {s} \in Single
BY DEF Live, Constraining, Single

\* What is left of a call: its one state, or a fresh scan.
LEMMA OrGivenUpIs ==
  ASSUME NEW T \in Single
  PROVE  /\ T = {} => OrGivenUp(T) = Idle
         /\ T # {} => OrGivenUp(T) \in Live /\ T = {OrGivenUp(T)}
<1>1. ASSUME T # {}
      PROVE  OrGivenUp(T) \in Live /\ T = {OrGivenUp(T)}
  <2>1. OrGivenUp(T) \in T
    BY <1>1 DEF OrGivenUp
  <2> QED
    BY <2>1 DEF Single
<1> QED
  BY <1>1 DEF OrGivenUp

\* The end that is kept of a tail.
LEMMA TrimmedIs ==
  ASSUME NEW w \in Seq(Bytes), Found(OpenTag, w) = {}
  PROVE  /\ Trimmed(w) \in Seq(Bytes) /\ Found(OpenTag, Trimmed(w)) = {}
         /\ LastBytes(Trimmed(w), N - 1) = LastBytes(w, N - 1)
<1> DEFINE v == LastBytes(w, N)
<1>1. N \in Nat /\ N - 1 \in Nat /\ Len(w) \in Nat
  BY NIs, LenProperties
<1>2. v \in Seq(Bytes) /\ EndsWith(w, v) /\ Len(v) = IF Len(w) <= N THEN Len(w) ELSE N
  BY <1>1, LastBytesIs, LastBytesEnd
<1>3. Trimmed(w) = w \/ Trimmed(w) = v
  BY DEF Trimmed, N
<1> HIDE DEF v
<1>4. Len(v) >= N - 1 \/ Len(v) = Len(w)
  BY <1>1, <1>2
<1>5. LastBytes(w, N - 1) = LastBytes(v, N - 1)
  BY <1>1, <1>2, <1>4, LastBytesOfEnd
<1>6. Found(OpenTag, v) = {}
  <2>1. ASSUME NEW i \in Found(OpenTag, v) PROVE FALSE
    <3>1. i \in Int /\ i >= 1
      BY <1>2, FoundNat
    <3>2. i + (Len(w) - Len(v)) \in Found(OpenTag, w)
      BY <1>2, <2>1, <3>1, FoundInEnd
    <3> QED
      BY <3>2
  <2> QED
    BY <2>1
<1> QED
  BY <1>2, <1>3, <1>5, <1>6

\* However a piece ends, the automaton is in a call or scanning.
LEMMA TypedAccept ==
  ASSUME NEW names, NEW s, s \in Live \/ \E w \in Seq(Bytes) : s = Scanning(w),
         NEW piece \in Seq(Bytes), NEW t, t = Accept(names, s, piece)
  PROVE  t \in Live \/ \E w \in Seq(Bytes) : t = Scanning(w)
<1>1. ASSUME NEW T \in Single, t = OrGivenUp(T)
      PROVE  t \in Live \/ \E w \in Seq(Bytes) : t = Scanning(w)
  BY <1>1, OrGivenUpIs, IdleIs
<1>2. CASE s \in Live
  <2>1. t = OrGivenUp(Feed(names, {s}, piece))
    BY <1>2, LiveConstrains DEF Accept
  <2>2. Feed(names, {s}, piece) \in Single
    BY <1>2, LiveConstrains, FeedSingle
  <2> QED
    BY <1>1, <2>1, <2>2
<1>3. ASSUME NEW w \in Seq(Bytes), s = Scanning(w)
      PROVE  t \in Live \/ \E v \in Seq(Bytes) : t = Scanning(v)
  <2> DEFINE tail == w \o piece
             at == Found(OpenTag, tail)
             rest == SubSeq(tail, Min(at) + Len(OpenTag), Len(tail))
  <2>1. tail \in Seq(Bytes)
    BY ConcatProperties
  <2>2. t = IF at = {} THEN [s EXCEPT !.tail = Trimmed(tail)] ELSE OrGivenUp(Feed(names, {InCall}, rest))
    BY <1>3, ScanningIs DEF Accept
  <2>3. CASE at = {}
    <3> HIDE DEF tail
    <3>1. Trimmed(tail) \in Seq(Bytes)
      BY <2>1, <2>3, TrimmedIs
    <3> QED
      BY <1>3, <2>2, <2>3, <3>1, ScanningIs
  <2>4. CASE at # {}
    <3> HIDE DEF tail
    <3>1. at \subseteq Nat /\ \A i \in at : i >= 1
      BY <2>1, FoundNat
    <3> HIDE DEF at
    <3>2. Min(at) + Len(OpenTag) \in Nat /\ Min(at) + Len(OpenTag) >= 1
      <4>1. Min(at) \in at
        BY <2>4, <3>1, MinIs
      <4>2. Min(at) \in Nat /\ Min(at) >= 1 /\ Len(OpenTag) \in Nat
        BY <3>1, <4>1, NIs DEF N
      <4> QED
        BY <4>2
    <3>3. rest \in Seq(Bytes)
      BY <2>1, <3>2, RestIs
    <3> HIDE DEF rest
    <3>4. Feed(names, {InCall}, rest) \in Single
      BY <3>3, InCallIs, FeedSingle
    <3> QED
      BY <1>1, <2>2, <2>4, <3>4
  <2> QED
    BY <2>3, <2>4
<1> QED
  BY <1>2, <1>3

-----------------------------------------------------------------------------
(* The automaton and the text that was heard.                              *)

\* What was heard and where the automaton is belong together.
Follow(names, started, heard, s) ==
  IF started THEN s \in Live /\ heard \in Seq(Bytes) /\ Feed(names, {InCall}, heard) = {s}
  ELSE \E w \in Seq(Bytes) : s = Scanning(w) /\ Heeds(w, heard)

\* With nothing heard, an automaton that was reset follows.
LEMMA FollowIdle ==
  ASSUME NEW names
  PROVE  Follow(names, FALSE, <<>>, Idle)
<1>1. Len(<<>>) = 0 /\ <<>> \in Seq(Bytes) /\ N \in Nat /\ N > 0
  BY EmptySeq, NIs
<1>2. Found(OpenTag, <<>>) = {}
  <2>1. ASSUME NEW i \in Found(OpenTag, <<>>) PROVE FALSE
    <3>1. i + N - 1 <= Len(<<>>) /\ i \in Nat /\ i >= 1
      BY <1>1, FoundNat
    <3> QED
      BY <1>1, <3>1
  <2> QED
    BY <2>1
<1>3. LastBytes(<<>>, N - 1) = <<>>
  <2>1. N - 1 \in Nat
    BY <1>1
  <2> DEFINE e == <<>>
  <2>2. e \in Seq(Bytes) /\ Len(e) = 0
    BY <1>1
  <2> HIDE DEF e
  <2>5. 0 <= N - 1
    BY <1>1
  <2>6. LastBytes(e, N - 1) \in Seq(Bytes) /\ Len(LastBytes(e, N - 1)) = IF Len(e) <= N - 1 THEN Len(e) ELSE N - 1
    BY <2>1, <2>2, LastBytesIs
  <2>3. LastBytes(e, N - 1) \in Seq(Bytes) /\ Len(LastBytes(e, N - 1)) = 0
    BY <2>2, <2>5, <2>6
  <2>4. LastBytes(e, N - 1) = <<>>
    BY <2>3, EmptySeq
  <2> QED
    BY <2>4 DEF e
<1> QED
  BY <1>1, <1>2, <1>3, IdleIs DEF Follow, Heeds

\* Outside of one, the piece completes the tag for both or for none, and both
\* read the same call.
SameCall(w, v) ==
  LET A == Found(OpenTag, w)
      B == Found(OpenTag, v)
  IN /\ w \in Seq(Bytes) /\ v \in Seq(Bytes)
     /\ A = {} <=> B = {}
     /\ A = {} => Trimmed(w) \in Seq(Bytes) /\ Heeds(Trimmed(w), LastBytes(v, N - 1))
     /\ A # {} => /\ SubSeq(v, Min(B) + N, Len(v)) \in Seq(Bytes)
                  /\ SubSeq(w, Min(A) + N, Len(w)) = SubSeq(v, Min(B) + N, Len(v))

\* With the kept end of the text, automaton and history see the same tags and the same call.
LEMMA FollowTag ==
  ASSUME NEW tail \in Seq(Bytes), NEW heard, Heeds(tail, heard), NEW p \in Seq(Bytes),
         NEW w, NEW v, Longer(tail, heard, p, w, v)
  PROVE  SameCall(w, v)
<1> DEFINE d == Len(w) - Len(v)
           A == Found(OpenTag, w)
           B == Found(OpenTag, v)
<1>b. /\ w \in Seq(Bytes) /\ v \in Seq(Bytes) /\ EndsWith(w, v)
      /\ Len(v) >= N - 1 \/ Len(v) = Len(w)
      /\ Found(OpenTag, w) = {i + (Len(w) - Len(v)) : i \in Found(OpenTag, v)}
  <2> HIDE DEF d, A, B
  <2> QED
    BY HeedsFound
<1>1. /\ w \in Seq(Bytes) /\ v \in Seq(Bytes) /\ EndsWith(w, v)
      /\ Len(v) >= N - 1 \/ Len(v) = Len(w)
      /\ A = {i + d : i \in B}
  BY <1>b
<1>2. N \in Nat /\ N > 0 /\ N - 1 \in Nat
  BY NIs
<1>a. d \in Nat
  <2>1. Len(w) \in Nat /\ Len(v) \in Nat /\ Len(v) <= Len(w)
    BY <1>1, LenProperties DEF EndsWith
  <2> QED
    BY <2>1
<1>3. LastBytes(v, N - 1) = LastBytes(w, N - 1)
  BY <1>1, <1>2, LastBytesOfEnd
<1>4. A = {} => Trimmed(w) \in Seq(Bytes) /\ Heeds(Trimmed(w), LastBytes(v, N - 1))
  BY <1>1, <1>3, TrimmedIs DEF Heeds
<1>5. ASSUME A # {}
      PROVE  /\ SubSeq(v, Min(B) + N, Len(v)) \in Seq(Bytes)
             /\ SubSeq(w, Min(A) + N, Len(w)) = SubSeq(v, Min(B) + N, Len(v))
  <2>1. (\A i \in A : i \in Nat) /\ \A i \in B : i \in Nat /\ i >= 1
    BY <1>1, FoundNat
  <2>2. B # {} /\ A \subseteq Nat /\ B \subseteq Nat
    BY <1>1, <1>5, <2>1
  <2> DEFINE a == Min(A)
             b == Min(B)
  <2> HIDE DEF A, B, d
  <2>3. a \in A /\ (\A x \in A : a <= x) /\ b \in B /\ (\A x \in B : b <= x)
    BY <1>5, <2>2, MinIs
  <2> HIDE DEF a, b
  <2>4. a = b + d
    <3>1. b + d \in A /\ \E i \in B : a = i + d
      BY <1>1, <2>3
    <3>2. PICK i \in B : a = i + d
      BY <3>1
    <3>3. b <= i /\ a <= b + d /\ i \in Nat /\ b \in Nat
      BY <2>1, <2>3, <3>1
    <3> QED
      BY <1>a, <3>2, <3>3
  <2>5. b \in Nat /\ b >= 1
    BY <2>1, <2>3
  <2> DEFINE m == b + N
  <2>6. m \in Nat /\ m >= 1 /\ a + N = m + d
    BY <1>2, <1>a, <2>4, <2>5
  <2> HIDE DEF m
  <2>7. SubSeq(v, m, Len(v)) = SubSeq(w, m + d, Len(w))
    BY <1>1, <2>6, RestOfEnd DEF d
  <2>8. SubSeq(v, m, Len(v)) \in Seq(Bytes)
    BY <1>1, <2>6, RestIs
  <2> QED
    BY <2>6, <2>7, <2>8 DEF m, a, b
<1>6. A = {} <=> B = {}
  BY <1>1
<1> QED
  BY <1>1, <1>4, <1>5, <1>6 DEF SameCall

\* One piece heard and shown.
LEMMA FollowPiece ==
  ASSUME declared # Off, NEW started, started \in BOOLEAN, NEW heard, NEW s,
         Follow(Names, started, heard, s), NEW piece \in Seq(Bytes),
         NEW h, h = Heard(started, heard, piece), NEW t, t = Accept(Names, s, piece)
  PROVE  h.tag \in BOOLEAN /\ Follow(Names, h.tag, h.words, t)
<1>0. Follow(Names, FALSE, <<>>, Idle)
  BY FollowIdle
<1> DEFINE all == heard \o piece
           at == Found(OpenTag, all)
           call == IF started THEN all ELSE SubSeq(all, Min(at) + N, Len(all))
<1>1. h = IF ~started /\ at = {} THEN [tag |-> FALSE, words |-> LastBytes(all, N - 1)]
          ELSE IF Feed(Names, {InCall}, call) = {} THEN [tag |-> FALSE, words |-> <<>>]
          ELSE [tag |-> TRUE, words |-> call]
  BY DEF Heard, N
<1> HIDE DEF at
<1>2. ASSUME call \in Seq(Bytes), started \/ at # {}, t = OrGivenUp(Feed(Names, {InCall}, call))
      PROVE  h.tag \in BOOLEAN /\ Follow(Names, h.tag, h.words, t)
  <2> HIDE DEF all, call
  <2>1. Feed(Names, {InCall}, call) \in Single
    BY <1>2, InCallIs, FeedSingle
  <2>2. CASE Feed(Names, {InCall}, call) = {}
    <3>1. t = Idle
      BY <1>2, <2>1, <2>2, OrGivenUpIs
    <3>2. h = [tag |-> FALSE, words |-> <<>>]
      BY <1>1, <1>2, <2>2
    <3>3. h.tag = FALSE /\ h.words = <<>>
      BY <3>2
    <3> QED
      BY <1>0, <3>1, <3>3
  <2>3. CASE Feed(Names, {InCall}, call) # {}
    <3>1. t \in Live /\ Feed(Names, {InCall}, call) = {t}
      BY <1>2, <2>1, <2>3, OrGivenUpIs
    <3>2. h = [tag |-> TRUE, words |-> call]
      BY <1>1, <1>2, <2>3
    <3>3. h.tag = TRUE /\ h.words = call
      BY <3>2
    <3> QED
      BY <1>2, <3>1, <3>3 DEF Follow
  <2> QED
    BY <2>2, <2>3
<1>3. CASE started
  <2>1. s \in Live /\ heard \in Seq(Bytes) /\ Feed(Names, {InCall}, heard) = {s}
    BY <1>3 DEF Follow
  <2>2. t = OrGivenUp(Feed(Names, {s}, piece))
    BY <2>1, LiveConstrains DEF Accept
  <2>5. heard \o piece \in Seq(Bytes)
    BY <2>1, ConcatProperties
  <2>3. call = all /\ all \in Seq(Bytes)
    BY <1>3, <2>5
  <2>4. Feed(Names, {InCall}, all) = Feed(Names, {s}, piece)
    <3> DEFINE S == {InCall}
    <3>1. S \in Single
      BY InCallIs
    <3> HIDE DEF S
    <3>2. Feed(Names, S, heard \o piece) = Feed(Names, Feed(Names, S, heard), piece)
      BY <2>1, <3>1, FeedConcat
    <3>3. Feed(Names, S, heard) = {s}
      BY <2>1 DEF S
    <3>4. Feed(Names, S, heard \o piece) = Feed(Names, {s}, piece)
      BY <3>2, <3>3
    <3> QED
      BY <3>4 DEF S
  <2> QED
    BY <1>2, <1>3, <2>2, <2>3, <2>4
<1>4. CASE ~started
  <2>1. PICK tail \in Seq(Bytes) : s = Scanning(tail) /\ Heeds(tail, heard)
    BY <1>4 DEF Follow
  <2> DEFINE w == tail \o piece
  <2>2. /\ w \in Seq(Bytes) /\ all \in Seq(Bytes)
        /\ Found(OpenTag, w) = {} <=> at = {}
        /\ Found(OpenTag, w) = {} => Trimmed(w) \in Seq(Bytes) /\ Heeds(Trimmed(w), LastBytes(all, N - 1))
        /\ Found(OpenTag, w) # {} =>
              /\ SubSeq(all, Min(at) + N, Len(all)) \in Seq(Bytes)
              /\ SubSeq(w, Min(Found(OpenTag, w)) + N, Len(w)) = SubSeq(all, Min(at) + N, Len(all))
    <3> DEFINE u == all
    <3>1. u = heard \o piece /\ at = Found(OpenTag, u) /\ w = tail \o piece
      BY DEF at
    <3> HIDE DEF u, w, at
    <3>2. SameCall(w, u)
      <4>1. Longer(tail, heard, piece, w, u) /\ tail \in Seq(Bytes) /\ Heeds(tail, heard)
        BY <2>1, <3>1 DEF Longer
      <4> QED
        BY <4>1, FollowTag
    <3> QED
      BY <3>1, <3>2 DEF u, SameCall
  <2>3. t = IF Found(OpenTag, w) = {} THEN [s EXCEPT !.tail = Trimmed(w)]
            ELSE OrGivenUp(Feed(Names, {InCall}, SubSeq(w, Min(Found(OpenTag, w)) + N, Len(w))))
    BY <2>1, ScanningIs DEF Accept, N
  <2> HIDE DEF w, all
  <2>4. CASE at = {}
    <3>1. h.tag = FALSE /\ h.words = LastBytes(all, N - 1)
      BY <1>1, <1>4, <2>4
    <3>2. t = Scanning(Trimmed(w)) /\ Trimmed(w) \in Seq(Bytes) /\ Heeds(Trimmed(w), LastBytes(all, N - 1))
      BY <2>1, <2>2, <2>3, <2>4, ScanningIs
    <3> QED
      BY <3>1, <3>2 DEF Follow
  <2>5. CASE at # {}
    <3>1. call = SubSeq(all, Min(at) + N, Len(all))
      BY <1>4 DEF all
    <3> QED
      BY <1>2, <2>2, <2>3, <2>5, <3>1 DEF all
  <2> QED
    BY <2>4, <2>5
<1> QED
  BY <1>3, <1>4

-----------------------------------------------------------------------------
(* FlattenSeq as a walk.                                                   *)

\* Putting a sequence at the end of another.
Joining(V) == [x \in Seq(V) \X Seq(V) |-> x[1] \o x[2]]

\* Joining two sequences, as a step of a walk.
LEMMA JoiningMoves ==
  ASSUME NEW V
  PROVE  Joining(V) \in Moves(Seq(V), Seq(V))
<1>1. \A x \in Seq(V) \X Seq(V) : x[1] \o x[2] \in Seq(V)
  BY ConcatProperties
<1> QED
  BY <1>1 DEF Joining, Moves

\* The walk that FlattenSeq folds.
Joins(f, S) == f = [i \in 1..Len(S) |-> IF i = 1 THEN S[i] ELSE f[i - 1] \o S[i]]

\* FlattenSeq joins the sequences one by one.
LEMMA FlattenReached ==
  ASSUME NEW V, NEW S \in Seq(Seq(V))
  PROVE  FlattenSeq(S) = Reached(Seq(V), Joining(V), <<>>, S)
<1> DEFINE n == Len(S)
           e == <<>>
<1>0. n \in Nat /\ (\A i \in 1..n : S[i] \in Seq(V)) /\ e \in Seq(V)
  BY LenProperties, ElementOfSeq, EmptySeq
<1>1. Joining(V) \in Moves(Seq(V), Seq(V))
  BY JoiningMoves
<1> HIDE DEF e
<1>2. PICK g \in [0..n -> Seq(V)] : Follows(g, Joining(V), e, S)
  BY <1>0, <1>1, Followed
<1>3. Reached(Seq(V), Joining(V), e, S) = g[n]
  BY <1>0, <1>1, <1>2, ReachedBy
<1>4. g[0] = e /\ \A i \in 1..n : g[i] = g[i - 1] \o S[i]
  <2>1. g[0] = e
    <3>1. 0 \in 0..n
      BY <1>0
    <3> QED
      BY <1>2, <3>1 DEF Follows
  <2>2. ASSUME NEW i \in 1..n PROVE g[i] = g[i - 1] \o S[i]
    <3>1. i \in 0..n /\ i # 0 /\ i - 1 \in 0..n
      BY <1>0
    <3>2. g[i] = Joining(V)[<<g[i - 1], S[i]>>]
      BY <1>2, <3>1 DEF Follows
    <3>3. g[i - 1] \in Seq(V) /\ S[i] \in Seq(V)
      BY <1>0, <3>1
    <3> QED
      BY <3>2, <3>3 DEF Joining
  <2> QED
    BY <2>1, <2>2
<1>5. CASE n = 0
  <2>1. S = <<>>
    BY <1>5, EmptySeq
  <2>2. FlattenSeq(S) = S
    BY <1>5 DEF FlattenSeq
  <2> QED
    BY <1>3, <1>4, <1>5, <2>1, <2>2 DEF e
<1>6. CASE n # 0
  <2> DEFINE h == [i \in 1..n |-> g[i]]
  <2>1. g[1] = S[1]
    <3>0. 1 \in 1..n /\ 1 - 1 = 0
      BY <1>0, <1>6
    <3>1. g[1] = g[0] \o S[1] /\ S[1] \in Seq(V)
      BY <1>0, <1>4, <3>0
    <3>2. <<>> \o S[1] = S[1]
      BY <3>1, ConcatEmptySeq
    <3> QED
      BY <1>4, <3>1, <3>2 DEF e
  <2>2. ASSUME NEW i \in 1..n
        PROVE  h[i] = IF i = 1 THEN S[i] ELSE h[i - 1] \o S[i]
    <3>1. i # 1 => i - 1 \in 1..n
      BY <1>0
    <3> QED
      BY <1>4, <2>1, <3>1
  <2>3. h = [i \in 1..n |-> h[i]]
    OBVIOUS
  <2>4. Joins(h, S)
    <3> HIDE DEF h
    <3> QED
      BY <2>2, <2>3 DEF Joins
  <2> DEFINE f == CHOOSE j : Joins(j, S)
  <2>5. FlattenSeq(S) = f[n]
    BY <1>6 DEF FlattenSeq, Joins
  <2>6. Joins(f, S)
    BY <2>4
  <2> HIDE DEF f, h
  <2>7. \A i \in 1..n : f[i] = IF i = 1 THEN S[i] ELSE f[i - 1] \o S[i]
    BY <2>6 DEF Joins
  <2> DEFINE T == {i \in 1..n : f[i] # h[i]}
  <2>8. T = {}
    <3> SUFFICES ASSUME T # {} PROVE FALSE
      OBVIOUS
    <3>1. PICK i \in T : \A y \in T : i <= y
      <4>1. T \subseteq Nat
        OBVIOUS
      <4> QED
        BY <4>1, LeastNat
    <3>2. i \in 1..n /\ f[i] # h[i]
      OBVIOUS
    <3>3. i # 1 => f[i - 1] = h[i - 1]
      BY <3>1, <3>2
    <3> HIDE DEF T
    <3> QED
      BY <2>2, <2>7, <3>2, <3>3
  <2>9. f[n] = h[n] /\ h[n] = g[n]
    <3>1. n \in 1..n
      BY <1>0, <1>6
    <3> QED
      BY <2>8, <3>1 DEF h
  <2> QED
    BY <1>3, <2>5, <2>9 DEF e
<1> QED
  BY <1>5, <1>6

\* FlattenSeq joins the sequences of a sequence, one after the other.
LEMMA FlattenIs ==
  ASSUME NEW V
  PROVE  /\ FlattenSeq(<<>>) = <<>>
         /\ \A S \in Seq(Seq(V)) : FlattenSeq(S) \in Seq(V)
         /\ \A S \in Seq(Seq(V)), s \in Seq(V) : FlattenSeq(Append(S, s)) = FlattenSeq(S) \o s
<1>0. Joining(V) \in Moves(Seq(V), Seq(V)) /\ <<>> \in Seq(V)
  BY JoiningMoves, EmptySeq
<1>1. FlattenSeq(<<>>) = <<>>
  BY DEF FlattenSeq
<1> DEFINE e == <<>>
           B == Seq(V)
<1>2. Joining(V) \in Moves(B, B) /\ e \in B
  BY <1>0
<1>3. \A S \in Seq(B) : FlattenSeq(S) = Reached(B, Joining(V), e, S)
  BY FlattenReached
<1>4. \A a, b \in B : Joining(V)[<<a, b>>] = a \o b
  BY DEF Joining
<1> HIDE DEF e, B
<1>5. \A S \in Seq(B) : FlattenSeq(S) \in B
  BY <1>2, <1>3, ReachedIn
<1>6. ASSUME NEW S \in Seq(B), NEW s \in B
      PROVE  FlattenSeq(Append(S, s)) = FlattenSeq(S) \o s
  <2>1. Append(S, s) \in Seq(B)
    BY AppendProperties
  <2>2. Reached(B, Joining(V), e, Append(S, s)) = Joining(V)[<<Reached(B, Joining(V), e, S), s>>]
    BY <1>2, ReachedAppend
  <2> QED
    BY <1>3, <1>4, <1>5, <2>1, <2>2
<1> QED
  BY <1>1, <1>5, <1>6 DEF B

-----------------------------------------------------------------------------
(* The automaton of a document: what a state key leaves out makes no difference.*)

\* What a frame of the document's automaton can be.
Kinds == {"value", "object", "array", "string", "number", "literal"}

\* The frames that others lie in.
Outer == {"object", "array"}

\* The states of an object.
ObjectStates == {"open", "next", "key", "other", "otherEscape", "otherHex", "colon", "comma"}

\* The states of an array.
ArrayStates == {"open", "next", "comma"}

\* The states of a string.
StringStates == {"text", "escape", "hex"}

\* The states of a number.
NumberStates == {"start", "minus", "zero", "int", "dot", "frac", "e", "sign", "exp"}

\* The states of a frame of any kind.
States == ObjectStates \cup ArrayStates \cup StringStates \cup NumberStates \cup {""}

\* The states that a frame of that kind can have.
StatesOf(kind) ==
  IF kind = "object" THEN ObjectStates ELSE IF kind = "array" THEN ArrayStates
  ELSE IF kind = "string" THEN StringStates ELSE States

\* The nodes that compile makes of the schemas of the instance.
Nodes == {J!Node(s) : s \in Subschemas}

\* The keys an object has used.
KeySets == SUBSET Seq(Bytes)

\* A frame with every field in its range.
FrameRecords ==
  [kind : Kinds, st : States, of : Nodes \cup Subschemas, text : Seq(Bytes), used : KeySets,
   child : Subschemas, count : Nat, hex : Int]

\* State and node of a frame belong to its kind.
Fits(f) ==
  /\ f.st \in StatesOf(f.kind)
  /\ f.kind = "value" => f.of \in Subschemas
  /\ f.kind \in {"object", "array", "string"} => f.of \in Nodes /\ f.of.kind = f.kind

\* The frames that the automaton builds.
Frames == {f \in FrameRecords : Fits(f)}

\* Two frames that differ in a count at most, and only where no bound of the schema reads it.
Alike(f, g) ==
  /\ f \in Frames /\ g \in Frames
  /\ f.kind = g.kind /\ f.st = g.st /\ f.of = g.of /\ f.text = g.text /\ f.used = g.used
  /\ f.child = g.child /\ f.hex = g.hex
  /\ J!Uncounted(f) \/ f.count = g.count

\* Writing the state of a frame leaves its other fields.
LEMMA WithSt ==
  ASSUME NEW f \in FrameRecords, NEW v \in States, NEW t, t = [f EXCEPT !.st = v]
  PROVE  /\ t \in FrameRecords
         /\ t.kind = f.kind /\ t.st = v /\ t.of = f.of /\ t.text = f.text /\ t.used = f.used
         /\ t.child = f.child /\ t.count = f.count /\ t.hex = f.hex
BY DEF FrameRecords

\* Two frames that are alike still are when the state of both is written alike.
LEMMA AlikeSt ==
  ASSUME NEW f, NEW g, Alike(f, g), NEW v \in States, v \in StatesOf(f.kind)
  PROVE  Alike([f EXCEPT !.st = v], [g EXCEPT !.st = v]) /\ [f EXCEPT !.st = v].kind = f.kind
<1> DEFINE t == [f EXCEPT !.st = v]
           u == [g EXCEPT !.st = v]
<1>1. f \in FrameRecords /\ g \in FrameRecords
  BY DEF Alike, Frames
<1>2. /\ t \in FrameRecords
      /\ t.kind = f.kind /\ t.st = v /\ t.of = f.of /\ t.text = f.text /\ t.used = f.used
      /\ t.child = f.child /\ t.count = f.count /\ t.hex = f.hex
  <2>1. t = [f EXCEPT !.st = v]
    OBVIOUS
  <2> HIDE DEF t
  <2> QED
    BY <1>1, <2>1, WithSt
<1>3. /\ u \in FrameRecords
      /\ u.kind = g.kind /\ u.st = v /\ u.of = g.of /\ u.text = g.text /\ u.used = g.used
      /\ u.child = g.child /\ u.count = g.count /\ u.hex = g.hex
  <2>1. u = [g EXCEPT !.st = v]
    OBVIOUS
  <2> HIDE DEF u
  <2> QED
    BY <1>1, <2>1, WithSt
<1> HIDE DEF t, u
<1>4. Alike(t, u)
  BY <1>2, <1>3 DEF Alike, Frames, Fits, J!Uncounted
<1> QED
  BY <1>2, <1>4 DEF t, u

\* Writing the text read so far of a frame leaves its other fields.
LEMMA WithText ==
  ASSUME NEW f \in FrameRecords, NEW v \in Seq(Bytes), NEW t, t = [f EXCEPT !.text = v]
  PROVE  /\ t \in FrameRecords
         /\ t.kind = f.kind /\ t.st = f.st /\ t.of = f.of /\ t.text = v /\ t.used = f.used
         /\ t.child = f.child /\ t.count = f.count /\ t.hex = f.hex
BY DEF FrameRecords

\* Two frames that are alike still are when the text read so far of both is written alike.
LEMMA AlikeText ==
  ASSUME NEW f, NEW g, Alike(f, g), NEW v \in Seq(Bytes)
  PROVE  Alike([f EXCEPT !.text = v], [g EXCEPT !.text = v]) /\ [f EXCEPT !.text = v].kind = f.kind
<1> DEFINE t == [f EXCEPT !.text = v]
           u == [g EXCEPT !.text = v]
<1>1. f \in FrameRecords /\ g \in FrameRecords
  BY DEF Alike, Frames
<1>2. /\ t \in FrameRecords
      /\ t.kind = f.kind /\ t.st = f.st /\ t.of = f.of /\ t.text = v /\ t.used = f.used
      /\ t.child = f.child /\ t.count = f.count /\ t.hex = f.hex
  <2>1. t = [f EXCEPT !.text = v]
    OBVIOUS
  <2> HIDE DEF t
  <2> QED
    BY <1>1, <2>1, WithText
<1>3. /\ u \in FrameRecords
      /\ u.kind = g.kind /\ u.st = g.st /\ u.of = g.of /\ u.text = v /\ u.used = g.used
      /\ u.child = g.child /\ u.count = g.count /\ u.hex = g.hex
  <2>1. u = [g EXCEPT !.text = v]
    OBVIOUS
  <2> HIDE DEF u
  <2> QED
    BY <1>1, <2>1, WithText
<1> HIDE DEF t, u
<1>4. Alike(t, u)
  BY <1>2, <1>3 DEF Alike, Frames, Fits, J!Uncounted
<1> QED
  BY <1>2, <1>4 DEF t, u

\* Writing the keys used of a frame leaves its other fields.
LEMMA WithUsed ==
  ASSUME NEW f \in FrameRecords, NEW v \in KeySets, NEW t, t = [f EXCEPT !.used = v]
  PROVE  /\ t \in FrameRecords
         /\ t.kind = f.kind /\ t.st = f.st /\ t.of = f.of /\ t.text = f.text /\ t.used = v
         /\ t.child = f.child /\ t.count = f.count /\ t.hex = f.hex
BY DEF FrameRecords

\* Two frames that are alike still are when the keys used of both is written alike.
LEMMA AlikeUsed ==
  ASSUME NEW f, NEW g, Alike(f, g), NEW v \in KeySets
  PROVE  Alike([f EXCEPT !.used = v], [g EXCEPT !.used = v]) /\ [f EXCEPT !.used = v].kind = f.kind
<1> DEFINE t == [f EXCEPT !.used = v]
           u == [g EXCEPT !.used = v]
<1>1. f \in FrameRecords /\ g \in FrameRecords
  BY DEF Alike, Frames
<1>2. /\ t \in FrameRecords
      /\ t.kind = f.kind /\ t.st = f.st /\ t.of = f.of /\ t.text = f.text /\ t.used = v
      /\ t.child = f.child /\ t.count = f.count /\ t.hex = f.hex
  <2>1. t = [f EXCEPT !.used = v]
    OBVIOUS
  <2> HIDE DEF t
  <2> QED
    BY <1>1, <2>1, WithUsed
<1>3. /\ u \in FrameRecords
      /\ u.kind = g.kind /\ u.st = g.st /\ u.of = g.of /\ u.text = g.text /\ u.used = v
      /\ u.child = g.child /\ u.count = g.count /\ u.hex = g.hex
  <2>1. u = [g EXCEPT !.used = v]
    OBVIOUS
  <2> HIDE DEF u
  <2> QED
    BY <1>1, <2>1, WithUsed
<1> HIDE DEF t, u
<1>4. Alike(t, u)
  BY <1>2, <1>3 DEF Alike, Frames, Fits, J!Uncounted
<1> QED
  BY <1>2, <1>4 DEF t, u

\* Writing the schema of the next value of a frame leaves its other fields.
LEMMA WithChild ==
  ASSUME NEW f \in FrameRecords, NEW v \in Subschemas, NEW t, t = [f EXCEPT !.child = v]
  PROVE  /\ t \in FrameRecords
         /\ t.kind = f.kind /\ t.st = f.st /\ t.of = f.of /\ t.text = f.text /\ t.used = f.used
         /\ t.child = v /\ t.count = f.count /\ t.hex = f.hex
BY DEF FrameRecords

\* Two frames that are alike still are when the schema of the next value of both is written alike.
LEMMA AlikeChild ==
  ASSUME NEW f, NEW g, Alike(f, g), NEW v \in Subschemas
  PROVE  Alike([f EXCEPT !.child = v], [g EXCEPT !.child = v]) /\ [f EXCEPT !.child = v].kind = f.kind
<1> DEFINE t == [f EXCEPT !.child = v]
           u == [g EXCEPT !.child = v]
<1>1. f \in FrameRecords /\ g \in FrameRecords
  BY DEF Alike, Frames
<1>2. /\ t \in FrameRecords
      /\ t.kind = f.kind /\ t.st = f.st /\ t.of = f.of /\ t.text = f.text /\ t.used = f.used
      /\ t.child = v /\ t.count = f.count /\ t.hex = f.hex
  <2>1. t = [f EXCEPT !.child = v]
    OBVIOUS
  <2> HIDE DEF t
  <2> QED
    BY <1>1, <2>1, WithChild
<1>3. /\ u \in FrameRecords
      /\ u.kind = g.kind /\ u.st = g.st /\ u.of = g.of /\ u.text = g.text /\ u.used = g.used
      /\ u.child = v /\ u.count = g.count /\ u.hex = g.hex
  <2>1. u = [g EXCEPT !.child = v]
    OBVIOUS
  <2> HIDE DEF u
  <2> QED
    BY <1>1, <2>1, WithChild
<1> HIDE DEF t, u
<1>4. Alike(t, u)
  BY <1>2, <1>3 DEF Alike, Frames, Fits, J!Uncounted
<1> QED
  BY <1>2, <1>4 DEF t, u

\* Writing the count of a frame leaves its other fields.
LEMMA WithCount ==
  ASSUME NEW f \in FrameRecords, NEW v \in Nat, NEW t, t = [f EXCEPT !.count = v]
  PROVE  /\ t \in FrameRecords
         /\ t.kind = f.kind /\ t.st = f.st /\ t.of = f.of /\ t.text = f.text /\ t.used = f.used
         /\ t.child = f.child /\ t.count = v /\ t.hex = f.hex
BY DEF FrameRecords

\* Writing the hex digits of a frame leaves its other fields.
LEMMA WithHex ==
  ASSUME NEW f \in FrameRecords, NEW v \in Int, NEW t, t = [f EXCEPT !.hex = v]
  PROVE  /\ t \in FrameRecords
         /\ t.kind = f.kind /\ t.st = f.st /\ t.of = f.of /\ t.text = f.text /\ t.used = f.used
         /\ t.child = f.child /\ t.count = f.count /\ t.hex = v
BY DEF FrameRecords

\* Two frames that are alike still are when the hex digits of both is written alike.
LEMMA AlikeHex ==
  ASSUME NEW f, NEW g, Alike(f, g), NEW v \in Int
  PROVE  Alike([f EXCEPT !.hex = v], [g EXCEPT !.hex = v]) /\ [f EXCEPT !.hex = v].kind = f.kind
<1> DEFINE t == [f EXCEPT !.hex = v]
           u == [g EXCEPT !.hex = v]
<1>1. f \in FrameRecords /\ g \in FrameRecords
  BY DEF Alike, Frames
<1>2. /\ t \in FrameRecords
      /\ t.kind = f.kind /\ t.st = f.st /\ t.of = f.of /\ t.text = f.text /\ t.used = f.used
      /\ t.child = f.child /\ t.count = f.count /\ t.hex = v
  <2>1. t = [f EXCEPT !.hex = v]
    OBVIOUS
  <2> HIDE DEF t
  <2> QED
    BY <1>1, <2>1, WithHex
<1>3. /\ u \in FrameRecords
      /\ u.kind = g.kind /\ u.st = g.st /\ u.of = g.of /\ u.text = g.text /\ u.used = g.used
      /\ u.child = g.child /\ u.count = g.count /\ u.hex = v
  <2>1. u = [g EXCEPT !.hex = v]
    OBVIOUS
  <2> HIDE DEF u
  <2> QED
    BY <1>1, <2>1, WithHex
<1> HIDE DEF t, u
<1>4. Alike(t, u)
  BY <1>2, <1>3 DEF Alike, Frames, Fits, J!Uncounted
<1> QED
  BY <1>2, <1>4 DEF t, u

\* A count that goes up in both.
LEMMA AlikeCount ==
  ASSUME NEW f, NEW g, Alike(f, g)
  PROVE  Alike([f EXCEPT !.count = @ + 1], [g EXCEPT !.count = @ + 1]) /\ [f EXCEPT !.count = @ + 1].kind = f.kind
<1> DEFINE t == [f EXCEPT !.count = @ + 1]
           u == [g EXCEPT !.count = @ + 1]
           v == f.count + 1
           w == g.count + 1
<1>1. f \in FrameRecords /\ g \in FrameRecords
  BY DEF Alike, Frames
<1>2. f.count \in Nat /\ g.count \in Nat
  BY <1>1 DEF FrameRecords
<1>3. v \in Nat /\ w \in Nat
  BY <1>2
<1>4. t = [f EXCEPT !.count = v] /\ u = [g EXCEPT !.count = w]
  OBVIOUS
<1>5. f.count = g.count => v = w
  OBVIOUS
<1> HIDE DEF t, u, v, w
<1>6. /\ t \in FrameRecords
      /\ t.kind = f.kind /\ t.st = f.st /\ t.of = f.of /\ t.text = f.text /\ t.used = f.used
      /\ t.child = f.child /\ t.hex = f.hex /\ t.count = v
  BY <1>1, <1>3, <1>4, WithCount
<1>7. /\ u \in FrameRecords
      /\ u.kind = g.kind /\ u.st = g.st /\ u.of = g.of /\ u.text = g.text /\ u.used = g.used
      /\ u.child = g.child /\ u.hex = g.hex /\ u.count = w
  BY <1>1, <1>3, <1>4, WithCount
<1>8. Alike(t, u)
  BY <1>5, <1>6, <1>7 DEF Alike, Frames, Fits, J!Uncounted
<1> QED
  BY <1>6, <1>8 DEF t, u

-----------------------------------------------------------------------------
\* Stacks of open objects and arrays that differ in such counts only.
Beneath(b, e) ==
  /\ b \in Seq(Frames) /\ e \in Seq(Frames)
  /\ Len(b) = Len(e) /\ Len(b) <= MaxDepth
  /\ \A i \in 1..Len(b) : Alike(b[i], e[i]) /\ b[i].kind \in Outer

\* The blanks read in a row, as many as the code lets pass.
Blanks == 0..MaxBlanks

\* A configuration: a stack of frames and the blanks read in a row.
Configs == [stack : Seq(Frames), ws : Blanks]

\* The configuration with that stack and those blanks.
Conf(s, w) == [stack |-> s, ws |-> w]

\* What lies on top of them: an open value, as deep as is allowed, or one that has not begun.
Above(b, f) == IF f.kind = "value" THEN TRUE ELSE Len(b) < MaxDepth

\* Two configurations that differ in counts no bound reads: the mask kept for one is
\* taken for the other.
Twins(c, d) ==
  \E w, b, e :
    /\ w \in Blanks /\ Beneath(b, e)
    /\ \/ c = Conf(b, w) /\ d = Conf(e, w)
       \/ \E f, g : /\ Alike(f, g) /\ Above(b, f)
                    /\ c = Conf(Append(b, f), w) /\ d = Conf(Append(e, g), w)

\* Two lists of configurations, twins one by one.
TwinLists(C, D) ==
  /\ C \in Seq(Configs) /\ D \in Seq(Configs) /\ Len(C) = Len(D)
  /\ \A i \in 1..Len(C) : Twins(C[i], D[i])

\* What two frames that are alike have in common.
LEMMA AlikeIs ==
  ASSUME NEW f, NEW g, Alike(f, g)
  PROVE  /\ f \in Frames /\ g \in Frames /\ f \in FrameRecords /\ g \in FrameRecords
         /\ f.kind = g.kind /\ f.st = g.st /\ f.of = g.of /\ f.text = g.text /\ f.used = g.used
         /\ f.child = g.child /\ f.hex = g.hex
         /\ f.kind \in Kinds /\ f.st \in States /\ f.st \in StatesOf(f.kind)
         /\ f.text \in Seq(Bytes) /\ f.used \in KeySets /\ f.child \in Subschemas /\ f.hex \in Int
         /\ f.count \in Nat /\ g.count \in Nat
         /\ f.kind = "value" => f.of \in Subschemas
         /\ f.kind \in {"object", "array", "string"} => f.of \in Nodes /\ f.of.kind = f.kind
BY DEF Alike, Frames, FrameRecords, Fits

\* What the operations on a stack do.
LEMMA ConfIs ==
  ASSUME NEW s \in Seq(Frames), NEW w \in Blanks
  PROVE  Conf(s, w) \in Configs /\ Conf(s, w).stack = s /\ Conf(s, w).ws = w
BY DEF Conf, Configs

\* The top of a stack, and what pops and turns it.
LEMMA TopIs ==
  ASSUME NEW b \in Seq(Frames), NEW f \in Frames, NEW w \in Blanks
  PROVE  /\ Append(b, f) \in Seq(Frames) /\ Append(b, f) # <<>>
         /\ J!Top(Conf(Append(b, f), w)) = f
         /\ J!Popped(Conf(Append(b, f), w)) = Conf(b, w)
         /\ \A g : J!Turned(Conf(Append(b, f), w), g) = Conf(Append(b, g), w)
<1> DEFINE s == Append(b, f)
<1>1. s \in Seq(Frames) /\ s # <<>> /\ Len(s) = Len(b) + 1 /\ s[Len(b) + 1] = f /\ Len(b) \in Nat
      /\ \A i \in 1..Len(b) : s[i] = b[i]
  BY AppendProperties, LenProperties
<1> HIDE DEF s
<1>2. Last(s) = f
  BY <1>1 DEF Last
<1>3. Front(s) = b
  <2>1. \A i \in 1..Len(b) : s[i] \in Frames
    BY <1>1, ElementOfSeq
  <2> DEFINE u == SubSeq(s, 1, Len(b))
  <2>2. u \in Seq(Frames) /\ Len(u) = (IF 1 <= Len(b) THEN Len(b) - 1 + 1 ELSE 0)
        /\ \A i \in 1..Len(b) - 1 + 1 : u[i] = s[1 + i - 1]
    <3>1. Len(b) \in Int /\ 1 \in Int
      BY <1>1
    <3> QED
      BY <2>1, <3>1, SubSeqProperties
  <2> HIDE DEF u
  <2>3. Len(u) = Len(b) /\ \A i \in 1..Len(u) : u[i] = b[i]
    BY <1>1, <2>2
  <2>4. u = b
    BY <2>2, <2>3, SeqEqual
  <2>5. Len(s) - 1 = Len(b)
    BY <1>1
  <2> QED
    BY <2>4, <2>5 DEF u, Front
<1>7. J!Last(s) = f /\ J!Front(s) = b
  BY <1>2, <1>3 DEF J!Front, Front, J!Last, Last
<1> DEFINE c == Conf(s, w)
<1>8. c = [stack |-> s, ws |-> w]
  BY DEF Conf
<1> HIDE DEF c
<1>4. c.stack = s /\ J!Top(c) = f
  BY <1>7, <1>8 DEF J!Top
<1>5. J!Popped(c) = Conf(b, w)
  BY <1>7, <1>8 DEF Conf, J!Popped
<1>6. \A g : J!Turned(c, g) = Conf(Append(b, g), w)
  BY <1>7, <1>8 DEF Conf, J!Turned
<1> QED
  BY <1>1, <1>4, <1>5, <1>6 DEF s, c

\* What pushing a frame, ending a run of blanks and reading one more do.
LEMMA PushedIs ==
  ASSUME NEW s \in Seq(Frames), NEW w \in Blanks
  PROVE  /\ \A f : J!Pushed(Conf(s, w), f) = Conf(Append(s, f), w)
         /\ J!Tight(Conf(s, w)) = Conf(s, 0) /\ 0 \in Blanks
         /\ J!Blank(Conf(s, w)) = J!One(w < MaxBlanks, Conf(s, w + 1))
         /\ w < MaxBlanks => w + 1 \in Blanks
<1>1. MaxBlanks \in Nat
  BY JsonAssumption
<1>2. 0 \in Blanks /\ (w < MaxBlanks => w + 1 \in Blanks)
  BY <1>1 DEF Blanks
<1> QED
  BY <1>2 DEF Conf, J!Pushed, J!Tight, J!Blank

\* What lies beneath in both is of one length, within the depth allowed.
LEMMA BeneathIs ==
  ASSUME NEW b, NEW e, Beneath(b, e)
  PROVE  b \in Seq(Frames) /\ e \in Seq(Frames) /\ Len(b) = Len(e) /\ Len(b) <= MaxDepth /\ Len(b) \in Nat
BY LenProperties DEF Beneath

\* An object or an array on top of open ones is one of them.
LEMMA BeneathPush ==
  ASSUME NEW b, NEW e, Beneath(b, e), Len(b) < MaxDepth, NEW f, NEW g, Alike(f, g), f.kind \in Outer
  PROVE  Beneath(Append(b, f), Append(e, g))
<1> DEFINE s == Append(b, f)
           t == Append(e, g)
<1>1. /\ b \in Seq(Frames) /\ e \in Seq(Frames) /\ Len(b) = Len(e) /\ Len(b) \in Nat
      /\ f \in Frames /\ g \in Frames
  BY BeneathIs DEF Alike
<1>2. /\ s \in Seq(Frames) /\ t \in Seq(Frames) /\ Len(s) = Len(b) + 1 /\ Len(t) = Len(e) + 1
      /\ s[Len(b) + 1] = f /\ t[Len(e) + 1] = g
      /\ \A i \in 1..Len(b) : s[i] = b[i]
      /\ \A i \in 1..Len(e) : t[i] = e[i]
  BY <1>1, AppendProperties
<1> HIDE DEF s, t
<1>3. ASSUME NEW i \in 1..Len(s)
      PROVE  Alike(s[i], t[i]) /\ s[i].kind \in Outer
  <2>1. CASE i = Len(b) + 1
    BY <1>1, <1>2, <2>1
  <2>2. CASE i # Len(b) + 1
    <3>1. i \in 1..Len(b) /\ i \in 1..Len(e)
      BY <1>1, <1>2, <2>2
    <3> QED
      BY <1>2, <3>1 DEF Beneath
  <2> QED
    BY <2>1, <2>2
<1>4. MaxDepth \in Nat
  BY JsonAssumption
<1>5. Len(s) = Len(t) /\ Len(s) <= MaxDepth
  BY <1>1, <1>2, <1>4
<1>6. Beneath(s, t)
  BY <1>2, <1>3, <1>5 DEF Beneath
<1> QED
  BY <1>6 DEF s, t

\* f and g come off b and e.
Pops(b, e, p, q, f, g) ==
  /\ Beneath(p, q) /\ Len(p) < MaxDepth /\ Alike(f, g) /\ f.kind \in Outer
  /\ b = Append(p, f) /\ e = Append(q, g)

\* Under the top of open objects and arrays are open ones.
LEMMA BeneathPop ==
  ASSUME NEW b, NEW e, Beneath(b, e), b # <<>>
  PROVE  \E p, q, f, g : Pops(b, e, p, q, f, g)
<1>1. b \in Seq(Frames) /\ e \in Seq(Frames) /\ Len(b) = Len(e) /\ Len(b) <= MaxDepth /\ Len(b) \in Nat
  BY BeneathIs
<1>2. e # <<>>
  BY <1>1, EmptySeq
<1>3. PICK p \in Seq(Frames), f \in Frames : b = Append(p, f)
  BY <1>1, SequenceEmptyOrAppend
<1>4. PICK q \in Seq(Frames), g \in Frames : e = Append(q, g)
  BY <1>1, <1>2, SequenceEmptyOrAppend
<1>5. /\ Len(b) = Len(p) + 1 /\ b[Len(p) + 1] = f /\ \A i \in 1..Len(p) : b[i] = p[i]
  BY <1>3, AppendProperties
<1>6. /\ Len(e) = Len(q) + 1 /\ e[Len(q) + 1] = g /\ \A i \in 1..Len(q) : e[i] = q[i]
  BY <1>4, AppendProperties
<1>7. Len(p) \in Nat /\ Len(q) \in Nat /\ MaxDepth \in Nat
  BY LenProperties, JsonAssumption
<1>a. Len(p) = Len(q) /\ Len(p) < MaxDepth
  <2>1. Len(b) = Len(p) + 1 /\ Len(b) = Len(q) + 1 /\ Len(p) + 1 <= MaxDepth
    BY <1>1, <1>5, <1>6
  <2> QED
    BY <1>7, <2>1
<1>8. Len(p) = Len(q) /\ Len(p) < MaxDepth /\ Len(p) + 1 \in 1..Len(b) /\ \A i \in 1..Len(p) : i \in 1..Len(b)
  BY <1>1, <1>5, <1>7, <1>a
<1>9. \A i \in 1..Len(b) : Alike(b[i], e[i]) /\ b[i].kind \in Outer
  BY DEF Beneath
<1>10. Alike(f, g) /\ f.kind \in Outer
  <2>1. Alike(b[Len(p) + 1], e[Len(p) + 1]) /\ b[Len(p) + 1].kind \in Outer
    BY <1>8, <1>9
  <2> QED
    BY <1>5, <1>6, <1>8, <2>1
<1>11. \A i \in 1..Len(p) : Alike(p[i], q[i]) /\ p[i].kind \in Outer
  BY <1>5, <1>6, <1>8, <1>9
<1>12. Len(p) <= MaxDepth
  BY <1>7, <1>8
<1>13. Beneath(p, q)
  BY <1>8, <1>11, <1>12 DEF Beneath
<1>14. Pops(b, e, p, q, f, g)
  BY <1>3, <1>4, <1>8, <1>10, <1>13 DEF Pops
<1> QED
  BY <1>14

\* Stacks with nothing on top are twins.
LEMMA TwinsBare ==
  ASSUME NEW b, NEW e, Beneath(b, e), NEW w \in Blanks
  PROVE  Twins(Conf(b, w), Conf(e, w))
BY DEF Twins

\* Stacks with frames alike on top are twins.
LEMMA TwinsTop ==
  ASSUME NEW b, NEW e, Beneath(b, e), NEW w \in Blanks, NEW f, NEW g, Alike(f, g), Above(b, f)
  PROVE  Twins(Conf(Append(b, f), w), Conf(Append(e, g), w))
BY DEF Twins

\* Twins are configurations.
LEMMA TwinsIn ==
  ASSUME NEW c, NEW d, Twins(c, d)
  PROVE  c \in Configs /\ d \in Configs
<1>1. PICK w, b, e :
        /\ w \in Blanks /\ Beneath(b, e)
        /\ \/ c = Conf(b, w) /\ d = Conf(e, w)
           \/ \E f, g : /\ Alike(f, g) /\ Above(b, f)
                        /\ c = Conf(Append(b, f), w) /\ d = Conf(Append(e, g), w)
  BY DEF Twins
<1>w. w \in Blanks
  BY <1>1
<1>2. b \in Seq(Frames) /\ e \in Seq(Frames)
  BY <1>1, BeneathIs
<1>3. CASE c = Conf(b, w) /\ d = Conf(e, w)
  BY <1>w, <1>2, <1>3, ConfIs
<1>4. ASSUME NEW f, NEW g, Alike(f, g), c = Conf(Append(b, f), w), d = Conf(Append(e, g), w)
      PROVE  c \in Configs /\ d \in Configs
  <2>1. f \in Frames /\ g \in Frames
    BY <1>4 DEF Alike
  <2>2. Append(b, f) \in Seq(Frames) /\ Append(e, g) \in Seq(Frames)
    BY <1>2, <2>1, AppendProperties
  <2> QED
    BY <1>w, <1>4, <2>2, ConfIs
<1> QED
  BY <1>1, <1>3, <1>4

\* No configurations are twins of none.
LEMMA TwinsNone == TwinLists(<<>>, <<>>)
BY EmptySeq DEF TwinLists

\* A lone twin makes a list of twins.
LEMMA TwinsLone ==
  ASSUME NEW c, NEW d, Twins(c, d)
  PROVE  TwinLists(<<c>>, <<d>>)
<1>1. c \in Configs /\ d \in Configs
  BY TwinsIn
<1>2. <<c>> \in Seq(Configs) /\ <<d>> \in Seq(Configs) /\ Len(<<c>>) = 1 /\ Len(<<d>>) = 1
  BY <1>1
<1>3. \A i \in 1..1 : <<c>>[i] = c /\ <<d>>[i] = d
  OBVIOUS
<1> QED
  BY <1>2, <1>3 DEF TwinLists

\* A condition that lets both through, or none, keeps twins.
LEMMA TwinsOne ==
  ASSUME NEW p, NEW c, NEW d, p => Twins(c, d)
  PROVE  TwinLists(J!One(p, c), J!One(p, d))
<1>1. CASE p
  BY <1>1, TwinsLone DEF J!One
<1>2. CASE ~p
  BY <1>2, TwinsNone DEF J!One
<1> QED
  BY <1>1, <1>2

\* One more blank, which both may read or none, keeps twins.
LEMMA TwinsBlank ==
  ASSUME NEW s \in Seq(Frames), NEW u \in Seq(Frames), NEW w \in Blanks,
         \A v \in Blanks : Twins(Conf(s, v), Conf(u, v))
  PROVE  TwinLists(J!Blank(Conf(s, w)), J!Blank(Conf(u, w)))
<1>1. /\ J!Blank(Conf(s, w)) = J!One(w < MaxBlanks, Conf(s, w + 1))
      /\ J!Blank(Conf(u, w)) = J!One(w < MaxBlanks, Conf(u, w + 1))
      /\ w < MaxBlanks => w + 1 \in Blanks
  BY PushedIs
<1>2. w < MaxBlanks => Twins(Conf(s, w + 1), Conf(u, w + 1))
  BY <1>1
<1> QED
  BY <1>1, <1>2, TwinsOne

-----------------------------------------------------------------------------
(* Bytes of a string.                                                      *)

\* Two configurations that differ in such counts only, with their tops f and g.
Tops(c, d, b, e, f, g, w) ==
  /\ Beneath(b, e) /\ Alike(f, g) /\ Above(b, f) /\ w \in Blanks
  /\ c = Conf(Append(b, f), w) /\ d = Conf(Append(e, g), w)

\* What two twins with a top have in common.
LEMMA TopsIs ==
  ASSUME NEW c, NEW d, NEW b, NEW e, NEW f, NEW g, NEW w, Tops(c, d, b, e, f, g, w)
  PROVE  /\ J!Top(c) = f /\ J!Top(d) = g /\ Alike(f, g)
         /\ c.stack # <<>> /\ d.stack # <<>> /\ c.ws = w /\ d.ws = w
         /\ Twins(c, d)
         /\ J!Popped(c) = Conf(b, w) /\ J!Popped(d) = Conf(e, w) /\ Twins(J!Popped(c), J!Popped(d))
         /\ TwinLists(J!Blank(c), J!Blank(d))
         /\ Tops(J!Tight(c), J!Tight(d), b, e, f, g, 0)
<1>1. /\ Beneath(b, e) /\ Alike(f, g) /\ Above(b, f) /\ w \in Blanks
      /\ c = Conf(Append(b, f), w) /\ d = Conf(Append(e, g), w)
  BY DEF Tops
<1>2. b \in Seq(Frames) /\ e \in Seq(Frames) /\ f \in Frames /\ g \in Frames
  BY <1>1, BeneathIs, AlikeIs
<1> DEFINE s == Append(b, f)
           t == Append(e, g)
<1>3. s \in Seq(Frames) /\ t \in Seq(Frames) /\ s # <<>> /\ t # <<>>
  BY <1>2, AppendProperties
<1>4. \A v \in Blanks : Twins(Conf(s, v), Conf(t, v))
  BY <1>1, TwinsTop
<1>5. J!Top(c) = f /\ J!Top(d) = g /\ J!Popped(c) = Conf(b, w) /\ J!Popped(d) = Conf(e, w)
  BY <1>1, <1>2, TopIs
<1>6. Twins(Conf(b, w), Conf(e, w))
  BY <1>1, TwinsBare
<1>7. c = Conf(s, w) /\ d = Conf(t, w)
  BY <1>1
<1> HIDE DEF s, t
<1>8. c.stack # <<>> /\ d.stack # <<>> /\ c.ws = w /\ d.ws = w
  BY <1>1, <1>3, <1>7, ConfIs
<1>9. TwinLists(J!Blank(c), J!Blank(d))
  BY <1>1, <1>3, <1>4, <1>7, TwinsBlank
<1>10. J!Tight(c) = Conf(s, 0) /\ J!Tight(d) = Conf(t, 0) /\ 0 \in Blanks
  BY <1>1, <1>3, <1>7, PushedIs
<1>11. Tops(J!Tight(c), J!Tight(d), b, e, f, g, 0)
  BY <1>1, <1>10 DEF Tops, s, t
<1> QED
  BY <1>1, <1>4, <1>5, <1>6, <1>7, <1>8, <1>9, <1>11

\* Twins stay twins when their tops turn alike.
LEMMA TopsTurned ==
  ASSUME NEW c, NEW d, NEW b, NEW e, NEW f, NEW g, NEW w, Tops(c, d, b, e, f, g, w),
         NEW h, NEW k, Alike(h, k), h.kind = f.kind
  PROVE  /\ Tops(J!Turned(c, h), J!Turned(d, k), b, e, h, k, w)
         /\ Twins(J!Turned(c, h), J!Turned(d, k))
<1>1. /\ Beneath(b, e) /\ Alike(f, g) /\ Above(b, f) /\ w \in Blanks
      /\ c = Conf(Append(b, f), w) /\ d = Conf(Append(e, g), w)
  BY DEF Tops
<1>2. b \in Seq(Frames) /\ e \in Seq(Frames) /\ f \in Frames /\ g \in Frames
  BY <1>1, BeneathIs, AlikeIs
<1>3. J!Turned(c, h) = Conf(Append(b, h), w) /\ J!Turned(d, k) = Conf(Append(e, k), w)
  BY <1>1, <1>2, TopIs
<1>4. Above(b, h)
  BY <1>1 DEF Above
<1>5. Tops(J!Turned(c, h), J!Turned(d, k), b, e, h, k, w)
  BY <1>1, <1>3, <1>4 DEF Tops
<1> QED
  BY <1>5, TopsIs

\* What the bytes of a string set together.
StHex(f, s, h) == [f EXCEPT !.st = s, !.hex = h]

\* Writing state and hex digits, and counting one more.
StHexCount(f, s, h) == [f EXCEPT !.st = s, !.hex = h, !.count = @ + 1]

\* Writing state and hex digits alike keeps frames alike.
LEMMA AlikeStHex ==
  ASSUME NEW f, NEW g, Alike(f, g), NEW s \in States, s \in StatesOf(f.kind), NEW h \in Int
  PROVE  Alike(StHex(f, s, h), StHex(g, s, h)) /\ StHex(f, s, h).kind = f.kind
<1> DEFINE t == [f EXCEPT !.st = s]
           u == [g EXCEPT !.st = s]
           x == [t EXCEPT !.hex = h]
           y == [u EXCEPT !.hex = h]
<1>1. Alike(t, u) /\ t.kind = f.kind
  BY AlikeSt
<1>2. Alike(x, y) /\ x.kind = t.kind
  <2> HIDE DEF t, u
  <2> QED
    BY <1>1, AlikeHex
<1>3. StHex(f, s, h) = x /\ StHex(g, s, h) = y
  BY DEF StHex
<1> HIDE DEF t, x, y
<1> QED
  BY <1>1, <1>2, <1>3

\* Writing state and hex digits alike and counting one more keeps frames alike.
LEMMA AlikeStHexCount ==
  ASSUME NEW f, NEW g, Alike(f, g), NEW s \in States, s \in StatesOf(f.kind), NEW h \in Int
  PROVE  Alike(StHexCount(f, s, h), StHexCount(g, s, h)) /\ StHexCount(f, s, h).kind = f.kind
<1> DEFINE t == StHex(f, s, h)
           u == StHex(g, s, h)
           x == [t EXCEPT !.count = @ + 1]
           y == [u EXCEPT !.count = @ + 1]
<1>1. Alike(t, u) /\ t.kind = f.kind
  BY AlikeStHex
<1>2. Alike(x, y) /\ x.kind = t.kind
  <2> HIDE DEF t, u
  <2> QED
    BY <1>1, AlikeCount
<1>4. f \in FrameRecords /\ g \in FrameRecords
  BY AlikeIs
<1>3. StHexCount(f, s, h) = x /\ StHexCount(g, s, h) = y
  BY <1>4 DEF FrameRecords, StHex, StHexCount
<1> HIDE DEF t, x, y
<1> QED
  BY <1>1, <1>2, <1>3

\* What is asked of a count that may differ has one answer.
LEMMA CountTests ==
  ASSUME NEW f, NEW g, Alike(f, g), f.kind \in {"string", "array"}
  PROVE  /\ f.count >= f.of.min <=> g.count >= f.of.min
         /\ f.of.max # J!NoLimit => (f.count >= f.of.max <=> g.count >= f.of.max)
         /\ f.of.max # J!NoLimit => (f.count < f.of.max <=> g.count < f.of.max)
<1>1. f.of \in Nodes /\ f.of.kind = f.kind /\ f.count \in Nat /\ g.count \in Nat
  BY AlikeIs
<1>2. f.of.min \in Int /\ f.of.max \in Int
  <2>1. PICK s \in Subschemas : f.of = J!Node(s)
    BY <1>1 DEF Nodes
  <2> QED
    BY <1>1, <2>1, SchemaAssumption
<1>3. J!Uncounted(f) => f.of.max = J!NoLimit /\ f.of.min <= 0
  BY DEF J!Uncounted
<1>4. J!Uncounted(f) \/ f.count = g.count
  BY DEF Alike
<1> QED
  BY <1>1, <1>2, <1>3, <1>4

\* A byte of a string.
LEMMA StringTwins ==
  ASSUME NEW c, NEW d, NEW b, NEW e, NEW f, NEW g, NEW w, Tops(c, d, b, e, f, g, w),
         f.kind = "string", NEW x
  PROVE  TwinLists(J!String(c, x), J!String(d, x))
<1>1. /\ J!Top(c) = f /\ J!Top(d) = g /\ Alike(f, g) /\ Twins(c, d) /\ Twins(J!Popped(c), J!Popped(d))
  BY TopsIs
<1>2. f.st \in StringStates /\ g.st = f.st /\ g.hex = f.hex /\ g.of = f.of /\ f.hex \in Int
  BY <1>1, AlikeIs DEF StatesOf
<1>3. StringStates \subseteq States /\ StringStates = StatesOf(f.kind) /\ StringStates = {"text", "escape", "hex"}
  BY DEF States, StatesOf, StringStates
<1>4. CASE f.st = "hex"
  <2> DEFINE s == IF f.hex = 1 THEN "text" ELSE "hex"
             v == f.hex - 1
             h == [f EXCEPT !.hex = v, !.st = s]
             k == [g EXCEPT !.hex = v, !.st = s]
  <2>1. s \in States /\ s \in StatesOf(f.kind) /\ v \in Int
    BY <1>2, <1>3
  <2>2. Alike(h, k) /\ h.kind = f.kind
    <3>1. f \in FrameRecords /\ g \in FrameRecords
      BY <1>1, AlikeIs
    <3>2. h = StHex(f, s, v) /\ k = StHex(g, s, v)
      BY <3>1 DEF StHex, FrameRecords
    <3> HIDE DEF s, v, h, k
    <3> QED
      BY <1>1, <2>1, <3>2, AlikeStHex
  <2>3. J!String(c, x) = J!One(x \in J!Hex, J!Turned(c, h)) /\ J!String(d, x) = J!One(x \in J!Hex, J!Turned(d, k))
    BY <1>1, <1>2, <1>4 DEF J!String
  <2> HIDE DEF h, k
  <2> QED
    BY <2>2, <2>3, TopsTurned, TwinsOne
<1> DEFINE Counts(s, v) == J!Turned(c, [f EXCEPT !.st = s, !.hex = v, !.count = @ + 1])
           Also(s, v) == J!Turned(d, [g EXCEPT !.st = s, !.hex = v, !.count = @ + 1])
<1>5. ASSUME NEW s \in StringStates, NEW v \in Int
      PROVE  TwinLists(<<Counts(s, v)>>, <<Also(s, v)>>)
  <2> DEFINE h == [f EXCEPT !.st = s, !.hex = v, !.count = @ + 1]
             k == [g EXCEPT !.st = s, !.hex = v, !.count = @ + 1]
  <2>0. h = StHexCount(f, s, v) /\ k = StHexCount(g, s, v)
    BY DEF StHexCount
  <2> HIDE DEF h, k
  <2>a. s \in States /\ s \in StatesOf(f.kind)
    BY <1>3
  <2>1. Alike(h, k) /\ h.kind = f.kind
    BY <1>1, <2>0, <2>a, AlikeStHexCount
  <2>2. Twins(J!Turned(c, h), J!Turned(d, k))
    BY <2>1, TopsTurned
  <2>3. TwinLists(<<J!Turned(c, h)>>, <<J!Turned(d, k)>>)
    BY <2>2, TwinsLone
  <2> QED
    BY <2>3 DEF h, k
<1>6. CASE f.st = "escape"
  <2>1. J!String(c, x) = IF x = "u" THEN <<Counts("hex", 4)>>
                        ELSE IF x \in J!Escapable THEN <<Counts("text", 0)>> ELSE <<>>
    BY <1>1, <1>6 DEF J!String
  <2>2. J!String(d, x) = IF x = "u" THEN <<Also("hex", 4)>>
                        ELSE IF x \in J!Escapable THEN <<Also("text", 0)>> ELSE <<>>
    BY <1>1, <1>2, <1>6 DEF J!String
  <2>3. "hex" \in StringStates /\ "text" \in StringStates
    BY DEF StringStates
  <2> HIDE DEF Counts, Also
  <2> QED
    BY <1>5, <2>1, <2>2, <2>3, TwinsNone
<1>7. CASE f.st = "text"
  <2> DEFINE full == f.of.max # J!NoLimit /\ f.count >= f.of.max
             h == [f EXCEPT !.st = "escape"]
             k == [g EXCEPT !.st = "escape"]
  <2>0. /\ full <=> (f.of.max # J!NoLimit /\ g.count >= f.of.max)
        /\ f.count >= f.of.min <=> g.count >= f.of.min
    BY <1>1, CountTests
  <2>1. J!String(c, x) =
          IF x = J!Quote THEN J!One(f.count >= f.of.min, J!Popped(c))
          ELSE IF x \in J!Control THEN <<>>
          ELSE IF x = J!Escape THEN J!One(~full, J!Turned(c, h))
          ELSE IF x \in Continuation THEN <<c>>
          ELSE IF full THEN <<>> ELSE <<Counts("text", 0)>>
    BY <1>1, <1>7 DEF J!String
  <2>2. J!String(d, x) =
          IF x = J!Quote THEN J!One(f.count >= f.of.min, J!Popped(d))
          ELSE IF x \in J!Control THEN <<>>
          ELSE IF x = J!Escape THEN J!One(~full, J!Turned(d, k))
          ELSE IF x \in Continuation THEN <<d>>
          ELSE IF full THEN <<>> ELSE <<Also("text", 0)>>
    <3> HIDE DEF Also
    <3>1. J!String(d, x) =
          IF x = J!Quote THEN J!One(g.count >= f.of.min, J!Popped(d))
          ELSE IF x \in J!Control THEN <<>>
          ELSE IF x = J!Escape THEN J!One(~(f.of.max # J!NoLimit /\ g.count >= f.of.max), J!Turned(d, k))
          ELSE IF x \in Continuation THEN <<d>>
          ELSE IF f.of.max # J!NoLimit /\ g.count >= f.of.max THEN <<>> ELSE <<Also("text", 0)>>
      BY <1>1, <1>2, <1>7 DEF J!String, Also
    <3> HIDE DEF k
    <3> QED
      BY <2>0, <3>1 DEF J!One
  <2>3. Alike(h, k) /\ h.kind = f.kind
    <3>1. "escape" \in States /\ "escape" \in StatesOf(f.kind)
      BY <1>3
    <3> QED
      BY <1>1, <3>1, AlikeSt
  <2>4. Twins(J!Turned(c, h), J!Turned(d, k))
    <3> HIDE DEF h, k
    <3> QED
      BY <2>3, TopsTurned
  <2>5. "text" \in StringStates
    BY DEF StringStates
  <2> HIDE DEF Counts, Also, full, h, k
  <2> QED
    BY <1>1, <1>5, <2>1, <2>2, <2>4, <2>5, TwinsNone, TwinsLone, TwinsOne
<1> QED
  BY <1>2, <1>3, <1>4, <1>6, <1>7

-----------------------------------------------------------------------------
(* Bytes of a number, of a literal and of a key.                           *)

\* A byte of a number.
LEMMA DigitsTwins ==
  ASSUME NEW c, NEW d, NEW b, NEW e, NEW f, NEW g, NEW w, Tops(c, d, b, e, f, g, w),
         f.kind = "number", NEW x
  PROVE  TwinLists(J!Digits(c, x), J!Digits(d, x))
<1>1. J!Top(c) = f /\ J!Top(d) = g /\ Alike(f, g)
  BY TopsIs
<1>2. g.st = f.st /\ g.of = f.of
  BY <1>1, AlikeIs
<1> DEFINE v == J!NumberTo(f.st, f.of.whole, x)
           h == [f EXCEPT !.st = v]
           k == [g EXCEPT !.st = v]
<1>3. v \in NumberStates \cup {"none"}
  BY DEF J!NumberTo, NumberStates
<1>4. J!Digits(c, x) = J!One(v # "none", J!Turned(c, h)) /\ J!Digits(d, x) = J!One(v # "none", J!Turned(d, k))
  BY <1>1, <1>2 DEF J!Digits
<1> HIDE DEF v
<1>5. v # "none" => v \in States /\ v \in StatesOf(f.kind)
  BY <1>3 DEF States, StatesOf
<1>6. v # "none" => Alike(h, k) /\ h.kind = f.kind
  BY <1>1, <1>5, AlikeSt
<1> HIDE DEF h, k
<1>7. v # "none" => Twins(J!Turned(c, h), J!Turned(d, k))
  BY <1>6, TopsTurned
<1> QED
  BY <1>4, <1>7, TwinsOne

\* A byte of a literal.
LEMMA LettersTwins ==
  ASSUME NEW c, NEW d, NEW b, NEW e, NEW f, NEW g, NEW w, Tops(c, d, b, e, f, g, w),
         NEW x \in Bytes
  PROVE  TwinLists(J!Letters(c, x), J!Letters(d, x))
<1>1. J!Top(c) = f /\ J!Top(d) = g /\ Alike(f, g) /\ Twins(J!Popped(c), J!Popped(d))
  BY TopsIs
<1>2. g.text = f.text /\ g.of = f.of /\ f.text \in Seq(Bytes)
  BY <1>1, AlikeIs
<1> DEFINE v == Append(f.text, x)
           h == [f EXCEPT !.text = v]
           k == [g EXCEPT !.text = v]
           p == \E t \in f.of.texts : J!IsStrictPrefix(v, t)
<1>3. v \in Seq(Bytes)
  BY <1>2, AppendProperties
<1>4. /\ J!Letters(c, x) = IF p THEN <<J!Turned(c, h)>> ELSE J!One(v \in f.of.texts, J!Popped(c))
      /\ J!Letters(d, x) = IF p THEN <<J!Turned(d, k)>> ELSE J!One(v \in f.of.texts, J!Popped(d))
  BY <1>1, <1>2 DEF J!Letters
<1> HIDE DEF v, p
<1>5. Alike(h, k) /\ h.kind = f.kind
  BY <1>1, <1>3, AlikeText
<1> HIDE DEF h, k
<1>6. Twins(J!Turned(c, h), J!Turned(d, k))
  BY <1>5, TopsTurned
<1>7. TwinLists(<<J!Turned(c, h)>>, <<J!Turned(d, k)>>)
  BY <1>6, TwinsLone
<1>8. TwinLists(J!One(v \in f.of.texts, J!Popped(c)), J!One(v \in f.of.texts, J!Popped(d)))
  BY <1>1, TwinsOne
<1> QED
  BY <1>4, <1>7, <1>8

-----------------------------------------------------------------------------
\* What the bytes of a key and those between members set together.
StText(f, s, t) == [f EXCEPT !.st = s, !.text = t]

\* The frame of an object whose key is read.
OfKey(f, s, key) == [f EXCEPT !.st = "colon", !.child = s, !.text = <<>>, !.used = @ \cup key]

\* Writing state and text alike keeps frames alike.
LEMMA AlikeStText ==
  ASSUME NEW f, NEW g, Alike(f, g), NEW s \in States, s \in StatesOf(f.kind), NEW v \in Seq(Bytes)
  PROVE  Alike(StText(f, s, v), StText(g, s, v)) /\ StText(f, s, v).kind = f.kind
<1> DEFINE t == [f EXCEPT !.st = s]
           u == [g EXCEPT !.st = s]
           x == [t EXCEPT !.text = v]
           y == [u EXCEPT !.text = v]
<1>1. Alike(t, u) /\ t.kind = f.kind
  BY AlikeSt
<1>2. Alike(x, y) /\ x.kind = t.kind
  <2> HIDE DEF t, u
  <2> QED
    BY <1>1, AlikeText
<1>3. StText(f, s, v) = x /\ StText(g, s, v) = y
  BY DEF StText
<1> HIDE DEF t, x, y
<1> QED
  BY <1>1, <1>2, <1>3

\* Reading the same key keeps objects alike.
LEMMA AlikeOfKey ==
  ASSUME NEW f, NEW g, Alike(f, g), f.kind = "object", NEW s \in Subschemas, NEW key \in KeySets
  PROVE  Alike(OfKey(f, s, key), OfKey(g, s, key)) /\ OfKey(f, s, key).kind = f.kind
<1> DEFINE none == <<>>
           used == f.used \cup key
<1>1. "colon" \in States /\ "colon" \in StatesOf(f.kind) /\ none \in Seq(Bytes)
  BY EmptySeq DEF States, StatesOf, ObjectStates
<1>2. f \in FrameRecords /\ g \in FrameRecords /\ used \in KeySets /\ g.used = f.used
  BY AlikeIs DEF KeySets
<1> HIDE DEF none
<1> DEFINE h1 == StText(f, "colon", none)
           k1 == StText(g, "colon", none)
           h2 == [h1 EXCEPT !.child = s]
           k2 == [k1 EXCEPT !.child = s]
           h3 == [h2 EXCEPT !.used = used]
           k3 == [k2 EXCEPT !.used = used]
<1>3. Alike(h1, k1) /\ h1.kind = f.kind
  BY <1>1, AlikeStText
<1>6. OfKey(f, s, key) = h3 /\ OfKey(g, s, key) = k3
  BY <1>2 DEF OfKey, StText, none, FrameRecords
<1> HIDE DEF h1, k1, used
<1>4. Alike(h2, k2) /\ h2.kind = f.kind
  BY <1>3, AlikeChild
<1> HIDE DEF h2, k2
<1>5. Alike(h3, k3) /\ h3.kind = f.kind
  BY <1>2, <1>4, AlikeUsed
<1> HIDE DEF h3, k3
<1> QED
  BY <1>5, <1>6

\* Reading the same key keeps twins.
LEMMA KeyReadTwins ==
  ASSUME NEW c, NEW d, NEW b, NEW e, NEW f, NEW g, NEW w, Tops(c, d, b, e, f, g, w),
         f.kind = "object", NEW s \in Subschemas, NEW key \in KeySets
  PROVE  TwinLists(J!KeyRead(c, f, s, key), J!KeyRead(d, g, s, key))
<1>1. Alike(f, g)
  BY TopsIs
<1>2. Alike(OfKey(f, s, key), OfKey(g, s, key)) /\ OfKey(f, s, key).kind = f.kind
  BY <1>1, AlikeOfKey
<1>3. /\ J!KeyRead(c, f, s, key) = <<J!Turned(c, OfKey(f, s, key))>>
      /\ J!KeyRead(d, g, s, key) = <<J!Turned(d, OfKey(g, s, key))>>
  BY DEF J!KeyRead, OfKey
<1>4. Twins(J!Turned(c, OfKey(f, s, key)), J!Turned(d, OfKey(g, s, key)))
  BY <1>2, TopsTurned
<1> QED
  BY <1>3, <1>4, TwinsLone

\* A turn of the tops to frames alike makes a list of twins.
LEMMA TurnedTwins ==
  ASSUME NEW c, NEW d, NEW b, NEW e, NEW f, NEW g, NEW w, Tops(c, d, b, e, f, g, w),
         NEW s \in States, s \in StatesOf(f.kind), NEW v \in Seq(Bytes), NEW i \in Int
  PROVE  /\ Twins(J!Turned(c, StText(f, s, v)), J!Turned(d, StText(g, s, v)))
         /\ Twins(J!Turned(c, StHex(f, s, i)), J!Turned(d, StHex(g, s, i)))
<1>1. Alike(f, g)
  BY TopsIs
<1>2. Alike(StText(f, s, v), StText(g, s, v)) /\ StText(f, s, v).kind = f.kind
  BY <1>1, AlikeStText
<1>3. Alike(StHex(f, s, i), StHex(g, s, i)) /\ StHex(f, s, i).kind = f.kind
  BY <1>1, AlikeStHex
<1>4. Twins(J!Turned(c, StText(f, s, v)), J!Turned(d, StText(g, s, v)))
  BY <1>2, TopsTurned
<1>5. Twins(J!Turned(c, StHex(f, s, i)), J!Turned(d, StHex(g, s, i)))
  BY <1>3, TopsTurned
<1> QED
  BY <1>4, <1>5

\* What an object's node says of its members is a schema.
LEMMA MembersAre ==
  ASSUME NEW f, NEW g, Alike(f, g), f.kind = "object"
  PROVE  /\ f.of.others \in Subschemas /\ g.of = f.of /\ g.used = f.used
         /\ \A key \in J!Free(f) : f.of.prop[key] \in Subschemas
<1>1. f.of \in Nodes /\ f.of.kind = "object" /\ g.of = f.of /\ g.used = f.used
  BY AlikeIs
<1>2. PICK s \in Subschemas : f.of = J!Node(s)
  BY <1>1 DEF Nodes
<1>3. f.of.prop \in [f.of.keys -> Subschemas] /\ f.of.others \in Subschemas
  BY <1>1, <1>2, SchemaAssumption
<1>4. J!Free(f) \subseteq f.of.keys
  BY DEF J!Free
<1> QED
  BY <1>1, <1>3, <1>4

\* A byte of a listed key.
LEMMA KeyTwins ==
  ASSUME NEW c, NEW d, NEW b, NEW e, NEW f, NEW g, NEW w, Tops(c, d, b, e, f, g, w),
         f.kind = "object", NEW x \in Bytes
  PROVE  TwinLists(J!Key(c, x), J!Key(d, x))
<1>1. J!Top(c) = f /\ J!Top(d) = g /\ Alike(f, g) /\ Twins(c, d)
  BY TopsIs
<1>2. g.text = f.text /\ f.text \in Seq(Bytes)
  BY <1>1, AlikeIs
<1>3. /\ f.of.others \in Subschemas /\ g.of = f.of /\ g.used = f.used
      /\ \A key \in J!Free(f) : f.of.prop[key] \in Subschemas
  BY <1>1, MembersAre
<1>4. J!Free(g) = J!Free(f)
  BY <1>3 DEF J!Free
<1> DEFINE v == Append(f.text, x)
           none == <<>>
           h == [f EXCEPT !.text = v]
           k == [g EXCEPT !.text = v]
           p == \E key \in J!Free(f) : J!IsPrefix(v, key)
           q == f.of.extra /\ x \notin J!Control \cup {J!Escape}
           X == J!KeyRead(c, f, f.of.prop[f.text], {f.text})
           Y == J!KeyRead(d, g, f.of.prop[f.text], {f.text})
           V == J!KeyRead(c, f, f.of.others, {})
           Z == J!KeyRead(d, g, f.of.others, {})
<1>5. J!Key(c, x) =
        IF x = J!Quote THEN IF f.text \in J!Free(f) THEN X ELSE IF f.of.extra THEN V ELSE <<>>
        ELSE IF p THEN <<J!Turned(c, h)>> ELSE J!One(q, J!Turned(c, StText(f, "other", none)))
  BY <1>1 DEF J!Key, StText
<1>6. J!Key(d, x) =
        IF x = J!Quote THEN IF f.text \in J!Free(f) THEN Y ELSE IF f.of.extra THEN Z ELSE <<>>
        ELSE IF p THEN <<J!Turned(d, k)>> ELSE J!One(q, J!Turned(d, StText(g, "other", none)))
  BY <1>1, <1>2, <1>3, <1>4 DEF J!Key, StText
<1>7. v \in Seq(Bytes) /\ none \in Seq(Bytes)
  BY <1>2, AppendProperties, EmptySeq
<1>8. "other" \in States /\ "other" \in StatesOf(f.kind)
  BY DEF States, StatesOf, ObjectStates
<1> HIDE DEF v, none, p, q
<1>9. Alike(h, k) /\ h.kind = f.kind
  BY <1>1, <1>7, AlikeText
<1>10. {f.text} \in KeySets /\ {} \in KeySets
  BY <1>2 DEF KeySets
<1>11. f.text \in J!Free(f) => TwinLists(X, Y)
  BY <1>3, <1>10, KeyReadTwins
<1>12. TwinLists(V, Z)
  <2> DEFINE z == {}
  <2>1. z \in KeySets
    BY <1>10
  <2> HIDE DEF z
  <2>2. TwinLists(J!KeyRead(c, f, f.of.others, z), J!KeyRead(d, g, f.of.others, z))
    BY <1>3, <2>1, KeyReadTwins
  <2> QED
    BY <2>2 DEF z
<1>13. Twins(J!Turned(c, StText(f, "other", none)), J!Turned(d, StText(g, "other", none)))
  <2>1. 0 \in Int
    OBVIOUS
  <2> QED
    BY <1>7, <1>8, <2>1, TurnedTwins
<1> HIDE DEF h, k, X, Y, V, Z
<1>14. Twins(J!Turned(c, h), J!Turned(d, k))
  BY <1>9, TopsTurned
<1>15. TwinLists(<<J!Turned(c, h)>>, <<J!Turned(d, k)>>)
  BY <1>14, TwinsLone
<1>16. TwinLists(J!One(q, J!Turned(c, StText(f, "other", none))), J!One(q, J!Turned(d, StText(g, "other", none))))
  BY <1>13, TwinsOne
<1> QED
  BY <1>5, <1>6, <1>11, <1>12, <1>15, <1>16, TwinsNone

\* A byte of another key.
LEMMA OtherKeyTwins ==
  ASSUME NEW c, NEW d, NEW b, NEW e, NEW f, NEW g, NEW w, Tops(c, d, b, e, f, g, w),
         f.kind = "object", f.st \in {"other", "otherEscape", "otherHex"}, NEW x
  PROVE  TwinLists(J!OtherKey(c, x), J!OtherKey(d, x))
<1>1. J!Top(c) = f /\ J!Top(d) = g /\ Alike(f, g) /\ Twins(c, d)
  BY TopsIs
<1>2. g.st = f.st /\ g.hex = f.hex /\ f.hex \in Int
  BY <1>1, AlikeIs
<1>3. f.of.others \in Subschemas /\ g.of = f.of
  BY <1>1, MembersAre
<1> DEFINE To(s, v) == <<J!Turned(c, StHex(f, s, v))>>
           Also(s, v) == <<J!Turned(d, StHex(g, s, v))>>
           V == J!KeyRead(c, f, f.of.others, {})
           Z == J!KeyRead(d, g, f.of.others, {})
<1>4. ASSUME NEW s \in {"other", "otherEscape", "otherHex"}, NEW v \in Int
      PROVE  TwinLists(To(s, v), Also(s, v))
  <2>1. s \in States /\ s \in StatesOf(f.kind)
    BY DEF States, StatesOf, ObjectStates
  <2>3. <<>> \in Seq(Bytes)
    BY EmptySeq
  <2>2. Twins(J!Turned(c, StHex(f, s, v)), J!Turned(d, StHex(g, s, v)))
    BY <2>1, <2>3, TurnedTwins
  <2> QED
    BY <2>2, TwinsLone
<1>5. TwinLists(V, Z)
  <2> DEFINE z == {}
  <2>1. z \in KeySets
    BY DEF KeySets
  <2> HIDE DEF z
  <2>2. TwinLists(J!KeyRead(c, f, f.of.others, z), J!KeyRead(d, g, f.of.others, z))
    BY <1>3, <2>1, KeyReadTwins
  <2> QED
    BY <2>2 DEF z
<1>6. TwinLists(<<c>>, <<d>>)
  BY <1>1, TwinsLone
<1> HIDE DEF V, Z
<1>7. CASE f.st = "otherHex"
  <2> DEFINE s == IF f.hex = 1 THEN "other" ELSE "otherHex"
             v == f.hex - 1
  <2>1. /\ J!OtherKey(c, x) = IF x \in J!Hex THEN To(s, v) ELSE <<>>
        /\ J!OtherKey(d, x) = IF x \in J!Hex THEN Also(s, v) ELSE <<>>
    BY <1>1, <1>2, <1>7 DEF J!OtherKey, StHex
  <2>2. s \in {"other", "otherEscape", "otherHex"} /\ v \in Int
    BY <1>2
  <2> HIDE DEF s, v, To, Also
  <2> QED
    BY <1>4, <2>1, <2>2, TwinsNone
<1>8. CASE f.st = "otherEscape"
  <2>1. /\ J!OtherKey(c, x) = IF x = "u" THEN To("otherHex", 4)
                            ELSE IF x \in J!Escapable THEN To("other", 0) ELSE <<>>
        /\ J!OtherKey(d, x) = IF x = "u" THEN Also("otherHex", 4)
                            ELSE IF x \in J!Escapable THEN Also("other", 0) ELSE <<>>
    BY <1>1, <1>2, <1>8 DEF J!OtherKey, StHex
  <2>2. TwinLists(To("otherHex", 4), Also("otherHex", 4)) /\ TwinLists(To("other", 0), Also("other", 0))
    BY <1>4
  <2> HIDE DEF To, Also
  <2> QED
    BY <2>1, <2>2, TwinsNone
<1>9. CASE f.st = "other"
  <2>1. J!OtherKey(c, x) = IF x = J!Quote THEN V ELSE IF x = J!Escape THEN To("otherEscape", 0)
                           ELSE IF x \in J!Control THEN <<>> ELSE <<c>>
    BY <1>1, <1>9 DEF J!OtherKey, StHex, V
  <2>3. J!OtherKey(d, x) = IF x = J!Quote THEN Z ELSE IF x = J!Escape THEN Also("otherEscape", 0)
                           ELSE IF x \in J!Control THEN <<>> ELSE <<d>>
    BY <1>1, <1>2, <1>3, <1>9 DEF J!OtherKey, StHex, Z
  <2>2. TwinLists(To("otherEscape", 0), Also("otherEscape", 0))
    BY <1>4
  <2> HIDE DEF To, Also
  <2> QED
    BY <1>5, <1>6, <2>1, <2>2, <2>3, TwinsNone
<1> QED
  BY <1>7, <1>8, <1>9

-----------------------------------------------------------------------------
(* Bytes between the members of an object; many lists joined.              *)

\* A frame that has just been pushed.
LEMMA FrameAlike ==
  ASSUME NEW kind \in Kinds, NEW s \in States, s \in StatesOf(kind), NEW n \in Nodes \cup Subschemas,
         kind = "value" => n \in Subschemas,
         kind \in {"object", "array", "string"} => n \in Nodes /\ n.kind = kind
  PROVE  Alike(J!Frame(kind, s, n), J!Frame(kind, s, n)) /\ J!Frame(kind, s, n).kind = kind
<1> DEFINE f == J!Frame(kind, s, n)
<1>1. <<>> \in Seq(Bytes) /\ {} \in KeySets /\ J!AnyJson \in Subschemas
  BY EmptySeq, SchemaAssumption DEF KeySets
<1>2. f \in FrameRecords /\ f.kind = kind /\ f.st = s /\ f.of = n
  BY <1>1 DEF J!Frame, FrameRecords
<1> HIDE DEF f
<1>3. f \in Frames
  BY <1>2 DEF Frames, Fits
<1>4. Alike(f, f)
  BY <1>3 DEF Alike
<1> QED
  BY <1>2, <1>4 DEF f

\* A value of a schema, not begun.
LEMMA ValueAlike ==
  ASSUME NEW s \in Subschemas
  PROVE  Alike(J!Frame("value", "", s), J!Frame("value", "", s)) /\ J!Frame("value", "", s).kind = "value"
<1>1. "" \in States /\ "" \in StatesOf("value") /\ "value" \in Kinds /\ s \in Nodes \cup Subschemas
  BY DEF States, StatesOf, Kinds
<1> QED
  BY <1>1, FrameAlike

\* A byte between the members of an object.
LEMMA MemberTwins ==
  ASSUME NEW c, NEW d, NEW b, NEW e, NEW f, NEW g, NEW w, Tops(c, d, b, e, f, g, w),
         f.kind = "object", NEW x
  PROVE  TwinLists(J!Member(c, x), J!Member(d, x))
<1>1. J!Top(c) = f /\ J!Top(d) = g /\ Alike(f, g) /\ TwinLists(J!Blank(c), J!Blank(d))
  BY TopsIs
<1>2. g.st = f.st /\ g.child = f.child /\ f.child \in Subschemas
  BY <1>1, AlikeIs
<1>3. g.of = f.of /\ g.used = f.used
  BY <1>1, MembersAre
<1>4. J!Free(g) = J!Free(f) /\ J!Complete(g) = J!Complete(f) /\ J!MoreKeys(g) = J!MoreKeys(f)
  BY <1>3 DEF J!Free, J!Complete, J!MoreKeys
<1> DEFINE none == <<>>
           m == J!Tight(c)
           n == J!Tight(d)
           To(s) == J!Turned(m, StText(f, s, none))
           Also(s) == J!Turned(n, StText(g, s, none))
           v == J!Frame("value", "", f.child)
<1>5. Tops(m, n, b, e, f, g, 0)
  BY TopsIs
<1>6. none \in Seq(Bytes)
  BY EmptySeq
<1>7. J!Member(c, x) =
        CASE x \in J!Space -> J!Blank(c)
          [] x = J!Quote /\ f.st \in {"open", "next"} ->
               IF J!Free(f) # {} THEN <<To("key")>> ELSE J!One(f.of.extra, To("other"))
          [] x = "}" /\ f.st \in {"open", "comma"} -> J!One(J!Complete(f), J!Popped(m))
          [] x = ":" /\ f.st = "colon" -> <<J!Pushed(To("comma"), v)>>
          [] x = "," /\ f.st = "comma" -> J!One(J!MoreKeys(f), To("next"))
          [] OTHER -> <<>>
  BY <1>1 DEF J!Member, StText
<1>8. J!Member(d, x) =
        CASE x \in J!Space -> J!Blank(d)
          [] x = J!Quote /\ f.st \in {"open", "next"} ->
               IF J!Free(f) # {} THEN <<Also("key")>> ELSE J!One(f.of.extra, Also("other"))
          [] x = "}" /\ f.st \in {"open", "comma"} -> J!One(J!Complete(f), J!Popped(n))
          [] x = ":" /\ f.st = "colon" -> <<J!Pushed(Also("comma"), v)>>
          [] x = "," /\ f.st = "comma" -> J!One(J!MoreKeys(f), Also("next"))
          [] OTHER -> <<>>
  BY <1>1, <1>2, <1>3, <1>4 DEF J!Member, StText
<1> HIDE DEF m, n, none
<1>9. ASSUME NEW s \in {"key", "other", "comma", "next"}
      PROVE  Twins(To(s), Also(s)) /\ Tops(To(s), Also(s), b, e, StText(f, s, none), StText(g, s, none), 0)
             /\ Alike(StText(f, s, none), StText(g, s, none)) /\ StText(f, s, none).kind = f.kind
  <2>1. s \in States /\ s \in StatesOf(f.kind)
    BY DEF States, StatesOf, ObjectStates
  <2>2. Alike(StText(f, s, none), StText(g, s, none)) /\ StText(f, s, none).kind = f.kind
    BY <1>1, <1>6, <2>1, AlikeStText
  <2> QED
    BY <1>5, <2>2, TopsTurned
<1>10. Twins(J!Popped(m), J!Popped(n))
  BY <1>5, TopsIs
<1>11. Twins(J!Pushed(To("comma"), v), J!Pushed(Also("comma"), v))
  <2> DEFINE h == StText(f, "comma", none)
             k == StText(g, "comma", none)
  <2>1. /\ Tops(To("comma"), Also("comma"), b, e, h, k, 0) /\ Alike(h, k) /\ h.kind = f.kind
    BY <1>9
  <2> HIDE DEF h, k
  <2>2. /\ Beneath(b, e) /\ Len(b) < MaxDepth /\ 0 \in Blanks
        /\ To("comma") = Conf(Append(b, h), 0) /\ Also("comma") = Conf(Append(e, k), 0)
    BY <2>1 DEF Tops, Above
  <2>3. Alike(v, v) /\ v.kind = "value"
    BY <1>2, ValueAlike
  <2> HIDE DEF To, Also, v
  <2> DEFINE p == Append(b, h)
             q == Append(e, k)
  <2>4. Beneath(p, q)
    BY <2>1, <2>2, BeneathPush DEF Outer
  <2>5. To("comma") = Conf(p, 0) /\ Also("comma") = Conf(q, 0)
    BY <2>2
  <2> HIDE DEF p, q
  <2>6. p \in Seq(Frames) /\ q \in Seq(Frames)
    BY <2>4, BeneathIs
  <2>7. /\ J!Pushed(To("comma"), v) = Conf(Append(p, v), 0)
        /\ J!Pushed(Also("comma"), v) = Conf(Append(q, v), 0)
    BY <2>2, <2>5, <2>6, PushedIs
  <2>8. Above(p, v)
    BY <2>3 DEF Above
  <2> QED
    BY <2>2, <2>3, <2>4, <2>7, <2>8, TwinsTop
<1>12. /\ Twins(To("key"), Also("key")) /\ Twins(To("other"), Also("other")) /\ Twins(To("next"), Also("next"))
  BY <1>9
<1> HIDE DEF To, Also, v
<1>13. /\ TwinLists(<<To("key")>>, <<Also("key")>>)
       /\ TwinLists(J!One(f.of.extra, To("other")), J!One(f.of.extra, Also("other")))
       /\ TwinLists(J!One(J!Complete(f), J!Popped(m)), J!One(J!Complete(f), J!Popped(n)))
       /\ TwinLists(<<J!Pushed(To("comma"), v)>>, <<J!Pushed(Also("comma"), v)>>)
       /\ TwinLists(J!One(J!MoreKeys(f), To("next")), J!One(J!MoreKeys(f), Also("next")))
  BY <1>10, <1>11, <1>12, TwinsOne, TwinsLone
<1> DEFINE C1 == <<To("key")>>
           D1 == <<Also("key")>>
           C2 == J!One(f.of.extra, To("other"))
           D2 == J!One(f.of.extra, Also("other"))
           C3 == J!One(J!Complete(f), J!Popped(m))
           D3 == J!One(J!Complete(f), J!Popped(n))
           C4 == <<J!Pushed(To("comma"), v)>>
           D4 == <<J!Pushed(Also("comma"), v)>>
           C5 == J!One(J!MoreKeys(f), To("next"))
           D5 == J!One(J!MoreKeys(f), Also("next"))
           C0 == J!Blank(c)
           D0 == J!Blank(d)
           p1 == x \in J!Space
           p2 == x = J!Quote /\ f.st \in {"open", "next"}
           p3 == x = "}" /\ f.st \in {"open", "comma"}
           p4 == x = ":" /\ f.st = "colon"
           p5 == x = "," /\ f.st = "comma"
           p6 == J!Free(f) # {}
           X == J!Member(c, x)
           Y == J!Member(d, x)
           z == <<>>
<1>14. /\ TwinLists(C0, D0) /\ TwinLists(C1, D1) /\ TwinLists(C2, D2) /\ TwinLists(C3, D3)
       /\ TwinLists(C4, D4) /\ TwinLists(C5, D5) /\ TwinLists(z, z)
  BY <1>1, <1>13, TwinsNone
<1>15. X = CASE p1 -> C0 [] p2 -> IF p6 THEN C1 ELSE C2 [] p3 -> C3 [] p4 -> C4 [] p5 -> C5 [] OTHER -> z
  BY <1>7
<1>16. Y = CASE p1 -> D0 [] p2 -> IF p6 THEN D1 ELSE D2 [] p3 -> D3 [] p4 -> D4 [] p5 -> D5 [] OTHER -> z
  BY <1>8
<1>17. ~(p1 /\ (p2 \/ p3 \/ p4 \/ p5)) /\ ~(p2 /\ (p3 \/ p4 \/ p5)) /\ ~(p3 /\ (p4 \/ p5)) /\ ~(p4 /\ p5)
  BY DEF J!Space, J!Quote
<1> HIDE DEF C0, C1, C2, C3, C4, C5, D0, D1, D2, D3, D4, D5, X, Y, z, p1, p2, p3, p4, p5, p6
<1>18. TwinLists(X, Y)
  BY <1>14, <1>15, <1>16, <1>17
<1> QED
  BY <1>18 DEF X, Y

\* A byte of an object.
LEMMA ObjectTwins ==
  ASSUME NEW c, NEW d, NEW b, NEW e, NEW f, NEW g, NEW w, Tops(c, d, b, e, f, g, w),
         f.kind = "object", NEW x \in Bytes
  PROVE  TwinLists(J!Object(c, x), J!Object(d, x))
<1>1. J!Top(c) = f /\ J!Top(d) = g /\ Alike(f, g)
  BY TopsIs
<1>2. g.st = f.st /\ f.st \in ObjectStates
  BY <1>1, AlikeIs DEF StatesOf
<1>3. CASE f.st = "key"
  <2>1. J!Object(c, x) = J!Key(c, x) /\ J!Object(d, x) = J!Key(d, x)
    BY <1>1, <1>2, <1>3 DEF J!Object
  <2> QED
    BY <2>1, KeyTwins
<1>4. CASE f.st \in {"other", "otherEscape", "otherHex"}
  <2>1. J!Object(c, x) = J!OtherKey(c, x) /\ J!Object(d, x) = J!OtherKey(d, x)
    BY <1>1, <1>2, <1>4 DEF J!Object
  <2> QED
    BY <1>4, <2>1, OtherKeyTwins
<1>5. CASE f.st \in {"open", "next", "colon", "comma"}
  <2>1. J!Object(c, x) = J!Member(c, x) /\ J!Object(d, x) = J!Member(d, x)
    BY <1>1, <1>2, <1>5 DEF J!Object
  <2> QED
    BY <2>1, MemberTwins
<1> QED
  BY <1>2, <1>3, <1>4, <1>5 DEF ObjectStates

-----------------------------------------------------------------------------
\* Pairs of lists, and their halves.
Pairs == {x \in Seq(Configs) \X Seq(Configs) : TwinLists(x[1], x[2])}

\* One side of a list of pairs.
Half(P, i) == [k \in 1..Len(P) |-> P[k][i]]

\* Lists of twins, joined, are lists of twins.
LEMMA TwinsConcat ==
  ASSUME NEW C, NEW D, TwinLists(C, D), NEW E, NEW F, TwinLists(E, F)
  PROVE  TwinLists(C \o E, D \o F)
<1> DEFINE X == C \o E
           Y == D \o F
<1>1. /\ C \in Seq(Configs) /\ D \in Seq(Configs) /\ E \in Seq(Configs) /\ F \in Seq(Configs)
      /\ Len(C) = Len(D) /\ Len(E) = Len(F) /\ Len(C) \in Nat /\ Len(E) \in Nat
  BY LenProperties DEF TwinLists
<1>2. /\ X \in Seq(Configs) /\ Y \in Seq(Configs) /\ Len(X) = Len(C) + Len(E) /\ Len(Y) = Len(D) + Len(F)
      /\ \A i \in 1..Len(C) + Len(E) : X[i] = IF i <= Len(C) THEN C[i] ELSE E[i - Len(C)]
      /\ \A i \in 1..Len(D) + Len(F) : Y[i] = IF i <= Len(D) THEN D[i] ELSE F[i - Len(D)]
  BY <1>1, ConcatProperties
<1> HIDE DEF X, Y
<1>3. ASSUME NEW i \in 1..Len(X) PROVE Twins(X[i], Y[i])
  <2>1. CASE i <= Len(C)
    <3>1. i \in 1..Len(C) /\ X[i] = C[i] /\ Y[i] = D[i]
      BY <1>1, <1>2, <2>1
    <3> QED
      BY <3>1 DEF TwinLists
  <2>2. CASE ~(i <= Len(C))
    <3>1. i - Len(C) \in 1..Len(E) /\ X[i] = E[i - Len(C)] /\ Y[i] = F[i - Len(C)]
      BY <1>1, <1>2, <2>2
    <3> QED
      BY <3>1 DEF TwinLists
  <2> QED
    BY <2>1, <2>2
<1>4. TwinLists(X, Y)
  BY <1>1, <1>2, <1>3 DEF TwinLists
<1> QED
  BY <1>4 DEF X, Y

\* Many lists of twins, joined, are lists of twins.
LEMMA FlattenTwins ==
  ASSUME NEW P \in Seq(Pairs)
  PROVE  TwinLists(J!FlattenSeq(Half(P, 1)), J!FlattenSeq(Half(P, 2)))
<1> DEFINE Q == {p \in Seq(Pairs) : TwinLists(FlattenSeq(Half(p, 1)), FlattenSeq(Half(p, 2)))}
<1>1. <<>> \in Q
  <2>1. <<>> \in Seq(Pairs) /\ Half(<<>>, 1) = <<>> /\ Half(<<>>, 2) = <<>>
    BY EmptySeq DEF Half
  <2> QED
    BY <2>1, TwinsNone, FlattenIs
<1>2. ASSUME NEW p \in Seq(Pairs), p \in Q, NEW x \in Pairs
      PROVE  Append(p, x) \in Q
  <2> DEFINE q == Append(p, x)
             n == Len(p)
  <2>1. n \in Nat /\ \A i \in 1..n : p[i] \in Pairs
    BY LenProperties, ElementOfSeq
  <2>2. q \in Seq(Pairs) /\ Len(q) = n + 1 /\ q[n + 1] = x /\ \A i \in 1..n : q[i] = p[i]
    BY AppendProperties
  <2> HIDE DEF q, n
  <2>3. \A i \in {1, 2} : \A y \in Pairs : y[i] \in Seq(Configs)
    BY DEF Pairs
  <2>4. ASSUME NEW i \in {1, 2}
        PROVE  Half(p, i) \in Seq(Seq(Configs)) /\ Half(q, i) = Append(Half(p, i), x[i])
    <3> DEFINE h == Half(p, i)
               k == Half(q, i)
               a == Append(h, x[i])
    <3>1. h = [j \in 1..n |-> p[j][i]] /\ k = [j \in 1..n + 1 |-> q[j][i]]
      BY <2>2 DEF Half, n
    <3> HIDE DEF h, k
    <3>2. h \in Seq(Seq(Configs)) /\ Len(h) = n
      BY <2>1, <2>3, <3>1
    <3>3. a \in Seq(Seq(Configs)) /\ Len(a) = n + 1 /\ a[n + 1] = x[i] /\ \A j \in 1..n : a[j] = h[j]
      BY <2>3, <3>2, AppendProperties
    <3>4. k \in Seq(Seq(Configs)) /\ Len(k) = n + 1
      <4>1. \A j \in 1..n + 1 : q[j] \in Pairs
        BY <2>1, <2>2, ElementOfSeq
      <4> QED
        BY <2>1, <2>3, <3>1, <4>1
    <3> HIDE DEF a
    <3>5. ASSUME NEW j \in 1..n + 1 PROVE k[j] = a[j]
      <4>1. CASE j \in 1..n
        BY <2>1, <2>2, <3>1, <3>3, <4>1
      <4>2. CASE j = n + 1
        BY <2>1, <2>2, <3>1, <3>3, <4>2
      <4> QED
        BY <2>1, <4>1, <4>2
    <3>6. k = a
      BY <3>3, <3>4, <3>5, SeqEqual
    <3> QED
      BY <3>2, <3>6 DEF h, k, a
  <2>5. x[1] \in Seq(Configs) /\ x[2] \in Seq(Configs) /\ TwinLists(x[1], x[2])
    BY DEF Pairs
  <2>6. /\ FlattenSeq(Half(q, 1)) = FlattenSeq(Half(p, 1)) \o x[1]
        /\ FlattenSeq(Half(q, 2)) = FlattenSeq(Half(p, 2)) \o x[2]
    BY <2>4, <2>5, FlattenIs
  <2>7. TwinLists(FlattenSeq(Half(q, 1)), FlattenSeq(Half(q, 2)))
    BY <1>2, <2>5, <2>6, TwinsConcat
  <2> QED
    BY <2>2, <2>7 DEF q
<1> HIDE DEF Q
<1>3. Seq(Pairs) \subseteq Q
  BY <1>1, <1>2, GrowSeq
<1>4. TwinLists(FlattenSeq(Half(P, 1)), FlattenSeq(Half(P, 2)))
  BY <1>3 DEF Q
<1>5. \A S : J!FlattenSeq(S) = FlattenSeq(S)
  BY DEF J!FlattenSeq, FlattenSeq
<1> QED
  BY <1>4, <1>5

\* Lists joined over the same positions.
LEMMA ManyTwins ==
  ASSUME NEW n \in Nat, NEW S, NEW T, S = [i \in 1..n |-> S[i]], T = [i \in 1..n |-> T[i]],
         \A i \in 1..n : TwinLists(S[i], T[i])
  PROVE  TwinLists(J!FlattenSeq(S), J!FlattenSeq(T))
<1> DEFINE P == [i \in 1..n |-> <<S[i], T[i]>>]
<1>1. \A i \in 1..n : <<S[i], T[i]>> \in Pairs
  BY DEF Pairs, TwinLists
<1>2. P \in Seq(Pairs) /\ Len(P) = n
  BY <1>1
<1>3. Half(P, 1) = [i \in 1..n |-> S[i]] /\ Half(P, 2) = [i \in 1..n |-> T[i]]
  BY <1>2 DEF Half
<1> HIDE DEF P
<1>4. TwinLists(J!FlattenSeq(Half(P, 1)), J!FlattenSeq(Half(P, 2)))
  BY <1>2, FlattenTwins
<1> QED
  BY <1>3, <1>4

-----------------------------------------------------------------------------
(* Values that begin, and bytes of an array.                               *)

\* The schemas that start_value tries are schemas.
Level(above) == J!FlattenSeq([i \in DOMAIN above |-> J!Ways(above[i])])

\* The levels that Leaves goes down, references and unions followed one by one.
Levels(f, s) == f = [n \in 0..MaxNesting |-> IF n = 0 THEN <<s>> ELSE Level(f[n - 1])]

\* Each level is made of schemas of the instance.
LEMMA LevelIn ==
  ASSUME NEW above \in Seq(Subschemas)
  PROVE  Level(above) \in Seq(Subschemas)
<1> DEFINE n == Len(above)
           S == [i \in DOMAIN above |-> J!Ways(above[i])]
<1>1. n \in Nat /\ DOMAIN above = 1..n /\ \A i \in 1..n : above[i] \in Subschemas
  BY LenProperties, ElementOfSeq
<1>2. \A i \in 1..n : J!Ways(above[i]) \in Seq(Subschemas)
  BY <1>1, SchemaAssumption
<1>3. S \in Seq(Seq(Subschemas))
  BY <1>1, <1>2
<1>4. Level(above) = J!FlattenSeq(S)
  BY DEF Level
<1>5. J!FlattenSeq(S) = FlattenSeq(S)
  BY DEF J!FlattenSeq, FlattenSeq
<1> HIDE DEF S
<1> QED
  BY <1>3, <1>4, <1>5, FlattenIs

\* The schemas a value may begin as are schemas of the instance.
LEMMA LeavesIn ==
  ASSUME NEW s \in Subschemas
  PROVE  J!Leaves(s) \in Seq(Subschemas)
<1> DEFINE V == Seq(Subschemas)
           H == [x \in V \X (1..MaxNesting) |-> Level(x[1])]
           base == <<s>>
<1>1. MaxNesting \in Nat /\ base \in V
  BY JsonAssumption
<1>2. H \in [V \X (1..MaxNesting) -> V]
  BY LevelIn
<1>a. \A y \in V, i \in 1..MaxNesting : H[<<y, i>>] = Level(y)
  OBVIOUS
<1> HIDE DEF V, H, base
<1>3. PICK g \in [0..MaxNesting -> V] : Iterates(g, base, H, MaxNesting)
  BY <1>1, <1>2, Iterated
<1>4. ASSUME NEW i \in 0..MaxNesting
      PROVE  g[i] = IF i = 0 THEN base ELSE Level(g[i - 1])
  <2>1. i # 0 => i \in 1..MaxNesting /\ i - 1 \in 0..MaxNesting
    BY <1>1
  <2>2. i # 0 => g[i - 1] \in V
    BY <2>1
  <2>3. g[i] = IF i = 0 THEN base ELSE H[<<g[i - 1], i>>]
    BY <1>3 DEF Iterates
  <2> QED
    BY <1>a, <2>1, <2>2, <2>3
<1>5. Levels(g, s)
  <2>1. g = [i \in 0..MaxNesting |-> g[i]]
    OBVIOUS
  <2> QED
    BY <1>4, <2>1 DEF Levels, base
<1> DEFINE f == CHOOSE h : Levels(h, s)
<1>6. Levels(f, s)
  BY <1>5
<1>7. J!Leaves(s) = f[MaxNesting]
  BY DEF J!Leaves, Levels, Level
<1> HIDE DEF f
<1>8. ASSUME NEW i \in 0..MaxNesting
      PROVE  f[i] = IF i = 0 THEN base ELSE Level(f[i - 1])
  BY <1>6 DEF Levels, base
<1> DEFINE T == {i \in 0..MaxNesting : f[i] # g[i]}
<1>9. T = {}
  <2> SUFFICES ASSUME T # {} PROVE FALSE
    OBVIOUS
  <2>1. PICK i \in T : \A y \in T : i <= y
    <3>1. T \subseteq Nat
      OBVIOUS
    <3> QED
      BY <3>1, LeastNat
  <2>2. i \in 0..MaxNesting /\ f[i] # g[i]
    OBVIOUS
  <2>3. i # 0 => f[i - 1] = g[i - 1]
    BY <1>1, <2>1, <2>2
  <2> HIDE DEF T
  <2> QED
    BY <1>4, <1>8, <2>2, <2>3
<1>10. MaxNesting \in 0..MaxNesting
  BY <1>1
<1>11. f[MaxNesting] = g[MaxNesting]
  BY <1>9, <1>10
<1> QED
  BY <1>7, <1>10, <1>11 DEF V

\* A byte that begins a value of one node.
LEMMA BeginNodeTwins ==
  ASSUME NEW b, NEW e, Beneath(b, e), Len(b) < MaxDepth, NEW w \in Blanks, NEW n \in Nodes, NEW x \in Bytes
  PROVE  TwinLists(J!BeginNode(Conf(b, w), n, x), J!BeginNode(Conf(e, w), n, x))
<1> DEFINE c == Conf(b, w)
           d == Conf(e, w)
           In(kind, s) == J!Pushed(c, J!Frame(kind, s, n))
           On(kind, s) == J!Pushed(d, J!Frame(kind, s, n))
<1>0. b \in Seq(Frames) /\ e \in Seq(Frames)
  BY BeneathIs
<1>1. ASSUME NEW kind \in Kinds, NEW s \in States, s \in StatesOf(kind), kind # "value",
             kind \in {"object", "array", "string"} => n.kind = kind
      PROVE  /\ Tops(In(kind, s), On(kind, s), b, e, J!Frame(kind, s, n), J!Frame(kind, s, n), w)
             /\ Twins(In(kind, s), On(kind, s)) /\ J!Frame(kind, s, n).kind = kind
  <2> DEFINE f == J!Frame(kind, s, n)
  <2>1. Alike(f, f) /\ f.kind = kind
    BY <1>1, FrameAlike
  <2>2. In(kind, s) = Conf(Append(b, f), w) /\ On(kind, s) = Conf(Append(e, f), w)
    BY <1>0, PushedIs
  <2> HIDE DEF f
  <2>3. Above(b, f)
    BY DEF Above
  <2>4. Tops(In(kind, s), On(kind, s), b, e, f, f, w)
    BY <2>1, <2>2, <2>3 DEF Tops
  <2>5. Twins(In(kind, s), On(kind, s))
    BY <2>4, TopsIs
  <2> QED
    BY <2>1, <2>4, <2>5 DEF f
<1> DEFINE X == J!BeginNode(c, n, x)
           Y == J!BeginNode(d, n, x)
<1>2. CASE n.kind = "object"
  <2>1. X = J!One(x = "{", In("object", "open")) /\ Y = J!One(x = "{", On("object", "open"))
    BY <1>2 DEF J!BeginNode
  <2>2. "object" \in Kinds /\ "open" \in States /\ "open" \in StatesOf("object")
    BY DEF Kinds, States, StatesOf, ObjectStates
  <2>3. Twins(In("object", "open"), On("object", "open"))
    BY <1>1, <1>2, <2>2
  <2> HIDE DEF In, On
  <2>4. TwinLists(J!One(x = "{", In("object", "open")), J!One(x = "{", On("object", "open")))
    BY <2>3, TwinsOne
  <2> QED
    BY <2>1, <2>4
<1>3. CASE n.kind = "array"
  <2>1. X = J!One(x = "[", In("array", "open")) /\ Y = J!One(x = "[", On("array", "open"))
    BY <1>3 DEF J!BeginNode
  <2>2. "array" \in Kinds /\ "open" \in States /\ "open" \in StatesOf("array")
    BY DEF Kinds, States, StatesOf, ArrayStates
  <2>3. Twins(In("array", "open"), On("array", "open"))
    BY <1>1, <1>3, <2>2
  <2> HIDE DEF In, On
  <2>4. TwinLists(J!One(x = "[", In("array", "open")), J!One(x = "[", On("array", "open")))
    BY <2>3, TwinsOne
  <2> QED
    BY <2>1, <2>4
<1>4. CASE n.kind = "string"
  <2>1. X = J!One(x = J!Quote, In("string", "text")) /\ Y = J!One(x = J!Quote, On("string", "text"))
    BY <1>4 DEF J!BeginNode
  <2>2. "string" \in Kinds /\ "text" \in States /\ "text" \in StatesOf("string")
    BY DEF Kinds, States, StatesOf, StringStates
  <2>3. Twins(In("string", "text"), On("string", "text"))
    BY <1>1, <1>4, <2>2
  <2> HIDE DEF In, On
  <2>4. TwinLists(J!One(x = J!Quote, In("string", "text")), J!One(x = J!Quote, On("string", "text")))
    BY <2>3, TwinsOne
  <2> QED
    BY <2>1, <2>4
<1>5. CASE n.kind = "number"
  <2>1. X = J!Digits(In("number", "start"), x) /\ Y = J!Digits(On("number", "start"), x)
    BY <1>5 DEF J!BeginNode
  <2>2. "number" \in Kinds /\ "start" \in States /\ "start" \in StatesOf("number")
    BY DEF Kinds, States, StatesOf, NumberStates
  <2>3. Tops(In("number", "start"), On("number", "start"), b, e, J!Frame("number", "start", n), J!Frame("number", "start", n), w)
        /\ J!Frame("number", "start", n).kind = "number"
    BY <1>1, <2>2
  <2> HIDE DEF In, On
  <2>4. TwinLists(J!Digits(In("number", "start"), x), J!Digits(On("number", "start"), x))
    BY <2>3, DigitsTwins
  <2> QED
    BY <2>1, <2>4
<1>6. CASE n.kind = "literals"
  <2>1. X = J!Letters(In("literal", ""), x) /\ Y = J!Letters(On("literal", ""), x)
    BY <1>6 DEF J!BeginNode
  <2>2. "literal" \in Kinds /\ "" \in States /\ "" \in StatesOf("literal")
    BY DEF Kinds, States, StatesOf
  <2>3. Tops(In("literal", ""), On("literal", ""), b, e, J!Frame("literal", "", n), J!Frame("literal", "", n), w)
    BY <1>1, <2>2
  <2> HIDE DEF In, On
  <2>4. TwinLists(J!Letters(In("literal", ""), x), J!Letters(On("literal", ""), x))
    BY <2>3, LettersTwins
  <2> QED
    BY <2>1, <2>4
<1>7. CASE n.kind \notin {"object", "array", "string", "number", "literals"}
  <2>1. X = <<>> /\ Y = <<>>
    BY <1>7 DEF J!BeginNode
  <2> QED
    BY <2>1, TwinsNone
<1> QED
  BY <1>2, <1>3, <1>4, <1>5, <1>6, <1>7

\* A byte that begins a value.
LEMMA BeginTwins ==
  ASSUME NEW b, NEW e, Beneath(b, e), NEW w \in Blanks, NEW s \in Subschemas, NEW x \in Bytes
  PROVE  TwinLists(J!Begin(Conf(b, w), s, x), J!Begin(Conf(e, w), s, x))
<1> DEFINE c == Conf(b, w)
           d == Conf(e, w)
           leaves == J!Leaves(s)
           m == Len(leaves)
           S == [i \in 1..m |-> J!BeginNode(c, J!Node(leaves[i]), x)]
           T == [i \in 1..m |-> J!BeginNode(d, J!Node(leaves[i]), x)]
<1>1. b \in Seq(Frames) /\ e \in Seq(Frames) /\ Len(b) = Len(e) /\ Len(b) \in Nat /\ MaxDepth \in Nat
  BY BeneathIs, JsonAssumption
<1>2. c.stack = b /\ d.stack = e
  BY <1>1, ConfIs
<1>3. leaves \in Seq(Subschemas)
  BY LeavesIn
<1>4. m \in Nat /\ DOMAIN leaves = 1..m /\ \A i \in 1..m : leaves[i] \in Subschemas
  BY <1>3, LenProperties, ElementOfSeq
<1>5. CASE Len(b) >= MaxDepth
  <2>1. J!Begin(c, s, x) = <<>> /\ J!Begin(d, s, x) = <<>>
    BY <1>1, <1>2, <1>5 DEF J!Begin
  <2> QED
    BY <2>1, TwinsNone
<1>6. CASE ~(Len(b) >= MaxDepth)
  <2>1. J!Begin(c, s, x) = J!FlattenSeq(S) /\ J!Begin(d, s, x) = J!FlattenSeq(T)
    <3> DEFINE S2 == [i \in DOMAIN leaves |-> J!BeginNode(c, J!Node(leaves[i]), x)]
               T2 == [i \in DOMAIN leaves |-> J!BeginNode(d, J!Node(leaves[i]), x)]
    <3> HIDE DEF c, d, leaves
    <3>1. S2 = S /\ T2 = T
      BY <1>4
    <3>2. J!Begin(c, s, x) = J!FlattenSeq(S2) /\ J!Begin(d, s, x) = J!FlattenSeq(T2)
      <4> HIDE DEF S, T
      <4> QED
        BY <1>1, <1>2, <1>6 DEF J!Begin, J!BeginAny, leaves
    <3> QED
      BY <3>1, <3>2
  <2>2. \A i \in 1..m : TwinLists(S[i], T[i])
    <3> SUFFICES ASSUME NEW i \in 1..m PROVE TwinLists(S[i], T[i])
      OBVIOUS
    <3>1. J!Node(leaves[i]) \in Nodes
      BY <1>4 DEF Nodes
    <3>2. Len(b) < MaxDepth
      BY <1>1, <1>6
    <3> DEFINE n == J!Node(leaves[i])
    <3>3. S[i] = J!BeginNode(c, n, x) /\ T[i] = J!BeginNode(d, n, x)
      OBVIOUS
    <3>4. n \in Nodes
      BY <3>1
    <3> HIDE DEF n, S, T, m, leaves
    <3> QED
      BY <3>2, <3>3, <3>4, BeginNodeTwins DEF c, d
  <2>3. S = [i \in 1..m |-> S[i]] /\ T = [i \in 1..m |-> T[i]]
    OBVIOUS
  <2> HIDE DEF S, T, m
  <2>4. TwinLists(J!FlattenSeq(S), J!FlattenSeq(T))
    BY <1>4, <2>2, <2>3, ManyTwins
  <2> QED
    BY <2>1, <2>4
<1> QED
  BY <1>5, <1>6

-----------------------------------------------------------------------------

\* Writing the state and counting one more.
StCount(f, s) == [f EXCEPT !.st = s, !.count = @ + 1]

\* Writing the state alike and counting one more keeps frames alike.
LEMMA AlikeStCount ==
  ASSUME NEW f, NEW g, Alike(f, g), NEW s \in States, s \in StatesOf(f.kind)
  PROVE  Alike(StCount(f, s), StCount(g, s)) /\ StCount(f, s).kind = f.kind
<1> DEFINE t == [f EXCEPT !.st = s]
           u == [g EXCEPT !.st = s]
           x == [t EXCEPT !.count = @ + 1]
           y == [u EXCEPT !.count = @ + 1]
<1>1. Alike(t, u) /\ t.kind = f.kind
  BY AlikeSt
<1>2. Alike(x, y) /\ x.kind = t.kind
  <2> HIDE DEF t, u
  <2> QED
    BY <1>1, AlikeCount
<1>4. f \in FrameRecords /\ g \in FrameRecords
  BY AlikeIs
<1>3. StCount(f, s) = x /\ StCount(g, s) = y
  BY <1>4 DEF FrameRecords, StCount
<1> HIDE DEF t, x, y
<1> QED
  BY <1>1, <1>2, <1>3

\* A byte of an array.
LEMMA ArrayTwins ==
  ASSUME NEW c, NEW d, NEW b, NEW e, NEW f, NEW g, NEW w, Tops(c, d, b, e, f, g, w),
         f.kind = "array", NEW x \in Bytes
  PROVE  TwinLists(J!Array(c, x), J!Array(d, x))
<1>1. J!Top(c) = f /\ J!Top(d) = g /\ Alike(f, g) /\ TwinLists(J!Blank(c), J!Blank(d))
  BY TopsIs
<1>2. g.st = f.st /\ g.of = f.of /\ f.of \in Nodes /\ f.of.kind = "array"
  BY <1>1, AlikeIs
<1>3. f.of.items \in Subschemas
  <2>1. PICK s \in Subschemas : f.of = J!Node(s)
    BY <1>2 DEF Nodes
  <2> QED
    BY <1>2, <2>1, SchemaAssumption
<1>4. /\ f.count >= f.of.min <=> g.count >= f.of.min
      /\ f.of.max # J!NoLimit => (f.count < f.of.max <=> g.count < f.of.max)
  BY <1>1, CountTests
<1> DEFINE m == J!Tight(c)
           n == J!Tight(d)
           p == f.count >= f.of.min
           q == f.of.max = J!NoLimit \/ f.count < f.of.max
           r == f.of.max = 0
           C0 == J!Blank(c)
           D0 == J!Blank(d)
           C1 == J!One(p, J!Popped(m))
           D1 == J!One(p, J!Popped(n))
           C2 == J!One(q, J!Turned(m, [f EXCEPT !.st = "next"]))
           D2 == J!One(q, J!Turned(n, [g EXCEPT !.st = "next"]))
           C3 == J!Begin(J!Turned(m, StCount(f, "comma")), f.of.items, x)
           D3 == J!Begin(J!Turned(n, StCount(g, "comma")), f.of.items, x)
           z == <<>>
           p1 == x \in J!Space
           p2 == x = "]" /\ f.st \in {"open", "comma"}
           p3 == x = "," /\ f.st = "comma"
           p4 == x \notin J!Space \cup {"]"} /\ f.st = "open"
           p5 == x \notin J!Space /\ f.st = "next"
           X == J!Array(c, x)
           Y == J!Array(d, x)
<1>5. X = CASE p1 -> C0 [] p2 -> C1 [] p3 -> C2 [] p4 -> IF r THEN z ELSE C3 [] p5 -> C3 [] OTHER -> z
  BY <1>1 DEF J!Array, StCount
<1>6. Y = CASE p1 -> D0 [] p2 -> D1 [] p3 -> D2 [] p4 -> IF r THEN z ELSE D3 [] p5 -> D3 [] OTHER -> z
  <2> DEFINE E1 == J!One(g.count >= f.of.min, J!Popped(n))
             E2 == J!One(f.of.max = J!NoLimit \/ g.count < f.of.max, J!Turned(n, [g EXCEPT !.st = "next"]))
  <2>1. Y = CASE p1 -> D0 [] p2 -> E1 [] p3 -> E2 [] p4 -> IF r THEN z ELSE D3 [] p5 -> D3 [] OTHER -> z
    BY <1>1, <1>2 DEF J!Array, StCount
  <2>2. E1 = D1 /\ E2 = D2
    BY <1>4 DEF J!One
  <2> HIDE DEF Y, D0, D1, D2, D3, E1, E2
  <2> QED
    BY <2>1, <2>2
<1>7. ~(p1 /\ (p2 \/ p3 \/ p4 \/ p5)) /\ ~(p2 /\ (p3 \/ p4 \/ p5)) /\ ~(p3 /\ (p4 \/ p5)) /\ ~(p4 /\ p5)
  BY DEF J!Space
<1>8. Tops(m, n, b, e, f, g, 0)
  BY TopsIs
<1>9. \A s \in {"comma", "next"} : s \in States /\ s \in StatesOf(f.kind)
  BY DEF States, StatesOf, ArrayStates
<1> HIDE DEF m, n
<1>10. TwinLists(C1, D1)
  <2>1. Twins(J!Popped(m), J!Popped(n))
    BY <1>8, TopsIs
  <2> QED
    BY <2>1, TwinsOne
<1>11. TwinLists(C2, D2)
  <2> DEFINE h == [f EXCEPT !.st = "next"]
             k == [g EXCEPT !.st = "next"]
  <2>1. Alike(h, k) /\ h.kind = f.kind
    BY <1>1, <1>9, AlikeSt
  <2> HIDE DEF h, k
  <2>2. Twins(J!Turned(m, h), J!Turned(n, k))
    BY <1>8, <2>1, TopsTurned
  <2>3. TwinLists(J!One(q, J!Turned(m, h)), J!One(q, J!Turned(n, k)))
    BY <2>2, TwinsOne
  <2> QED
    BY <2>3 DEF h, k
<1>12. TwinLists(C3, D3)
  <2> DEFINE h == StCount(f, "comma")
             k == StCount(g, "comma")
  <2>1. Alike(h, k) /\ h.kind = f.kind
    BY <1>1, <1>9, AlikeStCount
  <2> HIDE DEF h, k
  <2>2. Tops(J!Turned(m, h), J!Turned(n, k), b, e, h, k, 0)
    BY <1>8, <2>1, TopsTurned
  <2>3. /\ Beneath(b, e) /\ Len(b) < MaxDepth /\ 0 \in Blanks
        /\ J!Turned(m, h) = Conf(Append(b, h), 0) /\ J!Turned(n, k) = Conf(Append(e, k), 0)
    BY <2>1, <2>2 DEF Tops, Above
  <2>4. Beneath(Append(b, h), Append(e, k))
    BY <2>1, <2>3, BeneathPush DEF Outer
  <2>5. TwinLists(J!Begin(J!Turned(m, h), f.of.items, x), J!Begin(J!Turned(n, k), f.of.items, x))
    BY <1>3, <2>3, <2>4, BeginTwins
  <2> QED
    BY <2>5 DEF h, k
<1>13. TwinLists(C0, D0) /\ TwinLists(z, z)
  BY <1>1, TwinsNone
<1> HIDE DEF C0, C1, C2, C3, D0, D1, D2, D3, X, Y, z, p1, p2, p3, p4, p5, r
<1>14. TwinLists(X, Y)
  BY <1>5, <1>6, <1>7, <1>10, <1>11, <1>12, <1>13
<1> QED
  BY <1>14 DEF X, Y

-----------------------------------------------------------------------------
(* Any byte, on any configuration.                                         *)

\* Of two lists of twins, none is left in both or in neither.
LEMMA SameEmpty ==
  ASSUME NEW C, NEW D, TwinLists(C, D)
  PROVE  C = <<>> <=> D = <<>>
<1>1. C \in Seq(Configs) /\ D \in Seq(Configs) /\ Len(C) = Len(D)
  BY DEF TwinLists
<1> QED
  BY <1>1, EmptySeq

\* A byte outside of numbers and literals: in an object or an array, or after the document.
LEMMA OutsideTopTwins ==
  ASSUME NEW c, NEW d, NEW b, NEW e, NEW f, NEW g, NEW w, Tops(c, d, b, e, f, g, w),
         f.kind \in Outer, NEW x \in Bytes
  PROVE  TwinLists(J!Outside(c, x), J!Outside(d, x))
<1>1. J!Top(c) = f /\ J!Top(d) = g /\ Alike(f, g) /\ c.stack # <<>> /\ d.stack # <<>>
  BY TopsIs
<1>2. g.kind = f.kind
  BY <1>1, AlikeIs
<1>3. CASE f.kind = "object"
  <2>1. J!Outside(c, x) = J!Object(c, x) /\ J!Outside(d, x) = J!Object(d, x)
    BY <1>1, <1>2, <1>3 DEF J!Outside
  <2> QED
    BY <1>3, <2>1, ObjectTwins
<1>4. CASE f.kind = "array"
  <2>1. J!Outside(c, x) = J!Array(c, x) /\ J!Outside(d, x) = J!Array(d, x)
    BY <1>1, <1>2, <1>4 DEF J!Outside
  <2> QED
    BY <1>4, <2>1, ArrayTwins
<1> QED
  BY <1>3, <1>4 DEF Outer

\* Two stacks of open objects and arrays have alike tops, if any.
LEMMA BareTops ==
  ASSUME NEW b, NEW e, Beneath(b, e), NEW w \in Blanks, b # <<>>
  PROVE  \E p, q, f, g : Tops(Conf(b, w), Conf(e, w), p, q, f, g, w) /\ f.kind \in Outer
<1>1. \E p, q, f, g : Pops(b, e, p, q, f, g)
  BY BeneathPop
<1>2. PICK p, q, f, g : Pops(b, e, p, q, f, g)
  BY <1>1
<1>3. /\ Beneath(p, q) /\ Len(p) < MaxDepth /\ Alike(f, g) /\ f.kind \in Outer
      /\ b = Append(p, f) /\ e = Append(q, g)
  BY <1>2 DEF Pops
<1>4. Tops(Conf(b, w), Conf(e, w), p, q, f, g, w)
  BY <1>3 DEF Tops, Above, Outer
<1> QED
  BY <1>3, <1>4

\* A byte outside of numbers and literals, on stacks with a top or without, keeps twins.
LEMMA OutsideTwins ==
  ASSUME NEW b, NEW e, Beneath(b, e), NEW w \in Blanks, NEW x \in Bytes
  PROVE  TwinLists(J!Outside(Conf(b, w), x), J!Outside(Conf(e, w), x))
<1>1. b \in Seq(Frames) /\ e \in Seq(Frames) /\ Len(b) = Len(e)
  BY BeneathIs
<1>2. CASE b = <<>>
  <2>1. e = <<>>
    BY <1>1, <1>2, EmptySeq
  <2>2. Conf(b, w).stack = <<>> /\ Conf(e, w) = Conf(b, w)
    BY <1>2, <2>1 DEF Conf
  <2>3. \A v \in Blanks : Twins(Conf(b, v), Conf(e, v))
    BY TwinsBare
  <2>4. TwinLists(J!Blank(Conf(b, w)), J!Blank(Conf(e, w)))
    BY <1>1, <2>3, TwinsBlank
  <2>5. J!Outside(Conf(b, w), x) = IF x \in J!Space THEN J!Blank(Conf(b, w)) ELSE <<>>
    BY <2>2 DEF J!Outside
  <2> QED
    BY <2>2, <2>4, <2>5, TwinsNone
<1>3. CASE b # <<>>
  <2>1. PICK p, q, f, g : Tops(Conf(b, w), Conf(e, w), p, q, f, g, w) /\ f.kind \in Outer
    BY <1>3, BareTops
  <2> QED
    BY <2>1, OutsideTopTwins
<1> QED
  BY <1>2, <1>3

\* A byte that ends the number or the literal on top is its parent's.
LEMMA NumberTwins ==
  ASSUME NEW c, NEW d, NEW b, NEW e, NEW f, NEW g, NEW w, Tops(c, d, b, e, f, g, w),
         f.kind = "number", NEW x \in Bytes
  PROVE  TwinLists(J!Number(c, x), J!Number(d, x))
<1>1. J!Top(c) = f /\ J!Top(d) = g /\ Alike(f, g) /\ J!Popped(c) = Conf(b, w) /\ J!Popped(d) = Conf(e, w)
  BY TopsIs
<1>2. g.st = f.st
  BY <1>1, AlikeIs
<1>3. TwinLists(J!Digits(c, x), J!Digits(d, x))
  BY DigitsTwins
<1>4. J!Digits(c, x) = <<>> <=> J!Digits(d, x) = <<>>
  BY <1>3, SameEmpty
<1>5. TwinLists(J!Outside(J!Popped(c), x), J!Outside(J!Popped(d), x))
  BY <1>1, OutsideTwins DEF Tops
<1>6. /\ J!Number(c, x) = IF J!Digits(c, x) # <<>> THEN J!Digits(c, x)
                          ELSE IF f.st \in J!NumberEnds THEN J!Outside(J!Popped(c), x) ELSE <<>>
      /\ J!Number(d, x) = IF J!Digits(d, x) # <<>> THEN J!Digits(d, x)
                          ELSE IF f.st \in J!NumberEnds THEN J!Outside(J!Popped(d), x) ELSE <<>>
  BY <1>1, <1>2 DEF J!Number
<1> QED
  BY <1>3, <1>4, <1>5, <1>6, TwinsNone

\* A byte of a literal keeps twins.
LEMMA LiteralTwins ==
  ASSUME NEW c, NEW d, NEW b, NEW e, NEW f, NEW g, NEW w, Tops(c, d, b, e, f, g, w), NEW x \in Bytes
  PROVE  TwinLists(J!Literal(c, x), J!Literal(d, x))
<1>1. J!Top(c) = f /\ J!Top(d) = g /\ Alike(f, g) /\ J!Popped(c) = Conf(b, w) /\ J!Popped(d) = Conf(e, w)
  BY TopsIs
<1>2. g.text = f.text /\ g.of = f.of
  BY <1>1, AlikeIs
<1>3. TwinLists(J!Letters(c, x), J!Letters(d, x))
  BY LettersTwins
<1>4. J!Letters(c, x) = <<>> <=> J!Letters(d, x) = <<>>
  BY <1>3, SameEmpty
<1>5. TwinLists(J!Outside(J!Popped(c), x), J!Outside(J!Popped(d), x))
  BY <1>1, OutsideTwins DEF Tops
<1>6. /\ J!Literal(c, x) = IF J!Letters(c, x) # <<>> THEN J!Letters(c, x)
                           ELSE IF f.text \in f.of.texts THEN J!Outside(J!Popped(c), x) ELSE <<>>
      /\ J!Literal(d, x) = IF J!Letters(d, x) # <<>> THEN J!Letters(d, x)
                           ELSE IF f.text \in f.of.texts THEN J!Outside(J!Popped(d), x) ELSE <<>>
  BY <1>1, <1>2 DEF J!Literal
<1> QED
  BY <1>3, <1>4, <1>5, <1>6, TwinsNone

\* A byte of any configuration.
LEMMA StepTopTwins ==
  ASSUME NEW c, NEW d, NEW b, NEW e, NEW f, NEW g, NEW w, Tops(c, d, b, e, f, g, w), NEW x \in Bytes
  PROVE  TwinLists(J!Step(c, x), J!Step(d, x))
<1>1. /\ J!Top(c) = f /\ J!Top(d) = g /\ Alike(f, g) /\ J!Popped(c) = Conf(b, w) /\ J!Popped(d) = Conf(e, w)
      /\ c.stack # <<>> /\ d.stack # <<>> /\ TwinLists(J!Blank(c), J!Blank(d))
  BY TopsIs
<1>2. /\ g.kind = f.kind /\ g.of = f.of /\ f.kind \in Kinds
      /\ f.kind = "value" => f.of \in Subschemas
  BY <1>1, AlikeIs
<1>3. CASE f.kind = "value"
  <2>0. Beneath(b, e) /\ w \in Blanks
    BY DEF Tops
  <2>1. b \in Seq(Frames) /\ e \in Seq(Frames)
    BY <2>0, BeneathIs
  <2>2. J!Tight(J!Popped(c)) = Conf(b, 0) /\ J!Tight(J!Popped(d)) = Conf(e, 0) /\ 0 \in Blanks
    BY <1>1, <2>0, <2>1, PushedIs
  <2>3. TwinLists(J!Begin(Conf(b, 0), f.of, x), J!Begin(Conf(e, 0), f.of, x))
    BY <1>2, <1>3, <2>0, <2>2, BeginTwins
  <2>4. /\ J!Step(c, x) = IF x \in J!Space THEN J!Blank(c) ELSE J!Begin(J!Tight(J!Popped(c)), f.of, x)
        /\ J!Step(d, x) = IF x \in J!Space THEN J!Blank(d) ELSE J!Begin(J!Tight(J!Popped(d)), f.of, x)
    BY <1>1, <1>2, <1>3 DEF J!Step
  <2> QED
    BY <1>1, <2>2, <2>3, <2>4
<1>4. CASE f.kind = "string"
  <2>1. J!Step(c, x) = J!String(c, x) /\ J!Step(d, x) = J!String(d, x)
    BY <1>1, <1>2, <1>4 DEF J!Step
  <2> QED
    BY <1>4, <2>1, StringTwins
<1>5. CASE f.kind = "number"
  <2>1. J!Step(c, x) = J!Number(c, x) /\ J!Step(d, x) = J!Number(d, x)
    BY <1>1, <1>2, <1>5 DEF J!Step
  <2> QED
    BY <1>5, <2>1, NumberTwins
<1>6. CASE f.kind = "literal"
  <2>1. J!Step(c, x) = J!Literal(c, x) /\ J!Step(d, x) = J!Literal(d, x)
    BY <1>1, <1>2, <1>6 DEF J!Step
  <2> QED
    BY <2>1, LiteralTwins
<1>7. CASE f.kind \in Outer
  <2>1. J!Step(c, x) = J!Outside(c, x) /\ J!Step(d, x) = J!Outside(d, x)
    BY <1>1, <1>2, <1>7 DEF J!Step, Outer
  <2> QED
    BY <1>7, <2>1, OutsideTopTwins
<1> QED
  BY <1>2, <1>3, <1>4, <1>5, <1>6, <1>7 DEF Kinds, Outer

\* Any byte keeps twins: both refuse it, or both go on as twins.
LEMMA StepTwins ==
  ASSUME NEW c, NEW d, Twins(c, d), NEW x \in Bytes
  PROVE  TwinLists(J!Step(c, x), J!Step(d, x))
<1>1. PICK w, b, e :
        /\ w \in Blanks /\ Beneath(b, e)
        /\ \/ c = Conf(b, w) /\ d = Conf(e, w)
           \/ \E f, g : /\ Alike(f, g) /\ Above(b, f)
                        /\ c = Conf(Append(b, f), w) /\ d = Conf(Append(e, g), w)
  BY DEF Twins
<1>w. w \in Blanks
  BY <1>1
<1>2. CASE c = Conf(b, w) /\ d = Conf(e, w)
  <2>1. b \in Seq(Frames) /\ e \in Seq(Frames) /\ Len(b) = Len(e)
    BY <1>1, BeneathIs
  <2>2. CASE b = <<>>
    <3>1. e = <<>>
      BY <2>1, <2>2, EmptySeq
    <3>2. c.stack = <<>> /\ d.stack = <<>>
      BY <1>2, <2>2, <3>1 DEF Conf
    <3>3. J!Step(c, x) = J!Outside(c, x) /\ J!Step(d, x) = J!Outside(d, x)
      BY <3>2 DEF J!Step
    <3> QED
      BY <1>w, <1>1, <1>2, <3>3, OutsideTwins
  <2>3. CASE b # <<>>
    <3>1. PICK p, q, f, g : Tops(Conf(b, w), Conf(e, w), p, q, f, g, w) /\ f.kind \in Outer
      BY <1>w, <1>1, <2>3, BareTops
    <3> QED
      BY <1>2, <3>1, StepTopTwins
  <2> QED
    BY <2>2, <2>3
<1>3. CASE \E f, g : /\ Alike(f, g) /\ Above(b, f)
                     /\ c = Conf(Append(b, f), w) /\ d = Conf(Append(e, g), w)
  <2>1. PICK f, g : /\ Alike(f, g) /\ Above(b, f)
                    /\ c = Conf(Append(b, f), w) /\ d = Conf(Append(e, g), w)
    BY <1>3
  <2>2. Tops(c, d, b, e, f, g, w)
    BY <1>w, <1>1, <2>1 DEF Tops
  <2> QED
    BY <2>2, StepTopTwins
<1> QED
  BY <1>1, <1>2, <1>3

-----------------------------------------------------------------------------

\* The smaller of two numbers is one of them.
LEMMA LeastOfTwo ==
  ASSUME NEW a \in Nat, NEW b \in Nat
  PROVE  J!Min({a, b}) \in Nat /\ J!Min({a, b}) <= a /\ J!Min({a, b}) <= b /\ J!Min({a, b}) \in {a, b}
<1>1. \E x \in {a, b} : \A y \in {a, b} : x <= y
  <2>1. CASE a <= b
    BY <2>1
  <2>2. CASE ~(a <= b)
    BY <2>2
  <2> QED
    BY <2>1, <2>2
<1> DEFINE m == CHOOSE x \in {a, b} : \A y \in {a, b} : x <= y
<1>2. m \in {a, b} /\ \A y \in {a, b} : m <= y
  BY <1>1
<1>3. J!Min({a, b}) = m
  BY DEF J!Min
<1> HIDE DEF m
<1> QED
  BY <1>2, <1>3

\* The first ones of two lists of twins are lists of twins.
LEMMA TwinsSub ==
  ASSUME NEW C, NEW D, TwinLists(C, D), NEW n \in Nat, n <= Len(C)
  PROVE  TwinLists(SubSeq(C, 1, n), SubSeq(D, 1, n)) /\ Len(SubSeq(C, 1, n)) = n
<1>1. /\ C \in Seq(Configs) /\ D \in Seq(Configs) /\ Len(C) = Len(D) /\ Len(C) \in Nat
      /\ \A i \in 1..Len(C) : Twins(C[i], D[i])
  BY LenProperties DEF TwinLists
<1>2. \A i \in 1..n : C[i] \in Configs /\ D[i] \in Configs /\ Twins(C[i], D[i])
  <2>1. \A i \in 1..n : i \in 1..Len(C) /\ i \in 1..Len(D)
    BY <1>1
  <2> QED
    BY <1>1, <2>1, ElementOfSeq
<1> DEFINE U == SubSeq(C, 1, n)
           V == SubSeq(D, 1, n)
<1>3. U = [i \in 1..n |-> C[i]] /\ V = [i \in 1..n |-> D[i]]
  <2>0. SubSeq(C, 1, n) = [i \in 1..n |-> C[1 + i - 1]] /\ SubSeq(D, 1, n) = [i \in 1..n |-> D[1 + i - 1]]
    BY SMT
  <2> QED
    BY <2>0
<1> HIDE DEF U, V
<1>4. U \in Seq(Configs) /\ V \in Seq(Configs) /\ Len(U) = n /\ Len(V) = n
  BY <1>2, <1>3
<1>5. \A i \in 1..n : Twins(U[i], V[i])
  BY <1>2, <1>3
<1>6. TwinLists(U, V)
  BY <1>4, <1>5 DEF TwinLists
<1> QED
  BY <1>4, <1>6 DEF U, V

\* A byte of all configurations.
LEMMA SteppedTwins ==
  ASSUME NEW C, NEW D, TwinLists(C, D), NEW x \in Bytes
  PROVE  /\ TwinLists(J!Stepped(C, x), J!Stepped(D, x))
         /\ Len(J!Stepped(C, x)) <= MaxConfigs
<1> DEFINE n == Len(C)
           S == [i \in 1..n |-> J!Step(C[i], x)]
           T == [i \in 1..n |-> J!Step(D[i], x)]
           A == J!FlattenSeq(S)
           B == J!FlattenSeq(T)
<1>1. /\ C \in Seq(Configs) /\ D \in Seq(Configs) /\ Len(D) = n /\ n \in Nat
      /\ DOMAIN C = 1..n /\ DOMAIN D = 1..n
      /\ \A i \in 1..n : Twins(C[i], D[i])
  BY LenProperties DEF TwinLists
<1>2. \A i \in 1..n : TwinLists(S[i], T[i])
  BY <1>1, StepTwins
<1>3. S = [i \in 1..n |-> S[i]] /\ T = [i \in 1..n |-> T[i]]
  OBVIOUS
<1>4. TwinLists(A, B)
  <2> HIDE DEF S, T, n
  <2> QED
    BY <1>1, <1>2, <1>3, ManyTwins
<1>5. A \in Seq(Configs) /\ Len(B) = Len(A) /\ Len(A) \in Nat /\ MaxConfigs \in Nat
  BY <1>4, LenProperties, JsonAssumption DEF TwinLists
<1> DEFINE m == J!Min({MaxConfigs, Len(A)})
<1>6. /\ J!Stepped(C, x) = SubSeq(A, 1, m)
      /\ J!Stepped(D, x) = SubSeq(B, 1, m)
  <2>1. S = [i \in DOMAIN C |-> J!Step(C[i], x)] /\ T = [i \in DOMAIN D |-> J!Step(D[i], x)]
    BY <1>1
  <2> HIDE DEF S, T, n
  <2>2. J!Stepped(C, x) = SubSeq(A, 1, m)
    BY <2>1 DEF J!Stepped, J!Capped
  <2>3. J!Stepped(D, x) = SubSeq(B, 1, J!Min({MaxConfigs, Len(B)}))
    BY <2>1 DEF J!Stepped, J!Capped
  <2> QED
    BY <1>5, <2>2, <2>3
<1> HIDE DEF A, B
<1>7. m \in Nat /\ m <= MaxConfigs /\ m <= Len(A)
  BY <1>5, LeastOfTwo
<1> HIDE DEF m
<1>8. TwinLists(SubSeq(A, 1, m), SubSeq(B, 1, m)) /\ Len(SubSeq(A, 1, m)) = m
  BY <1>4, <1>7, TwinsSub
<1> QED
  BY <1>6, <1>7, <1>8

-----------------------------------------------------------------------------
(* Feed of a document is a walk.                                           *)

\* The lists of configurations that a document can be in.
Lists == {C \in Seq(Configs) : TwinLists(C, C)}

\* A frame like another is like itself.
LEMMA AlikeSelf ==
  ASSUME NEW f, NEW g, Alike(f, g)
  PROVE  Alike(f, f) /\ Alike(g, g)
BY DEF Alike

\* What lies beneath is beneath itself.
LEMMA BeneathSelf ==
  ASSUME NEW b, NEW e, Beneath(b, e)
  PROVE  Beneath(b, b) /\ Beneath(e, e)
<1>1. /\ b \in Seq(Frames) /\ e \in Seq(Frames)
      /\ Len(b) = Len(e) /\ Len(b) <= MaxDepth
      /\ \A i \in 1..Len(b) : Alike(b[i], e[i]) /\ b[i].kind \in Outer
  BY DEF Beneath
<1>2. \A i \in 1..Len(b) : Alike(b[i], b[i]) /\ Alike(e[i], e[i]) /\ e[i].kind \in Outer
  <2>1. \A i \in 1..Len(b) : b[i].kind = e[i].kind
    BY <1>1 DEF Alike
  <2> QED
    BY <1>1, <2>1, AlikeSelf
<1>3. Len(e) <= MaxDepth
  BY <1>1
<1> QED
  BY <1>1, <1>2, <1>3 DEF Beneath

\* A twin is its own twin.
LEMMA TwinsSelf ==
  ASSUME NEW c, NEW d, Twins(c, d)
  PROVE  Twins(c, c) /\ Twins(d, d)
<1>1. PICK w, b, e :
        /\ w \in Blanks /\ Beneath(b, e)
        /\ \/ c = Conf(b, w) /\ d = Conf(e, w)
           \/ \E f, g : /\ Alike(f, g) /\ Above(b, f)
                        /\ c = Conf(Append(b, f), w) /\ d = Conf(Append(e, g), w)
  BY DEF Twins
<1>w. w \in Blanks
  BY <1>1
<1>2. Beneath(b, b) /\ Beneath(e, e) /\ Len(b) = Len(e)
  BY <1>1, BeneathSelf, BeneathIs
<1>3. CASE c = Conf(b, w) /\ d = Conf(e, w)
  BY <1>w, <1>2, <1>3, TwinsBare
<1>4. CASE \E f, g : /\ Alike(f, g) /\ Above(b, f)
                     /\ c = Conf(Append(b, f), w) /\ d = Conf(Append(e, g), w)
  <2>1. PICK f, g : /\ Alike(f, g) /\ Above(b, f)
                    /\ c = Conf(Append(b, f), w) /\ d = Conf(Append(e, g), w)
    BY <1>4
  <2>2. Alike(f, f) /\ Alike(g, g) /\ Above(e, g)
    <3>1. Alike(f, f) /\ Alike(g, g) /\ f.kind = g.kind
      BY <2>1, AlikeSelf, AlikeIs
    <3> QED
      BY <1>2, <2>1, <3>1 DEF Above
  <2> QED
    BY <1>w, <1>2, <2>1, <2>2, TwinsTop
<1> QED
  BY <1>1, <1>3, <1>4

\* Lists of twins are lists of configurations as the automaton keeps them.
LEMMA ListsOf ==
  ASSUME NEW C, NEW D, TwinLists(C, D)
  PROVE  C \in Lists /\ D \in Lists
BY TwinsSelf DEF TwinLists, Lists

-----------------------------------------------------------------------------
\* What a text makes of the configurations.
DocSteps == [x \in Lists \X Bytes |-> J!Stepped(x[1], x[2])]

\* The configurations after each byte of a piece, as Feed defines them.
DocWalks(f, C, piece) ==
  f = [n \in 0..Len(piece) |-> IF n = 0 THEN C ELSE J!Stepped(f[n - 1], piece[n])]

\* The step of a document stays in such lists.
LEMMA DocStepsMove == DocSteps \in Moves(Lists, Bytes)
<1>1. \A C \in Lists, x \in Bytes : J!Stepped(C, x) \in Lists
  BY SteppedTwins, ListsOf DEF Lists
<1> QED
  BY <1>1 DEF DocSteps, Moves

\* Feed of a document is what the walk along the piece reaches.
LEMMA DocReached ==
  ASSUME NEW C \in Lists, NEW piece \in Seq(Bytes)
  PROVE  J!Feed(C, piece) = Reached(Lists, DocSteps, C, piece)
<1> DEFINE n == Len(piece)
<1>1. n \in Nat /\ \A i \in 1..n : piece[i] \in Bytes
  BY LenProperties, ElementOfSeq
<1>2. DocSteps \in Moves(Lists, Bytes)
  BY DocStepsMove
<1>3. PICK g \in [0..n -> Lists] : Follows(g, DocSteps, C, piece)
  BY <1>2, Followed
<1>4. ASSUME NEW i \in 0..n
      PROVE  g[i] = IF i = 0 THEN C ELSE J!Stepped(g[i - 1], piece[i])
  <2>1. i # 0 => g[i - 1] \in Lists /\ piece[i] \in Bytes
    <3>1. i # 0 => i \in 1..n /\ i - 1 \in 0..n
      BY <1>1
    <3> QED
      BY <1>1, <3>1
  <2>2. g[i] = IF i = 0 THEN C ELSE DocSteps[<<g[i - 1], piece[i]>>]
    BY <1>3 DEF Follows
  <2>3. i # 0 => DocSteps[<<g[i - 1], piece[i]>>] = J!Stepped(g[i - 1], piece[i])
    BY <2>1 DEF DocSteps
  <2> QED
    BY <2>2, <2>3
<1>5. DocWalks(g, C, piece)
  <2>1. g = [i \in 0..n |-> g[i]]
    OBVIOUS
  <2> QED
    BY <1>4, <2>1 DEF DocWalks
<1> DEFINE f == CHOOSE h : DocWalks(h, C, piece)
<1>6. DocWalks(f, C, piece)
  BY <1>5
<1>10. J!Feed(C, piece) = f[n]
  BY DEF J!Feed, DocWalks
<1> HIDE DEF f
<1>7. ASSUME NEW i \in 0..n
      PROVE  f[i] = IF i = 0 THEN C ELSE J!Stepped(f[i - 1], piece[i])
  BY <1>6 DEF DocWalks
<1> DEFINE T == {i \in 0..n : f[i] # g[i]}
<1>8. T = {}
  <2> SUFFICES ASSUME T # {} PROVE FALSE
    OBVIOUS
  <2>1. PICK i \in T : \A y \in T : i <= y
    <3>1. T \subseteq Nat
      OBVIOUS
    <3> QED
      BY <3>1, LeastNat
  <2>2. i \in 0..n /\ f[i] # g[i]
    OBVIOUS
  <2>3. i # 0 => f[i - 1] = g[i - 1]
    BY <2>1, <2>2
  <2> HIDE DEF T
  <2> QED
    BY <1>4, <1>7, <2>2, <2>3
<1>9. f[n] = g[n]
  BY <1>1, <1>8
<1>11. Reached(Lists, DocSteps, C, piece) = g[n]
  BY <1>2, <1>3, ReachedBy
<1> QED
  BY <1>9, <1>10, <1>11

\* A piece leads to such a list.
LEMMA DocFeedIn ==
  ASSUME NEW C \in Lists, NEW piece \in Seq(Bytes)
  PROVE  J!Feed(C, piece) \in Lists
BY DocReached, DocStepsMove, ReachedIn

\* An empty piece changes nothing.
LEMMA DocFeedEmpty ==
  ASSUME NEW C \in Lists
  PROVE  J!Feed(C, <<>>) = C
<1>1. <<>> \in Seq(Bytes)
  BY EmptySeq
<1>2. J!Feed(C, <<>>) = Reached(Lists, DocSteps, C, <<>>)
  BY <1>1, DocReached
<1> QED
  BY <1>2, DocStepsMove, ReachedEmpty

\* The last byte of a piece is a step.
LEMMA DocFeedAppend ==
  ASSUME NEW C \in Lists, NEW p \in Seq(Bytes), NEW x \in Bytes
  PROVE  J!Feed(C, Append(p, x)) = J!Stepped(J!Feed(C, p), x)
<1> DEFINE q == Append(p, x)
<1>1. q \in Seq(Bytes)
  BY AppendProperties
<1>2. Reached(Lists, DocSteps, C, q) = DocSteps[<<Reached(Lists, DocSteps, C, p), x>>]
  BY DocStepsMove, ReachedAppend
<1> HIDE DEF q
<1>3. J!Feed(C, q) = DocSteps[<<J!Feed(C, p), x>>]
  BY <1>1, <1>2, DocReached
<1> QED
  BY <1>3, DocFeedIn DEF DocSteps, q

\* Counts that change nothing stay so: the same text leads both to lists that differ in such counts only.
LEMMA FeedTwins ==
  ASSUME NEW C, NEW D, TwinLists(C, D), NEW w \in Seq(Bytes)
  PROVE  TwinLists(J!Feed(C, w), J!Feed(D, w))
<1> DEFINE Q == {v \in Seq(Bytes) : TwinLists(J!Feed(C, v), J!Feed(D, v))}
<1>0. C \in Lists /\ D \in Lists
  BY ListsOf
<1>1. <<>> \in Q
  <2>1. J!Feed(C, <<>>) = C /\ J!Feed(D, <<>>) = D /\ <<>> \in Seq(Bytes)
    BY <1>0, DocFeedEmpty, EmptySeq
  <2> QED
    BY <2>1
<1>2. ASSUME NEW v \in Seq(Bytes), v \in Q, NEW x \in Bytes
      PROVE  Append(v, x) \in Q
  <2>1. Append(v, x) \in Seq(Bytes)
    BY AppendProperties
  <2>2. J!Feed(C, Append(v, x)) = J!Stepped(J!Feed(C, v), x) /\ J!Feed(D, Append(v, x)) = J!Stepped(J!Feed(D, v), x)
    BY <1>0, DocFeedAppend
  <2>3. TwinLists(J!Stepped(J!Feed(C, v), x), J!Stepped(J!Feed(D, v), x))
    BY <1>2, SteppedTwins
  <2> QED
    BY <2>1, <2>2, <2>3
<1> HIDE DEF Q
<1>3. Seq(Bytes) \subseteq Q
  BY <1>1, <1>2, GrowSeq
<1> QED
  BY <1>3 DEF Q

\* There are never more than kMaxConfigs.
LEMMA DocFeedShort ==
  ASSUME NEW C \in Lists, Len(C) <= MaxConfigs, NEW w \in Seq(Bytes)
  PROVE  Len(J!Feed(C, w)) <= MaxConfigs
<1> DEFINE Q == {v \in Seq(Bytes) : Len(J!Feed(C, v)) <= MaxConfigs}
<1>1. <<>> \in Q
  BY DocFeedEmpty, EmptySeq
<1>2. ASSUME NEW v \in Seq(Bytes), v \in Q, NEW x \in Bytes
      PROVE  Append(v, x) \in Q
  <2>1. Append(v, x) \in Seq(Bytes)
    BY AppendProperties
  <2>2. J!Feed(C, Append(v, x)) = J!Stepped(J!Feed(C, v), x) /\ J!Feed(C, v) \in Lists
    BY DocFeedAppend, DocFeedIn
  <2>3. Len(J!Stepped(J!Feed(C, v), x)) <= MaxConfigs
    BY <2>2, SteppedTwins DEF Lists
  <2> QED
    BY <2>1, <2>2, <2>3
<1> HIDE DEF Q
<1>3. Seq(Bytes) \subseteq Q
  BY <1>1, <1>2, GrowSeq
<1> QED
  BY <1>3 DEF Q

\* Where none is left, none comes back.
LEMMA SteppedNone == \A x : J!Stepped(<<>>, x) = <<>>
<1> SUFFICES ASSUME NEW x PROVE J!Stepped(<<>>, x) = <<>>
  OBVIOUS
<1> DEFINE none == <<>>
           A == [i \in DOMAIN none |-> J!Step(none[i], x)]
<1>1. A = none
  OBVIOUS
<1>2. J!FlattenSeq(none) = FlattenSeq(none)
  BY DEF J!FlattenSeq, FlattenSeq
<1>3. FlattenSeq(none) = none
  BY FlattenIs
<1>4. none \in Lists /\ Len(none) = 0
  BY TwinsNone, ListsOf
<1>5. MaxConfigs \in Nat
  BY JsonAssumption
<1>6. J!Stepped(none, x) = SubSeq(J!FlattenSeq(A), 1, J!Min({MaxConfigs, Len(J!FlattenSeq(A))}))
  BY DEF J!Stepped, J!Capped
<1> HIDE DEF A, none
<1>7. J!Stepped(none, x) = SubSeq(none, 1, J!Min({MaxConfigs, 0}))
  BY <1>1, <1>2, <1>3, <1>4, <1>6
<1>8. J!Min({MaxConfigs, 0}) = 0
  <2>1. J!Min({MaxConfigs, 0}) \in Nat /\ J!Min({MaxConfigs, 0}) <= 0
    BY <1>5, LeastOfTwo
  <2> QED
    BY <2>1
<1>9. SubSeq(none, 1, 0) = none
  <2>1. none \in Seq(Configs) /\ Len(none) = 0
    BY <1>4 DEF Lists
  <2>2. SubSeq(none, 1, Len(none)) = none
    BY <2>1, SubSeqFull
  <2> QED
    BY <2>1, <2>2
<1> QED
  BY <1>7, <1>8, <1>9 DEF none

\* A text that refused stays refused.
LEMMA DocFeedNone ==
  ASSUME NEW w \in Seq(Bytes)
  PROVE  J!Feed(<<>>, w) = <<>>
<1> DEFINE none == <<>>
           Q == {v \in Seq(Bytes) : J!Feed(none, v) = none}
<1>0. none \in Lists
  BY TwinsNone, ListsOf
<1>s. \A x : J!Stepped(none, x) = none
  BY SteppedNone
<1>e. <<>> \in Seq(Bytes)
  BY EmptySeq
<1> HIDE DEF none
<1>1. <<>> \in Q
  BY <1>0, <1>e, DocFeedEmpty
<1>2. ASSUME NEW v \in Seq(Bytes), v \in Q, NEW x \in Bytes
      PROVE  Append(v, x) \in Q
  <2>1. Append(v, x) \in Seq(Bytes)
    BY AppendProperties
  <2>2. J!Feed(none, Append(v, x)) = J!Stepped(J!Feed(none, v), x)
    BY <1>0, DocFeedAppend
  <2> QED
    BY <1>s, <1>2, <2>1, <2>2
<1> HIDE DEF Q
<1>3. Seq(Bytes) \subseteq Q
  BY <1>1, <1>2, GrowSeq
<1> QED
  BY <1>3 DEF Q, none

-----------------------------------------------------------------------------
(* The state key, the end of a document and plain strings.                 *)

\* The frames of configurations that differ in such counts only, one by one.
LEMMA TwinsStacks ==
  ASSUME NEW c, NEW d, Twins(c, d)
  PROVE  /\ c.stack \in Seq(Frames) /\ d.stack \in Seq(Frames) /\ Len(c.stack) = Len(d.stack)
         /\ Len(c.stack) <= MaxDepth + 1 /\ c.ws \in Blanks
         /\ \A i \in 1..Len(c.stack) : Alike(c.stack[i], d.stack[i])
<1>1. PICK w, b, e :
        /\ w \in Blanks /\ Beneath(b, e)
        /\ \/ c = Conf(b, w) /\ d = Conf(e, w)
           \/ \E f, g : /\ Alike(f, g) /\ Above(b, f)
                        /\ c = Conf(Append(b, f), w) /\ d = Conf(Append(e, g), w)
  BY DEF Twins
<1>w. w \in Blanks
  BY <1>1
<1>2. /\ b \in Seq(Frames) /\ e \in Seq(Frames) /\ Len(b) = Len(e) /\ Len(b) <= MaxDepth /\ Len(b) \in Nat
      /\ MaxDepth \in Nat
  BY <1>1, BeneathIs, JsonAssumption
<1>3. \A i \in 1..Len(b) : Alike(b[i], e[i])
  BY <1>1 DEF Beneath
<1>4. CASE c = Conf(b, w) /\ d = Conf(e, w)
  <2>1. c.stack = b /\ d.stack = e /\ c.ws = w
    BY <1>w, <1>2, <1>4, ConfIs
  <2>2. Len(b) <= MaxDepth + 1
    BY <1>2
  <2> QED
    BY <1>w, <1>2, <1>3, <2>1, <2>2
<1>5. CASE \E f, g : /\ Alike(f, g) /\ Above(b, f)
                     /\ c = Conf(Append(b, f), w) /\ d = Conf(Append(e, g), w)
  <2>1. PICK f, g : /\ Alike(f, g) /\ Above(b, f)
                    /\ c = Conf(Append(b, f), w) /\ d = Conf(Append(e, g), w)
    BY <1>5
  <2> DEFINE s == Append(b, f)
             t == Append(e, g)
  <2>2. /\ s \in Seq(Frames) /\ Len(s) = Len(b) + 1 /\ s[Len(b) + 1] = f
        /\ \A i \in 1..Len(b) : s[i] = b[i]
        /\ t \in Seq(Frames) /\ Len(t) = Len(e) + 1 /\ t[Len(e) + 1] = g
        /\ \A i \in 1..Len(e) : t[i] = e[i]
    BY <1>2, <2>1, AlikeIs, AppendProperties
  <2>3. c = Conf(s, w) /\ d = Conf(t, w)
    BY <2>1
  <2> HIDE DEF s, t
  <2>4. c.stack = s /\ d.stack = t /\ c.ws = w
    BY <1>w, <2>2, <2>3, ConfIs
  <2>5. ASSUME NEW i \in 1..Len(s) PROVE Alike(s[i], t[i])
    <3>1. CASE i = Len(b) + 1
      BY <1>2, <2>1, <2>2, <3>1
    <3>2. CASE i # Len(b) + 1
      <4>1. i \in 1..Len(b)
        BY <1>2, <2>2, <3>2
      <4> QED
        BY <1>2, <1>3, <2>2, <4>1
    <3> QED
      BY <3>1, <3>2
  <2>6. Len(s) = Len(t) /\ Len(s) <= MaxDepth + 1
    BY <1>2, <2>2
  <2> QED
    BY <1>w, <2>2, <2>4, <2>5, <2>6
<1> QED
  BY <1>1, <1>4, <1>5

\* They end together.
LEMMA EndsTwins ==
  ASSUME NEW c, NEW d, Twins(c, d)
  PROVE  J!Ends(c) <=> J!Ends(d)
<1>1. /\ c.stack \in Seq(Frames) /\ d.stack \in Seq(Frames) /\ Len(c.stack) = Len(d.stack)
      /\ \A i \in 1..Len(c.stack) : Alike(c.stack[i], d.stack[i])
  BY TwinsStacks
<1>2. DOMAIN c.stack = 1..Len(c.stack) /\ DOMAIN d.stack = 1..Len(c.stack)
  BY <1>1, LenProperties
<1>3. \A i \in 1..Len(c.stack) :
        /\ c.stack[i].kind = d.stack[i].kind /\ c.stack[i].st = d.stack[i].st
        /\ c.stack[i].text = d.stack[i].text /\ c.stack[i].of = d.stack[i].of
  BY <1>1, AlikeIs
<1> QED
  BY <1>2, <1>3 DEF J!Ends

\* A document can end in both of two lists of twins or in neither.
LEMMA CanEndTwins ==
  ASSUME NEW C, NEW D, TwinLists(C, D)
  PROVE  J!CanEnd(C) <=> J!CanEnd(D)
<1>1. DOMAIN C = DOMAIN D /\ \A i \in DOMAIN C : Twins(C[i], D[i])
  BY LenProperties DEF TwinLists
<1>2. \A i \in DOMAIN C : J!Ends(C[i]) <=> J!Ends(D[i])
  BY <1>1, EndsTwins
<1> QED
  BY <1>1, <1>2 DEF J!CanEnd

-----------------------------------------------------------------------------
\* The state key of a frame, of a stack.
Bare(f) == IF J!Uncounted(f) THEN [f EXCEPT !.count = 0] ELSE f

\* A stack without the counts that state_key leaves out.
BareStack(s) == [k \in DOMAIN s |-> Bare(s[k])]

\* A frame without such a count is alike.
LEMMA BareAlike ==
  ASSUME NEW f, NEW g, Alike(f, g)
  PROVE  Alike(f, Bare(f))
<1>1. Alike(f, f) /\ f \in FrameRecords /\ f \in Frames
  BY AlikeSelf, AlikeIs
<1>2. CASE J!Uncounted(f)
  <2> DEFINE h == [f EXCEPT !.count = 0]
  <2>1. h = [f EXCEPT !.count = 0] /\ 0 \in Nat
    OBVIOUS
  <2>2. Bare(f) = h
    BY <1>2 DEF Bare
  <2> HIDE DEF h
  <2>3. /\ h \in FrameRecords
        /\ h.kind = f.kind /\ h.st = f.st /\ h.of = f.of /\ h.text = f.text /\ h.used = f.used
        /\ h.child = f.child /\ h.hex = f.hex
    BY <1>1, <2>1, WithCount
  <2>4. h \in Frames
    BY <1>1, <2>3 DEF Frames, Fits
  <2> QED
    BY <1>1, <1>2, <2>2, <2>3, <2>4 DEF Alike
<1>3. CASE ~J!Uncounted(f)
  BY <1>1, <1>3 DEF Bare
<1> QED
  BY <1>2, <1>3

\* A stack without such counts is as long and alike, frame by frame.
LEMMA BareStackIs ==
  ASSUME NEW s \in Seq(Frames)
  PROVE  /\ BareStack(s) \in Seq(Frames) /\ Len(BareStack(s)) = Len(s)
         /\ \A i \in 1..Len(s) : BareStack(s)[i] = Bare(s[i]) /\ Alike(s[i], Bare(s[i]))
<1>1. Len(s) \in Nat /\ DOMAIN s = 1..Len(s) /\ \A i \in 1..Len(s) : s[i] \in Frames
  BY LenProperties, ElementOfSeq
<1>2. \A f \in Frames : Alike(f, f)
  BY DEF Alike
<1>3. \A i \in 1..Len(s) : Alike(s[i], Bare(s[i])) /\ Bare(s[i]) \in Frames
  <2>1. \A i \in 1..Len(s) : Alike(s[i], Bare(s[i]))
    BY <1>1, <1>2, BareAlike
  <2> QED
    BY <2>1, AlikeIs
<1>4. BareStack(s) = [i \in 1..Len(s) |-> Bare(s[i])]
  BY <1>1 DEF BareStack
<1> DEFINE t == BareStack(s)
<1>5. t \in Seq(Frames) /\ Len(t) = Len(s)
  BY <1>1, <1>3, <1>4
<1> QED
  BY <1>3, <1>4, <1>5

\* What lies beneath, without such counts, is alike.
LEMMA BareBeneath ==
  ASSUME NEW b, NEW e, Beneath(b, e)
  PROVE  Beneath(b, BareStack(b))
<1>1. /\ b \in Seq(Frames) /\ Len(b) <= MaxDepth
      /\ \A i \in 1..Len(b) : b[i].kind \in Outer
  BY DEF Beneath
<1>2. /\ BareStack(b) \in Seq(Frames) /\ Len(BareStack(b)) = Len(b)
      /\ \A i \in 1..Len(b) : BareStack(b)[i] = Bare(b[i]) /\ Alike(b[i], Bare(b[i]))
  BY <1>1, BareStackIs
<1> QED
  BY <1>1, <1>2 DEF Beneath

\* The counts are left out frame by frame.
LEMMA BareAppend ==
  ASSUME NEW b \in Seq(Frames), NEW f \in Frames
  PROVE  BareStack(Append(b, f)) = Append(BareStack(b), Bare(f))
<1> DEFINE s == Append(b, f)
           t == BareStack(s)
           u == BareStack(b)
           v == Append(u, Bare(f))
<1>1. /\ s \in Seq(Frames) /\ Len(s) = Len(b) + 1 /\ s[Len(b) + 1] = f /\ Len(b) \in Nat
      /\ \A i \in 1..Len(b) : s[i] = b[i]
  BY AppendProperties, LenProperties
<1> HIDE DEF s
<1>2. /\ t \in Seq(Frames) /\ Len(t) = Len(s)
      /\ \A i \in 1..Len(s) : t[i] = Bare(s[i])
  BY <1>1, BareStackIs
<1>3. /\ u \in Seq(Frames) /\ Len(u) = Len(b)
      /\ \A i \in 1..Len(b) : u[i] = Bare(b[i])
  BY BareStackIs
<1>4. Bare(f) \in Frames
  <2>1. Alike(f, f)
    BY DEF Alike
  <2> QED
    BY <2>1, BareAlike, AlikeIs
<1> HIDE DEF t, u
<1>5. /\ v \in Seq(Frames) /\ Len(v) = Len(u) + 1 /\ v[Len(u) + 1] = Bare(f)
      /\ \A i \in 1..Len(u) : v[i] = u[i]
  BY <1>3, <1>4, AppendProperties
<1> HIDE DEF v
<1>6. \A i \in 1..Len(t) : t[i] = v[i]
  <2>1. ASSUME NEW i \in 1..Len(b) + 1 PROVE t[i] = v[i]
    <3>1. CASE i = Len(b) + 1
      BY <1>1, <1>2, <1>3, <1>5, <3>1
    <3>2. CASE i # Len(b) + 1
      <4>1. i \in 1..Len(b)
        BY <1>1, <3>2
      <4> QED
        BY <1>1, <1>2, <1>3, <1>5, <4>1
    <3> QED
      BY <3>1, <3>2
  <2> QED
    BY <1>1, <1>2, <2>1
<1>7. Len(t) = Len(v)
  BY <1>1, <1>2, <1>3, <1>5
<1>8. t = v
  BY <1>2, <1>5, <1>6, <1>7, SeqEqual
<1> QED
  BY <1>8 DEF t, v, u, s

\* A configuration is a twin of what state_key stands for.
LEMMA BareTwins ==
  ASSUME NEW c, NEW d, Twins(c, d)
  PROVE  Twins(c, Conf(BareStack(c.stack), c.ws))
<1>1. PICK w, b, e :
        /\ w \in Blanks /\ Beneath(b, e)
        /\ \/ c = Conf(b, w) /\ d = Conf(e, w)
           \/ \E f, g : /\ Alike(f, g) /\ Above(b, f)
                        /\ c = Conf(Append(b, f), w) /\ d = Conf(Append(e, g), w)
  BY DEF Twins
<1>w. w \in Blanks
  BY <1>1
<1>2. Beneath(b, BareStack(b)) /\ b \in Seq(Frames)
  BY <1>1, BareBeneath, BeneathIs
<1>3. CASE c = Conf(b, w) /\ d = Conf(e, w)
  <2>1. c.stack = b /\ c.ws = w
    BY <1>w, <1>2, <1>3, ConfIs
  <2> QED
    BY <1>w, <1>2, <1>3, <2>1, TwinsBare
<1>4. CASE \E f, g : /\ Alike(f, g) /\ Above(b, f)
                     /\ c = Conf(Append(b, f), w) /\ d = Conf(Append(e, g), w)
  <2>1. PICK f, g : /\ Alike(f, g) /\ Above(b, f)
                    /\ c = Conf(Append(b, f), w) /\ d = Conf(Append(e, g), w)
    BY <1>4
  <2>2. f \in Frames /\ Alike(f, Bare(f))
    BY <2>1, AlikeIs, BareAlike
  <2>3. c.stack = Append(b, f) /\ c.ws = w
    BY <1>w, <1>2, <2>1, <2>2, TopIs, ConfIs
  <2>4. BareStack(Append(b, f)) = Append(BareStack(b), Bare(f))
    BY <1>2, <2>2, BareAppend
  <2>5. Twins(Conf(Append(b, f), w), Conf(Append(BareStack(b), Bare(f)), w))
    BY <1>w, <1>2, <2>1, <2>2, TwinsTop
  <2> QED
    BY <2>1, <2>3, <2>4, <2>5
<1> QED
  BY <1>1, <1>3, <1>4

\* The state key differs from the state in such counts only.
LEMMA KeyTwin ==
  ASSUME NEW C \in Lists
  PROVE  TwinLists(C, J!KeyOf(C))
<1> DEFINE n == Len(C)
           D == [i \in 1..n |-> Conf(BareStack(C[i].stack), C[i].ws)]
<1>1. C \in Seq(Configs) /\ n \in Nat /\ DOMAIN C = 1..n /\ \A i \in 1..n : C[i] \in Configs /\ Twins(C[i], C[i])
  BY LenProperties, ElementOfSeq DEF Lists, TwinLists
<1>2. J!KeyOf(C) = D
  <2>1. ASSUME NEW i \in 1..n
        PROVE  [C[i] EXCEPT !.stack = [k \in DOMAIN @ |-> IF J!Uncounted(@[k]) THEN [@[k] EXCEPT !.count = 0] ELSE @[k]]]
               = Conf(BareStack(C[i].stack), C[i].ws)
    <3>1. C[i] \in [stack : Seq(Frames), ws : Blanks]
      BY <1>1 DEF Configs
    <3> DEFINE c == C[i]
    <3> HIDE DEF c
    <3>2. [c EXCEPT !.stack = BareStack(c.stack)] = [stack |-> BareStack(c.stack), ws |-> c.ws]
      BY <3>1 DEF c
    <3>3. [c EXCEPT !.stack = [k \in DOMAIN @ |-> IF J!Uncounted(@[k]) THEN [@[k] EXCEPT !.count = 0] ELSE @[k]]]
          = [c EXCEPT !.stack = BareStack(c.stack)]
      BY DEF BareStack, Bare
    <3> QED
      BY <3>2, <3>3 DEF Conf, c
  <2> QED
    BY <1>1, <2>1 DEF J!KeyOf
<1>3. \A i \in 1..n : Twins(C[i], D[i])
  BY <1>1, BareTwins
<1>4. \A i \in 1..n : D[i] \in Configs
  BY <1>3, TwinsIn
<1>5. D \in Seq(Configs) /\ Len(D) = n
  <2>1. D = [i \in 1..n |-> D[i]]
    OBVIOUS
  <2> HIDE DEF D
  <2> QED
    BY <1>1, <1>4, <2>1
<1> QED
  BY <1>1, <1>2, <1>3, <1>5 DEF TwinLists

-----------------------------------------------------------------------------
\* One configuration, in a string that the schema does not bound.
InPlain(C) ==
  \E c, b, f, w :
    /\ Tops(c, c, b, b, f, f, w) /\ C = <<c>>
    /\ f.kind = "string" /\ f.st = "text" /\ f.of.max = J!NoLimit

\* What in_plain_string says of a list of configurations.
LEMMA InPlainIs ==
  ASSUME NEW C \in Lists, J!InPlainString(C)
  PROVE  InPlain(C)
<1> DEFINE c == C[1]
<1>1. C \in Seq(Configs) /\ Len(C) = 1 /\ Twins(c, c) /\ c.stack # <<>>
  BY DEF J!InPlainString, Lists, TwinLists
<1>2. J!Top(c).kind = "string" /\ J!Top(c).st = "text" /\ J!Top(c).of.max = J!NoLimit
  BY DEF J!InPlainString
<1>3. C = <<c>>
  BY <1>1
<1> HIDE DEF c
<1>4. PICK w, b, e :
        /\ w \in Blanks /\ Beneath(b, e)
        /\ \/ c = Conf(b, w) /\ c = Conf(e, w)
           \/ \E f, g : /\ Alike(f, g) /\ Above(b, f)
                        /\ c = Conf(Append(b, f), w) /\ c = Conf(Append(e, g), w)
  BY <1>1 DEF Twins
<1>w. w \in Blanks
  BY <1>4
<1>5. Beneath(b, b) /\ b \in Seq(Frames)
  BY <1>4, BeneathSelf, BeneathIs
<1>6. ~(c = Conf(b, w))
  <2> SUFFICES ASSUME c = Conf(b, w) PROVE FALSE
    OBVIOUS
  <2>1. b # <<>>
    BY <1>w, <1>1, <1>5, ConfIs
  <2>2. PICK p, q, f, g : Tops(Conf(b, w), Conf(b, w), p, q, f, g, w) /\ f.kind \in Outer
    BY <1>w, <1>5, <2>1, BareTops
  <2>3. J!Top(c) = f
    BY <1>w, <2>2, TopsIs
  <2> QED
    BY <1>2, <2>2, <2>3 DEF Outer
<1>7. PICK f, g : /\ Alike(f, g) /\ Above(b, f)
                  /\ c = Conf(Append(b, f), w) /\ c = Conf(Append(e, g), w)
  BY <1>4, <1>6
<1>8. Tops(c, c, b, b, f, f, w)
  BY <1>w, <1>5, <1>7, AlikeSelf DEF Tops
<1>9. J!Top(c) = f
  BY <1>w, <1>8, TopsIs
<1> QED
  BY <1>2, <1>3, <1>8, <1>9 DEF InPlain

\* The list of one configuration that a byte moves to one.
LEMMA SteppedOne ==
  ASSUME NEW c, NEW d, d \in Configs, NEW x, J!Step(c, x) = <<d>>
  PROVE  J!Stepped(<<c>>, x) = <<d>>
<1> DEFINE A == [i \in DOMAIN <<c>> |-> J!Step(<<c>>[i], x)]
           e == <<d>>
           E == <<e>>
           none == <<>>
<1>1. A = E
  <2>1. A = [i \in 1..1 |-> e]
    OBVIOUS
  <2> QED
    BY <2>1
<1>2. e \in Seq(Configs) /\ Len(e) = 1 /\ none \in Seq(Seq(Configs)) /\ E = Append(none, e)
  BY EmptySeq
<1>5. \A S : J!FlattenSeq(S) = FlattenSeq(S)
  BY DEF J!FlattenSeq, FlattenSeq
<1>3. J!FlattenSeq(E) = e
  <2>1. FlattenSeq(none) = <<>>
    BY FlattenIs
  <2> HIDE DEF e, none, E
  <2>2. FlattenSeq(Append(none, e)) = FlattenSeq(none) \o e
    BY <1>2, FlattenIs
  <2>3. <<>> \o e = e
    BY <1>2, ConcatEmptySeq
  <2> QED
    BY <1>2, <1>5, <2>1, <2>2, <2>3
<1>4. J!Min({MaxConfigs, Len(e)}) = 1
  <2>1. MaxConfigs \in Nat \ {0} /\ Len(e) = 1
    BY <1>2, JsonAssumption
  <2>2. J!Min({MaxConfigs, 1}) <= 1 /\ J!Min({MaxConfigs, 1}) \in {MaxConfigs, 1} /\ J!Min({MaxConfigs, 1}) \in Nat
    BY <2>1, LeastOfTwo
  <2> QED
    BY <2>1, <2>2
<1>6. SubSeq(e, 1, 1) = e
  <2>1. Len(e) = 1 /\ e \in Seq(Configs)
    BY <1>2
  <2> HIDE DEF e
  <2> QED
    BY <2>1, SubSeqFull
<1> HIDE DEF A, e, E
<1>7. J!Stepped(<<c>>, x) = SubSeq(J!FlattenSeq(A), 1, J!Min({MaxConfigs, Len(J!FlattenSeq(A))}))
  BY DEF J!Stepped, J!Capped, A
<1> QED
  BY <1>1, <1>3, <1>4, <1>6, <1>7 DEF e

\* There, a plain byte stays in it.
LEMMA PlainStepped ==
  ASSUME NEW C, InPlain(C), NEW x \in Bytes, x \notin Control \cup {Quote, Escape}
  PROVE  InPlain(J!Stepped(C, x))
<1>1. PICK c, b, f, w :
    /\ Tops(c, c, b, b, f, f, w) /\ C = <<c>>
    /\ f.kind = "string" /\ f.st = "text" /\ f.of.max = J!NoLimit
  BY DEF InPlain
<1>2. J!Top(c) = f /\ Alike(f, f) /\ c.stack # <<>> /\ Twins(c, c)
  BY <1>1, TopsIs
<1>3. J!Step(c, x) = J!String(c, x)
  BY <1>1, <1>2 DEF J!Step
<1>4. x # J!Quote /\ x # J!Escape /\ x \notin J!Control
  BY DEF J!Quote, J!Escape, J!Control, Quote, Escape, Control
<1> DEFINE h == StHexCount(f, "text", 0)
           d == J!Turned(c, h)
<1>5. J!String(c, x) = IF x \in Continuation THEN <<c>> ELSE <<d>>
  BY <1>1, <1>2, <1>4 DEF J!String, StHexCount
<1>6. Alike(h, h) /\ h.kind = f.kind /\ h.st = "text" /\ h.of = f.of
  <2>1. "text" \in States /\ "text" \in StatesOf(f.kind) /\ 0 \in Int
    BY <1>1 DEF States, StatesOf, StringStates
  <2>2. Alike(h, h) /\ h.kind = f.kind
    BY <1>2, <2>1, AlikeStHexCount
  <2>3. h.st = "text" /\ h.of = f.of
    <3>1. f \in FrameRecords
      BY <1>2, AlikeIs
    <3> QED
      BY <3>1 DEF StHexCount, FrameRecords
  <2> QED
    BY <2>2, <2>3
<1> HIDE DEF h
<1>7. Tops(d, d, b, b, h, h, w) /\ Twins(d, d)
  BY <1>1, <1>6, TopsTurned
<1> HIDE DEF d
<1>8. CASE x \in Continuation
  <2>1. J!Stepped(<<c>>, x) = <<c>>
    BY <1>2, <1>3, <1>5, <1>8, SteppedOne, TwinsIn
  <2> QED
    BY <1>1, <2>1 DEF InPlain
<1>9. CASE x \notin Continuation
  <2>1. J!Stepped(<<c>>, x) = <<d>>
    BY <1>3, <1>5, <1>7, <1>9, SteppedOne, TwinsIn
  <2> QED
    BY <1>1, <1>6, <1>7, <2>1 DEF InPlain
<1> QED
  BY <1>8, <1>9

\* No plain piece is refused there.
LEMMA PlainStays ==
  ASSUME NEW C \in Lists, J!InPlainString(C),
         NEW v \in Seq(Bytes), \A i \in DOMAIN v : v[i] \notin Control \cup {Quote, Escape}
  PROVE  J!Feed(C, v) # <<>>
<1> DEFINE Q == {p \in Seq(Bytes) : (\A i \in 1..Len(p) : p[i] \notin Control \cup {Quote, Escape})
                                     => InPlain(J!Feed(C, p))}
<1>1. <<>> \in Q
  BY DocFeedEmpty, InPlainIs, EmptySeq
<1>2. ASSUME NEW p \in Seq(Bytes), p \in Q, NEW x \in Bytes
      PROVE  Append(p, x) \in Q
  <2> DEFINE q == Append(p, x)
  <2>1. q \in Seq(Bytes) /\ Len(q) = Len(p) + 1 /\ q[Len(p) + 1] = x /\ Len(p) \in Nat
        /\ \A i \in 1..Len(p) : q[i] = p[i]
    BY AppendProperties, LenProperties
  <2>2. J!Feed(C, q) = J!Stepped(J!Feed(C, p), x)
    BY DocFeedAppend
  <2> HIDE DEF q
  <2>3. ASSUME \A i \in 1..Len(q) : q[i] \notin Control \cup {Quote, Escape}
        PROVE  InPlain(J!Feed(C, q))
    <3>1. \A i \in 1..Len(p) : i \in 1..Len(q)
      BY <2>1
    <3>2. Len(p) + 1 \in 1..Len(q)
      BY <2>1
    <3>3. x \notin Control \cup {Quote, Escape} /\ \A i \in 1..Len(p) : p[i] \notin Control \cup {Quote, Escape}
      BY <2>1, <2>3, <3>1, <3>2
    <3>4. InPlain(J!Feed(C, p))
      BY <1>2, <3>3
    <3> QED
      BY <2>2, <3>3, <3>4, PlainStepped
  <2> QED
    BY <2>1, <2>3 DEF q
<1> HIDE DEF Q
<1>3. Seq(Bytes) \subseteq Q
  BY <1>1, <1>2, GrowSeq
<1>4. InPlain(J!Feed(C, v))
  <2>1. DOMAIN v = 1..Len(v)
    BY LenProperties
  <2> QED
    BY <1>3, <2>1 DEF Q
<1>5. \A D : InPlain(D) => D # <<>>
  BY DEF InPlain
<1> QED
  BY <1>4, <1>5

-----------------------------------------------------------------------------
\* A document that begins.
LEMMA StartIn ==
  ASSUME NEW s \in Subschemas
  PROVE  J!Start(s) \in Lists /\ Len(J!Start(s)) = 1 /\ J!Start(s) # <<>>
<1> DEFINE f == J!Frame("value", "", s)
           none == <<>>
           c == Conf(Append(none, f), 0)
<1>1. Alike(f, f) /\ f.kind = "value"
  BY ValueAlike
<1>2. none \in Seq(Frames) /\ Len(none) = 0
  BY EmptySeq
<1>3. MaxDepth \in Nat /\ MaxBlanks \in Nat
  BY JsonAssumption
<1>5. J!Start(s) = <<c>>
  BY DEF J!Start, Conf
<1> HIDE DEF none, f
<1>4. Beneath(none, none) /\ Above(none, f) /\ 0 \in Blanks
  <2>1. Beneath(none, none)
    <3>1. \A i \in 1..Len(none) : FALSE
      BY <1>2
    <3> QED
      BY <1>2, <1>3, <3>1 DEF Beneath
  <2>2. Above(none, f) /\ 0 \in Blanks
    BY <1>1, <1>3 DEF Above, Blanks
  <2> QED
    BY <2>1, <2>2
<1>6. Twins(c, c)
  BY <1>1, <1>4, TwinsTop
<1> HIDE DEF c
<1>7. TwinLists(<<c>>, <<c>>)
  BY <1>6, TwinsLone
<1> QED
  BY <1>5, <1>7, ListsOf

-----------------------------------------------------------------------------
(* The masks, and the inductive invariant.                                 *)

\* The mask kept for a state key keeps exactly the tokens that the state allows.
LEMMA DocMask ==
  ASSUME NEW C \in Lists
  PROVE  KeptOfDoc(C) = {t \in Tokens : J!Allows(C, Piece[t], t \in Eog)}
<1> DEFINE key == J!KeyOf(C)
<1>1. TwinLists(C, key) /\ key \in Lists
  BY KeyTwin, ListsOf
<1>2. J!CanEnd(key) <=> J!CanEnd(C)
  BY <1>1, CanEndTwins
<1>6. KeptOfDoc(C) =
        {t \in Tokens :
           \/ J!InPlainString(key) /\ Plain(t)
           \/ t \in Eog /\ J!Allows(key, <<>>, TRUE)
           \/ t \notin Eog /\ J!Allows(key, Piece[t], FALSE)}
  BY DEF KeptOfDoc
<1> HIDE DEF key
<1>3. ASSUME NEW t \in Tokens
      PROVE  /\ J!Feed(key, Piece[t]) = <<>> <=> J!Feed(C, Piece[t]) = <<>>
             /\ J!InPlainString(key) /\ Plain(t) => J!Feed(key, Piece[t]) # <<>>
  <2>1. Piece[t] \in Seq(Bytes)
    BY ConstraintsAssumption
  <2>2. TwinLists(J!Feed(C, Piece[t]), J!Feed(key, Piece[t]))
    BY <1>1, <2>1, FeedTwins
  <2>3. J!Feed(key, Piece[t]) = <<>> <=> J!Feed(C, Piece[t]) = <<>>
    BY <2>2, SameEmpty
  <2>4. Plain(t) => \A i \in DOMAIN Piece[t] : Piece[t][i] \notin Control \cup {Quote, Escape}
    BY DEF Plain
  <2>5. J!InPlainString(key) /\ Plain(t) => J!Feed(key, Piece[t]) # <<>>
    BY <1>1, <2>1, <2>4, PlainStays
  <2> QED
    BY <2>3, <2>5
<1>4. ASSUME NEW t \in Tokens, t \in Eog
      PROVE  t \in KeptOfDoc(C) <=> J!Allows(C, Piece[t], t \in Eog)
  <2>1. t \in KeptOfDoc(C) <=> J!CanEnd(key)
    BY <1>4, <1>6 DEF Plain, J!Allows
  <2>2. J!Allows(C, Piece[t], t \in Eog) <=> J!CanEnd(C)
    BY <1>4 DEF J!Allows
  <2> QED
    BY <1>2, <2>1, <2>2
<1>5. ASSUME NEW t \in Tokens, t \notin Eog
      PROVE  t \in KeptOfDoc(C) <=> J!Allows(C, Piece[t], t \in Eog)
  <2>1. t \in KeptOfDoc(C) <=> \/ J!InPlainString(key) /\ Plain(t)
                               \/ Piece[t] # <<>> /\ J!Feed(key, Piece[t]) # <<>>
    BY <1>5, <1>6 DEF J!Allows
  <2>2. J!Allows(C, Piece[t], t \in Eog) <=> Piece[t] # <<>> /\ J!Feed(C, Piece[t]) # <<>>
    BY <1>5 DEF J!Allows
  <2>3. Plain(t) => Piece[t] # <<>>
    BY DEF Plain
  <2> QED
    BY <1>3, <2>1, <2>2, <2>3
<1>7. KeptOfDoc(C) \subseteq Tokens
  BY <1>6
<1> QED
  BY <1>4, <1>5, <1>7

\* Neither the look at the first byte nor the one past a plain string changes the mask of a call.
LEMMA CallMask ==
  ASSUME NEW s \in Live
  PROVE  KeptOfCall(s) = {t \in Tokens : Allows(Names, s, Piece[t], t \in Eog)}
<1> DEFINE K == {t \in Tokens : Allows(Names, s, Piece[t], t \in Eog)}
<1>1. Constraining(s) /\ s.phase \in Phases
  BY LiveConstrains DEF Live, ToolState
<1>2. ASSUME NEW t \in Tokens
      PROVE  /\ Piece[t] \in Seq(Bytes) /\ (t \in Eog => Piece[t] = <<>>)
             /\ InPlainString(s) /\ Plain(t) => Piece[t] # <<>> /\ Feed(Names, {s}, Piece[t]) # {}
             /\ Piece[t] # <<>> /\ Feed(Names, {s}, Piece[t]) # {} =>
                  <<Head(Piece[t])>> # <<>> /\ Feed(Names, {s}, <<Head(Piece[t])>>) # {}
  <2>1. Piece[t] \in Seq(Bytes) /\ (t \in Eog => Piece[t] = <<>>)
    BY ConstraintsAssumption
  <2>2. Plain(t) => Piece[t] # <<>> /\ \A i \in DOMAIN Piece[t] : Piece[t][i] \notin Control \cup {Quote, Escape}
    BY DEF Plain
  <2>3. InPlainString(s) /\ Plain(t) => Feed(Names, {s}, Piece[t]) = {s}
    BY <2>1, <2>2, PlainFeed
  <2>4. Piece[t] # <<>> /\ Feed(Names, {s}, Piece[t]) # {} => Feed(Names, {s}, <<Head(Piece[t])>>) # {}
    BY <2>1, HeadFeed
  <2>5. <<Head(Piece[t])>> # <<>>
    OBVIOUS
  <2> QED
    BY <2>1, <2>2, <2>3, <2>4, <2>5
<1>3. InPlainString(s) => s.phase = "json"
  BY DEF InPlainString
<1>4. ASSUME NEW t \in Tokens, t \in Eog
      PROVE  t \in KeptOfCall(s) <=> t \in K
  <2>1. t \in KeptOfCall(s) <=> Allows(Names, s, <<>>, TRUE)
    BY <1>4 DEF KeptOfCall, Plain
  <2>2. t \in K <=> Allows(Names, s, Piece[t], TRUE)
    BY <1>4
  <2>3. Allows(Names, s, <<>>, TRUE) <=> Allows(Names, s, Piece[t], TRUE)
    BY DEF Allows
  <2> QED
    BY <2>1, <2>2, <2>3
<1>5. ASSUME NEW t \in Tokens, t \notin Eog
      PROVE  t \in KeptOfCall(s) <=> t \in K
  <2>1. t \in KeptOfCall(s) <=>
          \/ InPlainString(s) /\ Plain(t)
          \/ /\ Piece[t] # <<>>
             /\ Allows(Names, s, <<Head(Piece[t])>>, FALSE)
             /\ Allows(Names, s, Piece[t], FALSE)
    BY <1>5 DEF KeptOfCall
  <2>2. t \in K <=> Allows(Names, s, Piece[t], FALSE)
    BY <1>5 DEF Allows
  <2>3. \A p : Allows(Names, s, p, FALSE) <=> s.phase \in {"json", "close"} /\ p # <<>> /\ Feed(Names, {s}, p) # {}
    BY <1>1 DEF Allows
  <2>4. /\ Allows(Names, s, Piece[t], FALSE) <=> s.phase \in {"json", "close"} /\ Piece[t] # <<>> /\ Feed(Names, {s}, Piece[t]) # {}
        /\ Allows(Names, s, <<Head(Piece[t])>>, FALSE) <=>
             s.phase \in {"json", "close"} /\ <<Head(Piece[t])>> # <<>> /\ Feed(Names, {s}, <<Head(Piece[t])>>) # {}
    BY <2>3
  <2> HIDE DEF K
  <2> QED
    BY <1>2, <1>3, <2>1, <2>2, <2>4
<1>6. KeptOfCall(s) \subseteq Tokens /\ K \subseteq Tokens
  BY DEF KeptOfCall
<1> HIDE DEF K
<1>7. KeptOfCall(s) = K
  BY <1>4, <1>5, <1>6
<1> QED
  BY <1>7 DEF K

-----------------------------------------------------------------------------
\* The automaton is in a call or looks for the tag.
Shape(s) == s \in Live \/ \E w \in Seq(Bytes) : s = Scanning(w)

\* The fields of the engine are in their ranges.
Fields ==
  /\ declared \in ToolSets \cup {Off} /\ schema \in Schemas \cup {Off}
  /\ live \in BOOLEAN /\ flight \in BOOLEAN /\ tagged \in BOOLEAN /\ missed \in BOOLEAN
  /\ queue \in 0..MaxDraft /\ text \in Seq(Bytes) /\ said \in Nat

\* With no tools declared, and before the first token, the automaton of the call is at rest.
ToolKept == Shape(st) /\ (declared = Off => st = Idle) /\ (~live => st = Idle)

\* The configurations of a document are as many, and as deep, as the code allows.
DocKept == doc \in Lists /\ Len(doc) <= MaxConfigs /\ (schema = Off => doc = <<>>)

\* Of a generation that missed nothing, history and automaton belong together.
Together(started, heard, s) ==
  IF declared = Off THEN started = FALSE ELSE Follow(Names, started, heard, s)

\* Of a generation that missed nothing and has no schema, history and automaton belong together.
Tracked == ~missed /\ schema = Off => Together(tagged, text, st)

\* The inductive invariant.
IInv == Fields /\ ToolKept /\ DocKept /\ Tracked

\* A reset automaton is scanning.
LEMMA ShapeIdle == Shape(Idle)
BY IdleIs DEF Shape

\* A token that is shown leaves an automaton of that shape.
LEMMA SeenShape ==
  ASSUME NEW s, Shape(s), NEW token \in Tokens
  PROVE  Shape(Seen(s, token)) /\ (declared = Off => Seen(s, token) = s)
<1>1. Piece[token] \in Seq(Bytes)
  BY ConstraintsAssumption
<1> DEFINE t == Accept(Names, s, Piece[token])
<1>2. Shape(t)
  <2>1. t = Accept(Names, s, Piece[token])
    OBVIOUS
  <2> HIDE DEF t
  <2> QED
    BY <1>1, <2>1, TypedAccept DEF Shape
<1>3. Seen(s, token) = s \/ Seen(s, token) = t
  BY DEF Seen
<1> HIDE DEF t
<1>4. declared = Off => Seen(s, token) = s
  BY DEF Seen
<1> QED
  BY <1>2, <1>3, <1>4

\* A document that starts is a list of one configuration, or of none without a schema.
LEMMA FreshIn ==
  ASSUME NEW s \in Schemas \cup {Off}
  PROVE  FreshDoc(s) \in Lists /\ Len(FreshDoc(s)) <= MaxConfigs /\ (s = Off => FreshDoc(s) = <<>>)
<1>1. MaxConfigs \in Nat \ {0} /\ Schemas \subseteq Subschemas
  BY JsonAssumption, ConstraintsAssumption
<1>2. CASE s = Off
  <2> DEFINE none == <<>>
  <2>1. FreshDoc(s) = none /\ none \in Lists /\ Len(none) = 0
    BY <1>2, TwinsNone, ListsOf DEF FreshDoc
  <2> HIDE DEF none
  <2>2. Len(FreshDoc(s)) <= MaxConfigs
    BY <1>1, <2>1
  <2> QED
    BY <1>2, <2>1, <2>2 DEF none
<1>3. CASE s # Off
  <2>1. s \in Subschemas /\ FreshDoc(s) = J!Start(s)
    BY <1>1, <1>3 DEF FreshDoc
  <2>2. J!Start(s) \in Lists /\ Len(J!Start(s)) = 1
    BY <2>1, StartIn
  <2> QED
    BY <1>1, <1>3, <2>1, <2>2
<1> QED
  BY <1>2, <1>3

\* What the history becomes belongs with what the automaton becomes.
LEMMA HeardTogether ==
  ASSUME NEW started \in BOOLEAN, NEW heard, NEW s, Together(started, heard, s), NEW token \in Tokens,
         schema = Off
  PROVE  /\ Heard(started, heard, Piece[token]).tag \in BOOLEAN
         /\ Heard(started, heard, Piece[token]).words \in Seq(Bytes)
         /\ Together(Heard(started, heard, Piece[token]).tag, Heard(started, heard, Piece[token]).words, Seen(s, token))
<1> DEFINE h == Heard(started, heard, Piece[token])
           t == Seen(s, token)
<1>1. Piece[token] \in Seq(Bytes)
  BY ConstraintsAssumption
<1>2. CASE declared = Off
  <2>1. h = [tag |-> FALSE, words |-> <<>>]
    BY <1>2 DEF Heard
  <2>2. h.tag = FALSE /\ h.words = <<>>
    BY <2>1
  <2> QED
    BY <1>2, <2>2, EmptySeq DEF Together
<1>3. CASE declared # Off
  <2>1. t = Accept(Names, s, Piece[token]) /\ h = Heard(started, heard, Piece[token])
    BY <1>3 DEF Seen
  <2>2. Follow(Names, started, heard, s)
    BY <1>3 DEF Together
  <2> HIDE DEF h, t
  <2>3. h.tag \in BOOLEAN /\ Follow(Names, h.tag, h.words, t)
    BY <1>1, <1>3, <2>1, <2>2, FollowPiece
  <2>4. h.words \in Seq(Bytes)
    <3>1. CASE h.tag
      BY <2>3, <3>1 DEF Follow
    <3>2. CASE ~h.tag
      <4>1. PICK w \in Seq(Bytes) : t = Scanning(w) /\ Heeds(w, h.words)
        BY <2>3, <3>2 DEF Follow
      <4>2. N - 1 \in Nat
        BY NIs
      <4> QED
        BY <4>1, <4>2, LastBytesIs DEF Heeds
    <3> QED
      BY <2>3, <3>1, <3>2
  <2>5. Together(h.tag, h.words, t)
    BY <1>3, <2>3 DEF Together
  <2> QED
    BY <2>3, <2>4, <2>5 DEF h, t
<1> QED
  BY <1>2, <1>3

-----------------------------------------------------------------------------
(* The invariant is kept.                                                  *)

\* A token that is given out and shown.
LEMMA GivenOut ==
  ASSUME NEW started \in BOOLEAN, NEW heard \in Seq(Bytes), NEW s, NEW token \in Tokens, said \in Nat,
         missed \in BOOLEAN,
         ~missed /\ schema = Off => Together(started, heard, s),
         schema = Off => st' = Seen(s, token),
         GiveOut(started, heard, token), UNCHANGED <<declared, schema, missed>>
  PROVE  tagged' \in BOOLEAN /\ text' \in Seq(Bytes) /\ said' \in Nat /\ Tracked'
<1>1. Piece[token] \in Seq(Bytes) /\ <<>> \in Seq(Bytes)
  BY ConstraintsAssumption, EmptySeq
<1>2. said' \in Nat
  BY DEF GiveOut, Counted
<1>3. CASE missed
  <2>1. tagged' = started /\ text' = <<>>
    BY <1>3 DEF GiveOut
  <2> QED
    BY <1>1, <1>2, <1>3, <2>1 DEF Tracked
<1>4. CASE ~missed /\ schema # Off
  <2> DEFINE u == heard \o Piece[token]
             h == HeardOfDoc(heard, Piece[token])
  <2>1. tagged' = h.tag /\ text' = h.words
    BY <1>4 DEF GiveOut
  <2>2. h.tag = FALSE /\ (h.words = <<>> \/ h.words = u)
    BY DEF HeardOfDoc
  <2>3. u \in Seq(Bytes)
    BY <1>1, ConcatProperties
  <2> HIDE DEF h, u
  <2>4. tagged' \in BOOLEAN /\ text' \in Seq(Bytes)
    BY <1>1, <2>1, <2>2, <2>3
  <2> QED
    BY <1>2, <1>4, <2>4 DEF Tracked
<1>5. CASE ~missed /\ schema = Off
  <2> DEFINE h == Heard(started, heard, Piece[token])
             t == Seen(s, token)
  <2>1. tagged' = h.tag /\ text' = h.words /\ st' = t
    BY <1>5 DEF GiveOut
  <2>2. h.tag \in BOOLEAN /\ h.words \in Seq(Bytes) /\ Together(h.tag, h.words, t)
    BY <1>5, HeardTogether
  <2> HIDE DEF h, t
  <2>3. Together(tagged, text, st)'
    BY <2>1, <2>2 DEF Together, Names
  <2> QED
    BY <1>2, <2>1, <2>2, <2>3 DEF Tracked
<1> QED
  BY <1>3, <1>4, <1>5

\* A token that is given out and not shown.
LEMMA GivenOutUnseen ==
  ASSUME NEW token \in Tokens, said \in Nat, tagged \in BOOLEAN, text \in Seq(Bytes), GiveOutUnseen(token)
  PROVE  tagged' \in BOOLEAN /\ text' \in Seq(Bytes) /\ said' \in Nat /\ Tracked' /\ missed' = TRUE
<1> DEFINE u == text \o Piece[token]
<1>1. u \in Seq(Bytes) /\ <<>> \in Seq(Bytes)
  BY ConstraintsAssumption, ConcatProperties, EmptySeq
<1>2. LastBytes(u, Len(OpenTag) - 1) \in Seq(Bytes)
  <2>1. Len(OpenTag) - 1 \in Nat
    BY NIs DEF N
  <2> HIDE DEF u
  <2> QED
    BY <1>1, <2>1, LastBytesIs
<1>3. tagged' = (tagged \/ (declared # Off /\ schema = Off /\ Found(OpenTag, u) # {}))
  BY DEF GiveOutUnseen
<1>4. text' = <<>> \/ text' = LastBytes(u, Len(OpenTag) - 1)
  BY DEF GiveOutUnseen
<1>5. said' \in Nat /\ missed' = TRUE
  BY DEF GiveOutUnseen, Counted
<1> HIDE DEF u
<1>6. tagged' \in BOOLEAN /\ text' \in Seq(Bytes)
  BY <1>1, <1>2, <1>3, <1>4
<1> QED
  BY <1>5, <1>6 DEF Tracked

\* The invariant holds at first.
LEMMA InitKept == Init => IInv
<1> SUFFICES ASSUME Init PROVE IInv
  OBVIOUS
<1>1. /\ st = Idle /\ declared = Off /\ schema = Off /\ doc = <<>> /\ live = FALSE /\ queue = 0 /\ flight = FALSE
      /\ said = 0 /\ tagged = FALSE /\ text = <<>> /\ missed = FALSE
  BY DEF Init
<1>2. Fields
  <2>1. 0 \in 0..MaxDraft /\ 0 \in Nat
    <3>1. MaxDraft \in Nat
      BY ConstraintsAssumption
    <3> QED
      BY <3>1
  <2>2. live \in BOOLEAN /\ flight \in BOOLEAN /\ tagged \in BOOLEAN /\ missed \in BOOLEAN
    BY <1>1
  <2>3. declared \in ToolSets \cup {Off} /\ schema \in Schemas \cup {Off} /\ text \in Seq(Bytes)
    BY <1>1, EmptySeq
  <2>4. queue \in 0..MaxDraft /\ said \in Nat
    BY <1>1, <2>1
  <2> QED
    BY <2>2, <2>3, <2>4 DEF Fields
<1>3. ToolKept
  BY <1>1, ShapeIdle DEF ToolKept
<1>4. DocKept
  <2>1. FreshDoc(Off) = <<>>
    BY DEF FreshDoc
  <2>2. FreshDoc(Off) \in Lists /\ Len(FreshDoc(Off)) <= MaxConfigs
    BY FreshIn
  <2> QED
    BY <1>1, <2>1, <2>2 DEF DocKept
<1>5. Tracked
  BY <1>1 DEF Tracked, Together
<1> QED
  BY <1>2, <1>3, <1>4, <1>5 DEF IInv

\* engine_set_tool_constraint keeps the invariant: the automaton is reset and the history
\* with it, unless a schema is set.
LEMMA SetToolConstraintKept ==
  ASSUME IInv, SetToolConstraint
  PROVE  IInv'
<1>1. PICK names \in ToolSets \cup {Off} :
    /\ declared' = names
    /\ st' = Idle
    /\ flight' = FALSE
    /\ IF schema = Off THEN Fresh ELSE UNCHANGED <<said, tagged, text, missed>>
    /\ UNCHANGED <<schema, doc, live, queue>>
  BY DEF SetToolConstraint
<1>2. Fields /\ DocKept
  BY DEF IInv
<1>a. declared' \in ToolSets \cup {Off} /\ flight' = FALSE
      /\ schema' = schema /\ live' = live /\ queue' = queue
  BY <1>1
<1>b. tagged' \in BOOLEAN /\ text' \in Seq(Bytes) /\ missed' \in BOOLEAN /\ said' \in Nat
  <2>1. CASE schema = Off
    <3>1. tagged' = FALSE /\ text' = <<>> /\ missed' = FALSE /\ said' = 0
      BY <1>1, <2>1 DEF Fresh
    <3> QED
      BY <3>1, EmptySeq
  <2>2. CASE schema # Off
    <3>1. tagged' = tagged /\ text' = text /\ missed' = missed /\ said' = said
      BY <1>1, <2>2
    <3> QED
      BY <1>2, <3>1 DEF Fields
  <2> QED
    BY <2>1, <2>2
<1>3. Fields'
  BY <1>2, <1>a, <1>b DEF Fields
<1>4. ToolKept'
  BY <1>1, ShapeIdle DEF ToolKept
<1>5. DocKept'
  BY <1>1, <1>2 DEF DocKept
<1>6. Tracked'
  <2> SUFFICES ASSUME schema' = Off PROVE Together(tagged, text, st)'
    BY DEF Tracked
  <2>1. tagged' = FALSE /\ text' = <<>> /\ st' = Idle
    BY <1>1 DEF Fresh
  <2> DEFINE n == Names'
  <2>2. Follow(n, FALSE, <<>>, Idle)
    <3> HIDE DEF n
    <3> QED
      BY FollowIdle
  <2> QED
    BY <2>1, <2>2 DEF Together
<1> QED
  BY <1>3, <1>4, <1>5, <1>6 DEF IInv

\* engine_set_json_schema keeps the invariant: in the middle of a generation the history
\* counts as missed.
LEMMA SetJsonSchemaKept ==
  ASSUME IInv, SetJsonSchema
  PROVE  IInv'
<1>1. PICK s \in Schemas \cup {Off} :
    /\ schema' = s
    /\ doc' = FreshDoc(s)
    /\ flight' = FALSE
    /\ said' = 0 /\ tagged' = FALSE /\ text' = <<>>
    /\ missed' = live
    /\ UNCHANGED <<st, declared, live, queue>>
  BY DEF SetJsonSchema
<1>2. Fields /\ ToolKept
  BY DEF IInv
<1>3. Fields'
  BY <1>1, <1>2, EmptySeq DEF Fields
<1>4. ToolKept'
  BY <1>1, <1>2 DEF ToolKept
<1>5. DocKept'
  BY <1>1, FreshIn DEF DocKept
<1>6. Tracked'
  <2> SUFFICES ASSUME ~missed' PROVE Together(tagged, text, st)'
    BY DEF Tracked
  <2>1. tagged' = FALSE /\ text' = <<>> /\ st' = Idle
    BY <1>1, <1>2 DEF ToolKept
  <2> DEFINE n == Names'
  <2>2. Follow(n, FALSE, <<>>, Idle)
    <3> HIDE DEF n
    <3> QED
      BY FollowIdle
  <2> QED
    BY <2>1, <2>2 DEF Together
<1> QED
  BY <1>3, <1>4, <1>5, <1>6 DEF IInv

\* engine_predict keeps the invariant: automata and history start over with the first token.
LEMMA PredictKept ==
  ASSUME IInv, Predict
  PROVE  IInv'
<1> DEFINE fresh == FreshDoc(schema)
<1>1. PICK kept, token :
       /\ token \in Drawn(fresh, kept)
       /\ st' = Seen(Idle, token)
       /\ doc' = IF kept = {} THEN <<>> ELSE SeenOfDoc(fresh, token)
       /\ kept = IF fresh = <<>> THEN {} ELSE KeptOfDoc(fresh)
       /\ live' = TRUE
       /\ queue' = 0
       /\ flight' = FALSE
       /\ missed' = FALSE
       /\ LET h == IF schema # Off THEN HeardOfDoc(<<>>, Piece[token])
                   ELSE Heard(FALSE, <<>>, Piece[token])
          IN tagged' = h.tag /\ text' = h.words /\ said' = 1
       /\ UNCHANGED <<declared, schema>>
  <2> DEFINE K == IF fresh = <<>> THEN {} ELSE KeptOfDoc(fresh)
  <2>1. PICK kept \in {K} : \E token \in Drawn(fresh, kept) :
       /\ st' = Seen(Idle, token)
       /\ doc' = IF kept = {} THEN <<>> ELSE SeenOfDoc(fresh, token)
       /\ live' = TRUE
       /\ queue' = 0
       /\ flight' = FALSE
       /\ missed' = FALSE
       /\ LET h == IF schema # Off THEN HeardOfDoc(<<>>, Piece[token])
                   ELSE Heard(FALSE, <<>>, Piece[token])
          IN tagged' = h.tag /\ text' = h.words /\ said' = 1
       /\ UNCHANGED <<declared, schema>>
    BY DEF Predict
  <2> HIDE DEF fresh
  <2> QED
    BY <2>1
<1>2. Fields /\ DocKept
  BY DEF IInv
<1>3. token \in Tokens /\ Piece[token] \in Seq(Bytes)
  <2>1. token \in Thought(fresh)
    BY <1>1 DEF Drawn
  <2>2. Likely[schema] \subseteq Tokens
    BY <1>2, ConstraintsAssumption DEF Fields
  <2>3. token \in Tokens
    BY <2>1, <2>2 DEF Thought
  <2> QED
    BY <2>3, ConstraintsAssumption
<1>4. fresh \in Lists /\ Len(fresh) <= MaxConfigs /\ (schema = Off => fresh = <<>>)
  BY <1>2, FreshIn DEF Fields
<1>a. MaxConfigs \in Nat /\ <<>> \in Lists /\ Len(<<>>) = 0 /\ <<>> \in Seq(Bytes)
  BY JsonAssumption, TwinsNone, ListsOf, EmptySeq
<1>5. Tracked' /\ tagged' \in BOOLEAN /\ text' \in Seq(Bytes)
  <2>1. CASE schema # Off
    <3> DEFINE h == HeardOfDoc(<<>>, Piece[token])
    <3>1. tagged' = h.tag /\ text' = h.words
      BY <1>1, <2>1
    <3>2. h.tag = FALSE /\ (h.words = <<>> \/ h.words = <<>> \o Piece[token])
      BY DEF HeardOfDoc
    <3>3. <<>> \o Piece[token] = Piece[token]
      BY <1>3, ConcatEmptySeq
    <3>4. tagged' \in BOOLEAN /\ text' \in Seq(Bytes)
      <4> HIDE DEF h
      <4> QED
        BY <1>3, <1>a, <3>1, <3>2, <3>3
    <3> QED
      BY <1>1, <2>1, <3>4 DEF Tracked
  <2>2. CASE schema = Off
    <3> DEFINE none == <<>>
               h == Heard(FALSE, none, Piece[token])
               t == Seen(Idle, token)
               off == FALSE
    <3>1. tagged' = h.tag /\ text' = h.words /\ st' = t
      BY <1>1, <2>2
    <3>2. Together(off, none, Idle)
      BY FollowIdle DEF Together
    <3>3. h.tag \in BOOLEAN /\ h.words \in Seq(Bytes) /\ Together(h.tag, h.words, t)
      <4> DEFINE g == Heard(off, none, Piece[token])
      <4>1. off \in BOOLEAN
        OBVIOUS
      <4> HIDE DEF off, none
      <4>2. g.tag \in BOOLEAN /\ g.words \in Seq(Bytes) /\ Together(g.tag, g.words, t)
        BY <1>3, <2>2, <3>2, <4>1, HeardTogether
      <4> QED
        BY <4>2 DEF off
    <3> HIDE DEF h, t
    <3>4. Together(tagged, text, st)'
      BY <1>1, <3>1, <3>3 DEF Together, Names
    <3> QED
      BY <3>1, <3>3, <3>4 DEF Tracked
  <2> QED
    BY <2>1, <2>2
<1>6. Fields'
  <2>1. said' = 1
    BY <1>1
  <2>2. 0 \in 0..MaxDraft /\ 1 \in Nat
    <3>1. MaxDraft \in Nat
      BY ConstraintsAssumption
    <3> QED
      BY <3>1
  <2>3. live' = TRUE /\ queue' = 0 /\ flight' = FALSE /\ missed' = FALSE /\ declared' = declared /\ schema' = schema
    BY <1>1
  <2> QED
    BY <1>2, <1>5, <2>1, <2>2, <2>3 DEF Fields
<1>7. ToolKept'
  BY <1>1, <1>3, ShapeIdle, SeenShape DEF ToolKept
<1>8. DocKept'
  <2>1. SeenOfDoc(fresh, token) \in Lists /\ Len(SeenOfDoc(fresh, token)) <= MaxConfigs
    <3> HIDE DEF fresh
    <3> QED
      BY <1>3, <1>4, DocFeedIn, DocFeedShort DEF SeenOfDoc
  <2>2. doc' = <<>> \/ doc' = SeenOfDoc(fresh, token)
    BY <1>1
  <2>3. schema = Off => doc' = <<>>
    BY <1>1, <1>4
  <2>4. schema' = schema
    BY <1>1
  <2> DEFINE none == <<>>
  <2>5. none \in Lists /\ Len(none) <= MaxConfigs /\ (doc' = none \/ doc' = SeenOfDoc(fresh, token))
        /\ (schema = Off => doc' = none)
    BY <1>a, <2>2, <2>3
  <2> HIDE DEF none
  <2>6. doc' \in Lists /\ Len(doc') <= MaxConfigs
    BY <2>1, <2>5
  <2> QED
    BY <2>3, <2>4, <2>6 DEF DocKept
<1> QED
  BY <1>5, <1>6, <1>7, <1>8 DEF IInv

-----------------------------------------------------------------------------
\* A token that is drawn is one of the model's, and under a mask one of the mask.
LEMMA DrawnIs ==
  ASSUME Fields, NEW cfgs, NEW kept, NEW token \in Drawn(cfgs, kept)
  PROVE  token \in Tokens /\ Piece[token] \in Seq(Bytes) /\ (kept # {} => token \in kept)
<1>1. token \in Thought(cfgs) /\ (kept # {} => token \in kept)
  BY DEF Drawn
<1>2. Likely[schema] \subseteq Tokens
  BY ConstraintsAssumption DEF Fields
<1>3. token \in Tokens
  BY <1>1, <1>2 DEF Thought
<1> QED
  BY <1>1, <1>3, ConstraintsAssumption

\* A token of the queue keeps the invariant: it counts as missed.
LEMMA NextQueuedKept ==
  ASSUME IInv, NextQueued
  PROVE  IInv'
<1>1. Fields /\ ToolKept /\ DocKept
  BY DEF IInv
<1>2. PICK token \in Drawn(<<>>, {}) : GiveOutUnseen(token)
  BY DEF NextQueued
<1>3. queue > 0 /\ queue' = queue - 1 /\ UNCHANGED <<st, declared, schema, doc, live, flight>>
  BY DEF NextQueued
<1>4. token \in Tokens
  BY <1>1, DrawnIs
<1>5. tagged' \in BOOLEAN /\ text' \in Seq(Bytes) /\ said' \in Nat /\ Tracked' /\ missed' = TRUE
  BY <1>1, <1>2, <1>4, GivenOutUnseen DEF Fields
<1>6. queue' \in 0..MaxDraft
  <2>1. queue \in 0..MaxDraft /\ MaxDraft \in Nat
    BY <1>1, ConstraintsAssumption DEF Fields
  <2> QED
    BY <1>3, <2>1
<1>7. Fields'
  BY <1>1, <1>3, <1>5, <1>6 DEF Fields
<1>8. ToolKept' /\ DocKept'
  BY <1>1, <1>3 DEF ToolKept, DocKept
<1> QED
  BY <1>5, <1>7, <1>8 DEF IInv

\* A speculative round keeps the invariant: its token counts as missed.
LEMMA NextSpeculatedKept ==
  ASSUME IInv, NextSpeculated
  PROVE  IInv'
<1>1. Fields /\ ToolKept /\ DocKept
  BY DEF IInv
<1>2. PICK token \in Drawn(<<>>, {}) : GiveOutUnseen(token)
  BY DEF NextSpeculated
<1>3. queue' \in 0..MaxDraft /\ flight' = FALSE /\ UNCHANGED <<st, declared, schema, doc, live>>
  BY DEF NextSpeculated
<1>4. token \in Tokens
  BY <1>1, DrawnIs
<1>5. tagged' \in BOOLEAN /\ text' \in Seq(Bytes) /\ said' \in Nat /\ Tracked' /\ missed' = TRUE
  BY <1>1, <1>2, <1>4, GivenOutUnseen DEF Fields
<1>7. Fields'
  BY <1>1, <1>3, <1>5 DEF Fields
<1>8. ToolKept' /\ DocKept'
  BY <1>1, <1>3 DEF ToolKept, DocKept
<1> QED
  BY <1>5, <1>7, <1>8 DEF IInv

\* The pipelined path runs while nothing is constrained.
LEMMA Unconstrained ==
  ASSUME ToolKept, ~NeedsHost
  PROVE  doc = <<>> /\ ~Constrained
<1>1. doc = <<>> /\ (declared = Off \/ ~Constraining(st))
  BY DEF NeedsHost
<1>2. ~Constraining(Idle)
  BY IdleIs, ScanningIs
<1> QED
  BY <1>1, <1>2 DEF ToolKept, Constrained

\* The pipelined decode keeps the invariant: its token is heard and shown.
LEMMA NextPipelinedKept ==
  ASSUME IInv, NextPipelined
  PROVE  IInv'
<1>1. Fields /\ ToolKept /\ DocKept /\ Tracked
  BY DEF IInv
<1>2. PICK token \in Drawn(<<>>, {}), queued \in BOOLEAN :
       /\ st' = Seen(st, token)
       /\ flight' = (queued /\ ~NeedsHost')
       /\ GiveOut(tagged, text, token)
  BY DEF NextPipelined
<1>3. live /\ UNCHANGED <<declared, schema, doc, live, queue, missed>>
  BY DEF NextPipelined, Turns
<1>4. token \in Tokens
  BY <1>1, DrawnIs
<1>5. tagged' \in BOOLEAN /\ text' \in Seq(Bytes) /\ said' \in Nat /\ Tracked'
  <2>1. tagged \in BOOLEAN /\ text \in Seq(Bytes) /\ said \in Nat /\ missed \in BOOLEAN
    BY <1>1 DEF Fields
  <2>2. ~missed /\ schema = Off => Together(tagged, text, st)
    BY <1>1 DEF Tracked
  <2> QED
    BY <1>2, <1>3, <1>4, <2>1, <2>2, GivenOut
<1>6. flight' \in BOOLEAN
  BY <1>2
<1>7. Fields'
  BY <1>1, <1>3, <1>5, <1>6 DEF Fields
<1>8. ToolKept'
  <2>1. Shape(Seen(st, token)) /\ (declared = Off => Seen(st, token) = st)
    BY <1>1, <1>4, SeenShape DEF ToolKept
  <2> QED
    BY <1>1, <1>2, <1>3, <2>1 DEF ToolKept
<1>9. DocKept'
  BY <1>1, <1>3 DEF DocKept
<1> QED
  BY <1>5, <1>7, <1>8, <1>9 DEF IInv

\* The step-by-step path keeps the invariant: its token is heard and shown to both automata.
LEMMA NextHostKept ==
  ASSUME IInv, NextHost
  PROVE  IInv'
<1>1. Fields /\ ToolKept /\ DocKept /\ Tracked
  BY DEF IInv
<1>2. PICK kept, token :
        /\ token \in Drawn(doc, kept)
        /\ st' = Seen(st, token)
        /\ doc' = SeenOfDoc(doc, token)
        /\ GiveOut(tagged, text, token)
  BY DEF NextHost
<1>3. live /\ flight' = FALSE /\ UNCHANGED <<declared, schema, live, queue, missed>>
  BY DEF NextHost, Turns
<1>4. token \in Tokens /\ Piece[token] \in Seq(Bytes)
  BY <1>1, <1>2, DrawnIs
<1>5. tagged' \in BOOLEAN /\ text' \in Seq(Bytes) /\ said' \in Nat /\ Tracked'
  <2>1. tagged \in BOOLEAN /\ text \in Seq(Bytes) /\ said \in Nat /\ missed \in BOOLEAN
    BY <1>1 DEF Fields
  <2>2. ~missed /\ schema = Off => Together(tagged, text, st)
    BY <1>1 DEF Tracked
  <2> QED
    BY <1>2, <1>3, <1>4, <2>1, <2>2, GivenOut
<1>7. Fields'
  BY <1>1, <1>3, <1>5 DEF Fields
<1>8. ToolKept'
  <2>1. Shape(Seen(st, token)) /\ (declared = Off => Seen(st, token) = st)
    BY <1>1, <1>4, SeenShape DEF ToolKept
  <2> QED
    BY <1>1, <1>2, <1>3, <2>1 DEF ToolKept
<1>9. DocKept'
  <2>1. doc \in Lists /\ Len(doc) <= MaxConfigs
    BY <1>1 DEF DocKept
  <2>2. SeenOfDoc(doc, token) \in Lists /\ Len(SeenOfDoc(doc, token)) <= MaxConfigs
    BY <1>4, <2>1, DocFeedIn, DocFeedShort DEF SeenOfDoc
  <2>3. doc = <<>> => SeenOfDoc(doc, token) = <<>>
    BY <1>4, DocFeedNone DEF SeenOfDoc
  <2>4. doc' = SeenOfDoc(doc, token) /\ schema' = schema
    BY <1>2, <1>3
  <2>5. schema = Off => doc = <<>>
    BY <1>1 DEF DocKept
  <2>6. doc' \in Lists /\ Len(doc') <= MaxConfigs
    BY <2>2, <2>4
  <2>7. schema' = Off => doc' = <<>>
    BY <2>3, <2>4, <2>5
  <2> QED
    BY <2>6, <2>7 DEF DocKept
<1> QED
  BY <1>5, <1>7, <1>8, <1>9 DEF IInv

\* A dead end keeps the invariant: the automaton that gives up is reset before the token.
LEMMA NextDeadEndKept ==
  ASSUME IInv, NextDeadEnd
  PROVE  IInv'
<1>1. Fields /\ ToolKept /\ DocKept /\ Tracked
  BY DEF IInv
<1>2. PICK token \in Drawn(<<>>, {}) :
       /\ st' = IF doc # <<>> THEN st ELSE Seen(Idle, token)
       /\ doc' = <<>>
       /\ GiveOut(FALSE, <<>>, token)
  BY DEF NextDeadEnd
<1>3. live /\ flight' = FALSE /\ UNCHANGED <<declared, schema, live, queue, missed>>
  BY DEF NextDeadEnd, Turns
<1>4. token \in Tokens
  BY <1>1, DrawnIs
<1>5. tagged' \in BOOLEAN /\ text' \in Seq(Bytes) /\ said' \in Nat /\ Tracked'
  <2> DEFINE off == FALSE
             none == <<>>
  <2>1. off \in BOOLEAN /\ none \in Seq(Bytes) /\ said \in Nat /\ missed \in BOOLEAN
    BY <1>1, EmptySeq DEF Fields
  <2>2. Together(off, none, Idle)
    BY FollowIdle DEF Together
  <2>3. schema = Off => st' = Seen(Idle, token)
    BY <1>1, <1>2 DEF DocKept
  <2>4. GiveOut(off, none, token)
    BY <1>2
  <2> HIDE DEF off, none
  <2> QED
    BY <1>3, <1>4, <2>1, <2>2, <2>3, <2>4, GivenOut
<1>7. Fields'
  BY <1>1, <1>3, <1>5 DEF Fields
<1>8. ToolKept'
  <2>1. Shape(Seen(Idle, token)) /\ (declared = Off => Seen(Idle, token) = Idle)
    BY <1>4, ShapeIdle, SeenShape
  <2> QED
    BY <1>1, <1>2, <1>3, <2>1 DEF ToolKept
<1>9. DocKept'
  <2> DEFINE none == <<>>
  <2>1. none \in Lists /\ Len(none) = 0 /\ MaxConfigs \in Nat /\ doc' = none
    BY <1>2, JsonAssumption, TwinsNone, ListsOf
  <2>2. schema' = Off => doc' = <<>>
    BY <2>1
  <2> HIDE DEF none
  <2>3. doc' \in Lists /\ Len(doc') <= MaxConfigs
    BY <2>1
  <2> QED
    BY <2>2, <2>3 DEF DocKept
<1> QED
  BY <1>5, <1>7, <1>8, <1>9 DEF IInv

\* A step that fails keeps the invariant.
LEMMA StepFailsKept ==
  ASSUME IInv, StepFails
  PROVE  IInv'
<1>1. Fields /\ ToolKept /\ DocKept /\ Tracked
  BY DEF IInv
<1>2. flight' = FALSE /\ UNCHANGED <<st, declared, schema, doc, live, queue, said, tagged, text, missed>>
  BY DEF StepFails
<1>3. Fields' /\ ToolKept' /\ DocKept'
  BY <1>1, <1>2 DEF Fields, ToolKept, DocKept
<1>4. Tracked'
  BY <1>1, <1>2 DEF Tracked, Together, Names
<1> QED
  BY <1>3, <1>4 DEF IInv

\* A step that changes nothing keeps the invariant.
LEMMA StutterKept ==
  ASSUME IInv, UNCHANGED vars
  PROVE  IInv'
<1>1. Fields /\ ToolKept /\ DocKept /\ Tracked
  BY DEF IInv
<1>2. UNCHANGED <<st, declared, schema, doc, live, queue, flight, said, tagged, text, missed>>
  BY DEF vars
<1>3. Fields' /\ ToolKept' /\ DocKept'
  BY <1>1, <1>2 DEF Fields, ToolKept, DocKept
<1>4. Tracked'
  BY <1>1, <1>2 DEF Tracked, Together, Names
<1> QED
  BY <1>3, <1>4 DEF IInv

\* Every step keeps the invariant.
LEMMA NextKept == IInv /\ [Next]_vars => IInv'
<1> SUFFICES ASSUME IInv, [Next]_vars PROVE IInv'
  OBVIOUS
<1>1. CASE SetToolConstraint
  BY <1>1, SetToolConstraintKept
<1>2. CASE SetJsonSchema
  BY <1>2, SetJsonSchemaKept
<1>3. CASE Predict
  BY <1>3, PredictKept
<1>4. CASE NextQueued
  BY <1>4, NextQueuedKept
<1>5. CASE NextPipelined
  BY <1>5, NextPipelinedKept
<1>6. CASE NextSpeculated
  BY <1>6, NextSpeculatedKept
<1>7. CASE NextHost
  BY <1>7, NextHostKept
<1>8. CASE NextDeadEnd
  BY <1>8, NextDeadEndKept
<1>9. CASE StepFails
  BY <1>9, StepFailsKept
<1>10. CASE UNCHANGED vars
  BY <1>10, StutterKept
<1> QED
  BY <1>1, <1>2, <1>3, <1>4, <1>5, <1>6, <1>7, <1>8, <1>9, <1>10 DEF Next, NextToken

-----------------------------------------------------------------------------

\* Every reachable state satisfies the inductive invariant: whichever call of the engine
\* comes, the automata are in states they can be in, and history and automaton belong
\* together.
THEOREM InvariantKept == Spec => []IInv
<1>1. Init => IInv
  BY InitKept
<1>2. IInv /\ [Next]_vars => IInv'
  BY NextKept
<1> QED
  BY <1>1, <1>2, PTL DEF Spec

-----------------------------------------------------------------------------
(* What follows from the invariant.                                        *)

\* An automaton of that shape has its fields in their ranges; it masks only inside of a call.
LEMMA ShapeIs ==
  ASSUME NEW s, Shape(s)
  PROVE  s \in ToolState /\ (Constraining(s) <=> s \in Live) /\ (s \in Live => {s} \in Single)
<1>1. ASSUME NEW w \in Seq(Bytes), s = Scanning(w)
      PROVE  s \in ToolState /\ ~Constraining(s) /\ s \notin Live
  BY <1>1, ScanningIs DEF Live
<1>2. CASE s \in Live
  <2>1. s \in ToolState
    BY <1>2 DEF Live
  <2> QED
    BY <1>2, <2>1, LiveConstrains
<1> QED
  BY <1>1, <1>2 DEF Shape

\* Every configuration kept for a document is as deep, and has as many blanks, as the code allows.
LEMMA ListIs ==
  ASSUME NEW C \in Lists, NEW i \in DOMAIN C
  PROVE  Len(C[i].stack) <= MaxDepth + 1 /\ C[i].ws \in 0..MaxBlanks
<1>1. C \in Seq(Configs) /\ \A k \in 1..Len(C) : Twins(C[k], C[k])
  BY DEF Lists, TwinLists
<1>2. i \in 1..Len(C)
  BY <1>1
<1>3. Twins(C[i], C[i])
  BY <1>1, <1>2
<1> QED
  BY <1>3, TwinsStacks DEF Blanks

\* The invariant bounds the fields.
LEMMA TypeFollows ==
  ASSUME IInv
  PROVE  TypeOK
<1>1. Fields /\ ToolKept /\ DocKept
  BY DEF IInv
<1>2. st \in ToolState
  BY <1>1, ShapeIs DEF ToolKept
<1>3. /\ st.phase \in {"scanning", "json", "close", "finished"}
      /\ st.stack \in Seq({"{", "["}) /\ st.hex \in 0..4 /\ st.closing \in 0..Len(CloseTag)
  BY <1>2 DEF ToolState, Phases, Brackets
<1>4. \A i \in DOMAIN doc : Len(doc[i].stack) <= MaxDepth + 1 /\ doc[i].ws \in 0..MaxBlanks
  BY <1>1, ListIs DEF DocKept
<1>5. /\ declared = Off => st = Idle
      /\ schema = Off => doc = <<>>
      /\ Len(doc) <= MaxConfigs
  BY <1>1 DEF ToolKept, DocKept
<1> QED
  BY <1>1, <1>3, <1>4, <1>5 DEF TypeOK, Fields

\* The invariant makes the mask exact.
LEMMA MaskFollows ==
  ASSUME IInv
  PROVE  MaskIsExact
<1>1. doc \in Lists /\ Shape(st)
  BY DEF IInv, DocKept, ToolKept
<1>2. Constraining(st) => st \in Live
  BY <1>1, ShapeIs
<1> QED
  BY <1>1, <1>2, DocMask, CallMask DEF MaskIsExact

\* The invariant makes the automaton follow the text.
LEMMA TrackFollows ==
  ASSUME IInv
  PROVE  TracksTheText
<1>1. Fields /\ ToolKept /\ Tracked
  BY DEF IInv
<1> SUFFICES ASSUME ~missed /\ schema = Off
             PROVE  /\ tagged <=> Constraining(st)
                    /\ tagged => Feed(Names, {InCall}, text) = {st}
  BY DEF TracksTheText
<1>2. Together(tagged, text, st)
  BY <1>1 DEF Tracked
<1>3. tagged \in BOOLEAN
  BY <1>1 DEF Fields
<1>4. CASE declared = Off
  <2>1. tagged = FALSE /\ st = Idle
    BY <1>1, <1>2, <1>4 DEF Together, ToolKept
  <2>2. ~Constraining(Idle)
    BY IdleIs, ScanningIs
  <2> QED
    BY <2>1, <2>2
<1>5. CASE declared # Off
  <2>1. Follow(Names, tagged, text, st)
    BY <1>2, <1>5 DEF Together
  <2>2. CASE tagged
    BY <2>1, <2>2, LiveConstrains DEF Follow
  <2>3. CASE ~tagged
    <3>1. PICK w \in Seq(Bytes) : st = Scanning(w)
      BY <2>1, <2>3 DEF Follow
    <3> QED
      BY <2>3, <3>1, ScanningIs
  <2> QED
    BY <2>2, <2>3
<1> QED
  BY <1>4, <1>5

\* A mask may be kept for a state key: two states of one key allow the same tokens.
THEOREM KeyDecidesMask ==
  ASSUME NEW C \in Lists, NEW D \in Lists, J!KeyOf(C) = J!KeyOf(D)
  PROVE  {t \in Tokens : J!Allows(C, Piece[t], t \in Eog)} =
         {t \in Tokens : J!Allows(D, Piece[t], t \in Eog)}
<1>1. KeptOfDoc(C) = KeptOfDoc(D)
  BY DEF KeptOfDoc
<1> QED
  BY <1>1, DocMask

-----------------------------------------------------------------------------
\* A token of the mask leaves a document that is still watched.
LEMMA DocGoesOn ==
  ASSUME NEW C \in Lists, C # <<>>, NEW token \in KeptOfDoc(C)
  PROVE  SeenOfDoc(C, token) # <<>>
<1>1. token \in Tokens /\ J!Allows(C, Piece[token], token \in Eog)
  BY DocMask
<1>2. CASE token \in Eog
  <2>1. Piece[token] = <<>>
    BY <1>2, ConstraintsAssumption
  <2> QED
    BY <2>1, DocFeedEmpty DEF SeenOfDoc
<1>3. CASE token \notin Eog
  BY <1>1, <1>3 DEF J!Allows, SeenOfDoc
<1> QED
  BY <1>2, <1>3

\* A token of the mask leaves a call that is still watched.
LEMMA CallGoesOn ==
  ASSUME NEW s \in Live, NEW token \in KeptOfCall(s)
  PROVE  Seen(s, token) \in Live
<1>1. token \in Tokens /\ Allows(Names, s, Piece[token], token \in Eog)
  BY CallMask
<1>2. Piece[token] \in Seq(Bytes)
  BY <1>1, ConstraintsAssumption
<1>3. Constraining(s) /\ {s} \in Single
  BY LiveConstrains
<1> DEFINE T == Feed(Names, {s}, Piece[token])
<1>4. T \in Single
  BY <1>2, <1>3, FeedSingle
<1>5. T # {}
  <2>1. CASE token \in Eog
    <3>1. Piece[token] = <<>>
      BY <2>1, ConstraintsAssumption
    <3>2. T = {s}
      BY <1>3, <3>1, FeedEmpty
    <3>3. s \in T
      BY <3>2
    <3> QED
      BY <3>3
  <2>2. CASE token \notin Eog
    BY <1>1, <1>3, <2>2 DEF Allows
  <2> QED
    BY <2>1, <2>2
<1>6. Accept(Names, s, Piece[token]) = OrGivenUp(T)
  BY <1>3 DEF Accept, Constraining
<1> HIDE DEF T
<1>7. OrGivenUp(T) \in Live
  BY <1>4, <1>5, OrGivenUpIs
<1> QED
  BY <1>6, <1>7 DEF Seen

\* Drawing on the host under a mask that keeps a token leaves the constraint.
LEMMA HostGoesOn ==
  ASSUME IInv, NextHost, Constrained, Kept # {}
  PROVE  Constrained'
<1>1. Fields /\ ToolKept /\ DocKept
  BY DEF IInv
<1>2. PICK token :
        /\ token \in Drawn(doc, Kept)
        /\ st' = Seen(st, token)
        /\ doc' = SeenOfDoc(doc, token)
  BY DEF NextHost
<1>3. token \in Kept
  BY <1>1, <1>2, DrawnIs
<1>4. CASE doc # <<>>
  <2>1. doc \in Lists /\ token \in KeptOfDoc(doc)
    BY <1>1, <1>3, <1>4 DEF DocKept, Kept
  <2>2. doc' # <<>>
    BY <1>2, <1>4, <2>1, DocGoesOn
  <2> QED
    BY <2>2 DEF Constrained
<1>5. CASE doc = <<>>
  <2>1. Constraining(st) /\ token \in KeptOfCall(st)
    BY <1>3, <1>5 DEF Constrained, Kept
  <2>2. st \in Live
    BY <1>1, <2>1, ShapeIs DEF ToolKept
  <2>3. Seen(st, token) \in Live
    BY <2>1, <2>2, CallGoesOn
  <2>4. Constraining(st')
    BY <1>2, <2>3, LiveConstrains
  <2> QED
    BY <2>4 DEF Constrained
<1> QED
  BY <1>4, <1>5

\* No path but the masked one gives a constraint up.
LEMMA MaskedStep ==
  ASSUME IInv, [Next]_vars, Constrained, ~Constrained', NextToken
  PROVE  Kept = {}
<1>1. ToolKept
  BY DEF IInv
<1>2. CASE NextQueued
  BY <1>2 DEF NextQueued, Constrained
<1>3. CASE NextSpeculated
  BY <1>3 DEF NextSpeculated, Constrained
<1>4. CASE NextPipelined
  BY <1>1, <1>4, Unconstrained DEF NextPipelined
<1>5. CASE NextHost
  BY <1>5, HostGoesOn
<1>6. CASE NextDeadEnd
  BY <1>6 DEF NextDeadEnd
<1> QED
  BY <1>2, <1>3, <1>4, <1>5, <1>6 DEF NextToken

-----------------------------------------------------------------------------

\* The fields of both automata stay in their ranges through every call of the engine: the
\* stacks of a document are never deeper than kMaxDepth and one value, the configurations
\* never more than kMaxConfigs, and the blanks in a row never past kMaxBlanks.
THEOREM TypeCorrect == Spec => []TypeOK
BY InvariantKept, TypeFollows, PTL

\* The shortcuts of tool_mask change nothing, for any vocabulary, any tags, any tools and
\* any schema: the look at the first byte of a piece, the pieces a plain string takes
\* without a walk and the masks kept for a state key (tool_mask, KeyOf) keep exactly the
\* tokens that the automaton allows.
THEOREM MaskExact == Spec => []MaskIsExact
BY InvariantKept, MaskFollows, PTL

\* However tag and call are cut into tokens, tool_accept puts the automaton where the whole
\* text puts it, and no plain answer is taken for a call, unless a speculative round gave
\* out tokens or a schema was set meanwhile.
THEOREM TextTracked == Spec => []TracksTheText
BY InvariantKept, TrackFollows, PTL

\* Whichever path of engine_next_token draws it, no token ends a call or a document that
\* some token could go on.
THEOREM MaskedDraws == Spec => DrawnUnderTheMask
<1>1. IInv /\ [Next]_vars => [Constrained /\ ~Constrained' /\ NextToken => Kept = {}]_vars
  BY MaskedStep
<1> QED
  BY <1>1, InvariantKept, PTL DEF Spec, DrawnUnderTheMask
=============================================================================
