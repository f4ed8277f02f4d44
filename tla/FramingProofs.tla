--------------------------- MODULE FramingProofs ---------------------------
(***************************************************************************)
(* For every node, every number of messages and every way to cut them into *)
(* segments: read_async() is as good as one step, and messages that arrive *)
(* in whole segments are read as they were sent.                           *)
(***************************************************************************)
EXTENDS Framing, SequenceFacts

\* What read_async() has in its buffer was received, is less than a message,
\* and is gone when a worker leaves the socket to the next; and nothing is received before it arrives.
ReadInv ==
    /\ arrived \in Nat /\ received \in Nat /\ total_read \in Nat
    /\ total_read <= received
    /\ received <= arrived
    /\ total_read < Atomic!Wanted
    /\ reading = "no" => total_read = 0
    /\ sender.cuts \subseteq Nat

\* recv() returns the smaller of what is missing and what is there.
LEMMA MinOfTwo ==
    ASSUME NEW a \in Int, NEW b \in Int
    PROVE  Min({a, b}) = IF a <= b THEN a ELSE b
<1>1. \E x \in {a, b} : \A y \in {a, b} : x <= y
      OBVIOUS
<1>2. Min({a, b}) \in {a, b} /\ \A y \in {a, b} : Min({a, b}) <= y
      BY <1>1, Zenon DEF Min
<1> QED BY <1>2

\* A read asks for a message of one of the two sizes.
LEMMA WantedIs ==
    /\ Atomic!Wanted = IF id_ = NONE THEN 3 ELSE 32
    /\ (Atomic!Wanted)' = IF id_' = NONE THEN 3 ELSE 32
BY DEF Atomic!Wanted, Atomic!NONE, NONE, Atomic!ID_MESSAGE_SIZE,
       Atomic!DATA_MESSAGE_SIZE

\* Before anything has arrived.
LEMMA InitReadInv == Init => ReadInv
<1> SUFFICES ASSUME Init PROVE ReadInv
    OBVIOUS
<1>1. PICK id \in NodeIds, cuts \in CutSets : sender = Atomic!Sender(id, cuts)
      BY DEF Init
<1>2. sender.cuts \subseteq Nat
      BY <1>1, SenderAssumption DEF Atomic!Sender
<1> QED BY <1>2, WantedIs DEF Init, ReadInv

\* What one recv() does, in numbers: n bytes come in, and either the buffer is
\* still not full, or it is and the message begins where the last one ended.
LEMMA RecvStep ==
    ASSUME ReadInv, RecvSome
    PROVE  \E n \in Nat :
              /\ n > 0 /\ received + n <= arrived /\ total_read + n <= Atomic!Wanted
              /\ received' = received + n
              /\ IF total_read + n = Atomic!Wanted
                 THEN /\ total_read' = 0
                      /\ Atomic!Handle(received - total_read)
                 ELSE /\ total_read' = total_read + n
                      /\ UNCHANGED <<id_, frames, reading>>
<1> DEFINE n == Min({Atomic!Wanted - total_read, arrived - received})
<1>1. PICK w \in {3, 32} : w = Atomic!Wanted
      BY WantedIs
<1>2. /\ arrived \in Nat /\ received \in Nat /\ total_read \in Nat
      /\ total_read < w /\ received <= arrived
      BY <1>1 DEF ReadInv
<1>3. n = IF w - total_read <= arrived - received THEN w - total_read
          ELSE arrived - received
      BY <1>1, <1>2, MinOfTwo
<1>4. /\ n > 0 /\ received' = received + n
      /\ IF total_read + n = w
         THEN total_read' = 0 /\ Atomic!Handle(received' - w)
         ELSE total_read' = total_read + n /\ UNCHANGED <<id_, frames, reading>>
      BY <1>1 DEF RecvSome
<1> HIDE DEF n
<1>5. n \in Nat /\ received + n <= arrived /\ total_read + n <= w
      BY <1>2, <1>3, <1>4
<1>6. total_read + n = w => received' - w = received - total_read
      BY <1>2, <1>4, <1>5
<1> QED BY <1>1, <1>4, <1>5, <1>6

\* Every step keeps the positions in order.
LEMMA NextReadInv == ReadInv /\ [Next]_vars => ReadInv'
<1> SUFFICES ASSUME ReadInv, [Next]_vars PROVE ReadInv'
    OBVIOUS
<1>1. /\ arrived \in Nat /\ received \in Nat /\ total_read \in Nat
      /\ total_read <= received /\ received <= arrived
      /\ reading = "no" => total_read = 0
      /\ sender.cuts \subseteq Nat
      BY DEF ReadInv
<1>2. PICK w \in {3, 32}, v \in {3, 32} :
          w = Atomic!Wanted /\ v = (Atomic!Wanted)' /\ total_read < w
          /\ (id_' = id_ => v = w)
      BY WantedIs DEF ReadInv
<1>3. sender' = sender
      BY DEF Next, Arrive, Close, Reset, Reader, Begin, RecvSome, RecvWouldBlock,
             RecvEnd, RecvError, vars
<1>4. SUFFICES /\ arrived' \in Nat /\ received' \in Nat /\ total_read' \in Nat
               /\ total_read' <= received' /\ received' <= arrived'
               /\ total_read' < v
               /\ reading' = "no" => total_read' = 0
      BY <1>1, <1>2, <1>3 DEF ReadInv
<1>5. CASE UNCHANGED vars
      BY <1>1, <1>2, <1>5 DEF vars
<1>6. ASSUME NEW cut \in sender.cuts, Arrive(cut)
      PROVE  <1>4!1
      BY <1>1, <1>2, <1>6 DEF Arrive
<1>7. CASE Close \/ Reset
      BY <1>1, <1>2, <1>7 DEF Close, Reset
<1>8. CASE Begin
      BY <1>1, <1>2, <1>8 DEF Begin
<1>9. CASE RecvSome
  <2>1. PICK n \in Nat :
            /\ n > 0 /\ received + n <= arrived /\ total_read + n <= Atomic!Wanted
            /\ received' = received + n
            /\ IF total_read + n = Atomic!Wanted
               THEN /\ total_read' = 0
                    /\ Atomic!Handle(received - total_read)
               ELSE /\ total_read' = total_read + n
                    /\ UNCHANGED <<id_, frames, reading>>
        BY <1>9, RecvStep
  <2>2. reading = "yes" /\ arrived' = arrived
        BY <1>9 DEF RecvSome
  <2>3. CASE total_read + n = w
        BY <1>1, <1>2, <2>1, <2>2, <2>3
  <2>4. CASE total_read + n # w
        BY <1>1, <1>2, <2>1, <2>2, <2>4
  <2> QED BY <2>3, <2>4
<1>10. CASE RecvWouldBlock
      BY <1>1, <1>2, <1>10 DEF RecvWouldBlock
<1>11. CASE RecvEnd \/ RecvError
      BY <1>1, <1>2, <1>11 DEF RecvEnd, RecvError
<1> QED BY <1>5, <1>6, <1>7, <1>8, <1>9, <1>10, <1>11 DEF Next, Reader

\* The safety property of the invariant, for all runs of the loop.
THEOREM PositionsAreInOrder == SafetySpec => []ReadInv
BY InitReadInv, NextReadInv, PTL DEF SafetySpec

-----------------------------------------------------------------------------
\* The loop starts as the atomic read does.
LEMMA InitAtomic == Init => Atomic!ReadInit
BY DEF Init, Atomic!ReadInit, NONE, Atomic!NONE

\* A step of the loop is a step of the atomic read or invisible: bytes in the
\* buffer of read_async() count as unread until the call ends.
LEMMA NextAtomic ==
    ASSUME ReadInv, [Next]_vars
    PROVE  [Atomic!ReadNext]_<<Atomic!network, received - total_read, reading, id_, frames>>
<1>1. /\ arrived \in Nat /\ received \in Nat /\ total_read \in Nat
      /\ total_read <= received /\ received <= arrived
      /\ reading = "no" => total_read = 0
      BY DEF ReadInv
<1>2. PICK w \in {3, 32} : w = Atomic!Wanted /\ total_read < w
      BY WantedIs DEF ReadInv
<1>3. CASE UNCHANGED vars
      BY <1>3 DEF vars, Atomic!network
<1>4. ASSUME NEW cut \in sender.cuts, Arrive(cut)
      PROVE  Atomic!ReadNext
  <2>1. Atomic!Arrive(cut)
        BY <1>4 DEF Arrive, Atomic!Arrive
  <2> QED BY <2>1 DEF Atomic!ReadNext
<1>5. CASE Close \/ Reset
  <2>1. Atomic!Close \/ Atomic!Reset
        BY <1>5 DEF Close, Reset, Atomic!Close, Atomic!Reset
  <2> QED BY <2>1 DEF Atomic!ReadNext
<1>6. CASE Begin
  <2>1. total_read = 0 /\ received - total_read = received
        BY <1>1, <1>6 DEF Begin
  <2>2. Atomic!Begin
        BY <1>6, <2>1 DEF Begin, Atomic!Begin, Atomic!network
  <2> QED BY <2>2 DEF Atomic!ReadNext
<1>7. CASE RecvSome
  <2>1. PICK n \in Nat :
            /\ n > 0 /\ received + n <= arrived /\ total_read + n <= w
            /\ received' = received + n
            /\ IF total_read + n = w
               THEN /\ total_read' = 0
                    /\ Atomic!Handle(received - total_read)
               ELSE /\ total_read' = total_read + n
                    /\ UNCHANGED <<id_, frames, reading>>
        BY <1>2, <1>7, RecvStep
  <2>2. reading = "yes" /\ UNCHANGED <<sender, arrived, ended>>
        BY <1>7 DEF RecvSome
  <2>3. CASE total_read + n = w
    <3>1. /\ arrived - (received - total_read) >= w
          /\ received' - total_read' = (received - total_read) + w
          BY <1>1, <2>1, <2>3
    <3>2. Atomic!ReadFull
          BY <1>2, <2>1, <2>2, <2>3, <3>1 DEF Atomic!ReadFull, Atomic!network
    <3> QED BY <3>2 DEF Atomic!ReadNext
  <2>4. CASE total_read + n # w
    <3>1. received' - total_read' = received - total_read
          BY <1>1, <2>1, <2>4
    <3> QED BY <2>1, <2>2, <2>4, <3>1 DEF Atomic!network
  <2> QED BY <2>3, <2>4
<1>8. CASE RecvWouldBlock
  <2>1. /\ reading = "yes" /\ arrived = received /\ ended = "no" /\ total_read' = 0
        /\ UNCHANGED <<sender, arrived, ended, id_, frames, received>>
        /\ reading' = IF total_read > 0 THEN "yes" ELSE "no"
        BY <1>8 DEF RecvWouldBlock
  <2>2. CASE total_read > 0
    <3>1. /\ arrived - (received - total_read) \in 1 .. w - 1
          /\ received' - total_read' = arrived
          BY <1>1, <1>2, <2>1, <2>2
    <3>2. Atomic!ReadPartial
          BY <1>2, <2>1, <2>2, <3>1 DEF Atomic!ReadPartial, Atomic!network
    <3> QED BY <3>2 DEF Atomic!ReadNext
  <2>3. CASE ~ total_read > 0
    <3>1. arrived = received - total_read /\ received' - total_read' = received - total_read
          BY <1>1, <2>1, <2>3
    <3>2. Atomic!ReadNothing
          BY <2>1, <2>3, <3>1 DEF Atomic!ReadNothing, Atomic!network
    <3> QED BY <3>2 DEF Atomic!ReadNext
  <2> QED BY <2>2, <2>3
<1>9. CASE RecvEnd
  <2>1. arrived - (received - total_read) < w
        BY <1>1, <1>2, <1>9 DEF RecvEnd
  <2>2. Atomic!ReadError
        BY <1>2, <1>9, <2>1 DEF RecvEnd, Atomic!ReadError, Atomic!network
  <2> QED BY <2>2 DEF Atomic!ReadNext
<1>10. CASE RecvError
  <2>1. Atomic!ReadError
        BY <1>10 DEF RecvError, Atomic!ReadError, Atomic!network
  <2> QED BY <2>1 DEF Atomic!ReadNext
<1> QED BY <1>3, <1>4, <1>5, <1>6, <1>7, <1>8, <1>9, <1>10 DEF Next, Reader

\* read_async(), recv() by recv() and with segments that arrive between two
\* calls, implements the atomic read of module AtomicRead, which is how module
\* Router sees it.
THEOREM LoopImplementsAtomicRead == SafetySpec => ImplementsAtomicRead
<1>1. Init => Atomic!ReadInit
      BY InitAtomic
<1>2. ReadInv /\ [Next]_vars =>
          [Atomic!ReadNext]_<<Atomic!network, received - total_read, reading, id_, frames>>
      BY NextAtomic
<1> QED BY <1>1, <1>2, PositionsAreInOrder, PTL
        DEF SafetySpec, ImplementsAtomicRead, Atomic!ReadSpec

-----------------------------------------------------------------------------
(* Messages that arrive in whole segments.                                   *)

\* The texts of module AtomicRead are those of this module.
LEMMA SameTexts ==
    ASSUME NEW id, NEW text
    PROVE  /\ Atomic!buildIdMessage(id) = buildIdMessage(id)
           /\ Atomic!extract_src_id(text) = extract_src_id(text)
           /\ Atomic!FlattenSeq(text) = FlattenSeq(text)
<1>1. Atomic!buildIdMessage(id) = buildIdMessage(id)
      BY DEF Atomic!buildIdMessage, buildIdMessage, Atomic!setw, setw,
             Atomic!Decimal, Decimal, Atomic!MINUS, MINUS
<1>2. Atomic!Numeral(text) = Numeral(text)
      BY DEF Atomic!Numeral, Numeral, Atomic!Signs, Signs, Atomic!Min, Min,
             Atomic!Max, Max, Atomic!BLANK, BLANK, Atomic!MINUS, MINUS, Atomic!PLUS,
             PLUS, Atomic!Digits, Digits
<1>3. Atomic!stoi(text) = stoi(text)
      BY DEF Atomic!stoi, stoi, Atomic!FoldLeft, FoldLeft, Atomic!MapThenFoldSet,
             MapThenFoldSet, Atomic!Numeral, Numeral, Atomic!Signs, Signs,
             Atomic!Min, Min, Atomic!Max, Max, Atomic!BLANK, BLANK, Atomic!MINUS,
             MINUS, Atomic!PLUS, PLUS, Atomic!Digits, Digits
<1>4. Atomic!extract_src_id(text) = extract_src_id(text)
      BY <1>2, <1>3 DEF Atomic!extract_src_id, extract_src_id, Atomic!IsNumber,
                        IsNumber, Atomic!ID_MESSAGE_SIZE, ID_MESSAGE_SIZE,
                        Atomic!NONE, NONE
<1>5. Atomic!FlattenSeq(text) = FlattenSeq(text)
      BY DEF Atomic!FlattenSeq, FlattenSeq
<1> QED BY <1>1, <1>4, <1>5

\* The first message of a node that can be registered is a text of digits.
LEMMA FirstMessageType ==
    ASSUME NEW id \in 0 .. MAX_CLIENTS_COUNT - 1
    PROVE  Atomic!buildFirstMessage(id, 5) \in Seq(Digits)
<1>1. 5 \in 0 .. MAX_CLIENTS_COUNT - 1
      BY DEF MAX_CLIENTS_COUNT
<1>2. buildIdMessage(id) \in Seq(Digits) /\ buildIdMessage(5) \in Seq(Digits)
      BY <1>1, IdsReadBack
<1>3. /\ Atomic!setw(3, id) \in Seq(Digits) /\ Atomic!setw(3, 5) \in Seq(Digits)
      BY <1>2, SameTexts DEF Atomic!buildIdMessage
<1>4. /\ <<2, 2, 0, 0>> \in Seq(Digits) /\ Atomic!TRACE \in Seq(Digits)
      BY DEF Digits, Atomic!TRACE
<1>5. Atomic!PAN \in Seq(Digits)
  <2>1. Atomic!PAN \in [1 .. 16 -> Digits]
        BY DEF Atomic!PAN, Digits
  <2> QED BY <2>1, FunctionIsSeq
<1>6. \A s, t \in Seq(Digits) : s \o t \in Seq(Digits)
      BY ConcatProperties
<1> QED BY <1>3, <1>4, <1>5, <1>6, Zenon DEF Atomic!buildFirstMessage

\* At the beginning of its stream the router finds the id of the node.
LEMMA SenderReadsBack ==
    ASSUME NEW id \in 0 .. MAX_CLIENTS_COUNT - 1, NEW cuts
    PROVE  Atomic!Sender(id, cuts).ids[0] = id
<1> DEFINE first == buildIdMessage(id)
           texts == [k \in 1 .. Messages |-> Atomic!buildFirstMessage(id, 5)]
           rest == FlattenSeq(texts)
<1>1. first \in Seq(Digits) /\ Len(first) = 3 /\ extract_src_id(first) = id
      BY IdsReadBack DEF ID_MESSAGE_SIZE
<1>2. rest \in Seq(Digits)
  <2>1. texts \in [1 .. Messages -> Seq(Digits)]
        BY FirstMessageType
  <2>2. texts \in Seq(Seq(Digits))
        BY <2>1, FunctionIsSeq, SenderAssumption
  <2>3. <<>> \in Seq(Digits)
        OBVIOUS
  <2> QED BY <2>2, <2>3, FlattenAppend
<1> HIDE DEF first, texts, rest
<1>3. SubSeq(first \o rest, 1, 3) = first
      BY <1>1, <1>2, SubSeqOfConcat
<1>4. Len(first \o rest) - 3 \in Nat
  <2>1. Len(first \o rest) = Len(first) + Len(rest) /\ Len(rest) \in Nat
        BY <1>1, <1>2, ConcatProperties, LenProperties
  <2> QED BY <1>1, <2>1
<1>5. 0 \in 0 .. Len(first \o rest) - 3
      BY <1>4
<1>6. Atomic!buildIdMessage(id) \o Atomic!FlattenSeq(texts) = first \o rest
      BY SameTexts DEF first, rest
<1>7. Atomic!Sender(id, cuts).ids =
          [p \in 0 .. Len(first \o rest) - 3 |->
              Atomic!extract_src_id(SubSeq(first \o rest, p + 1, p + 3))]
      BY <1>6 DEF Atomic!Sender, Atomic!ID_MESSAGE_SIZE, texts
<1>8. Atomic!Sender(id, cuts).ids[0] = Atomic!extract_src_id(SubSeq(first \o rest, 1, 3))
      BY <1>5, <1>7
<1> QED BY <1>1, <1>3, <1>8, SameTexts

\* The hypothesis of FramesIntact: the node can be registered, and segments end
\* where messages end.
Aligned ==
    /\ sender.id < MAX_CLIENTS_COUNT
    /\ sender.cuts \subseteq {Boundary(k) : k \in 1 .. Messages + 1}

\* Then a message, the id message too, has arrived either as a whole or not at
\* all, and every read begins where a message begins.
AlignedReads ==
    /\ sender.id \in Nat /\ sender.ids[0] = sender.id
    /\ arrived = 0 \/ \E k \in Nat \ {0} : arrived = Boundary(k)
    /\ frames \in Seq(Int)
    /\ \A i \in DOMAIN frames : frames[i] = Boundary(i)
    /\ IF id_ = NONE
       THEN received - total_read = 0 /\ frames = <<>>
       ELSE id_ = sender.id /\ received - total_read = Boundary(Len(frames) + 1)

AlignedInv == Aligned => AlignedReads

\* The sizes are 3 and 32 bytes.
LEMMA BoundaryIs == \A k \in Nat : Boundary(k) = 3 + (k - 1) * 32 /\ Boundary(k) \in Int
BY DEF Boundary, ID_MESSAGE_SIZE, DATA_MESSAGE_SIZE

\* Nothing has arrived at the start.
LEMMA InitAlignedInv == Init => AlignedInv
<1> SUFFICES ASSUME Init, Aligned PROVE AlignedReads
    BY DEF AlignedInv
<1>1. PICK id \in NodeIds, cuts \in CutSets : sender = Atomic!Sender(id, cuts)
      BY DEF Init
<1>2. sender.id = id
      BY <1>1 DEF Atomic!Sender
<1>3. id \in 0 .. MAX_CLIENTS_COUNT - 1
      BY <1>2, SenderAssumption DEF Aligned, MAX_CLIENTS_COUNT
<1>4. sender.ids[0] = id
      BY <1>1, <1>3, SenderReadsBack
<1> QED BY <1>2, <1>3, <1>4 DEF Init, AlignedReads

\* What is left in the buffer when everything has been received: nothing,
\* since the positions are both boundaries and less than a message apart.
LEMMA NothingIsCut ==
    ASSUME ReadInv, Aligned, AlignedReads, arrived = received
    PROVE  total_read = 0
<1>1. /\ arrived \in Nat /\ total_read \in Nat /\ total_read <= arrived
      /\ received - total_read = arrived - total_read
      BY DEF ReadInv
<1>2. arrived = 0 \/ \E k \in Nat \ {0} : arrived = 3 + (k - 1) * 32
      BY BoundaryIs DEF AlignedReads
<1>3. CASE id_ = NONE
  <2>1. arrived - total_read = 0 /\ total_read < 3
        BY <1>1, <1>3, WantedIs DEF AlignedReads, ReadInv
  <2> QED BY <1>1, <1>2, <2>1
<1>4. CASE id_ # NONE
  <2>1. PICK j \in Nat : j = Len(frames)
        BY LenProperties DEF AlignedReads
  <2>2. arrived - total_read = 3 + j * 32 /\ total_read < 32
    <3>1. arrived - total_read = Boundary(j + 1)
          BY <1>1, <1>4, <2>1 DEF AlignedReads
    <3>2. Boundary(j + 1) = 3 + j * 32
          BY BoundaryIs
    <3>3. total_read < 32
          BY <1>4, WantedIs DEF ReadInv
    <3> QED BY <3>1, <3>2, <3>3
  <2>3. CASE arrived = 0
        BY <1>1, <2>2, <2>3
  <2>4. ASSUME NEW k \in Nat \ {0}, arrived = 3 + (k - 1) * 32
        PROVE  total_read = 0
        BY <1>1, <2>2, <2>4
  <2> QED BY <1>2, <2>3, <2>4
<1> QED BY <1>3, <1>4

\* Every step keeps the reads aligned.
LEMMA NextAlignedInv == ReadInv /\ AlignedInv /\ [Next]_vars => AlignedInv'
<1> SUFFICES ASSUME ReadInv, AlignedInv, [Next]_vars, Aligned'
             PROVE  AlignedReads'
    BY DEF AlignedInv
<1>1. sender' = sender
      BY DEF Next, Arrive, Close, Reset, Reader, Begin, RecvSome, RecvWouldBlock,
             RecvEnd, RecvError, vars
<1>2. Aligned /\ AlignedReads
      BY <1>1 DEF AlignedInv, Aligned
<1>3. ASSUME UNCHANGED <<arrived, id_, frames>>,
             received' - total_read' = received - total_read
      PROVE  AlignedReads'
      BY <1>1, <1>2, <1>3 DEF AlignedReads
<1>4. CASE UNCHANGED vars
      BY <1>3, <1>4 DEF vars
<1>5. ASSUME NEW cut \in sender.cuts, Arrive(cut)
      PROVE  AlignedReads'
  <2>1. PICK k \in 1 .. Messages + 1 : cut = Boundary(k)
        BY <1>2 DEF Aligned
  <2>2. k \in Nat \ {0}
        BY SenderAssumption
  <2> QED BY <1>1, <1>2, <1>5, <2>1, <2>2 DEF AlignedReads, Arrive
<1>6. CASE Close \/ Reset \/ RecvEnd \/ RecvError
      BY <1>3, <1>6 DEF Close, Reset, RecvEnd, RecvError
<1>7. CASE Begin
      BY <1>3, <1>7 DEF Begin
<1>8. CASE RecvWouldBlock
  <2>1. total_read = 0
        BY <1>2, <1>8, NothingIsCut DEF RecvWouldBlock
  <2> QED BY <1>3, <1>8, <2>1 DEF RecvWouldBlock
<1>9. CASE RecvSome
  <2>1. PICK n \in Nat :
            /\ n > 0 /\ received + n <= arrived /\ total_read + n <= Atomic!Wanted
            /\ received' = received + n
            /\ IF total_read + n = Atomic!Wanted
               THEN /\ total_read' = 0
                    /\ Atomic!Handle(received - total_read)
               ELSE /\ total_read' = total_read + n
                    /\ UNCHANGED <<id_, frames, reading>>
        BY <1>9, RecvStep
  <2>2. received \in Nat /\ total_read \in Nat /\ arrived' = arrived
        BY <1>9 DEF RecvSome, ReadInv
  <2>3. CASE total_read + n # Atomic!Wanted
    <3>1. received' - total_read' = received - total_read
          BY <2>1, <2>2, <2>3
    <3> QED BY <1>3, <2>1, <2>2, <2>3, <3>1
  <2>4. CASE total_read + n = Atomic!Wanted /\ id_ = NONE
    <3>1. Atomic!Wanted = 3 /\ received - total_read = 0 /\ frames = <<>>
          BY <1>2, <2>4, WantedIs DEF AlignedReads
    <3>2. id_' = sender.id /\ frames' = frames
      <4>1. /\ id_' = IF sender.ids[0] >= 999 THEN -1 ELSE sender.ids[0]
            /\ frames' = frames
            BY <2>1, <2>4, <3>1 DEF Atomic!Handle, Atomic!MAX_CLIENTS_COUNT,
                                    Atomic!NONE, NONE
      <4>2. sender.ids[0] = sender.id /\ sender.id \in Nat /\ sender.id < 999
            BY <1>2 DEF AlignedReads, Aligned, MAX_CLIENTS_COUNT
      <4> QED BY <4>1, <4>2
    <3>3. received' - total_read' = 3
          BY <2>1, <2>2, <2>4, <3>1
    <3>4. Boundary(Len(frames') + 1) = 3
      <4>1. Len(frames') + 1 = 1
            BY <3>1, <3>2
      <4> QED BY <4>1, BoundaryIs
    <3>5. sender.id # NONE
          BY <1>2 DEF AlignedReads, NONE
    <3> QED BY <1>1, <1>2, <2>2, <3>1, <3>2, <3>3, <3>4, <3>5 DEF AlignedReads
  <2>5. CASE total_read + n = Atomic!Wanted /\ id_ # NONE
    <3>1. PICK j \in Nat : /\ j = Len(frames)
                           /\ received - total_read = Boundary(j + 1)
          BY <1>2, <2>5, LenProperties DEF AlignedReads
    <3>2. Atomic!Wanted = 32
          BY <2>5, WantedIs
    <3>3. frames' = Append(frames, Boundary(j + 1)) /\ id_' = id_
          BY <2>1, <2>5, <3>1 DEF Atomic!Handle, Atomic!NONE, NONE
    <3>4. /\ Boundary(j + 1) = 3 + j * 32 /\ Boundary(j + 1) \in Int
          /\ Boundary(j + 2) = 3 + (j + 1) * 32
          BY BoundaryIs
    <3>5. received' - total_read' = Boundary(j + 2)
          BY <2>1, <2>2, <2>5, <3>1, <3>2, <3>4
    <3>6. frames \in Seq(Int) /\ DOMAIN frames = 1 .. j
          BY <1>2, <3>1, LenProperties DEF AlignedReads
    <3>7. /\ frames' \in Seq(Int) /\ Len(frames') = j + 1 /\ DOMAIN frames' = 1 .. j + 1
          /\ \A i \in 1 .. j : frames'[i] = frames[i]
          /\ frames'[j + 1] = Boundary(j + 1)
          BY <3>1, <3>3, <3>4, <3>6, AppendProperties, LenProperties
    <3>8. \A i \in DOMAIN frames' : frames'[i] = Boundary(i)
      <4>1. \A i \in 1 .. j : frames[i] = Boundary(i)
            BY <1>2, <3>6 DEF AlignedReads
      <4> QED BY <3>7, <4>1
    <3>9. received' - total_read' = Boundary(Len(frames') + 1)
      <4>1. Len(frames') + 1 = j + 2
            BY <3>7
      <4> QED BY <3>5, <4>1
    <3> QED BY <1>1, <1>2, <2>2, <2>5, <3>3, <3>7, <3>8, <3>9 DEF AlignedReads
  <2> QED BY <2>3, <2>4, <2>5
<1> QED BY <1>4, <1>5, <1>6, <1>7, <1>8, <1>9 DEF Next, Reader

\* When segments end where messages end, every node whose id the registry takes
\* is registered under it, and its messages are read as they were sent, for any
\* number of messages and however many of them arrive at once.
THEOREM MessagesAreReadIntact == SafetySpec => []FramesIntact
<1>1. AlignedInv => FramesIntact
      BY DEF AlignedInv, AlignedReads, Aligned, FramesIntact
<1> QED BY <1>1, InitAlignedInv, NextAlignedInv, PositionsAreInOrder, PTL DEF SafetySpec
=============================================================================
