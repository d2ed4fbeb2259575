----------------------------- MODULE BufferProofs -----------------------------
(***************************************************************************)
(* Theorems about Buffer, for every BUFFER_SIZE from 2 to 256 and every    *)
(* set of bytes.  BufferTypeOK is inductive by itself.  The refinement     *)
(* rests on three facts about the indices: emptying leaves nothing between *)
(* them, taking a byte drops the first slot, storing one adds a last.      *)
(***************************************************************************)
EXTENDS Buffer, TLAPS

(* An index that is incremented and reset stays in the array.              *)
LEMMA AdvanceInRange ==
    ASSUME NEW i \in Slots
    PROVE  Advance(i) \in Slots
BY BufferAssumption DEF Advance, Slots

LEMMA TypeInit == BufferInit => BufferTypeOK
BY BufferAssumption DEF BufferInit, BufferTypeOK, Slots

LEMMA TypeStep == BufferTypeOK /\ [BufferNext]_bufferVars => BufferTypeOK'
<1> SUFFICES ASSUME BufferTypeOK, [BufferNext]_bufferVars PROVE BufferTypeOK'
  OBVIOUS
<1> USE DEF BufferTypeOK
<1>1. CASE BUF_init
  BY <1>1, BufferAssumption DEF BUF_init, Slots
<1>2. CASE BUF_consume
  <2>1. Advance(cons_index) \in Slots
    BY AdvanceInRange
  <2>. QED BY <1>2, <2>1 DEF BUF_consume
<1>3. ASSUME NEW byte \in Bytes, BUF_produce(byte) PROVE BufferTypeOK'
  <2>1. Advance(prod_index) \in Slots
    BY AdvanceInRange
  <2>. QED BY <1>3, <2>1 DEF BUF_produce
<1>4. CASE UNCHANGED bufferVars
  BY <1>4 DEF bufferVars
<1>. QED BY <1>1, <1>2, <1>3, <1>4 DEF BufferNext

(* The type invariant, for a buffer of any size.                           *)
THEOREM BufferTyped == BufferSpec => []BufferTypeOK
BY TypeInit, TypeStep, PTL DEF BufferSpec

-----------------------------------------------------------------------------
(* The bytes between the indices are a sequence of that many slots.        *)
ContentsFacts ==
    /\ Used \in 0..(BUFFER_SIZE - 1)
    /\ Contents \in Seq(Bytes \cup {NoByte})
    /\ Len(Contents) = Used
    /\ \A i \in 1..Used : Contents[i] = buff[Slot(i)] /\ Slot(i) \in Slots

LEMMA ContentsIsSeq == BufferTypeOK => ContentsFacts
<1> SUFFICES ASSUME BufferTypeOK PROVE ContentsFacts
  OBVIOUS
<1>1. Used \in 0..(BUFFER_SIZE - 1)
  BY BufferAssumption DEF BufferTypeOK, Used, Slots
<1>2. \A i \in 1..Used : Slot(i) \in Slots
  BY <1>1, BufferAssumption DEF BufferTypeOK, Slot, Slots
<1>3. \A i \in 1..Used : buff[Slot(i)] \in Bytes \cup {NoByte}
  BY <1>2 DEF BufferTypeOK
<1>. QED BY <1>1, <1>2, <1>3 DEF Contents, ContentsFacts

LEMMA ContentsStaysSeq == BufferTypeOK' => ContentsFacts'
BY ContentsIsSeq, PTL

(* Two sequences of the same length with the same elements are equal.      *)
LEMMA SameSequence ==
    ASSUME NEW S, NEW s \in Seq(S), NEW t \in Seq(S), Len(s) = Len(t),
           \A i \in 1..Len(s) : s[i] = t[i]
    PROVE  s = t
OBVIOUS

(* Equal indices: nothing waits.                                           *)
LEMMA EmptyIffEqual ==
    ASSUME BufferTypeOK
    PROVE  (prod_index = cons_index) <=> (Contents = <<>>)
<1>1. prod_index = cons_index <=> Used = 0
  BY BufferAssumption DEF BufferTypeOK, Used, Slots
<1>. QED BY <1>1, ContentsIsSeq DEF ContentsFacts

(* The test for a full buffer is exact.                                    *)
LEMMA FullIffCapacity ==
    ASSUME BufferTypeOK
    PROVE  Full <=> Used = BUFFER_SIZE - 1
BY BufferAssumption DEF BufferTypeOK, Full, Used, Slots

(* Taking a byte: the first slot is dropped.                               *)
LEMMA ConsumeTakes ==
    ASSUME BufferTypeOK, BufferTypeOK', BUF_consume
    PROVE  Fifo!Take
<1>1. /\ BUFFER_SIZE \in 2..256
      /\ prod_index \in 0..(BUFFER_SIZE - 1) /\ cons_index \in 0..(BUFFER_SIZE - 1)
      /\ prod_index # cons_index /\ prod_index' = prod_index
      /\ cons_index' = IF cons_index + 1 >= BUFFER_SIZE THEN 0 ELSE cons_index + 1
      /\ buff' = buff
  BY BufferAssumption DEF BufferTypeOK, BUF_consume, Advance, Slots
<1>2. Used' = Used - 1 /\ Used \in 1..(BUFFER_SIZE - 1) /\ Slot(1) = cons_index
  BY <1>1 DEF Used, Slot
<1>3. ASSUME NEW i \in 1..(Used - 1) PROVE Slot(i)' = Slot(i + 1)
  BY <1>1, <1>2 DEF Slot
<1>4. Contents # <<>> /\ Head(Contents) = buff[cons_index] /\ 1 \in 1..Used
  BY <1>2, ContentsIsSeq DEF ContentsFacts
<1>5. Contents' = Tail(Contents)
  <2>1. /\ Contents' \in Seq(Bytes \cup {NoByte}) /\ Len(Contents') = Used - 1
        /\ \A i \in 1..(Used - 1) : Contents'[i] = buff[Slot(i)']
    BY <1>1, <1>2, ContentsStaysSeq DEF ContentsFacts
  <2>2. /\ Tail(Contents) \in Seq(Bytes \cup {NoByte}) /\ Len(Tail(Contents)) = Used - 1
        /\ \A i \in 1..(Used - 1) : Tail(Contents)[i] = Contents[i + 1]
    BY <1>2, <1>4, ContentsIsSeq DEF ContentsFacts
  <2>3. ASSUME NEW i \in 1..(Used - 1) PROVE Contents'[i] = Tail(Contents)[i]
    <3>1. i + 1 \in 1..Used
      BY <1>2
    <3>. QED BY <1>3, <2>1, <2>2, <3>1, ContentsIsSeq DEF ContentsFacts
  <2>. QED BY <2>1, <2>2, <2>3, SameSequence
<1>. QED BY <1>4, <1>5 DEF Fifo!Take, BUF_consume

(* Storing a byte: a last slot is added, and the others keep their bytes.  *)
LEMMA ProducePuts ==
    ASSUME BufferTypeOK, BufferTypeOK', NEW byte \in Bytes, BUF_produce(byte)
    PROVE  Fifo!Put(byte)
<1>1. /\ BUFFER_SIZE \in 2..256
      /\ prod_index \in 0..(BUFFER_SIZE - 1) /\ cons_index \in 0..(BUFFER_SIZE - 1)
      /\ cons_index' = cons_index
      /\ prod_index' = IF prod_index + 1 >= BUFFER_SIZE THEN 0 ELSE prod_index + 1
      /\ buff' = [buff EXCEPT ![prod_index] = byte]
      /\ buff \in [Slots -> Bytes \cup {NoByte}]
  BY BufferAssumption DEF BufferTypeOK, BUF_produce, Advance, Slots
<1>2. Used < BUFFER_SIZE - 1 /\ Used \in Nat
  BY <1>1, FullIffCapacity, ContentsIsSeq DEF BUF_produce, ContentsFacts
<1>3. Used' = Used + 1 /\ Slot(Used + 1) = prod_index
  BY <1>1, <1>2 DEF Used, Slot
<1>4. ASSUME NEW i \in 1..Used PROVE Slot(i) # prod_index
  BY <1>1, <1>2 DEF Used, Slot
<1>5. \A i \in 1..(Used + 1) : Slot(i)' = Slot(i)
  BY <1>1 DEF Slot
<1>6. Contents' = Append(Contents, byte)
  <2>1. /\ Contents' \in Seq(Bytes \cup {NoByte}) /\ Len(Contents') = Used + 1
        /\ \A i \in 1..(Used + 1) : Contents'[i] = buff'[Slot(i)]
    BY <1>3, <1>5, ContentsStaysSeq DEF ContentsFacts
  <2>2. /\ Append(Contents, byte) \in Seq(Bytes \cup {NoByte})
        /\ Len(Append(Contents, byte)) = Used + 1
        /\ \A i \in 1..Used : Append(Contents, byte)[i] = Contents[i]
        /\ Append(Contents, byte)[Used + 1] = byte
    BY ContentsIsSeq DEF ContentsFacts
  <2>3. ASSUME NEW i \in 1..(Used + 1) PROVE Contents'[i] = Append(Contents, byte)[i]
    <3>1. CASE i = Used + 1
      BY <1>1, <1>3, <2>1, <2>2, <3>1 DEF Slots
    <3>2. CASE i # Used + 1
      <4>1. i \in 1..Used
        BY <1>2, <3>2
      <4>2. Contents[i] = buff[Slot(i)] /\ Slot(i) \in Slots
        BY <4>1, ContentsIsSeq DEF ContentsFacts
      <4>. QED BY <1>1, <1>4, <2>1, <2>2, <4>1, <4>2
    <3>. QED BY <3>1, <3>2
  <2>. QED BY <2>1, <2>2, <2>3, SameSequence
<1>7. Len(Contents) < BUFFER_SIZE - 1
  BY <1>2, ContentsIsSeq DEF ContentsFacts
<1>. QED BY <1>6, <1>7 DEF Fifo!Put, BUF_produce

-----------------------------------------------------------------------------
(* Initially, and after BUF_init, nothing waits.                           *)
LEMMA InitEmpty == BufferInit => Fifo!FifoInit
<1> SUFFICES ASSUME BufferInit PROVE Fifo!FifoInit
  OBVIOUS
<1>1. Contents = <<>>
  BY TypeInit, EmptyIffEqual DEF BufferInit
<1>. QED BY <1>1 DEF BufferInit, Fifo!FifoInit

LEMMA EmptyNext ==
    BufferTypeOK' => ((prod_index = cons_index) <=> (Contents = <<>>))'
<1>1. BufferTypeOK => ((prod_index = cons_index) <=> (Contents = <<>>))
  BY EmptyIffEqual
<1>. QED BY <1>1, PTL

FifoStepOf ==
    IF BUF_init THEN Fifo!Clear ELSE [Fifo!FifoNext]_(Fifo!fifoVars)

LEMMA FifoStep ==
    BufferTypeOK /\ BufferTypeOK' /\ [BufferNext]_bufferVars
        => [FifoStepOf]_bufferVars
<1> SUFFICES ASSUME BufferTypeOK, BufferTypeOK', BufferNext
             PROVE  FifoStepOf
  OBVIOUS
<1>1. CASE BUF_init
  <2>1. Contents' = <<>>
    BY <1>1, EmptyNext DEF BUF_init
  <2>. QED BY <1>1, <2>1 DEF BUF_init, Fifo!Clear, FifoStepOf
<1>2. CASE ~BUF_init
  <2>1. CASE BUF_consume
    BY <1>2, <2>1, ConsumeTakes DEF Fifo!FifoNext, FifoStepOf
  <2>2. ASSUME NEW byte \in Bytes, BUF_produce(byte) PROVE FifoStepOf
    BY <1>2, <2>2, ProducePuts DEF Fifo!FifoNext, FifoStepOf
  <2>. QED BY <1>2, <2>1, <2>2 DEF BufferNext
<1>. QED BY <1>1, <1>2

(* The ring buffer is a first-in first-out queue of BUFFER_SIZE - 1 bytes: *)
(* what consume_func is called with, and when the buffer refuses a byte,   *)
(* are what such a queue gives, whatever the size.                         *)
THEOREM BufferIsFifo == BufferSpec => ImplementsFifo
<1>1. BufferSpec => []BufferTypeOK
  BY BufferTyped
<1>. QED BY <1>1, InitEmpty, FifoStep, PTL
         DEF BufferSpec, ImplementsFifo, FifoStepOf

(* The two queries never disagree with what the operations will do.        *)
THEOREM QueriesAreExact == BufferSpec => []QueriesExact
<1>1. BufferTypeOK => QueriesExact
  <2> SUFFICES ASSUME BufferTypeOK PROVE QueriesExact
    OBVIOUS
  <2>1. BUFFER_SIZE \in 2..256 /\ Used \in 0..(BUFFER_SIZE - 1) /\ Len(Contents) = Used
    BY ContentsIsSeq, BufferAssumption DEF ContentsFacts
  <2>2. \A n \in 0..255 : n % 256 = n
    OBVIOUS
  <2>3. BUF_consumeable = Used
    <3>1. BUF_consumeable = Used % 256
      BY DEF BUF_consumeable, Used
    <3>. QED BY <2>1, <2>2, <3>1
  <2>4. BUF_produceable = BUFFER_SIZE - 1 - Used
    <3>1. prod_index = cons_index <=> Used = 0
      BY EmptyIffEqual, ContentsIsSeq, <2>1 DEF ContentsFacts
    <3>2. BUF_produceable = (BUFFER_SIZE - 1 - Used) % 256
      BY <2>1, <2>3, <3>1 DEF BUF_produceable
    <3>3. BUFFER_SIZE - 1 - Used \in 0..255
      BY <2>1
    <3>. QED BY <2>2, <3>2, <3>3
  <2>5. Used > 0 <=> prod_index # cons_index
    BY <2>1, EmptyIffEqual, ContentsIsSeq DEF ContentsFacts
  <2>6. BUFFER_SIZE - 1 - Used > 0 <=> ~Full
    BY <2>1, FullIffCapacity
  <2>. QED BY <2>1, <2>3, <2>4, <2>5, <2>6 DEF QueriesExact
<1>. QED BY <1>1, BufferTyped, PTL
=============================================================================
