---------------------------- MODULE OutputProofs ----------------------------
(***************************************************************************)
(* Theorems about what the kernel prints: about Serial, for every buffer   *)
(* size and every number of bytes (what the ring buffer does is taken from *)
(* BufferProofs), and about Printk, for every format and every argument.   *)
(***************************************************************************)
EXTENDS Serial, Printk, CommonLemmas

Ring == INSTANCE BufferProofs WITH out <- thr

-----------------------------------------------------------------------------
(* Sequences: moving a byte from one end of a concatenation to the other.  *)
LEMMA EmptyConcat ==
    ASSUME NEW S, NEW s \in Seq(S)
    PROVE  s \o <<>> = s
OBVIOUS

LEMMA ConcatMoves ==
    ASSUME NEW S, NEW w \in Seq(S), NEW b \in S, NEW q \in Seq(S)
    PROVE  (w \o <<b>>) \o q = (Append(w, b) \o <<>>) \o q
OBVIOUS

LEMMA ConcatAppends ==
    ASSUME NEW S, NEW w \in Seq(S), NEW q \in Seq(S), NEW b \in S
    PROVE  w \o Append(q, b) = Append(w \o q, b)
OBVIOUS

LEMMA ConcatHeads ==
    ASSUME NEW S, NEW w \in Seq(S), NEW q \in Seq(S), q # <<>>
    PROVE  (w \o <<Head(q)>>) \o Tail(q) = w \o q
OBVIOUS

LEMMA ConcatPrefix ==
    ASSUME NEW S, NEW w \in Seq(S), NEW q \in Seq(S)
    PROVE  SubSeq(w \o q, 1, Len(w \o q) - Len(q)) = w
OBVIOUS

LEMMA HeadOfConcat ==
    ASSUME NEW S, NEW T, NEW w \in Seq(T), NEW q \in Seq(T), q # <<>>, w \o q \in Seq(S)
    PROVE  Head(q) \in S
OBVIOUS
-----------------------------------------------------------------------------
(* The ring buffer, as serial.c uses it.                                   *)
MaybeByte == Bytes \cup {NoByte}

LEMMA BytesAreNoNoByte == NoByte \notin Bytes
BY SerialAssumption DEF Bytes, NoByte

LEMMA RingAssumption == Ring!BufferAssumption
BY SerialAssumption, BytesAreNoNoByte DEF Ring!BufferAssumption

LEMMA SameRing ==
    /\ BufferTypeOK <=> Ring!BufferTypeOK
    /\ Slots = Ring!Slots /\ Used = Ring!Used /\ Contents = Ring!Contents
    /\ BUF_init <=> Ring!BUF_init
    /\ BUF_consume <=> Ring!BUF_consume
    /\ \A byte : BUF_produce(byte) <=> Ring!BUF_produce(byte)
BY DEF BufferTypeOK, Ring!BufferTypeOK, Contents, Ring!Contents, Used, Ring!Used,
       Slot, Ring!Slot, BUF_init, Ring!BUF_init, BUF_consume, Ring!BUF_consume,
       BUF_produce, Ring!BUF_produce, Full, Ring!Full, Advance, Ring!Advance,
       Slots, Ring!Slots

LEMMA SameRingNext ==
    /\ BufferTypeOK' <=> Ring!BufferTypeOK'
    /\ Used' = Ring!Used' /\ Contents' = Ring!Contents'
BY DEF BufferTypeOK, Ring!BufferTypeOK, Contents, Ring!Contents, Used, Ring!Used,
       Slot, Ring!Slot, Slots, Ring!Slots

LEMMA ContentsTyped ==
    ASSUME BufferTypeOK
    PROVE  /\ Contents \in Seq(MaybeByte)
           /\ Len(Contents) = Used /\ Used \in Nat
<1>1. Ring!ContentsFacts
  BY SameRing, RingAssumption, Ring!ContentsIsSeq
<1> QED
  BY <1>1, SameRing DEF Ring!ContentsFacts, MaybeByte

LEMMA RingTyped ==
    ASSUME BufferTypeOK,
           BUF_init \/ BUF_consume \/ \E byte \in Bytes : BUF_produce(byte)
    PROVE  BufferTypeOK'
<1>1. Ring!BufferTypeOK /\ Ring!BufferNext
  BY SameRing DEF Ring!BufferNext
<1>2. Ring!BufferTypeOK'
  BY <1>1, RingAssumption, Ring!TypeStep
<1> QED
  BY <1>2, SameRingNext

LEMMA Emptied ==
    ASSUME BufferTypeOK, BUF_init
    PROVE  Contents' = <<>>
<1>1. Used' = 0
  BY DEF BUF_init, Used
<1>2. BufferTypeOK'
  BY RingTyped
<1>3. Ring!ContentsFacts'
  BY <1>2, SameRingNext, RingAssumption, Ring!ContentsStaysSeq
<1> QED
  BY <1>1, <1>3, SameRingNext DEF Ring!ContentsFacts

LEMMA Consumed ==
    ASSUME BufferTypeOK, BUF_consume
    PROVE  Contents # <<>> /\ thr' = Head(Contents) /\ Contents' = Tail(Contents)
<1>1. Ring!BufferTypeOK /\ Ring!BufferTypeOK' /\ Ring!BUF_consume
  BY SameRing, SameRingNext, RingTyped
<1>2. Ring!Fifo!Take
  BY <1>1, RingAssumption, Ring!ConsumeTakes
<1> QED
  BY <1>2, SameRing, SameRingNext DEF Ring!Fifo!Take

LEMMA Produced ==
    ASSUME BufferTypeOK, NEW byte \in Bytes, BUF_produce(byte)
    PROVE  Contents' = Append(Contents, byte)
<1>1. Ring!BufferTypeOK /\ Ring!BufferTypeOK' /\ Ring!BUF_produce(byte)
  BY SameRing, SameRingNext, RingTyped
<1>2. Ring!Fifo!Put(byte)
  BY <1>1, RingAssumption, Ring!ProducePuts
<1>3. ~Ring!Full
  BY <1>1 DEF Ring!BUF_produce
<1>4. Ring!Used # BUFFER_SIZE - 1
  BY <1>1, <1>3, RingAssumption, Ring!FullIffCapacity
<1>5. Ring!ContentsFacts
  BY <1>1, RingAssumption, Ring!ContentsIsSeq
<1>6. Len(Ring!Contents) < BUFFER_SIZE - 1
  <2>1. Ring!Used \in 0..(BUFFER_SIZE - 1) /\ Len(Ring!Contents) = Ring!Used
    BY <1>5 DEF Ring!ContentsFacts
  <2> QED
    BY <1>4, <2>1, SerialAssumption
<1> QED
  BY <1>2, <1>6, SameRing, SameRingNext DEF Ring!Fifo!Put

(* A buffer that says it has nothing to consume has nothing.               *)
LEMMA NothingWaits ==
    ASSUME BufferTypeOK, BUF_consumeable = 0
    PROVE  Contents = <<>>
<1>1. BUF_consumeable = Used % 256
  BY DEF BUF_consumeable, Used
<1>2. Used \in 0..255
  <2>1. Ring!ContentsFacts
    BY SameRing, RingAssumption, Ring!ContentsIsSeq
  <2> QED
    BY <2>1, SameRing, SerialAssumption DEF Ring!ContentsFacts
<1>3. \A n \in 0..255 : n % 256 = n
  OBVIOUS
<1>4. Len(Contents) = 0
  BY <1>1, <1>2, <1>3, ContentsTyped
<1> QED
  BY <1>4, ContentsTyped
-----------------------------------------------------------------------------
(* The types.                                                              *)
Phases == {"boot", "init", "running", "crashed"}

LEMMA EdgeTyped ==
    ASSUME irr \in BOOLEAN, Edge
    PROVE  irr' \in BOOLEAN
BY DEF Edge, Level, Enabled

LEMMA RingUnchanged ==
    ASSUME BufferTypeOK, UNCHANGED ring, thr' \in MaybeByte
    PROVE  BufferTypeOK'
BY DEF BufferTypeOK, ring, MaybeByte, Slots

LEMMA ConsumeTyped ==
    ASSUME SerialTypeOK, Consume
    PROVE  BufferTypeOK' /\ threPending' \in BOOLEAN /\ phase' \in Phases
<1>1. BufferTypeOK /\ threPending \in BOOLEAN /\ phase \in Phases
  BY DEF SerialTypeOK, Phases
<1>2. CASE phase = "boot"
  <2>1. UNCHANGED <<ring, thr, threPending>> /\ phase' = "crashed"
    BY <1>2 DEF Consume
  <2>2. thr' \in MaybeByte
    BY <1>1, <2>1 DEF BufferTypeOK, MaybeByte
  <2> QED
    BY <1>1, <2>1, <2>2, RingUnchanged DEF Phases
<1>3. CASE phase # "boot"
  BY <1>1, <1>3, RingTyped DEF Consume
<1> QED
  BY <1>2, <1>3

LEMMA WriteTyped ==
    ASSUME SerialTypeOK, NEW c \in Bytes, SER_write_c(c)
    PROVE  /\ BufferTypeOK' /\ stored' \in Seq(Bytes) /\ ret' \in {0, 1}
           /\ threPending' \in BOOLEAN /\ phase' \in Phases
<1>1. /\ BufferTypeOK /\ threPending \in BOOLEAN /\ phase \in Phases
      /\ stored \in Seq(Bytes) /\ thr \in MaybeByte
  BY DEF SerialTypeOK, Phases, BufferTypeOK, MaybeByte
<1>2. Append(stored, c) \in Seq(Bytes) /\ c \in MaybeByte
  BY <1>1 DEF MaybeByte
<1>3. CASE /\ thr' = c /\ threPending' = FALSE
           /\ stored' = Append(stored, c) /\ ret' = 1
           /\ UNCHANGED <<ring, phase>>
  BY <1>1, <1>2, <1>3, RingUnchanged
<1>4. CASE Consume /\ ret' = 1 /\ UNCHANGED stored
  BY <1>1, <1>4, ConsumeTyped
<1>5. CASE /\ BUF_produce(c)
           /\ stored' = Append(stored, c) /\ ret' = 1
           /\ UNCHANGED <<threPending, phase>>
  BY <1>1, <1>2, <1>5, RingTyped
<1>6. CASE ret' = 0 /\ UNCHANGED <<ring, thr, threPending, stored, phase>>
  BY <1>1, <1>6, RingUnchanged
<1> QED
  BY <1>3, <1>4, <1>5, <1>6 DEF SER_write_c

LEMMA CallTyped ==
    ASSUME SerialTypeOK, Call
    PROVE  /\ BufferTypeOK' /\ stored' \in Seq(Bytes) /\ ret' \in {0, 1}
           /\ threPending' \in BOOLEAN /\ phase' \in Phases /\ irr' \in BOOLEAN
           /\ given' \in 0..MaxBytes /\ given' \in Bytes
           /\ UNCHANGED <<lsiPending, wire, handler, noisy>>
<1>1. given' = given + 1 /\ given' \in Bytes /\ given' \in 0..MaxBytes
  BY SerialAssumption DEF Call, SerialTypeOK, Bytes
<1>2. SER_write_c(given') /\ Edge /\ irr \in BOOLEAN
  BY <1>1 DEF Call, SerialTypeOK
<1> QED
  BY <1>1, <1>2, WriteTyped, EdgeTyped DEF Call

LEMMA SerialTypeInit == SerialInit => SerialTypeOK
<1> SUFFICES ASSUME SerialInit PROVE SerialTypeOK
  OBVIOUS
<1>1. Ring!BufferInit
  BY DEF SerialInit, BufferInit, Ring!BufferInit, Slots, Ring!Slots
<1>2. BufferTypeOK
  BY <1>1, RingAssumption, Ring!TypeInit, SameRing
<1>3. 0 \in 0..MaxBytes /\ 0 \in 0..MaxString
  BY SerialAssumption
<1>4. <<>> \in Seq(Bytes)
  OBVIOUS
<1>5. {threPending, lsiPending, irr} \subseteq BOOLEAN /\ noisy \in BOOLEAN
  BY Zenon DEF SerialInit
<1> QED
  BY <1>2, <1>3, <1>4, <1>5, Zenon DEF SerialInit, SerialTypeOK

(* Every step keeps the types; the ring's are kept by BufferProofs.        *)
LEMMA SerialTypeStep == SerialTypeOK /\ [SerialNext]_vars => SerialTypeOK'
<1> SUFFICES ASSUME SerialTypeOK, [SerialNext]_vars PROVE SerialTypeOK'
  OBVIOUS
<1> DEFINE Registers == {threPending, lsiPending, irr} \subseteq BOOLEAN
                        /\ noisy \in BOOLEAN
           Control == /\ phase \in Phases
                      /\ handler \in {"none", "iir", "lsr", "trigger", "eoi"}
           Writer == /\ given \in 0..MaxBytes /\ ret \in {0, 1}
                     /\ left \in 0..MaxString /\ string \subseteq Bytes
           Records == wire \in Seq(Bytes) /\ stored \in Seq(Bytes)
<1>a. SerialTypeOK <=> BufferTypeOK /\ Registers /\ Control /\ Writer /\ Records
  BY Zenon DEF SerialTypeOK, Phases
<1>b. SerialTypeOK' <=> (BufferTypeOK /\ Registers /\ Control /\ Writer /\ Records)'
  BY Zenon DEF SerialTypeOK, Phases
<1>c. BufferTypeOK /\ Registers /\ Control /\ Writer /\ Records /\ thr \in MaybeByte
  BY <1>a DEF BufferTypeOK, MaybeByte
<1>d. ASSUME UNCHANGED <<ring, thr>> PROVE BufferTypeOK'
  BY <1>c, <1>d, RingUnchanged
<1>e. ASSUME Edge PROVE irr' \in BOOLEAN
  BY <1>c, <1>e, EdgeTyped
<1>1. CASE Transmit
  <2>1. BufferTypeOK'
    BY <1>1, <1>c, RingUnchanged DEF Transmit, MaybeByte
  <2>2. Registers'
    BY <1>1, <1>c, <1>e DEF Transmit, Enabled
  <2>3. Records'
    BY <1>1, <1>c DEF Transmit, writer, MaybeByte
  <2> QED
    BY <1>1, <1>b, <1>c, <2>1, <2>2, <2>3 DEF Transmit, writer
<1>2. CASE LineError
  BY <1>2, <1>b, <1>c, <1>d, <1>e DEF LineError, writer
<1>3. CASE PrintChar
  BY <1>3, <1>b, <1>c, CallTyped DEF PrintChar
<1>4. ASSUME NEW length \in 1..MaxString, BeginString(length) PROVE SerialTypeOK'
  BY <1>4, <1>b, <1>c, <1>d, SerialAssumption DEF BeginString, uart
<1>5. CASE SER_write_str
  <2>1. left' \in 0..MaxString
    BY <1>5, <1>c, SerialAssumption DEF SER_write_str
  <2> QED
    BY <1>5, <2>1, <1>b, <1>c, CallTyped DEF SER_write_str
<1>6. CASE SER_init
  <2>1. BufferTypeOK'
    BY <1>6, <1>c, RingTyped DEF SER_init
  <2>2. stored' \in Seq(Bytes)
    <3>1. Len(stored) - Used \in Int /\ Len(stored) - Used <= Len(stored)
      BY <1>c, ContentsTyped
    <3>2. SubSeq(stored, 1, Len(stored) - Used) \in Seq(Bytes)
      BY <1>c, <3>1, SubSeqProperties
    <3> QED
      BY <1>6, <3>2 DEF SER_init
  <2>3. Registers'
    BY <1>6, <1>c, <1>e DEF SER_init, is_thr_empty
  <2> QED
    BY <1>6, <1>b, <1>c, <2>1, <2>2, <2>3 DEF SER_init, Phases
<1>7. CASE TurnOnInterrupts
  BY <1>7, <1>b, <1>c, <1>d DEF TurnOnInterrupts, uart, writer, Phases
<1>8. CASE Deliver
  BY <1>8, <1>b, <1>c, <1>d DEF Deliver, writer
<1>9. CASE ReadIIR
  <2>1. Registers'
    BY <1>9, <1>c, <1>e DEF ReadIIR
  <2> QED
    BY <1>9, <2>1, <1>b, <1>c, <1>d DEF ReadIIR, writer
<1>10. CASE read_lsr
  <2>1. Registers'
    BY <1>10, <1>c, <1>e DEF read_lsr
  <2> QED
    BY <1>10, <2>1, <1>b, <1>c, <1>d DEF read_lsr, writer
<1>11. CASE trigger_write
  <2>1. BufferTypeOK' /\ threPending' \in BOOLEAN /\ phase' \in Phases
    <3>1. CASE Consume
      BY <3>1, ConsumeTyped
    <3>2. CASE UNCHANGED <<ring, thr, threPending, phase>>
      BY <3>2, <1>c, <1>d
    <3> QED
      BY <1>11, <3>1, <3>2 DEF trigger_write
  <2>2. irr' \in BOOLEAN
    BY <1>11, <1>e DEF trigger_write
  <2> QED
    BY <1>11, <2>1, <2>2, <1>b, <1>c DEF trigger_write, writer
<1>12. CASE IRQ_end_of_interrupt
  BY <1>12, <1>b, <1>c, <1>d DEF IRQ_end_of_interrupt, uart, writer
<1>13. CASE UNCHANGED vars
  BY <1>13, <1>b, <1>c, <1>d DEF vars, uart, writer
<1> QED
  BY <1>1, <1>2, <1>3, <1>4, <1>5, <1>6, <1>7, <1>8, <1>9, <1>10, <1>11, <1>12, <1>13
     DEF SerialNext, SER_interrupt

(* The type invariant, for every buffer size and number of bytes.          *)
THEOREM SerialTyped == SerialSpec => []SerialTypeOK
BY SerialTypeInit, SerialTypeStep, PTL DEF SerialSpec
-----------------------------------------------------------------------------
(* A byte waiting in the transmit holding register is not replaced: whoever
   writes the register, a caller of SER_write_c or the interrupt handler,
   has seen it empty in the same step.                                     *)
LEMMA WriteKeepsThr ==
    ASSUME NEW c, SER_write_c(c), ~is_thr_empty
    PROVE  thr' = thr
BY DEF SER_write_c, BUF_produce

LEMMA ThrStep == [SerialNext]_vars => (thr # NoByte => thr' \in {thr, NoByte})
<1> SUFFICES ASSUME [SerialNext]_vars, thr # NoByte PROVE thr' \in {thr, NoByte}
  OBVIOUS
<1>1. CASE Transmit
  BY <1>1 DEF Transmit
<1>2. CASE LineError
  BY <1>2 DEF LineError
<1>3. ASSUME Call PROVE thr' = thr
  BY <1>3, WriteKeepsThr DEF Call, is_thr_empty
<1>4. ASSUME NEW length, BeginString(length) PROVE thr' = thr
  BY <1>4 DEF BeginString, uart
<1>5. CASE SER_init
  BY <1>5 DEF SER_init, BUF_init
<1>6. CASE TurnOnInterrupts
  BY <1>6 DEF TurnOnInterrupts, uart
<1>7. CASE Deliver
  BY <1>7 DEF Deliver
<1>8. CASE SER_interrupt
  BY <1>8 DEF SER_interrupt, ReadIIR, read_lsr, trigger_write, is_thr_empty,
              IRQ_end_of_interrupt, uart
<1>9. CASE UNCHANGED vars
  BY <1>9 DEF vars, uart
<1> QED
  BY <1>1, <1>2, <1>3, <1>4, <1>5, <1>6, <1>7, <1>8, <1>9
     DEF SerialNext, PrintChar, SER_write_str

(* No byte is overwritten in the transmit holding register, whatever way   *)
(* the writers, the handler and the UART interleave.                       *)
THEOREM NoOverwrite == SerialSpec => ThrNotOverwritten
BY ThrStep, PTL DEF SerialSpec, ThrNotOverwritten
-----------------------------------------------------------------------------
(* The order of the bytes.  A step either leaves the wire, the register and
   the buffer alone, or moves one byte from one to the next, or adds one at
   the end of the line and of stored.                                      *)
LEMMA HeldTyped ==
    ASSUME NEW b \in MaybeByte
    PROVE  Held(b) \in Seq(Bytes)
BY DEF Held, MaybeByte

LEMMA SameContents ==
    ASSUME UNCHANGED ring
    PROVE  Contents' = Contents
BY DEF ring, Contents, Used, Slot

LEMMA SameOrder ==
    ASSUME BytesInOrder, UNCHANGED <<ring, thr, wire, stored>>
    PROVE  BytesInOrder'
BY SameContents DEF BytesInOrder

LEMMA OrderTypes ==
    ASSUME SerialTypeOK
    PROVE  /\ BufferTypeOK
           /\ wire \in Seq(Bytes) /\ stored \in Seq(Bytes)
           /\ thr \in MaybeByte /\ Held(thr) \in Seq(Bytes)
           /\ Contents \in Seq(MaybeByte)
           /\ wire \o Held(thr) \in Seq(Bytes)
           /\ wire \in Seq(MaybeByte) /\ wire \o Held(thr) \in Seq(MaybeByte)
<1>1. BufferTypeOK /\ wire \in Seq(Bytes) /\ stored \in Seq(Bytes) /\ thr \in MaybeByte
  BY DEF SerialTypeOK, BufferTypeOK, MaybeByte
<1>2. Held(thr) \in Seq(Bytes) /\ Contents \in Seq(MaybeByte)
  BY <1>1, HeldTyped, ContentsTyped
<1>3. \A s \in Seq(Bytes) : s \in Seq(MaybeByte)
  BY DEF MaybeByte
<1>4. wire \o Held(thr) \in Seq(Bytes)
  BY <1>1, <1>2
<1> QED
  BY <1>1, <1>2, <1>3, <1>4

(* A byte of the buffer that moves to the empty register keeps its place.  *)
LEMMA ConsumeKeepsOrder ==
    ASSUME SerialTypeOK, BytesInOrder, is_thr_empty, Consume,
           UNCHANGED <<wire, stored>>
    PROVE  BytesInOrder'
<1>1. CASE phase = "boot"
  BY <1>1, SameOrder DEF Consume
<1>2. CASE phase # "boot"
  <2>1. BUF_consume
    BY <1>2 DEF Consume
  <2>2. Contents # <<>> /\ thr' = Head(Contents) /\ Contents' = Tail(Contents)
    BY <2>1, OrderTypes, Consumed
  <2>3. wire \o <<>> = wire /\ wire \o Contents = stored
    BY OrderTypes, EmptyConcat DEF BytesInOrder, Held, is_thr_empty
  <2>4. Head(Contents) \in Bytes
    BY <2>2, <2>3, OrderTypes, HeadOfConcat
  <2>5. Held(thr') = <<Head(Contents)>>
    BY <2>2, <2>4, BytesAreNoNoByte DEF Held
  <2>6. (wire \o <<Head(Contents)>>) \o Tail(Contents) = wire \o Contents
    BY <2>2, OrderTypes, ConcatHeads
  <2> QED
    BY <2>2, <2>3, <2>5, <2>6 DEF BytesInOrder
<1> QED
  BY <1>1, <1>2

(* Each branch of SER_write_c.                                             *)
LEMMA WriteKeepsOrder ==
    ASSUME SerialTypeOK, BytesInOrder, NEW c \in Bytes, SER_write_c(c),
           UNCHANGED wire
    PROVE  BytesInOrder'
<1>1. CASE /\ BUF_consumeable = 0 /\ is_thr_empty
           /\ thr' = c /\ stored' = Append(stored, c) /\ UNCHANGED ring
  <2>1. Contents = <<>> /\ Contents' = <<>>
    BY <1>1, OrderTypes, NothingWaits, SameContents
  <2>2. Held(thr) = <<>> /\ Held(thr') = <<c>>
    BY <1>1, BytesAreNoNoByte DEF Held, is_thr_empty
  <2>3. stored = wire
    BY <2>1, <2>2, OrderTypes, EmptyConcat DEF BytesInOrder
  <2>4. (wire \o <<c>>) \o <<>> = Append(wire, c)
    BY OrderTypes
  <2> QED
    BY <1>1, <2>1, <2>2, <2>3, <2>4 DEF BytesInOrder
<1>2. CASE is_thr_empty /\ Consume /\ UNCHANGED stored
  BY <1>2, ConsumeKeepsOrder
<1>3. CASE BUF_produce(c) /\ stored' = Append(stored, c)
  <2>1. Contents' = Append(Contents, c) /\ thr' = thr
    BY <1>3, OrderTypes, Produced DEF BUF_produce
  <2>2. (wire \o Held(thr)) \o Append(Contents, c)
            = Append((wire \o Held(thr)) \o Contents, c)
    BY OrderTypes, ConcatAppends DEF MaybeByte
  <2> QED
    BY <1>3, <2>1, <2>2 DEF BytesInOrder
<1>4. CASE UNCHANGED <<ring, thr, stored>>
  BY <1>4, SameOrder
<1> QED
  BY <1>1, <1>2, <1>3, <1>4 DEF SER_write_c

LEMMA OrderInit == SerialInit => BytesInOrder
<1> SUFFICES ASSUME SerialInit PROVE BytesInOrder
  OBVIOUS
<1>1. SerialTypeOK /\ wire = <<>> /\ stored = <<>> /\ prod_index = cons_index
      /\ thr = NoByte
  BY SerialTypeInit DEF SerialInit, BufferInit
<1>2. Used = 0
  BY <1>1 DEF Used, SerialTypeOK, BufferTypeOK, Slots
<1>3. Contents = <<>> /\ Held(thr) = <<>>
  BY <1>1, <1>2, OrderTypes, ContentsTyped DEF Held
<1> QED
  BY <1>1, <1>3, EmptyConcat DEF BytesInOrder

LEMMA OrderStep ==
    SerialTypeOK /\ BytesInOrder /\ [SerialNext]_vars => BytesInOrder'
<1> SUFFICES ASSUME SerialTypeOK, BytesInOrder, [SerialNext]_vars PROVE BytesInOrder'
  OBVIOUS
<1>1. CASE Transmit
  <2>1. thr \in Bytes /\ thr' = NoByte /\ wire' = Append(wire, thr)
        /\ UNCHANGED <<ring, stored>>
    BY <1>1, OrderTypes DEF Transmit, MaybeByte, writer
  <2>2. Held(thr) = <<thr>> /\ Held(thr') = <<>>
    BY <2>1, BytesAreNoNoByte DEF Held
  <2>3. thr \in MaybeByte
    BY <2>1 DEF MaybeByte
  <2>4. (wire \o <<thr>>) \o Contents = (Append(wire, thr) \o <<>>) \o Contents
    BY <2>3, OrderTypes, ConcatMoves
  <2> QED
    BY <2>1, <2>2, <2>4, SameContents DEF BytesInOrder
<1>2. CASE LineError
  BY <1>2, SameOrder DEF LineError, writer
<1>3. ASSUME Call PROVE BytesInOrder'
  <2>1. given + 1 \in Bytes
    BY <1>3, SerialAssumption DEF Call, SerialTypeOK, Bytes
  <2> QED
    BY <1>3, <2>1, WriteKeepsOrder DEF Call
<1>4. ASSUME NEW length, BeginString(length) PROVE BytesInOrder'
  BY <1>4, SameOrder DEF BeginString, uart
<1>5. CASE SER_init
  <2>1. Contents' = <<>> /\ thr' = thr /\ wire' = wire
        /\ stored' = SubSeq(stored, 1, Len(stored) - Used)
    BY <1>5, OrderTypes, Emptied DEF SER_init, BUF_init
  <2>2. SubSeq((wire \o Held(thr)) \o Contents, 1,
               Len((wire \o Held(thr)) \o Contents) - Len(Contents))
            = wire \o Held(thr)
    BY OrderTypes, ConcatPrefix
  <2>3. stored' = wire \o Held(thr)
    BY <2>1, <2>2, OrderTypes, ContentsTyped DEF BytesInOrder
  <2>4. (wire \o Held(thr)) \o <<>> = wire \o Held(thr)
    BY OrderTypes, EmptyConcat
  <2> QED
    BY <2>1, <2>3, <2>4 DEF BytesInOrder
<1>6. CASE TurnOnInterrupts
  BY <1>6, SameOrder DEF TurnOnInterrupts, uart, writer
<1>7. CASE Deliver
  BY <1>7, SameOrder DEF Deliver, writer
<1>8. CASE ReadIIR \/ read_lsr \/ IRQ_end_of_interrupt
  BY <1>8, SameOrder DEF ReadIIR, read_lsr, IRQ_end_of_interrupt, uart, writer
<1>9. CASE trigger_write
  <2>1. UNCHANGED <<wire, stored>>
    BY <1>9 DEF trigger_write, writer
  <2>2. CASE is_thr_empty /\ Consume
    BY <2>1, <2>2, ConsumeKeepsOrder
  <2>3. CASE UNCHANGED <<ring, thr>>
    BY <2>1, <2>3, SameOrder
  <2> QED
    BY <1>9, <2>2, <2>3 DEF trigger_write
<1>10. CASE UNCHANGED vars
  BY <1>10, SameOrder DEF vars, uart, writer
<1> QED
  BY <1>1, <1>2, <1>3, <1>4, <1>5, <1>6, <1>7, <1>8, <1>9, <1>10
     DEF SerialNext, SER_interrupt, PrintChar, SER_write_str

(* No stored byte is lost, repeated or overtaken on its way to the wire,   *)
(* for every buffer size, every number of bytes and every interleaving.    *)
THEOREM InOrder == SerialSpec => []BytesInOrder
<1>1. SerialInit => SerialTypeOK /\ BytesInOrder
  BY SerialTypeInit, OrderInit
<1>2. SerialTypeOK /\ BytesInOrder /\ [SerialNext]_vars => (SerialTypeOK /\ BytesInOrder)'
  BY SerialTypeStep, OrderStep
<1> QED
  BY <1>1, <1>2, PTL DEF SerialSpec

-----------------------------------------------------------------------------
(* Words: four limbs, and the number they stand for.                       *)

(* The bases of the directives, and the number a word stands for.          *)
Bases == {2, 10, 16}
Num(w) == ((w[1] * 65536 + w[2]) * 65536 + w[3]) * 65536 + w[4]

(* The powers of two, as numbers.                                          *)
LEMMA LimbIs == Limb = 65536 /\ Top = 32768 /\ 2^8 = 256
  BY DEF Limb, Top

(* A word has four limbs of 16 bits.                                       *)
LEMMA WordIs ==
    ASSUME NEW w \in Words
    PROVE  /\ \A n \in 1..4 : w[n] \in Nat /\ w[n] < 65536
           /\ w = <<w[1], w[2], w[3], w[4]>>
           /\ Num(w) \in Nat
<1>1. /\ w[1] \in Nat /\ w[1] < 65536 /\ w[2] \in Nat /\ w[2] < 65536
      /\ w[3] \in Nat /\ w[3] < 65536 /\ w[4] \in Nat /\ w[4] < 65536
      /\ w = <<w[1], w[2], w[3], w[4]>>
  <2>1. \A n \in LimbValues : n \in Nat /\ n < 65536
    <3>1. \A n \in LimbValues : n \in Nat /\ n < Limb
      <4> Limb \in Nat
        BY LimbIs
      <4> QED BY DEF LimbValues
    <3> QED BY <3>1, LimbIs
  <2>2. /\ w[1] \in LimbValues /\ w[2] \in LimbValues /\ w[3] \in LimbValues
        /\ w[4] \in LimbValues /\ w = <<w[1], w[2], w[3], w[4]>>
    BY DEF Words
  <2> QED BY <2>1, <2>2
<1>2. \A n \in 1..4 : n = 1 \/ n = 2 \/ n = 3 \/ n = 4
  OBVIOUS
<1> QED BY <1>1, <1>2 DEF Num

(* Four such limbs make a word.                                            *)
LEMMA WordFrom ==
    ASSUME NEW f, \A n \in 1..4 : f[n] \in Nat /\ f[n] < 65536
    PROVE  /\ Limbs(f) \in Words
           /\ \A n \in 1..4 : Limbs(f)[n] = f[n]
<1>1. /\ f[1] \in Nat /\ f[1] < 65536 /\ f[2] \in Nat /\ f[2] < 65536
      /\ f[3] \in Nat /\ f[3] < 65536 /\ f[4] \in Nat /\ f[4] < 65536
  OBVIOUS
<1>2. \A n \in 1..4 : n = 1 \/ n = 2 \/ n = 3 \/ n = 4
  OBVIOUS
<1>3. Limbs(f)[1] = f[1] /\ Limbs(f)[2] = f[2] /\ Limbs(f)[3] = f[3] /\ Limbs(f)[4] = f[4]
  BY DEF Limbs
<1>4. Limbs(f) \in Words
  <2>1. \A n \in Nat : n < 65536 => n \in LimbValues
    <3>1. \A n \in Nat : n < Limb => n \in LimbValues
      <4> Limb \in Nat
        BY LimbIs
      <4> QED BY DEF LimbValues
    <3> QED BY <3>1, LimbIs
  <2>2. /\ f[1] \in LimbValues /\ f[2] \in LimbValues /\ f[3] \in LimbValues
        /\ f[4] \in LimbValues
    BY <1>1, <2>1
  <2> QED BY <2>2 DEF Limbs, Words
<1> QED BY <1>2, <1>3, <1>4

(* Quotient and remainder.                                                 *)
LEMMA Remainder ==
    ASSUME NEW t \in Nat, NEW b \in Nat \ {0}, NEW q, NEW m, q = t \div b, m = t % b
    PROVE  q \in Nat /\ m \in Nat /\ b * q + m = t /\ m < b
<1>1. q \in Nat /\ m \in Nat
  OBVIOUS
<1>2. m = t - b * q
  BY <1>1
<1>3. m < b
  OBVIOUS
<1> QED BY <1>1, <1>2, <1>3

(* One limb of a division: what is left is less than the base.             *)
LimbIn(b, r, w) == b \in Nat \ {0} /\ r \in Nat /\ r < b /\ w \in Nat /\ w < 65536
LimbOut(b, r, w, q, m) == q = (r * 65536 + w) \div b /\ m = (r * 65536 + w) % b
LimbFits(b, r, w, q, m) ==
    /\ q \in Nat /\ q < 65536 /\ m \in Nat /\ m < b
    /\ b * q + m = r * 65536 + w

(* It is what div and mod make of one limb.                                *)
LEMMA LimbDivided ==
    ASSUME NEW b, NEW r, NEW w, LimbIn(b, r, w), NEW q, NEW m, LimbOut(b, r, w, q, m)
    PROVE  LimbFits(b, r, w, q, m)
<1>0. /\ b \in Nat \ {0} /\ r \in Nat /\ r < b /\ w \in Nat /\ w < 65536
      /\ q = (r * 65536 + w) \div b /\ m = (r * 65536 + w) % b
  BY DEF LimbIn, LimbOut
<1>1. PICK t \in Nat : t = r * 65536 + w
  BY <1>0
<1>2. q \in Nat /\ m \in Nat /\ b * q + m = t /\ m < b
  <2>1. q = t \div b /\ m = t % b /\ b \in Nat \ {0}
    BY <1>0, <1>1
  <2>2. \A c \in Nat \ {0} : q = t \div c /\ m = t % c => q \in Nat /\ m \in Nat /\ c * q + m = t /\ m < c
    BY Remainder
  <2> QED BY <2>1, <2>2
<1>4. t < b * 65536
  <2>1. (r + 1) * 65536 <= b * 65536 /\ (r + 1) * 65536 = r * 65536 + 65536
    BY <1>0
  <2> QED BY <1>0, <1>1, <2>1
<1>5. b * q < b * 65536
  <2>1. b * q \in Nat /\ b * 65536 \in Nat
    BY <1>0, <1>2
  <2> QED BY <1>2, <1>4, <2>1
<1>6. q + 1 <= 65536
  BY <1>0, <1>2, <1>5, Cancel
<1> QED BY <1>1, <1>2, <1>6 DEF LimbFits

(* The long division, limb by limb.                                        *)
Divided(word, base, q, r) ==
    /\ q \in Words /\ r \in [0..4 -> Nat] /\ r[0] = 0
    /\ \A n \in 1..4 : r[n] < base /\ base * q[n] + r[n] = r[n - 1] * 65536 + word[n]

(* It is what Divide computes.                                             *)
LEMMA DivideIs ==
    ASSUME NEW word \in Words, NEW base \in Bases
    PROVE  \E r : /\ Divided(word, base, Divide(word, base).word, r)
                  /\ Divide(word, base).remainder = r[4]
<1> DEFINE S == {n \in Nat : n < base}
           step == [p \in (1..4) \X S |-> (p[2] * Limb + word[p[1]]) % base]
           F(f) == [n \in 0..4 |-> IF n = 0 THEN 0 ELSE (f[n - 1] * Limb + word[n]) % base]
           r == CHOOSE f : f = F(f)
<1>1. ASSUME NEW n \in 1..4, NEW s \in S
      PROVE  (s * Limb + word[n]) % base \in S
  <2>1. LimbIn(base, s, word[n])
    BY WordIs DEF Bases, LimbIn
  <2>2. LimbOut(base, s, word[n], (s * Limb + word[n]) \div base, (s * Limb + word[n]) % base)
    BY LimbIs DEF LimbOut
  <2>3. LimbFits(base, s, word[n], (s * Limb + word[n]) \div base, (s * Limb + word[n]) % base)
    BY <2>1, <2>2, LimbDivided
  <2> QED BY <2>3 DEF LimbFits
<1>2. step \in [(1..4) \X S -> S] /\ \A n \in 1..4, s \in S : step[<<n, s>>] = (s * Limb + word[n]) % base
  BY <1>1
<1>3. 0 \in S
  BY DEF Bases
<1> HIDE DEF step
<1>4. \E f : f = F(f)
  <2>1. PICK f \in [0..4 -> S] : f = [n \in 0..4 |-> IF n = 0 THEN 0 ELSE step[<<n, f[n - 1]>>]]
    <3>1. Ranged(S, 0, 4, step)
      BY <1>2, <1>3, RangeRecursion
    <3> QED BY <3>1 DEF Ranged
  <2>2. \A n \in 0..4 : n # 0 => n \in 1..4 /\ n - 1 \in 0..4 /\ f[n - 1] \in S
    OBVIOUS
  <2>3. f = F(f)
    BY <1>2, <2>1, <2>2
  <2> QED BY <2>3
<1>5. r = F(r)
  BY <1>4
<1> DEFINE q == Limbs([n \in 1..4 |-> (r[n - 1] * Limb + word[n]) \div base])
<1>6. Divide(word, base) = [word |-> q, remainder |-> r[4]]
  BY DEF Divide
<1>7. /\ r[0] = 0 /\ DOMAIN r = 0..4
      /\ \A n \in 1..4 : r[n] = (r[n - 1] * Limb + word[n]) % base
  <2>1. \A n \in 1..4 : n \in 0..4 /\ n # 0
    OBVIOUS
  <2> HIDE DEF r
  <2> QED BY <1>5, <2>1
<1> HIDE DEF r
<1>8. \A n \in 1..4 : word[n] \in Nat /\ word[n] < 65536
  BY WordIs
<1>9. /\ r[0] \in S /\ r[1] \in S /\ r[2] \in S /\ r[3] \in S /\ r[4] \in S
  BY <1>1, <1>3, <1>7
<1> DEFINE g == [n \in 1..4 |-> (r[n - 1] * Limb + word[n]) \div base]
<1>10. \A n \in 1..4 : g[n] = (r[n - 1] * Limb + word[n]) \div base
  OBVIOUS
<1>11. q = Limbs(g)
  OBVIOUS
<1> HIDE DEF g, q
<1>12. ASSUME NEW n \in 1..4
       PROVE  /\ g[n] \in Nat /\ g[n] < 65536 /\ r[n] \in Nat /\ r[n] < base
              /\ base * g[n] + r[n] = r[n - 1] * 65536 + word[n]
  <2>1. r[n - 1] \in S
    BY <1>9
  <2>2. LimbIn(base, r[n - 1], word[n])
    BY <1>8, <2>1 DEF Bases, LimbIn
  <2>3. LimbOut(base, r[n - 1], word[n], g[n], r[n])
    BY <1>7, <1>10, LimbIs DEF LimbOut
  <2>4. LimbFits(base, r[n - 1], word[n], g[n], r[n])
    BY <2>2, <2>3, LimbDivided
  <2> QED BY <2>4 DEF LimbFits
<1>13. q \in Words /\ \A n \in 1..4 : q[n] = g[n]
  BY <1>11, <1>12, WordFrom
<1>14. r \in [0..4 -> Nat] /\ \A n \in 1..4 : r[n] < base
  BY <1>5, <1>7, <1>9
<1>15. Divided(word, base, q, r)
  BY <1>7, <1>12, <1>13, <1>14 DEF Divided
<1> QED BY <1>6, <1>15

(* Only the word Zero stands for zero.                                     *)
LEMMA ZeroIs == Zero \in Words /\ Num(Zero) = 0 /\ \A w \in Words : w # Zero => Num(w) > 0
<1>1. Zero \in Words
  <2>1. \A n \in 1..4 : Zero[n] \in Nat /\ Zero[n] < 65536
    BY DEF Zero
  <2>2. Limbs(Zero) = Zero
    BY DEF Limbs, Zero
  <2> QED BY <2>1, <2>2, WordFrom
<1>2. Num(Zero) = 0
  BY DEF Num, Zero
<1>3. ASSUME NEW w \in Words, w # Zero PROVE Num(w) > 0
  <2>1. /\ w[1] \in Nat /\ w[2] \in Nat /\ w[3] \in Nat /\ w[4] \in Nat
        /\ w = <<w[1], w[2], w[3], w[4]>>
    BY WordIs
  <2>2. ~(w[1] = 0 /\ w[2] = 0 /\ w[3] = 0 /\ w[4] = 0)
    BY <1>3, <2>1 DEF Zero
  <2> QED BY <2>1, <2>2 DEF Num
<1> QED BY <1>1, <1>2, <1>3

(* The limbs of a division add up to the number divided.                   *)
LEMMA DividedNum ==
    ASSUME NEW word \in Words, NEW base \in Bases, NEW q, NEW r, Divided(word, base, q, r)
    PROVE  /\ q \in Words /\ r[4] \in Nat /\ r[4] < base
           /\ base * Num(q) + r[4] = Num(word)
<1>1. /\ q \in Words /\ r[0] = 0
      /\ r[1] \in Nat /\ r[2] \in Nat /\ r[3] \in Nat /\ r[4] \in Nat /\ r[4] < base
      /\ base * q[1] + r[1] = r[0] * 65536 + word[1]
      /\ base * q[2] + r[2] = r[1] * 65536 + word[2]
      /\ base * q[3] + r[3] = r[2] * 65536 + word[3]
      /\ base * q[4] + r[4] = r[3] * 65536 + word[4]
  BY DEF Divided
<1>2. /\ word[1] \in Nat /\ word[2] \in Nat /\ word[3] \in Nat /\ word[4] \in Nat
      /\ q[1] \in Nat /\ q[2] \in Nat /\ q[3] \in Nat /\ q[4] \in Nat
  BY <1>1, WordIs
<1>3. base * Num(q) + r[4] = Num(word)
  <2>1. base * q[1] + r[1] = word[1]
    BY <1>1, <1>2
  <2>2. PICK q1 \in Nat, q2 \in Nat, q3 \in Nat, q4 \in Nat :
          q1 = q[1] /\ q2 = q[2] /\ q3 = q[3] /\ q4 = q[4]
    BY <1>2
  <2>3. PICK w1 \in Nat, w2 \in Nat, w3 \in Nat, w4 \in Nat :
          w1 = word[1] /\ w2 = word[2] /\ w3 = word[3] /\ w4 = word[4]
    BY <1>2
  <2>4. PICK r1 \in Nat, r2 \in Nat, r3 \in Nat, r4 \in Nat :
          r1 = r[1] /\ r2 = r[2] /\ r3 = r[3] /\ r4 = r[4]
    BY <1>1
  <2>5. /\ base * q1 + r1 = w1 /\ base * q2 + r2 = r1 * 65536 + w2
        /\ base * q3 + r3 = r2 * 65536 + w3 /\ base * q4 + r4 = r3 * 65536 + w4
    BY <1>1, <2>1, <2>2, <2>3, <2>4
  <2>6. base * (((q1 * 65536 + q2) * 65536 + q3) * 65536 + q4) + r4
             = ((w1 * 65536 + w2) * 65536 + w3) * 65536 + w4
    <3>1. CASE base = 2
      <4>1. /\ 2 * q1 + r1 = w1 /\ 2 * q2 + r2 = r1 * 65536 + w2
            /\ 2 * q3 + r3 = r2 * 65536 + w3 /\ 2 * q4 + r4 = r3 * 65536 + w4
        BY <2>5, <3>1
      <4>2. 2 * (((q1 * 65536 + q2) * 65536 + q3) * 65536 + q4) + r4
                 = ((w1 * 65536 + w2) * 65536 + w3) * 65536 + w4
        BY <4>1
      <4> QED BY <3>1, <4>2
    <3>2. CASE base = 10
      <4>1. /\ 10 * q1 + r1 = w1 /\ 10 * q2 + r2 = r1 * 65536 + w2
            /\ 10 * q3 + r3 = r2 * 65536 + w3 /\ 10 * q4 + r4 = r3 * 65536 + w4
        BY <2>5, <3>2
      <4>2. 10 * (((q1 * 65536 + q2) * 65536 + q3) * 65536 + q4) + r4
                 = ((w1 * 65536 + w2) * 65536 + w3) * 65536 + w4
        BY <4>1
      <4> QED BY <3>2, <4>2
    <3>3. CASE base = 16
      <4>1. /\ 16 * q1 + r1 = w1 /\ 16 * q2 + r2 = r1 * 65536 + w2
            /\ 16 * q3 + r3 = r2 * 65536 + w3 /\ 16 * q4 + r4 = r3 * 65536 + w4
        BY <2>5, <3>3
      <4>2. 16 * (((q1 * 65536 + q2) * 65536 + q3) * 65536 + q4) + r4
                 = ((w1 * 65536 + w2) * 65536 + w3) * 65536 + w4
        BY <4>1
      <4> QED BY <3>3, <4>2
    <3> QED BY <3>1, <3>2, <3>3 DEF Bases
  <2> QED BY <2>2, <2>3, <2>4, <2>6 DEF Num
<1> QED BY <1>1, <1>3

(* A division leaves a smaller word.                                       *)
LEMMA DivideNum ==
    ASSUME NEW word \in Words, NEW base \in Bases
    PROVE  LET d == Divide(word, base)
           IN  /\ d.word \in Words /\ d.remainder \in Nat /\ d.remainder < base
               /\ base * Num(d.word) + d.remainder = Num(word)
               /\ word # Zero => Num(d.word) < Num(word)
<1> DEFINE d == Divide(word, base)
<1>1. PICK r : Divided(word, base, d.word, r) /\ d.remainder = r[4]
  BY DivideIs
<1>2. PICK q : q = d.word
  OBVIOUS
<1>3. q \in Words /\ r[4] \in Nat /\ r[4] < base /\ base * Num(q) + r[4] = Num(word)
  BY <1>1, <1>2, DividedNum
<1>4. ASSUME word # Zero PROVE Num(q) < Num(word)
  <2>1. Num(q) \in Nat /\ Num(word) > 0 /\ Num(word) \in Nat
    BY <1>3, <1>4, ZeroIs, WordIs
  <2>2. CASE base = 2
    BY <1>3, <2>1, <2>2
  <2>3. CASE base = 10
    BY <1>3, <2>1, <2>3
  <2>4. CASE base = 16
    BY <1>3, <2>1, <2>4
  <2> QED BY <2>2, <2>3, <2>4 DEF Bases
<1> QED BY <1>1, <1>2, <1>3, <1>4
-----------------------------------------------------------------------------
(* to_string, the loop: digit by digit, by division.                       *)

(* The digits of a base.                                                   *)
Characters(base) == {Digit[n] : n \in 1..base}

(* The recursion of Digits is well-founded: the quotients get smaller.     *)
LEMMA DigitsIs ==
    ASSUME NEW base \in Bases
    PROVE  \A w \in Words :
             Digits(w, base) = IF w = Zero THEN <<>>
                               ELSE LET q == Divide(w, base)
                                    IN  <<Digit[q.remainder + 1]>> \o Digits(q.word, base)
<1> DEFINE S == Seq(Characters(base))
           size == [w \in Words |-> Num(w)]
           down == [w \in Words |-> Divide(w, base).word]
           step == [p \in Words \X S |-> <<Digit[Divide(p[1], base).remainder + 1]>> \o p[2]]
           F(f) == [i \in Words |-> IF i = Zero THEN <<>>
                       ELSE LET q == Divide(i, base)
                            IN  <<Digit[q.remainder + 1]>> \o f[q.word]]
           D == CHOOSE f : f = F(f)
<1>1. size \in [Words -> Nat]
  BY WordIs
<1>2. down \in [Words -> Words] /\ \A w \in Words : down[w] = Divide(w, base).word
  BY DivideNum
<1>3. \A w \in Words \ {Zero} : size[down[w]] < size[w]
  BY <1>2, DivideNum
<1>4. step \in [Words \X S -> S] /\ \A w \in Words, s \in S :
        step[<<w, s>>] = <<Digit[Divide(w, base).remainder + 1]>> \o s
  <2>1. ASSUME NEW w \in Words, NEW s \in S PROVE <<Digit[Divide(w, base).remainder + 1]>> \o s \in S
    <3>1. Divide(w, base).remainder \in Nat /\ Divide(w, base).remainder < base /\ base \in Nat
      BY DivideNum DEF Bases
    <3>2. Divide(w, base).remainder + 1 \in 1..base
      BY <3>1
    <3>3. Digit[Divide(w, base).remainder + 1] \in Characters(base)
      BY <3>2 DEF Characters
    <3> QED BY <3>3
  <2> QED BY <2>1
<1>5. <<>> \in S
  OBVIOUS
<1>6. {Zero} \in SUBSET Words
  BY ZeroIs
<1> HIDE DEF size, down, step
<1>7. Measured(Words, S, {Zero}, <<>>, down, step)
  <2>1. PICK T : T = S
    OBVIOUS
  <2>2. PICK e \in T : e = <<>>
    BY <1>5, <2>1
  <2>3. step \in [Words \X T -> T]
    BY <1>4, <2>1
  <2>4. Measured(Words, T, {Zero}, e, down, step)
    BY <1>1, <1>2, <1>3, <1>6, <2>3, MeasuredRecursion
  <2> QED BY <2>1, <2>2, <2>4
<1>8. PICK f \in [Words -> S] :
        \A w \in Words : f[w] = IF w \in {Zero} THEN <<>> ELSE step[<<w, f[down[w]]>>]
  BY <1>7 DEF Measured
<1>9. f = F(f)
  <2>1. ASSUME NEW w \in Words \ {Zero}
        PROVE  f[w] = <<Digit[Divide(w, base).remainder + 1]>> \o f[Divide(w, base).word]
    <3>1. f[w] = step[<<w, f[down[w]]>>] /\ w \in Words
      BY <1>8
    <3>2. down[w] = Divide(w, base).word /\ f[down[w]] \in S
      BY <1>2, <3>1
    <3>3. \A s \in S : step[<<w, s>>] = <<Digit[Divide(w, base).remainder + 1]>> \o s
      BY <1>4, <3>1
    <3> HIDE DEF S
    <3> QED BY <3>1, <3>2, <3>3
  <2>2. f = [w \in Words |-> f[w]]
    OBVIOUS
  <2> QED BY <1>8, <2>1, <2>2
<1>10. D = F(D)
  BY <1>9
<1>11. \A w \in Words : Digits(w, base) = D[w]
  BY DEF Digits
<1> HIDE DEF D
<1>12. \A w \in Words : D[w] = IF w = Zero THEN <<>> ELSE LET q == Divide(w, base)
                            IN  <<Digit[q.remainder + 1]>> \o D[q.word]
  BY <1>10
<1> QED BY <1>11, <1>12, DivideNum

(* The sixteen digits,                                                     *)
LEMMA DigitCases ==
    \A n \in 1..16 : \/ n = 1 /\ Digit[n] = "0"
                     \/ n = 2 /\ Digit[n] = "1"
                     \/ n = 3 /\ Digit[n] = "2"
                     \/ n = 4 /\ Digit[n] = "3"
                     \/ n = 5 /\ Digit[n] = "4"
                     \/ n = 6 /\ Digit[n] = "5"
                     \/ n = 7 /\ Digit[n] = "6"
                     \/ n = 8 /\ Digit[n] = "7"
                     \/ n = 9 /\ Digit[n] = "8"
                     \/ n = 10 /\ Digit[n] = "9"
                     \/ n = 11 /\ Digit[n] = "a"
                     \/ n = 12 /\ Digit[n] = "b"
                     \/ n = 13 /\ Digit[n] = "c"
                     \/ n = 14 /\ Digit[n] = "d"
                     \/ n = 15 /\ Digit[n] = "e"
                     \/ n = 16 /\ Digit[n] = "f"
  BY DEF Digit

(* The sixteen digits are different, and none is the sign.                 *)
LEMMA DigitsDiffer ==
    /\ \A m, n \in 1..16 : Digit[m] = Digit[n] => m = n
    /\ \A n \in 1..16 : Digit[n] # "-" /\ (Digit[n] = "0" => n = 1)
    /\ Digit[1] = "0"
<1>1. ASSUME NEW m \in 1..16, NEW n \in 1..16, Digit[m] = Digit[n] PROVE m = n
  BY <1>1, DigitCases
<1>2. \A n \in 1..16 : Digit[n] # "-" /\ (Digit[n] = "0" => n = 1)
  BY DigitCases
<1>3. Digit[1] = "0"
  BY DEF Digit
<1> QED BY <1>1, <1>2, <1>3

(* A digit is worth its place in the table.                                *)
LEMMA DigitValueIs == \A n \in 1..16 : DigitValue(Digit[n]) = n - 1
<1> SUFFICES ASSUME NEW n \in 1..16 PROVE DigitValue(Digit[n]) = n - 1
  OBVIOUS
<1>1. (CHOOSE m \in 1..16 : Digit[m] = Digit[n]) = n
  BY DigitsDiffer
<1> QED BY <1>1 DEF DigitValue

(* Induction along the divisions to_string makes.                          *)
LEMMA DigitInduction ==
    ASSUME NEW base \in Bases, NEW K \in SUBSET Words, Zero \in K,
           \A w \in Words : w # Zero /\ Divide(w, base).word \in K => w \in K
    PROVE  K = Words
<1> DEFINE T == {n \in Nat : \A w \in Words : Num(w) <= n => w \in K}
<1>1. 0 \in T
  <2>1. ASSUME NEW w \in Words, Num(w) <= 0 PROVE w \in K
    <3>1. w = Zero
      BY <2>1, ZeroIs, WordIs
    <3> QED BY <3>1
  <2> QED BY <2>1
<1>2. ASSUME NEW n \in T PROVE n + 1 \in T
  <2>1. ASSUME NEW w \in Words, Num(w) <= n + 1, w # Zero PROVE w \in K
    <3>1. Divide(w, base).word \in Words /\ Num(Divide(w, base).word) < Num(w)
      BY <2>1, DivideNum
    <3>2. Num(Divide(w, base).word) \in Nat /\ Num(w) \in Nat
      BY <3>1, WordIs
    <3>3. Num(Divide(w, base).word) <= n
      BY <2>1, <3>1, <3>2
    <3> QED BY <2>1, <3>1, <3>3
  <2> QED BY <2>1
<1>3. T \in SUBSET Nat
  OBVIOUS
<1> HIDE DEF T
<1>4. T = Nat
  BY <1>1, <1>2, <1>3, NaturalInduction
<1>5. ASSUME NEW w \in Words PROVE w \in K
  <2>1. Num(w) \in T
    BY <1>4, WordIs
  <2> QED BY <2>1, WordIs DEF T
<1> QED BY <1>5

(* One round of the loop.                                                  *)
LEMMA DigitsStep ==
    ASSUME NEW base \in Bases, NEW w \in Words, w # Zero
    PROVE  \E n \in 1..base, q \in Words :
             /\ q = Divide(w, base).word /\ base * Num(q) + (n - 1) = Num(w)
             /\ n - 1 = Divide(w, base).remainder
             /\ Digits(w, base) = <<Digit[n]>> \o Digits(q, base)
<1>1. PICK q \in Words : q = Divide(w, base).word
  BY DivideNum
<1>2. PICK n \in 1..base : n - 1 = Divide(w, base).remainder
  <2>1. Divide(w, base).remainder \in Nat /\ Divide(w, base).remainder < base /\ base \in Nat
    BY DivideNum DEF Bases
  <2>2. Divide(w, base).remainder + 1 \in 1..base
    BY <2>1
  <2>3. (Divide(w, base).remainder + 1) - 1 = Divide(w, base).remainder
    BY <2>1
  <2> QED BY <2>2, <2>3
<1>3. n = Divide(w, base).remainder + 1
  BY <1>2, DivideNum
<1>4. Digits(w, base) = <<Digit[n]>> \o Digits(q, base)
  BY <1>1, <1>3, DigitsIs
<1> QED BY <1>1, <1>2, <1>4, DivideNum

(* Digits writes digits of the base.                                       *)
LEMMA DigitsType ==
    ASSUME NEW base \in Bases, NEW w \in Words
    PROVE  Digits(w, base) \in Seq(Characters(base))
<1> DEFINE K == {v \in Words : Digits(v, base) \in Seq(Characters(base))}
<1>1. Zero \in K
  <2>1. Digits(Zero, base) = <<>>
    BY ZeroIs, DigitsIs
  <2> QED BY <2>1, ZeroIs
<1>2. ASSUME NEW v \in Words, v # Zero, Divide(v, base).word \in K PROVE v \in K
  <2>1. PICK n \in 1..base, q \in Words : /\ q = Divide(v, base).word
                                          /\ Digits(v, base) = <<Digit[n]>> \o Digits(q, base)
    BY <1>2, DigitsStep
  <2>2. Digit[n] \in Characters(base)
    BY DEF Characters
  <2>3. Digits(q, base) \in Seq(Characters(base))
    BY <1>2, <2>1
  <2> QED BY <2>1, <2>2, <2>3
<1>3. K \in SUBSET Words
  OBVIOUS
<1> HIDE DEF K
<1>4. K = Words
  BY <1>1, <1>2, <1>3, DigitInduction
<1> QED BY <1>4 DEF K

(* The last digit written, the first of the text, is not a zero.           *)
LEMMA DigitsLead ==
    ASSUME NEW base \in Bases, NEW w \in Words, w # Zero
    PROVE  LET d == Digits(w, base) IN Len(d) \in Nat \ {0} /\ d[Len(d)] # "0"
<1> DEFINE Good(v) == /\ Len(Digits(v, base)) \in Nat \ {0}
                      /\ Digits(v, base)[Len(Digits(v, base))] # "0"
           K == {v \in Words : v # Zero => Good(v)}
<1>1. Zero \in K
  BY ZeroIs
<1>2. ASSUME NEW v \in Words, v # Zero, Divide(v, base).word \in K PROVE v \in K
  <2>1. PICK n \in 1..base, q \in Words :
           /\ q = Divide(v, base).word /\ base * Num(q) + (n - 1) = Num(v)
           /\ Digits(v, base) = <<Digit[n]>> \o Digits(q, base)
    BY <1>2, DigitsStep
  <2>2. PICK d : d = Digits(q, base)
    OBVIOUS
  <2>3. d \in Seq(Characters(base))
    BY <2>2, DigitsType
  <2>4. CASE q = Zero
    <3>1. d = <<>>
      BY <2>2, <2>4, ZeroIs, DigitsIs
    <3>2. Digits(v, base) = <<Digit[n]>>
      BY <2>1, <2>2, <3>1
    <3>3. Num(q) = 0
      BY <2>4, ZeroIs
    <3>4. n # 1
      <4>1. base * Num(q) = 0
        BY <3>3 DEF Bases
      <4> QED BY <2>1, <4>1, <1>2, ZeroIs
    <3>5. n \in 1..16
      BY DEF Bases
    <3>6. Digit[n] # "0"
      BY <3>4, <3>5, DigitsDiffer
    <3>7. PICK e : e = <<Digit[n]>>
      OBVIOUS
    <3>8. Len(e) = 1 /\ e[1] = Digit[n]
      BY <3>7
    <3>9. Digits(v, base) = e
      BY <3>2, <3>7
    <3>10. Len(e) \in Nat \ {0} /\ e[Len(e)] # "0"
      BY <3>6, <3>8
    <3> QED BY <3>9, <3>10
  <2>5. CASE q # Zero
    <3>1. Len(d) \in Nat \ {0} /\ d[Len(d)] # "0"
      BY <1>2, <2>1, <2>2, <2>5
    <3>2. PICK e : e = <<Digit[n]>> \o d
      OBVIOUS
    <3>3. Len(e) = Len(d) + 1 /\ e[Len(d) + 1] = d[Len(d)]
      <4>1. <<Digit[n]>> \in Seq({Digit[n]}) /\ Len(<<Digit[n]>>) = 1
        OBVIOUS
      <4>2. PICK T : Digit[n] \in T /\ d \in Seq(T)
        <5>1. Digit[n] \in Characters(base)
          BY DEF Characters
        <5> QED BY <2>3, <5>1
      <4>3. <<Digit[n]>> \in Seq(T)
        BY <4>2
      <4> QED BY <3>1, <3>2, <4>1, <4>2, <4>3
    <3> QED BY <2>1, <2>2, <3>1, <3>2, <3>3
  <2> QED BY <2>4, <2>5
<1>3. K \in SUBSET Words
  OBVIOUS
<1> HIDE DEF K
<1>4. K = Words
  BY <1>1, <1>2, <1>3, DigitInduction
<1> QED BY <1>4 DEF K

(* The powers of a base.                                                   *)
Powers(base) == CHOOSE p \in [Nat -> Nat] : p[0] = 1 /\ \A n \in Nat : p[n + 1] = base * p[n]

(* They exist.                                                             *)
LEMMA PowersAre ==
    ASSUME NEW base \in Nat
    PROVE  /\ Powers(base) \in [Nat -> Nat] /\ Powers(base)[0] = 1
           /\ \A n \in Nat : Powers(base)[n + 1] = base * Powers(base)[n]
<1> DEFINE next == [n \in Nat |-> base * n]
<1>1. next \in [Nat -> Nat] /\ \A n \in Nat : next[n] = base * n
  OBVIOUS
<1> HIDE DEF next
<1>2. PICK f \in [Nat -> Nat] : f[0] = 1 /\ \A n \in Nat : f[n + 1] = next[f[n]]
  <2>1. Iterable(Nat, 1, next)
    BY <1>1, IterableAnywhere
  <2> QED BY <2>1 DEF Iterable
<1>3. \A n \in Nat : f[n + 1] = base * f[n]
  BY <1>1, <1>2
<1> QED BY <1>2, <1>3 DEF Powers

(* A number has no more digits than its size allows.                       *)
LEMMA DigitCount ==
    ASSUME NEW base \in Bases, NEW k \in Nat, NEW w \in Words, Num(w) < Powers(base)[k]
    PROVE  Len(Digits(w, base)) <= k
<1> DEFINE p == Powers(base)
           T == {n \in Nat : \A v \in Words : Num(v) < p[n] => Len(Digits(v, base)) <= n}
<1>0. base \in Nat /\ base > 0
  BY DEF Bases
<1>1. p \in [Nat -> Nat] /\ p[0] = 1 /\ \A n \in Nat : p[n + 1] = base * p[n]
  BY <1>0, PowersAre
<1>2. Len(Digits(Zero, base)) = 0
  <2>1. Digits(Zero, base) = <<>>
    BY ZeroIs, DigitsIs
  <2> QED BY <2>1
<1> HIDE DEF p
<1>3. 0 \in T
  <2>1. ASSUME NEW v \in Words, Num(v) < p[0] PROVE Len(Digits(v, base)) <= 0
    <3>1. v = Zero
      BY <1>1, <2>1, ZeroIs, WordIs
    <3> QED BY <1>2, <3>1
  <2> QED BY <2>1
<1>4. ASSUME NEW n \in T PROVE n + 1 \in T
  <2>1. ASSUME NEW v \in Words, Num(v) < p[n + 1], v # Zero PROVE Len(Digits(v, base)) <= n + 1
    <3>1. PICK m \in 1..base, q \in Words :
             /\ base * Num(q) + (m - 1) = Num(v)
             /\ Digits(v, base) = <<Digit[m]>> \o Digits(q, base)
      BY <2>1, DigitsStep
    <3>2. base * Num(q) < base * p[n] /\ Num(q) \in Nat /\ p[n] \in Nat
      <4>1. Num(q) \in Nat /\ p[n] \in Nat /\ p[n + 1] = base * p[n]
        <5>1. n \in Nat /\ n + 1 \in Nat
          OBVIOUS
        <5>2. Num(q) \in Nat
          BY WordIs
        <5> QED BY <1>1, <5>1, <5>2
      <4>2. base * Num(q) \in Nat /\ base * p[n] \in Nat
        BY <1>0, <4>1
      <4> QED BY <2>1, <3>1, <4>1, <4>2
    <3>3. Num(q) < p[n]
      <4>1. Num(q) + 1 <= p[n]
        BY <1>0, <3>2, Cancel
      <4> QED BY <3>2, <4>1
    <3>4. Len(Digits(q, base)) <= n /\ Digits(q, base) \in Seq(Characters(base))
      BY <3>3, DigitsType
    <3>5. Len(Digits(v, base)) = 1 + Len(Digits(q, base)) /\ Len(Digits(q, base)) \in Nat
      <4>1. Digit[m] \in Characters(base)
        BY DEF Characters
      <4>2. <<Digit[m]>> \in Seq(Characters(base)) /\ Len(<<Digit[m]>>) = 1
        BY <4>1
      <4> QED BY <3>1, <3>4, <4>2
    <3> QED BY <3>4, <3>5
  <2>2. Len(Digits(Zero, base)) <= n + 1
    BY <1>2
  <2> QED BY <2>1, <2>2
<1>5. T \in SUBSET Nat
  OBVIOUS
<1> HIDE DEF T
<1>6. T = Nat
  BY <1>3, <1>4, <1>5, NaturalInduction
<1> QED BY <1>6 DEF T, p

(* The powers that bound the words.                                        *)
LEMMA SmallPowers ==
    /\ Powers(2)[64] = 18446744073709551616
    /\ Powers(16)[2] = 256 /\ Powers(16)[4] = 65536
    /\ Powers(16)[8] = 4294967296 /\ Powers(16)[16] = 18446744073709551616
    /\ Powers(10)[3] = 1000 /\ Powers(10)[5] = 100000
    /\ Powers(10)[10] = 10000000000 /\ Powers(10)[19] = 10000000000000000000
<1>1. ASSUME NEW n \in Nat PROVE Powers(2)[n + 8] = 256 * Powers(2)[n]
  <2> DEFINE p == Powers(2)
  <2>1. p \in [Nat -> Nat] /\ \A m \in Nat : p[m + 1] = 2 * p[m]
    BY PowersAre
  <2> HIDE DEF p
  <2>2. /\ p[n + 1] = 2 * p[n] /\ p[(n + 1) + 1] = 2 * p[n + 1]
        /\ p[(n + 2) + 1] = 2 * p[n + 2] /\ p[(n + 3) + 1] = 2 * p[n + 3]
        /\ p[(n + 4) + 1] = 2 * p[n + 4] /\ p[(n + 5) + 1] = 2 * p[n + 5]
        /\ p[(n + 6) + 1] = 2 * p[n + 6] /\ p[(n + 7) + 1] = 2 * p[n + 7] /\ p[n] \in Nat
    BY <2>1
  <2>3. p[n + 8] = 256 * p[n]
    BY <2>2
  <2> QED BY <2>3 DEF p
<1>2. Powers(2)[64] = 18446744073709551616
  <2>1. Powers(2)[8] = 256
    <3>1. Powers(2)[0 + 8] = 256 * Powers(2)[0]
      BY <1>1
    <3>2. Powers(2)[0] = 1
      BY PowersAre
    <3> QED BY <3>1, <3>2
  <2>2. Powers(2)[16] = 65536
    <3>1. Powers(2)[8 + 8] = 256 * Powers(2)[8]
      BY <1>1
    <3> QED BY <2>1, <3>1
  <2>3. Powers(2)[24] = 16777216
    <3>1. Powers(2)[16 + 8] = 256 * Powers(2)[16]
      BY <1>1
    <3> QED BY <2>2, <3>1
  <2>4. Powers(2)[32] = 4294967296
    <3>1. Powers(2)[24 + 8] = 256 * Powers(2)[24]
      BY <1>1
    <3> QED BY <2>3, <3>1
  <2>5. Powers(2)[40] = 1099511627776
    <3>1. Powers(2)[32 + 8] = 256 * Powers(2)[32]
      BY <1>1
    <3> QED BY <2>4, <3>1
  <2>6. Powers(2)[48] = 281474976710656
    <3>1. Powers(2)[40 + 8] = 256 * Powers(2)[40]
      BY <1>1
    <3> QED BY <2>5, <3>1
  <2>7. Powers(2)[56] = 72057594037927936
    <3>1. Powers(2)[48 + 8] = 256 * Powers(2)[48]
      BY <1>1
    <3> QED BY <2>6, <3>1
  <2>8. Powers(2)[64] = 18446744073709551616
    <3>1. Powers(2)[56 + 8] = 256 * Powers(2)[56]
      BY <1>1
    <3> QED BY <2>7, <3>1
  <2> QED BY <2>8
<1>3. ASSUME NEW n \in Nat PROVE Powers(16)[n + 2] = 256 * Powers(16)[n]
  <2> DEFINE p == Powers(16)
  <2>1. p \in [Nat -> Nat] /\ \A m \in Nat : p[m + 1] = 16 * p[m]
    BY PowersAre
  <2> HIDE DEF p
  <2>2. p[n + 1] = 16 * p[n] /\ p[(n + 1) + 1] = 16 * p[n + 1] /\ p[n] \in Nat
    BY <2>1
  <2>3. p[n + 2] = 256 * p[n]
    BY <2>2
  <2> QED BY <2>3 DEF p
<1>4. /\ Powers(16)[2] = 256 /\ Powers(16)[4] = 65536
      /\ Powers(16)[8] = 4294967296 /\ Powers(16)[16] = 18446744073709551616
  <2>1. Powers(16)[2] = 256
    <3>1. Powers(16)[0 + 2] = 256 * Powers(16)[0]
      BY <1>3
    <3>2. Powers(16)[0] = 1
      BY PowersAre
    <3> QED BY <3>1, <3>2
  <2>2. Powers(16)[4] = 65536
    <3>1. Powers(16)[2 + 2] = 256 * Powers(16)[2]
      BY <1>3
    <3> QED BY <2>1, <3>1
  <2>3. Powers(16)[6] = 16777216
    <3>1. Powers(16)[4 + 2] = 256 * Powers(16)[4]
      BY <1>3
    <3> QED BY <2>2, <3>1
  <2>4. Powers(16)[8] = 4294967296
    <3>1. Powers(16)[6 + 2] = 256 * Powers(16)[6]
      BY <1>3
    <3> QED BY <2>3, <3>1
  <2>5. Powers(16)[10] = 1099511627776
    <3>1. Powers(16)[8 + 2] = 256 * Powers(16)[8]
      BY <1>3
    <3> QED BY <2>4, <3>1
  <2>6. Powers(16)[12] = 281474976710656
    <3>1. Powers(16)[10 + 2] = 256 * Powers(16)[10]
      BY <1>3
    <3> QED BY <2>5, <3>1
  <2>7. Powers(16)[14] = 72057594037927936
    <3>1. Powers(16)[12 + 2] = 256 * Powers(16)[12]
      BY <1>3
    <3> QED BY <2>6, <3>1
  <2>8. Powers(16)[16] = 18446744073709551616
    <3>1. Powers(16)[14 + 2] = 256 * Powers(16)[14]
      BY <1>3
    <3> QED BY <2>7, <3>1
  <2> QED BY <2>1, <2>2, <2>4, <2>8
<1>5. ASSUME NEW n \in Nat
      PROVE  Powers(10)[n + 1] = 10 * Powers(10)[n] /\ Powers(10)[n] \in Nat
  BY PowersAre
<1>6. /\ Powers(10)[3] = 1000 /\ Powers(10)[5] = 100000
      /\ Powers(10)[10] = 10000000000 /\ Powers(10)[19] = 10000000000000000000
  <2>1. Powers(10)[1] = 10
    <3>1. Powers(10)[0 + 1] = 10 * Powers(10)[0]
      BY <1>5
    <3>2. Powers(10)[0] = 1
      BY PowersAre
    <3> QED BY <3>1, <3>2
  <2>2. Powers(10)[2] = 100
    <3>1. Powers(10)[1 + 1] = 10 * Powers(10)[1]
      BY <1>5
    <3> QED BY <2>1, <3>1
  <2>3. Powers(10)[3] = 1000
    <3>1. Powers(10)[2 + 1] = 10 * Powers(10)[2]
      BY <1>5
    <3> QED BY <2>2, <3>1
  <2>4. Powers(10)[4] = 10000
    <3>1. Powers(10)[3 + 1] = 10 * Powers(10)[3]
      BY <1>5
    <3> QED BY <2>3, <3>1
  <2>5. Powers(10)[5] = 100000
    <3>1. Powers(10)[4 + 1] = 10 * Powers(10)[4]
      BY <1>5
    <3> QED BY <2>4, <3>1
  <2>6. Powers(10)[6] = 1000000
    <3>1. Powers(10)[5 + 1] = 10 * Powers(10)[5]
      BY <1>5
    <3> QED BY <2>5, <3>1
  <2>7. Powers(10)[7] = 10000000
    <3>1. Powers(10)[6 + 1] = 10 * Powers(10)[6]
      BY <1>5
    <3> QED BY <2>6, <3>1
  <2>8. Powers(10)[8] = 100000000
    <3>1. Powers(10)[7 + 1] = 10 * Powers(10)[7]
      BY <1>5
    <3> QED BY <2>7, <3>1
  <2>9. Powers(10)[9] = 1000000000
    <3>1. Powers(10)[8 + 1] = 10 * Powers(10)[8]
      BY <1>5
    <3> QED BY <2>8, <3>1
  <2>10. Powers(10)[10] = 10000000000
    <3>1. Powers(10)[9 + 1] = 10 * Powers(10)[9]
      BY <1>5
    <3> QED BY <2>9, <3>1
  <2>11. Powers(10)[11] = 100000000000
    <3>1. Powers(10)[10 + 1] = 10 * Powers(10)[10]
      BY <1>5
    <3> QED BY <2>10, <3>1
  <2>12. Powers(10)[12] = 1000000000000
    <3>1. Powers(10)[11 + 1] = 10 * Powers(10)[11]
      BY <1>5
    <3> QED BY <2>11, <3>1
  <2>13. Powers(10)[13] = 10000000000000
    <3>1. Powers(10)[12 + 1] = 10 * Powers(10)[12]
      BY <1>5
    <3> QED BY <2>12, <3>1
  <2>14. Powers(10)[14] = 100000000000000
    <3>1. Powers(10)[13 + 1] = 10 * Powers(10)[13]
      BY <1>5
    <3> QED BY <2>13, <3>1
  <2>15. Powers(10)[15] = 1000000000000000
    <3>1. Powers(10)[14 + 1] = 10 * Powers(10)[14]
      BY <1>5
    <3> QED BY <2>14, <3>1
  <2>16. Powers(10)[16] = 10000000000000000
    <3>1. Powers(10)[15 + 1] = 10 * Powers(10)[15]
      BY <1>5
    <3> QED BY <2>15, <3>1
  <2>17. Powers(10)[17] = 100000000000000000
    <3>1. Powers(10)[16 + 1] = 10 * Powers(10)[16]
      BY <1>5
    <3> QED BY <2>16, <3>1
  <2>18. Powers(10)[18] = 1000000000000000000
    <3>1. Powers(10)[17 + 1] = 10 * Powers(10)[17]
      BY <1>5
    <3> QED BY <2>17, <3>1
  <2>19. Powers(10)[19] = 10000000000000000000
    <3>1. Powers(10)[18 + 1] = 10 * Powers(10)[18]
      BY <1>5
    <3> QED BY <2>18, <3>1
  <2> QED BY <2>3, <2>5, <2>10, <2>19
<1> QED BY <1>2, <1>4, <1>6

-----------------------------------------------------------------------------
(* to_string, the sign: the two's complement.                              *)

(* One limb of the two's complement; low: the limbs below are zero.        *)
Flip(a, low) == IF low THEN (IF a = 0 THEN 0 ELSE 65536 - a) ELSE 65535 - a

(* A flipped limb is a limb.                                               *)
LEMMA FlipIs ==
    ASSUME NEW a \in Nat, a < 65536, NEW low \in BOOLEAN
    PROVE  Flip(a, low) \in Nat /\ Flip(a, low) < 65536
  BY DEF Flip

(* The two's complement, limb by limb.                                     *)
Flipped(w, v) ==
    /\ v[4] = Flip(w[4], TRUE) /\ v[3] = Flip(w[3], w[4] = 0)
    /\ v[2] = Flip(w[2], w[3] = 0 /\ w[4] = 0)
    /\ v[1] = Flip(w[1], w[2] = 0 /\ w[3] = 0 /\ w[4] = 0)

(* It is what Negate computes.                                             *)
LEMMA NegateLimbs ==
    ASSUME NEW w \in Words
    PROVE  Negate(w) \in Words /\ Flipped(w, Negate(w))
<1> DEFINE f == [n \in 1..4 |-> IF \A m \in (n + 1)..4 : w[m] = 0
                          THEN (Limb - w[n]) % Limb ELSE (Limb - 1) - w[n]]
<1>1. Negate(w) = Limbs(f)
  BY DEF Negate
<1>2. \A n \in 1..4 : w[n] \in Nat /\ w[n] < 65536
  BY WordIs
<1>3. ASSUME NEW a \in Nat, a < 65536
      PROVE  /\ (Limb - a) % Limb = Flip(a, TRUE) /\ (Limb - 1) - a = Flip(a, FALSE)
  <2>1. CASE a = 0
    <3>1. (65536 - 0) % 65536 = 0
      OBVIOUS
    <3> QED BY <2>1, <3>1, LimbIs DEF Flip
  <2>2. CASE a # 0
    <3>1. (65536 - a) % 65536 = 65536 - a
      BY <1>3, <2>2
    <3> QED BY <2>2, <3>1, LimbIs DEF Flip
  <2> QED BY <2>1, <2>2
<1>4. /\ f[4] = IF \A m \in 5..4 : w[m] = 0 THEN (Limb - w[4]) % Limb ELSE (Limb - 1) - w[4]
      /\ f[3] = IF \A m \in 4..4 : w[m] = 0 THEN (Limb - w[3]) % Limb ELSE (Limb - 1) - w[3]
      /\ f[2] = IF \A m \in 3..4 : w[m] = 0 THEN (Limb - w[2]) % Limb ELSE (Limb - 1) - w[2]
      /\ f[1] = IF \A m \in 2..4 : w[m] = 0 THEN (Limb - w[1]) % Limb ELSE (Limb - 1) - w[1]
  OBVIOUS
<1>5. /\ \A m \in 5..4 : w[m] = 0
      /\ (\A m \in 4..4 : w[m] = 0) <=> w[4] = 0
      /\ (\A m \in 3..4 : w[m] = 0) <=> (w[3] = 0 /\ w[4] = 0)
      /\ (\A m \in 2..4 : w[m] = 0) <=> (w[2] = 0 /\ w[3] = 0 /\ w[4] = 0)
  <2>1. 5..4 = {} /\ 4..4 = {4} /\ 3..4 = {3, 4} /\ 2..4 = {2, 3, 4}
    OBVIOUS
  <2> QED BY <2>1
<1> HIDE DEF f
<1>6. f[4] = Flip(w[4], TRUE)
  <2>1. f[4] = (Limb - w[4]) % Limb
    BY <1>4, <1>5
  <2>2. w[4] \in Nat /\ w[4] < 65536
    BY <1>2
  <2>3. (Limb - w[4]) % Limb = Flip(w[4], TRUE)
    BY <1>3, <2>2 DEF Flip
  <2> QED BY <2>1, <2>3
<1>7. f[3] = Flip(w[3], w[4] = 0)
  BY <1>2, <1>3, <1>4, <1>5 DEF Flip
<1>8. f[2] = Flip(w[2], w[3] = 0 /\ w[4] = 0)
  BY <1>2, <1>3, <1>4, <1>5 DEF Flip
<1>9. f[1] = Flip(w[1], w[2] = 0 /\ w[3] = 0 /\ w[4] = 0)
  BY <1>2, <1>3, <1>4, <1>5 DEF Flip
<1>10. ASSUME NEW n \in 1..4 PROVE f[n] \in Nat /\ f[n] < 65536
  <2>1. n = 1 \/ n = 2 \/ n = 3 \/ n = 4
    OBVIOUS
  <2> QED BY <1>2, <1>6, <1>7, <1>8, <1>9, <2>1 DEF Flip
<1>11. Limbs(f) \in Words /\ \A n \in 1..4 : Limbs(f)[n] = f[n]
  BY <1>10, WordFrom
<1>12. PICK v : v = Limbs(f)
  OBVIOUS
<1>13. v \in Words /\ v[1] = f[1] /\ v[2] = f[2] /\ v[3] = f[3] /\ v[4] = f[4]
  BY <1>11, <1>12
<1>14. v = Negate(w)
  BY <1>1, <1>12
<1> QED BY <1>6, <1>7, <1>8, <1>9, <1>13, <1>14 DEF Flipped

(* A word other than zero and its complement add up to 2^64; complementing *)
(* twice changes nothing.                                                  *)
LEMMA NegateNum ==
    ASSUME NEW w \in Words
    PROVE  /\ Negate(w) \in Words /\ Negate(Negate(w)) = w
           /\ w # Zero => /\ Negate(w) # Zero
                          /\ Num(Negate(w)) = 18446744073709551616 - Num(w)
<1>1. PICK v \in Words : v = Negate(w) /\ Flipped(w, v)
  BY NegateLimbs
<1>2. PICK u \in Words : u = Negate(v) /\ Flipped(v, u)
  BY NegateLimbs
<1>3. /\ w[1] \in Nat /\ w[1] < 65536 /\ w[2] \in Nat /\ w[2] < 65536
      /\ w[3] \in Nat /\ w[3] < 65536 /\ w[4] \in Nat /\ w[4] < 65536
      /\ w = <<w[1], w[2], w[3], w[4]>>
  BY WordIs
<1>4. v[4] = 0 <=> w[4] = 0
  BY <1>1, <1>3 DEF Flipped, Flip
<1>5. v[3] = 0 /\ v[4] = 0 <=> w[3] = 0 /\ w[4] = 0
  BY <1>1, <1>3, <1>4 DEF Flipped, Flip
<1>6. v[2] = 0 /\ v[3] = 0 /\ v[4] = 0 <=> w[2] = 0 /\ w[3] = 0 /\ w[4] = 0
  BY <1>1, <1>3, <1>5 DEF Flipped, Flip
<1>7. /\ u[4] = w[4] /\ u[3] = w[3]
  BY <1>1, <1>2, <1>3, <1>4 DEF Flipped, Flip
<1>8. u[2] = w[2]
  BY <1>1, <1>2, <1>3, <1>5 DEF Flipped, Flip
<1>9. u[1] = w[1]
  BY <1>1, <1>2, <1>3, <1>6 DEF Flipped, Flip
<1>10. u = w
  BY <1>3, <1>7, <1>8, <1>9, WordIs
<1>11. ASSUME w # Zero PROVE v # Zero /\ Num(v) = 18446744073709551616 - Num(w)
  <2>1. ~(w[1] = 0 /\ w[2] = 0 /\ w[3] = 0 /\ w[4] = 0)
    BY <1>3, <1>11 DEF Zero
  <2>2. Num(v) = 18446744073709551616 - Num(w)
    <3>1. CASE w[4] # 0
      BY <1>1, <1>3, <3>1 DEF Flipped, Flip, Num
    <3>2. CASE w[4] = 0 /\ w[3] # 0
      BY <1>1, <1>3, <3>2 DEF Flipped, Flip, Num
    <3>3. CASE w[4] = 0 /\ w[3] = 0 /\ w[2] # 0
      BY <1>1, <1>3, <3>3 DEF Flipped, Flip, Num
    <3>4. CASE w[4] = 0 /\ w[3] = 0 /\ w[2] = 0
      BY <1>1, <1>3, <2>1, <3>4 DEF Flipped, Flip, Num
    <3> QED BY <3>1, <3>2, <3>3, <3>4
  <2>3. v # Zero
    <3>1. Num(w) < 18446744073709551616
      BY <1>3 DEF Num
    <3> QED BY <2>2, <3>1, ZeroIs, WordIs
  <2> QED BY <2>2, <2>3
<1> QED BY <1>1, <1>2, <1>10, <1>11

-----------------------------------------------------------------------------
(* to_string: how long its texts are.                                      *)

(* Reverse keeps the length and turns the places around.                   *)
LEMMA ReverseIs ==
    ASSUME NEW T, NEW s \in Seq(T)
    PROVE  /\ Reverse(s) \in Seq(T) /\ Len(Reverse(s)) = Len(s)
           /\ \A i \in 1..Len(s) : Reverse(s)[i] = s[(Len(s) - i) + 1]
<1>1. \A i \in 1..Len(s) : (Len(s) - i) + 1 \in 1..Len(s)
  OBVIOUS
<1>2. Len(s) \in Nat /\ \A i \in 1..Len(s) : s[i] \in T
  OBVIOUS
<1>3. Reverse(s) \in [1..Len(s) -> T]
  BY <1>1, <1>2 DEF Reverse
<1>4. Reverse(s) \in Seq(T) /\ Len(Reverse(s)) = Len(s)
  BY <1>2, <1>3
<1> QED BY <1>4 DEF Reverse

(* How long the text of a word is, by the size of the number written.      *)
LEMMA ToStringLength ==
    ASSUME NEW base \in Bases, NEW word \in Words, NEW k \in Nat \ {0}
    PROVE  /\ Len(to_string(word, base)) \in Nat
           /\ ~(base = 10 /\ Negative(word)) /\ Num(word) < Powers(base)[k] =>
                Len(to_string(word, base)) <= k
           /\ base = 10 /\ Negative(word) /\ Num(Negate(word)) < Powers(base)[k] =>
                Len(to_string(word, base)) <= k + 1
<1>1. CASE word = Zero
  <2>1. to_string(word, base) = <<"0">>
    BY <1>1 DEF to_string
  <2>2. PICK t : t = <<"0">>
    OBVIOUS
  <2>3. Len(t) = 1
    BY <2>2
  <2>4. Len(to_string(word, base)) = 1
    BY <2>1, <2>2, <2>3
  <2> QED BY <2>4
<1>2. CASE word # Zero /\ ~(base = 10 /\ Negative(word))
  <2>1. to_string(word, base) = Reverse(Digits(word, base))
    BY <1>2 DEF to_string
  <2>2. Digits(word, base) \in Seq(Characters(base))
    BY DigitsType
  <2>3. Len(to_string(word, base)) = Len(Digits(word, base)) /\ Len(Digits(word, base)) \in Nat
    BY <2>1, <2>2, ReverseIs
  <2> QED BY <1>2, <2>3, DigitCount
<1>3. CASE word # Zero /\ base = 10 /\ Negative(word)
  <2>1. to_string(word, base) = Reverse(Append(Digits(Negate(word), base), "-"))
    BY <1>3 DEF to_string
  <2>2. PICK d : d = Digits(Negate(word), base)
    OBVIOUS
  <2>3. d \in Seq(Characters(base)) /\ Negate(word) \in Words
    BY <2>2, DigitsType, NegateNum
  <2>4. PICK T : d \in Seq(T) /\ "-" \in T
    <3>1. d \in Seq(Characters(base) \cup {"-"})
      BY <2>3
    <3> QED BY <3>1
  <2>5. Append(d, "-") \in Seq(T) /\ Len(Append(d, "-")) = Len(d) + 1 /\ Len(d) \in Nat
    BY <2>4
  <2>6. Len(to_string(word, base)) = Len(d) + 1
    BY <2>1, <2>2, <2>5, ReverseIs
  <2>7. Num(Negate(word)) < Powers(base)[k] => Len(d) <= k
    BY <2>2, <2>3, DigitCount
  <2> QED BY <1>3, <2>5, <2>6, <2>7
<1> QED BY <1>1, <1>2, <1>3

(* How many digits 2^63 and 2^64 have.                                     *)
LEMMA WordSizes ==
    ASSUME NEW word \in Words
    PROVE  /\ Num(word) < 18446744073709551616
           /\ ~Negative(word) => Num(word) < 9223372036854775808
           /\ Negative(word) => /\ Negate(word) \in Words
                                /\ Num(Negate(word)) = 18446744073709551616 - Num(word)
                                /\ Num(Negate(word)) <= 9223372036854775808
           /\ word[1] = 0 /\ word[2] = 0 => Num(word) < 4294967296 /\ ~Negative(word)
<1>1. /\ word[1] \in Nat /\ word[1] < 65536 /\ word[2] \in Nat /\ word[2] < 65536
      /\ word[3] \in Nat /\ word[3] < 65536 /\ word[4] \in Nat /\ word[4] < 65536
  BY WordIs
<1>2. Negative(word) <=> word[1] >= 32768
  BY LimbIs DEF Negative
<1>3. Num(word) < 18446744073709551616
  BY <1>1 DEF Num
<1>4. ~Negative(word) => Num(word) < 9223372036854775808
  BY <1>1, <1>2 DEF Num
<1>5. ASSUME Negative(word)
      PROVE  /\ Negate(word) \in Words
             /\ Num(Negate(word)) = 18446744073709551616 - Num(word)
             /\ Num(Negate(word)) <= 9223372036854775808
  <2>1. word # Zero
    BY <1>2, <1>5 DEF Zero
  <2>2. Negate(word) \in Words /\ Num(Negate(word)) = 18446744073709551616 - Num(word)
    BY <2>1, NegateNum
  <2>3. Num(word) >= 9223372036854775808
    BY <1>1, <1>2, <1>5 DEF Num
  <2>4. Num(word) \in Nat
    BY WordIs
  <2> QED BY <2>2, <2>3, <2>4
<1>6. word[1] = 0 /\ word[2] = 0 => Num(word) < 4294967296 /\ ~Negative(word)
  BY <1>1, <1>2 DEF Num
<1> QED BY <1>3, <1>4, <1>5, <1>6

(* The longest text of a word in each base.                                *)
LEMMA LongestTexts ==
    ASSUME NEW word \in Words
    PROVE  /\ Len(to_string(word, 2)) \in Nat /\ Len(to_string(word, 2)) <= 64
           /\ Len(to_string(word, 16)) \in Nat /\ Len(to_string(word, 16)) <= 16
           /\ Len(to_string(word, 10)) \in Nat
           /\ Negative(word) => Len(to_string(word, 10)) <= 20
           /\ ~Negative(word) => Len(to_string(word, 10)) <= 19
<1> 2 \in Bases /\ 10 \in Bases /\ 16 \in Bases
  BY DEF Bases
<1>1. Len(to_string(word, 2)) \in Nat /\ Len(to_string(word, 2)) <= 64
  <2>1. Num(word) < Powers(2)[64]
    BY WordSizes, SmallPowers
  <2> QED BY <2>1, ToStringLength
<1>2. Len(to_string(word, 16)) \in Nat /\ Len(to_string(word, 16)) <= 16
  <2>1. Num(word) < Powers(16)[16]
    BY WordSizes, SmallPowers
  <2> QED BY <2>1, ToStringLength
<1>3. Len(to_string(word, 10)) \in Nat
  BY ToStringLength
<1>4. ASSUME Negative(word) PROVE Len(to_string(word, 10)) <= 20
  <2>1. Num(Negate(word)) <= 9223372036854775808 /\ Num(Negate(word)) \in Nat
    BY <1>4, WordSizes, WordIs
  <2>2. Num(Negate(word)) < Powers(10)[19]
    BY <2>1, SmallPowers
  <2>3. Len(to_string(word, 10)) <= 19 + 1
    BY <1>4, <2>2, ToStringLength
  <2> QED BY <2>3
<1>5. ASSUME ~Negative(word) PROVE Len(to_string(word, 10)) <= 19
  <2>1. Num(word) < 9223372036854775808 /\ Num(word) \in Nat
    BY <1>5, WordSizes, WordIs
  <2>2. Num(word) < Powers(10)[19]
    BY <2>1, SmallPowers
  <2> QED BY <1>5, <2>2, ToStringLength
<1> QED BY <1>1, <1>2, <1>3, <1>4, <1>5

(* 32 bits.                                                                *)
LEMMA IntTexts ==
    ASSUME NEW word \in Words, word[1] = 0, word[2] = 0
    PROVE  Len(to_string(word, 16)) <= 8 /\ Len(to_string(word, 10)) <= 10
<1>0. 10 \in Bases /\ 16 \in Bases
  BY DEF Bases
<1>1. Num(word) < 4294967296 /\ ~Negative(word) /\ Num(word) \in Nat
  BY WordSizes, WordIs
<1>2. Num(word) < Powers(16)[8] /\ Num(word) < Powers(10)[10]
  BY <1>1, SmallPowers
<1> QED BY <1>0, <1>1, <1>2, ToStringLength

(* Short numbers as words.                                                 *)
LEMMA NumberIs ==
    ASSUME NEW n \in Nat, n < 65536
    PROVE  Number(n) \in Words /\ Num(Number(n)) = n /\ ~Negative(Number(n))
<1>1. Number(n) = <<0, 0, 0, n>>
  BY DEF Number
<1> DEFINE w == <<0, 0, 0, n>>
<1>2. w = <<0, 0, 0, n>>
  OBVIOUS
<1>3. w[1] = 0 /\ w[2] = 0 /\ w[3] = 0 /\ w[4] = n
  OBVIOUS
<1> HIDE DEF w
<1>4. \A i \in 1..4 : i = 1 \/ i = 2 \/ i = 3 \/ i = 4
  OBVIOUS
<1>5. \A i \in 1..4 : w[i] \in Nat /\ w[i] < 65536
  BY <1>3, <1>4
<1>6. Limbs(w) \in Words
  BY <1>5, WordFrom
<1>7. Limbs(w) = w
  BY <1>2, <1>3 DEF Limbs
<1>8. w \in Words
  BY <1>6, <1>7
<1>9. Num(w) = n
  BY <1>3 DEF Num
<1>10. ~Negative(w)
  BY <1>3, <1>8, WordSizes
<1> QED BY <1>1, <1>2, <1>8, <1>9, <1>10

(* How long their texts are.                                               *)
LEMMA NumberTexts ==
    ASSUME NEW n \in Nat, n < 65536
    PROVE  /\ Len(to_string(Number(n), 16)) <= 4 /\ Len(to_string(Number(n), 10)) <= 5
           /\ n < 256 => /\ Len(to_string(Number(n), 16)) <= 2
                         /\ Len(to_string(Number(n), 10)) <= 3
<1>0. 10 \in Bases /\ 16 \in Bases
  BY DEF Bases
<1>1. Number(n) \in Words /\ Num(Number(n)) = n /\ ~Negative(Number(n))
  BY NumberIs
<1>2. Num(Number(n)) < Powers(16)[4] /\ Num(Number(n)) < Powers(10)[5]
  BY <1>1, SmallPowers
<1>3. n < 256 => Num(Number(n)) < Powers(16)[2] /\ Num(Number(n)) < Powers(10)[3]
  BY <1>1, SmallPowers
<1> QED BY <1>0, <1>1, <1>2, <1>3, ToStringLength

(* A sign-extended number is a word whose text has one character more.     *)
LEMMA ExtendedIs ==
    ASSUME NEW range \in {256, 65536}, NEW n \in Nat, n < range
    PROVE  /\ Extended(n, range) \in Words
           /\ Len(to_string(Extended(n, range), 10)) <= IF range = 256 THEN 4 ELSE 6
<1> DEFINE low == n + (65536 - range)
<1>1. range \in Nat /\ 2 * (range \div 2) = range /\ range <= 65536 /\ range \div 2 \in Nat
  OBVIOUS
<1>2. CASE n < range \div 2
  <2>1. Extended(n, range) = Number(n)
    BY <1>1, <1>2 DEF Extended
  <2>2. n < 65536 /\ (range = 256 => n < 256)
    BY <1>1
  <2>3. Len(to_string(Number(n), 10)) \in Nat
    BY <2>2, NumberIs, LongestTexts
  <2>4. Len(to_string(Number(n), 10)) <= 5 /\ (range = 256 => Len(to_string(Number(n), 10)) <= 3)
    BY <2>2, NumberTexts
  <2>5. Number(n) \in Words
    BY <2>2, NumberIs
  <2> QED BY <2>1, <2>3, <2>4, <2>5
<1>3. CASE n >= range \div 2
  <2>1. Extended(n, range) = <<65535, 65535, 65535, low>>
    BY <1>3, LimbIs DEF Extended
  <2>2. low \in Nat /\ low < 65536 /\ 65536 - low <= 32768 /\ (range = 256 => 65536 - low <= 128)
    BY <1>1, <1>3
  <2> HIDE DEF low
  <2> DEFINE w == <<65535, 65535, 65535, low>>
  <2>3. w = <<65535, 65535, 65535, low>>
    OBVIOUS
  <2>4. w[1] = 65535 /\ w[2] = 65535 /\ w[3] = 65535 /\ w[4] = low
    OBVIOUS
  <2> HIDE DEF w
  <2>5. \A i \in 1..4 : i = 1 \/ i = 2 \/ i = 3 \/ i = 4
    OBVIOUS
  <2>6. \A i \in 1..4 : w[i] \in Nat /\ w[i] < 65536
    BY <2>2, <2>4, <2>5
  <2>7. Limbs(w) \in Words
    BY <2>6, WordFrom
  <2>8. Limbs(w) = w
    BY <2>3, <2>4 DEF Limbs
  <2>9. w \in Words
    BY <2>7, <2>8
  <2>10. Negative(w)
    BY <2>4, LimbIs DEF Negative
  <2>11. /\ Negate(w)[1] = 0 /\ Negate(w)[2] = 0 /\ Negate(w)[3] = 0
         /\ Negate(w)[4] = 65536 - low
    <3>1. low # 0
      BY <2>2
    <3>2. Flipped(w, Negate(w))
      BY <2>9, NegateLimbs
    <3> QED BY <2>4, <3>1, <3>2 DEF Flipped, Flip
  <2>12. Num(Negate(w)) = 65536 - low
    BY <2>2, <2>11 DEF Num
  <2>13. Num(Negate(w)) < Powers(10)[5] /\ (range = 256 => Num(Negate(w)) < Powers(10)[3])
    BY <2>2, <2>12, SmallPowers
  <2>14. 10 \in Bases
    BY DEF Bases
  <2>15. Len(to_string(w, 10)) <= 5 + 1 /\ (range = 256 => Len(to_string(w, 10)) <= 3 + 1)
    BY <2>9, <2>10, <2>13, <2>14, ToStringLength
  <2>16. Extended(n, range) = w
    BY <2>1, <2>3
  <2> QED BY <2>9, <2>15, <2>16
<1> QED BY <1>1, <1>2, <1>3

-----------------------------------------------------------------------------
(* The directives.                                                         *)

(* The fourteen directives that convert to digits.                         *)
LEMMA NumericIs ==
    ASSUME NEW d \in Numeric
    PROVE  \/ d \in { <<"d">>, <<"u">>, <<"x">>, <<"p">>, <<"b">> }
           \/ d \in { <<"h", "d">>, <<"h", "u">>, <<"h", "x">> }
           \/ d \in { <<"l", "d">>, <<"l", "u">>, <<"l", "x">> }
           \/ d \in { <<"q", "d">>, <<"q", "u">>, <<"q", "x">> }
<1>1. CASE d \in { <<size, kind>> : size \in Sizes, kind \in {"d", "u", "x"} }
  <2>1. PICK size \in Sizes, kind \in {"d", "u", "x"} : d = <<size, kind>>
    BY <1>1
  <2>2. CASE size = "h"
    BY <2>1, <2>2
  <2>3. CASE size = "l"
    BY <2>1, <2>3
  <2>4. CASE size = "q"
    BY <2>1, <2>4
  <2> QED BY <2>2, <2>3, <2>4 DEF Sizes
<1> QED BY <1>1 DEF Numeric

(* The last character of a directive.                                      *)
LEMMA LastCharacter ==
    /\ \A a : Last(<<a>>) = a
    /\ \A a, b : Last(<<a, b>>) = b
  BY DEF Last

(* The base of each directive.                                             *)
LEMMA DirectiveBases ==
    /\ Base(<<"d">>) = 10
    /\ Base(<<"u">>) = 10
    /\ Base(<<"x">>) = 16
    /\ Base(<<"p">>) = 16
    /\ Base(<<"b">>) = 2
    /\ Base(<<"h", "d">>) = 10
    /\ Base(<<"h", "u">>) = 10
    /\ Base(<<"h", "x">>) = 16
    /\ Base(<<"l", "d">>) = 10
    /\ Base(<<"l", "u">>) = 10
    /\ Base(<<"l", "x">>) = 16
    /\ Base(<<"q", "d">>) = 10
    /\ Base(<<"q", "u">>) = 10
    /\ Base(<<"q", "x">>) = 16
  BY LastCharacter DEF Base

(* The buffer of each directive.                                           *)
LEMMA DirectiveBuffers ==
    /\ Buffer[<<"d">>] = 20
    /\ Buffer[<<"u">>] = 10
    /\ Buffer[<<"x">>] = 11
    /\ Buffer[<<"p">>] = 8
    /\ Buffer[<<"b">>] = 64
    /\ Buffer[<<"h", "d">>] = 6
    /\ Buffer[<<"h", "u">>] = 5
    /\ Buffer[<<"h", "x">>] = 4
    /\ Buffer[<<"l", "d">>] = 21
    /\ Buffer[<<"l", "u">>] = 20
    /\ Buffer[<<"l", "x">>] = 8
    /\ Buffer[<<"q", "d">>] = 4
    /\ Buffer[<<"q", "u">>] = 3
    /\ Buffer[<<"q", "x">>] = 2
<1>1. Buffer[<<"d">>] = 20
  BY DEF Buffer, Buffers, Numeric, Sizes
<1>2. Buffer[<<"u">>] = 10
  BY DEF Buffer, Buffers, Numeric, Sizes
<1>3. Buffer[<<"x">>] = 11
  BY DEF Buffer, Buffers, Numeric, Sizes
<1>4. Buffer[<<"p">>] = 8
  BY DEF Buffer, Buffers, Numeric, Sizes
<1>5. Buffer[<<"b">>] = 64
  BY DEF Buffer, Buffers, Numeric, Sizes
<1>6. Buffer[<<"h", "d">>] = 6
  BY DEF Buffer, Buffers, Numeric, Sizes
<1>7. Buffer[<<"h", "u">>] = 5
  BY DEF Buffer, Buffers, Numeric, Sizes
<1>8. Buffer[<<"h", "x">>] = 4
  BY DEF Buffer, Buffers, Numeric, Sizes
<1>9. Buffer[<<"l", "d">>] = 21
  BY DEF Buffer, Buffers, Numeric, Sizes
<1>10. Buffer[<<"l", "u">>] = 20
  BY DEF Buffer, Buffers, Numeric, Sizes
<1>11. Buffer[<<"l", "x">>] = 8
  BY DEF Buffer, Buffers, Numeric, Sizes
<1>12. Buffer[<<"q", "d">>] = 4
  BY DEF Buffer, Buffers, Numeric, Sizes
<1>13. Buffer[<<"q", "u">>] = 3
  BY DEF Buffer, Buffers, Numeric, Sizes
<1>14. Buffer[<<"q", "x">>] = 2
  BY DEF Buffer, Buffers, Numeric, Sizes
<1> QED BY <1>1, <1>2, <1>3, <1>4, <1>5, <1>6, <1>7, <1>8, <1>9, <1>10, <1>11, <1>12, <1>13, <1>14

(* The conversion of each directive.                                       *)
LEMMA DirectiveWords ==
    ASSUME NEW word \in Words
    PROVE  /\ Converted(<<"d">>, word) = LongArg(word)
           /\ Converted(<<"u">>, word) = LongArg(word)
           /\ Converted(<<"x">>, word) = LongArg(word)
           /\ Converted(<<"p">>, word) = LongArg(word)
           /\ Converted(<<"b">>, word) = LongArg(word)
           /\ Converted(<<"h", "d">>, word) = ShortArg(word)
           /\ Converted(<<"h", "u">>, word) = UShortArg(word)
           /\ Converted(<<"h", "x">>, word) = UShortArg(word)
           /\ Converted(<<"l", "d">>, word) = LongArg(word)
           /\ Converted(<<"l", "u">>, word) = LongArg(word)
           /\ Converted(<<"l", "x">>, word) = LongArg(word)
           /\ Converted(<<"q", "d">>, word) = CharArg(word)
           /\ Converted(<<"q", "u">>, word) = UCharArg(word)
           /\ Converted(<<"q", "x">>, word) = UCharArg(word)
  BY DEF Converted

-----------------------------------------------------------------------------
(* The texts and the buffers.                                              *)

(* What BuffersHold says of one overrun.                                   *)
Tolerated(o) ==
    /\ o.directive # <<"l", "d">>
    /\ \/ o.bytes = 1
       \/ /\ o.directive \in { <<"u">>, <<"x">>, <<"p">>, <<"l", "x">> }
          /\ o.word[1] # 0 \/ o.word[2] # 0

(* The text a directive makes of its argument.                             *)
TextOf(directive, word) == to_string(Converted(directive, word), Base(directive))

(* The lowest byte of a number.                                            *)
LEMMA LowByteIs ==
    ASSUME NEW n \in Nat
    PROVE  LowByte(n) \in Nat /\ LowByte(n) < 256
<1>1. n % 256 \in Nat /\ n % 256 < 256
  OBVIOUS
<1> QED BY <1>1, LimbIs DEF LowByte

(* The texts of the directives for shorts, those for chars, and the        *)
(* others.                                                                 *)
LEMMA ShortTexts ==
    ASSUME NEW word \in Words
    PROVE  /\ Len(TextOf(<<"h", "d">>, word)) <= 6
           /\ Len(TextOf(<<"h", "u">>, word)) <= 5
           /\ Len(TextOf(<<"h", "x">>, word)) <= 4
           /\ ShortArg(word) \in Words /\ UShortArg(word) \in Words
<1> DEFINE low == word[4]
<1>1. low \in Nat /\ low < 65536
  BY WordIs
<1> HIDE DEF low
<1>2. Extended(low, 65536) \in Words /\ Len(to_string(Extended(low, 65536), 10)) <= 6
  BY <1>1, ExtendedIs
<1>3. /\ Number(low) \in Words /\ Len(to_string(Number(low), 10)) <= 5
      /\ Len(to_string(Number(low), 16)) <= 4
  BY <1>1, NumberIs, NumberTexts
<1>4. ShortArg(word) = Extended(low, 65536) /\ UShortArg(word) = Number(low)
  BY LimbIs DEF ShortArg, UShortArg, low
<1> QED BY <1>2, <1>3, <1>4, DirectiveWords, DirectiveBases DEF TextOf

LEMMA CharTexts ==
    ASSUME NEW word \in Words
    PROVE  /\ Len(TextOf(<<"q", "d">>, word)) <= 4
           /\ Len(TextOf(<<"q", "u">>, word)) <= 3
           /\ Len(TextOf(<<"q", "x">>, word)) <= 2
           /\ CharArg(word) \in Words /\ UCharArg(word) \in Words
<1> DEFINE low == LowByte(word[4])
<1>1. low \in Nat /\ low < 256
  BY WordIs, LowByteIs
<1> HIDE DEF low
<1>2. Extended(low, 256) \in Words /\ Len(to_string(Extended(low, 256), 10)) <= 4
  BY <1>1, ExtendedIs
<1>3. /\ Number(low) \in Words /\ Len(to_string(Number(low), 10)) <= 3
      /\ Len(to_string(Number(low), 16)) <= 2
  BY <1>1, NumberIs, NumberTexts
<1>4. CharArg(word) = Extended(low, 256) /\ UCharArg(word) = Number(low)
  BY LimbIs DEF CharArg, UCharArg, low
<1> QED BY <1>2, <1>3, <1>4, DirectiveWords, DirectiveBases DEF TextOf

LEMMA LongTexts ==
    ASSUME NEW word \in Words
    PROVE  /\ \A d \in { <<"d">>, <<"u">>, <<"l", "d">>, <<"l", "u">> } :
                TextOf(d, word) = to_string(word, 10)
           /\ \A d \in { <<"x">>, <<"p">>, <<"l", "x">> } : TextOf(d, word) = to_string(word, 16)
           /\ TextOf(<<"b">>, word) = to_string(word, 2)
<1>1. TextOf(<<"d">>, word) = to_string(word, 10) /\ TextOf(<<"u">>, word) = to_string(word, 10)
  BY DirectiveWords, DirectiveBases DEF TextOf, LongArg
<1>2. /\ TextOf(<<"l", "d">>, word) = to_string(word, 10)
      /\ TextOf(<<"l", "u">>, word) = to_string(word, 10)
  BY DirectiveWords, DirectiveBases DEF TextOf, LongArg
<1>3. /\ TextOf(<<"x">>, word) = to_string(word, 16) /\ TextOf(<<"p">>, word) = to_string(word, 16)
      /\ TextOf(<<"l", "x">>, word) = to_string(word, 16)
  BY DirectiveWords, DirectiveBases DEF TextOf, LongArg
<1>4. TextOf(<<"b">>, word) = to_string(word, 2)
  BY DirectiveWords, DirectiveBases DEF TextOf, LongArg
<1> QED BY <1>1, <1>2, <1>3, <1>4

(* A converted argument is a word.                                         *)
LEMMA ConvertedType ==
    ASSUME NEW word \in Words, NEW d \in Numeric
    PROVE  Converted(d, word) \in Words /\ Base(d) \in Bases
<1>1. Converted(d, word) \in Words
  <2>1. \/ Converted(d, word) = ShortArg(word) \/ Converted(d, word) = UShortArg(word)
        \/ Converted(d, word) = CharArg(word) \/ Converted(d, word) = UCharArg(word)
        \/ Converted(d, word) = LongArg(word)
    BY DEF Converted
  <2> QED BY <2>1, ShortTexts, CharTexts DEF LongArg
<1>2. Base(d) \in Bases
  BY NumericIs, DirectiveBases DEF Bases
<1> QED BY <1>1, <1>2

(* An overrun by the terminator only is tolerated.                         *)
LEMMA OneByte ==
    \A o : o.directive # <<"l", "d">> /\ o.bytes = 1 => Tolerated(o)
  BY DEF Tolerated

(* The text of a directive overruns its buffer as BuffersHold says.        *)
LEMMA TextsFit ==
    ASSUME NEW d \in Numeric, NEW word \in Words,
           ~(Len(TextOf(d, word)) + 1 <= Buffer[d])
    PROVE  Tolerated([directive |-> d, word |-> word,
                      bytes |-> (Len(TextOf(d, word)) + 1) - Buffer[d]])
<1> DEFINE n == Len(TextOf(d, word))
           size == Buffer[d]
           entry == [directive |-> d, word |-> word, bytes |-> (n + 1) - size]
<1>1. n \in Nat
  BY ConvertedType, ToStringLength DEF TextOf
<1>2. ~(n + 1 <= size)
  OBVIOUS
<1>3. d = <<"h", "d">> => n <= 6 /\ size = 6
  BY ShortTexts, DirectiveBuffers
<1>4. d = <<"h", "u">> => n <= 5 /\ size = 5
  BY ShortTexts, DirectiveBuffers
<1>5. d = <<"h", "x">> => n <= 4 /\ size = 4
  BY ShortTexts, DirectiveBuffers
<1>6. d = <<"q", "d">> => n <= 4 /\ size = 4
  BY CharTexts, DirectiveBuffers
<1>7. d = <<"q", "u">> => n <= 3 /\ size = 3
  BY CharTexts, DirectiveBuffers
<1>8. d = <<"q", "x">> => n <= 2 /\ size = 2
  BY CharTexts, DirectiveBuffers
<1>9. \/ Len(to_string(word, 10)) <= 20 /\ Negative(word)
      \/ Len(to_string(word, 10)) <= 19 /\ Len(to_string(word, 10)) <= 20 /\ ~Negative(word)
  <2>1. Len(to_string(word, 10)) \in Nat
    BY LongestTexts
  <2>2. CASE Negative(word)
    BY <2>2, LongestTexts
  <2>3. CASE ~Negative(word)
    <3>1. Len(to_string(word, 10)) <= 19
      BY <2>3, LongestTexts
    <3> QED BY <2>1, <2>3, <3>1
  <2> QED BY <2>2, <2>3
<1>10. d = <<"d">> => n <= 20 /\ size = 20
  <2>1. d = <<"d">> => TextOf(d, word) = to_string(word, 10)
    BY LongTexts
  <2>2. Len(to_string(word, 10)) <= 20
    BY <1>9
  <2>3. d = <<"d">> => size = 20
    BY DirectiveBuffers
  <2> QED BY <2>1, <2>2, <2>3
<1>11. d = <<"l", "u">> => n <= 20 /\ size = 20
  <2>1. d = <<"l", "u">> => TextOf(d, word) = to_string(word, 10)
    BY LongTexts
  <2>2. Len(to_string(word, 10)) <= 20
    BY <1>9
  <2>3. d = <<"l", "u">> => size = 20
    BY DirectiveBuffers
  <2> QED BY <2>1, <2>2, <2>3
<1>12. d = <<"l", "d">> => n <= 20 /\ size = 21
  <2>1. d = <<"l", "d">> => TextOf(d, word) = to_string(word, 10)
    BY LongTexts
  <2>2. Len(to_string(word, 10)) <= 20
    BY <1>9
  <2>3. d = <<"l", "d">> => size = 21
    BY DirectiveBuffers
  <2> QED BY <2>1, <2>2, <2>3
<1>13. d = <<"b">> => n <= 64 /\ size = 64
  BY LongTexts, LongestTexts, DirectiveBuffers
<1>14. word[1] = 0 /\ word[2] = 0 =>
         /\ d = <<"u">> => n <= 10 /\ size = 10
         /\ d = <<"x">> => n <= 8 /\ size = 11
         /\ d = <<"p">> => n <= 8 /\ size = 8
         /\ d = <<"l", "x">> => n <= 8 /\ size = 8
  <2> SUFFICES ASSUME word[1] = 0, word[2] = 0
               PROVE  /\ d = <<"u">> => n <= 10 /\ size = 10
                      /\ d = <<"x">> => n <= 8 /\ size = 11
                      /\ d = <<"p">> => n <= 8 /\ size = 8
                      /\ d = <<"l", "x">> => n <= 8 /\ size = 8
    OBVIOUS
  <2>1. Len(to_string(word, 16)) <= 8 /\ Len(to_string(word, 10)) <= 10
    BY IntTexts
  <2>2. d = <<"u">> => TextOf(d, word) = to_string(word, 10)
    BY LongTexts
  <2>3. d \in { <<"x">>, <<"p">>, <<"l", "x">> } => TextOf(d, word) = to_string(word, 16)
    BY LongTexts
  <2>4. d = <<"u">> => n <= 10
    BY <2>1, <2>2
  <2>5. d \in { <<"x">>, <<"p">>, <<"l", "x">> } => n <= 8
    BY <2>1, <2>3
  <2>6. /\ d = <<"u">> => size = 10
        /\ d = <<"x">> => size = 11
        /\ d = <<"p">> => size = 8
        /\ d = <<"l", "x">> => size = 8
    BY DirectiveBuffers
  <2> HIDE DEF n, size
  <2> QED BY <2>4, <2>5, <2>6
<1> HIDE DEF n, size
<1>0. entry.directive = d /\ entry.word = word /\ entry.bytes = (n + 1) - size
  OBVIOUS
<1> SUFFICES Tolerated(entry)
  BY DEF n, size
<1> HIDE DEF entry
<1>15. CASE d \in { <<"h", "d">>, <<"h", "u">>, <<"h", "x">> }
  <2>1. d # <<"l", "d">>
    BY <1>15
  <2>2. (n + 1) - size = 1
    BY <1>1, <1>2, <1>3, <1>4, <1>5, <1>15
  <2>5. entry.directive # <<"l", "d">>
    BY <1>0, <2>1, Zenon
  <2>6. entry.bytes = 1
    BY <1>0, <2>2
  <2> QED BY <2>5, <2>6, OneByte
<1>16. CASE d \in { <<"q", "d">>, <<"q", "u">>, <<"q", "x">> }
  <2>1. d # <<"l", "d">>
    BY <1>16
  <2>2. (n + 1) - size = 1
    BY <1>1, <1>2, <1>6, <1>7, <1>8, <1>16
  <2>5. entry.directive # <<"l", "d">>
    BY <1>0, <2>1, Zenon
  <2>6. entry.bytes = 1
    BY <1>0, <2>2
  <2> QED BY <2>5, <2>6, OneByte
<1>17. CASE d \in { <<"d">>, <<"l", "u">>, <<"b">> }
  <2>1. d # <<"l", "d">>
    BY <1>17
  <2>2. (n + 1) - size = 1
    BY <1>1, <1>2, <1>10, <1>11, <1>13, <1>17
  <2>5. entry.directive # <<"l", "d">>
    BY <1>0, <2>1, Zenon
  <2>6. entry.bytes = 1
    BY <1>0, <2>2
  <2> QED BY <2>5, <2>6, OneByte
<1>18. CASE d = <<"l", "d">>
  BY <1>1, <1>2, <1>12, <1>18
<1>19. CASE d \in { <<"u">>, <<"x">>, <<"p">>, <<"l", "x">> }
  <2>1. d # <<"l", "d">>
    BY <1>19
  <2>2. CASE word[1] # 0 \/ word[2] # 0
    BY <1>0, <1>19, <2>1, <2>2 DEF Tolerated
  <2>3. CASE word[1] = 0 /\ word[2] = 0
    <3>1. (n + 1) - size = 1
      BY <1>1, <1>2, <1>14, <1>19, <2>3
    <3>5. entry.directive # <<"l", "d">>
      BY <1>0, <2>1, Zenon
    <3>6. entry.bytes = 1
      BY <1>0, <3>1
    <3> QED BY <3>5, <3>6, OneByte
  <2> QED BY <2>2, <2>3
<1>20. \/ d \in { <<"h", "d">>, <<"h", "u">>, <<"h", "x">> }
       \/ d \in { <<"q", "d">>, <<"q", "u">>, <<"q", "x">> }
       \/ d \in { <<"d">>, <<"l", "u">>, <<"b">> }
       \/ d = <<"l", "d">>
       \/ d \in { <<"u">>, <<"x">>, <<"p">>, <<"l", "x">> }
  BY NumericIs
<1> QED BY <1>15, <1>16, <1>17, <1>18, <1>19, <1>20

-----------------------------------------------------------------------------
(* The arguments and BuffersHold.                                          *)

(* The arguments are words, and what is behind the last counts as zero.    *)
ArgumentsType == args \in Seq(Words) /\ taken \in Nat

(* Every argument a walk can take is a word.                               *)
LEMMA ArgumentIs ==
    ASSUME ArgumentsType
    PROVE  \A k \in Nat : ArgumentAt(k) \in Words
<1>1. ASSUME NEW k \in Nat, k < Len(args) PROVE args[k + 1] \in Words
  BY <1>1 DEF ArgumentsType
<1> QED BY <1>1, ZeroIs DEF ArgumentAt

LEMMA ArgumentsInit ==
    ASSUME PrintkInit
    PROVE  ArgumentsType
<1> DEFINE n == ArgumentsBefore(Len(parts) + 1)
<1>1. parts \in Seq(Seq(STRING))
  BY PrintkAssumption DEF PrintkInit
<1>2. n \in Nat
  <2>1. Len(parts) \in Nat
    BY <1>1
  <2> DEFINE A == 1..((Len(parts) + 1) - 1)
             D == {i \in A : IsDirective(parts[i])}
  <2>2. IsFiniteSet(A)
    BY <2>1, FS_Interval
  <2>3. IsFiniteSet(D)
    BY <2>2, FS_Subset
  <2> QED BY <2>3, FS_CardinalityType DEF ArgumentsBefore
<1>3. args \in [1..n -> Values]
  BY DEF PrintkInit
<1> HIDE DEF n
<1>4. args \in [1..n -> Words]
  BY <1>3, PrintkAssumption
<1>5. args \in Seq(Words)
  BY <1>2, <1>4
<1> QED BY <1>5 DEF ArgumentsType, PrintkInit

(* A step leaves the arguments and moves through them.                     *)
LEMMA ArgumentsKept ==
    ASSUME ArgumentsType, [PrintkNext]_printkVars
    PROVE  ArgumentsType'
<1>1. ASSUME NEW texts, NEW n, NEW k \in {0, 1}, Calls(texts, n, k) PROVE ArgumentsType'
  BY <1>1 DEF Calls, ArgumentsType
<1>2. CASE Plain
  BY <1>1, <1>2 DEF Plain
<1>3. CASE PrintNumber
  BY <1>1, <1>3 DEF PrintNumber
<1>4. CASE PrintText
  BY <1>1, <1>4 DEF PrintText
<1>5. CASE PrintLiteral
  BY <1>1, <1>5 DEF PrintLiteral
<1>6. CASE EndOfFormat
  BY <1>6 DEF EndOfFormat, ResetArgs, ArgumentsType
<1>7. CASE Finished \/ UNCHANGED printkVars
  BY <1>7 DEF Finished, printkVars, ArgumentsType
<1> QED BY <1>2, <1>3, <1>4, <1>5, <1>6, <1>7 DEF PrintkNext, WalkNext

(* A step adds tolerated overruns only.                                    *)
LEMMA BuffersKept ==
    ASSUME ArgumentsType, BuffersHold, [PrintkNext]_printkVars
    PROVE  BuffersHold'
<1>0. BuffersHold <=> \A o \in overrun : Tolerated(o)
  BY DEF BuffersHold, Tolerated
<1>1. BuffersHold' <=> \A o \in overrun' : Tolerated(o)
  BY DEF BuffersHold, Tolerated
<1>2. CASE PrintNumber
  <2>1. Directive \in Numeric /\ Argument \in Words
    BY <1>2, ArgumentIs DEF PrintNumber, Argument, ArgumentsType
  <2>2. PICK d \in Numeric, word \in Words : d = Directive /\ word = Argument
    BY <2>1
  <2>3. overrun' = IF Len(TextOf(d, word)) + 1 <= Buffer[d] THEN overrun
                   ELSE overrun \cup {[directive |-> d, word |-> word,
                                       bytes |-> (Len(TextOf(d, word)) + 1) - Buffer[d]]}
    BY <1>2, <2>2 DEF PrintNumber, TextOf
  <2>4. CASE Len(TextOf(d, word)) + 1 <= Buffer[d]
    BY <1>0, <1>1, <2>3, <2>4
  <2>5. CASE ~(Len(TextOf(d, word)) + 1 <= Buffer[d])
    <3> DEFINE entry == [directive |-> d, word |-> word,
                         bytes |-> (Len(TextOf(d, word)) + 1) - Buffer[d]]
    <3>1. Tolerated(entry)
      BY <2>5, TextsFit
    <3>2. overrun' = overrun \cup {entry}
      BY <2>3, <2>5
    <3> HIDE DEF entry
    <3> QED BY <1>0, <1>1, <3>1, <3>2
  <2> QED BY <2>4, <2>5
<1>3. CASE Plain \/ PrintText \/ PrintLiteral \/ EndOfFormat
  <2>1. overrun' = overrun
    BY <1>3 DEF Plain, PrintText, PrintLiteral, EndOfFormat
  <2> QED BY <1>0, <1>1, <2>1
<1>4. CASE Finished \/ UNCHANGED printkVars
  <2>1. overrun' = overrun
    BY <1>4 DEF Finished, printkVars
  <2> QED BY <1>0, <1>1, <2>1
<1> QED BY <1>2, <1>3, <1>4 DEF PrintkNext, WalkNext

(* PrintkBuffersHold: whatever the format and its arguments are, to_string *)
(* overruns a buffer of _printk by at most the terminator, but for the     *)
(* four directives that take a long into a buffer for an int.              *)
THEOREM PrintkBuffersHold == PrintkSpec => []BuffersHold
<1>1. PrintkInit => ArgumentsType /\ BuffersHold
  BY ArgumentsInit DEF PrintkInit, BuffersHold
<1>2. ArgumentsType /\ BuffersHold /\ [PrintkNext]_printkVars => (ArgumentsType /\ BuffersHold)'
  BY ArgumentsKept, BuffersKept
<1> QED BY <1>1, <1>2, PTL DEF PrintkSpec

-----------------------------------------------------------------------------
(* The value of a numeral: a digit appended undoes a division.             *)

(* The multiplication of a word by the base, limb by limb with its         *)
(* carries.                                                                *)
Carried(word, base, digit, v, c) ==
    /\ v \in Words /\ c \in [0..4 -> Nat] /\ c[0] = digit
    /\ \A n \in 1..4 : base * word[n] + c[4 - n] = 65536 * c[5 - n] + v[n]

(* It is what Appended computes.                                           *)
LEMMA AppendedIs ==
    ASSUME NEW word \in Words, NEW base \in Nat, NEW digit \in Nat
    PROVE  \E c : Carried(word, base, digit, Appended(word, base, digit), c)
<1> DEFINE step == [p \in (1..4) \X Nat |-> (word[5 - p[1]] * base + p[2]) \div Limb]
           F(f) == [n \in 0..4 |-> IF n = 0 THEN digit
                                   ELSE (word[5 - n] * base + f[n - 1]) \div Limb]
           c == CHOOSE f : f = F(f)
<1>1. ASSUME NEW n \in 1..4, NEW s \in Nat
      PROVE  /\ word[5 - n] * base + s \in Nat
             /\ (word[5 - n] * base + s) \div Limb \in Nat
  <2>1. 5 - n \in 1..4
    OBVIOUS
  <2>2. word[5 - n] \in Nat
    BY <2>1, WordIs
  <2>3. PICK a \in Nat : a = word[5 - n] * base + s
    BY <2>2
  <2>4. a \div 65536 \in Nat
    OBVIOUS
  <2> QED BY <2>3, <2>4, LimbIs
<1>2. step \in [(1..4) \X Nat -> Nat]
      /\ \A n \in 1..4, s \in Nat : step[<<n, s>>] = (word[5 - n] * base + s) \div Limb
  BY <1>1
<1> HIDE DEF step
<1>3. \E f : f = F(f)
  <2>1. PICK f \in [0..4 -> Nat] :
           f = [n \in 0..4 |-> IF n = 0 THEN digit ELSE step[<<n, f[n - 1]>>]]
    <3>1. Ranged(Nat, digit, 4, step)
      BY <1>2, RangeRecursion
    <3> QED BY <3>1 DEF Ranged
  <2>2. \A n \in 0..4 : n # 0 => n \in 1..4 /\ n - 1 \in 0..4 /\ f[n - 1] \in Nat
    OBVIOUS
  <2>3. f = F(f)
    BY <1>2, <2>1, <2>2
  <2> QED BY <2>3
<1>4. c = F(c)
  BY <1>3
<1> DEFINE g == [n \in 1..4 |-> (word[n] * base + c[4 - n]) % Limb]
<1>5. Appended(word, base, digit) = Limbs(g)
  BY DEF Appended
<1>6. \A n \in 1..4 : g[n] = (word[n] * base + c[4 - n]) % Limb
  OBVIOUS
<1>7. /\ c[0] = digit /\ DOMAIN c = 0..4
      /\ \A n \in 1..4 : c[n] = (word[5 - n] * base + c[n - 1]) \div Limb
  <2>1. \A n \in 1..4 : n \in 0..4 /\ n # 0
    OBVIOUS
  <2> HIDE DEF c
  <2> QED BY <1>4, <2>1
<1>8. c = [n \in 0..4 |-> c[n]]
  BY <1>4
<1> HIDE DEF c, g
<1>9. c[0] \in Nat /\ c[1] \in Nat /\ c[2] \in Nat /\ c[3] \in Nat /\ c[4] \in Nat
  <2>1. ASSUME NEW n \in 1..4, c[n - 1] \in Nat PROVE c[n] \in Nat
    <3>1. (word[5 - n] * base + c[n - 1]) \div Limb \in Nat
      BY <1>1, <2>1
    <3> QED BY <1>7, <3>1
  <2>2. c[0] \in Nat
    BY <1>7
  <2>3. c[1 - 1] \in Nat => c[1] \in Nat
    BY <2>1
  <2>4. c[2 - 1] \in Nat => c[2] \in Nat
    BY <2>1
  <2>5. c[3 - 1] \in Nat => c[3] \in Nat
    BY <2>1
  <2>6. c[4 - 1] \in Nat => c[4] \in Nat
    BY <2>1
  <2> QED BY <2>2, <2>3, <2>4, <2>5, <2>6
<1>10. c \in [0..4 -> Nat]
  <2>1. \A n \in 0..4 : n = 0 \/ n = 1 \/ n = 2 \/ n = 3 \/ n = 4
    OBVIOUS
  <2> QED BY <1>8, <1>9, <2>1
<1>11. ASSUME NEW n \in 1..4
       PROVE  /\ g[n] \in Nat /\ g[n] < 65536
              /\ base * word[n] + c[4 - n] = 65536 * c[5 - n] + g[n]
  <2>1. 5 - n \in 1..4 /\ 5 - (5 - n) = n /\ (5 - n) - 1 = 4 - n /\ 4 - n \in 0..4
    OBVIOUS
  <2>2. word[n] \in Nat /\ c[4 - n] \in Nat
    BY <1>10, <2>1, WordIs
  <2>3. PICK a \in Nat : a = word[n] * base + c[4 - n] /\ a = base * word[n] + c[4 - n]
    BY <2>2
  <2>4. PICK k, m : k = c[5 - n] /\ m = g[n]
    OBVIOUS
  <2>5. k = a \div 65536 /\ m = a % 65536
    BY <1>6, <1>7, <2>1, <2>3, <2>4, LimbIs
  <2>6. k \in Nat /\ m \in Nat /\ 65536 * k + m = a /\ m < 65536
    BY <2>5, Remainder
  <2> QED BY <2>3, <2>4, <2>6
<1>12. Limbs(g) \in Words /\ \A n \in 1..4 : Limbs(g)[n] = g[n]
  BY <1>11, WordFrom
<1>13. Carried(word, base, digit, Limbs(g), c)
  BY <1>7, <1>10, <1>11, <1>12 DEF Carried
<1> QED BY <1>5, <1>13

(* A digit appended to a word makes a word.                                *)
LEMMA AppendedType ==
    ASSUME NEW word \in Words, NEW base \in Nat, NEW digit \in Nat
    PROVE  Appended(word, base, digit) \in Words
  BY AppendedIs DEF Carried

(* Appending the remainder to the quotient gives the number back.          *)
LEMMA DivisionUndone ==
    ASSUME NEW word \in Words, NEW base \in Bases
    PROVE  Appended(Divide(word, base).word, base, Divide(word, base).remainder) = word
<1>1. PICK q, r : /\ q = Divide(word, base).word /\ Divided(word, base, q, r)
                  /\ Divide(word, base).remainder = r[4]
  BY DivideIs
<1>2. q \in Words /\ r[4] \in Nat /\ base \in Nat
  BY <1>1 DEF Divided, Bases
<1>3. PICK v, c : v = Appended(q, base, r[4]) /\ Carried(q, base, r[4], v, c)
  BY <1>2, AppendedIs
<1>4. /\ r[1] \in Nat /\ r[2] \in Nat /\ r[3] \in Nat /\ r[4] \in Nat /\ r[0] = 0
      /\ base * q[1] + r[1] = r[0] * 65536 + word[1]
      /\ base * q[2] + r[2] = r[1] * 65536 + word[2]
      /\ base * q[3] + r[3] = r[2] * 65536 + word[3]
      /\ base * q[4] + r[4] = r[3] * 65536 + word[4]
  BY <1>1 DEF Divided
<1>5. /\ v \in Words /\ c[0] = r[4]
      /\ c[0] \in Nat /\ c[1] \in Nat /\ c[2] \in Nat /\ c[3] \in Nat /\ c[4] \in Nat
      /\ base * q[4] + c[0] = 65536 * c[1] + v[4]
      /\ base * q[3] + c[1] = 65536 * c[2] + v[3]
      /\ base * q[2] + c[2] = 65536 * c[3] + v[2]
      /\ base * q[1] + c[3] = 65536 * c[4] + v[1]
  <2>1. 4 - 4 = 0 /\ 5 - 4 = 1 /\ 4 - 3 = 1 /\ 5 - 3 = 2 /\ 4 - 2 = 2 /\ 5 - 2 = 3
        /\ 4 - 1 = 3 /\ 5 - 1 = 4
    OBVIOUS
  <2>2. /\ base * q[4] + c[4 - 4] = 65536 * c[5 - 4] + v[4]
        /\ base * q[3] + c[4 - 3] = 65536 * c[5 - 3] + v[3]
        /\ base * q[2] + c[4 - 2] = 65536 * c[5 - 2] + v[2]
        /\ base * q[1] + c[4 - 1] = 65536 * c[5 - 1] + v[1]
    BY <1>3 DEF Carried
  <2> QED BY <1>3, <2>1, <2>2 DEF Carried
<1>6. /\ word[1] \in Nat /\ word[1] < 65536 /\ word[2] \in Nat /\ word[2] < 65536
      /\ word[3] \in Nat /\ word[3] < 65536 /\ word[4] \in Nat /\ word[4] < 65536
      /\ v[1] \in Nat /\ v[1] < 65536 /\ v[2] \in Nat /\ v[2] < 65536
      /\ v[3] \in Nat /\ v[3] < 65536 /\ v[4] \in Nat /\ v[4] < 65536
      /\ q[1] \in Nat /\ q[2] \in Nat /\ q[3] \in Nat /\ q[4] \in Nat
  BY <1>2, <1>5, WordIs
<1>8. c[1] = r[3] /\ v[4] = word[4]
  <2>1. 65536 * c[1] + v[4] = r[3] * 65536 + word[4]
    BY <1>4, <1>5, <1>6, <1>5
  <2>2. PICK a \in Nat, b \in Nat : a = c[1] /\ b = r[3]
    BY <1>4, <1>5
  <2>3. PICK m \in Nat, n \in Nat : m = v[4] /\ n = word[4] /\ m < 65536 /\ n < 65536
    BY <1>6
  <2>4. 65536 * a + m = b * 65536 + n
    BY <2>1, <2>2, <2>3
  <2>5. m < 65536 /\ n < 65536
    BY <2>3
  <2>6. a = b /\ m = n
    BY <2>4, <2>5
  <2> QED BY <2>2, <2>3, <2>6
<1>9. c[2] = r[2] /\ v[3] = word[3]
  <2>1. 65536 * c[2] + v[3] = r[2] * 65536 + word[3]
    BY <1>4, <1>5, <1>6, <1>8
  <2>2. PICK a \in Nat, b \in Nat : a = c[2] /\ b = r[2]
    BY <1>4, <1>5
  <2>3. PICK m \in Nat, n \in Nat : m = v[3] /\ n = word[3] /\ m < 65536 /\ n < 65536
    BY <1>6
  <2>4. 65536 * a + m = b * 65536 + n
    BY <2>1, <2>2, <2>3
  <2>5. m < 65536 /\ n < 65536
    BY <2>3
  <2>6. a = b /\ m = n
    BY <2>4, <2>5
  <2> QED BY <2>2, <2>3, <2>6
<1>10. c[3] = r[1] /\ v[2] = word[2]
  <2>1. 65536 * c[3] + v[2] = r[1] * 65536 + word[2]
    BY <1>4, <1>5, <1>6, <1>9
  <2>2. PICK a \in Nat, b \in Nat : a = c[3] /\ b = r[1]
    BY <1>4, <1>5
  <2>3. PICK m \in Nat, n \in Nat : m = v[2] /\ n = word[2] /\ m < 65536 /\ n < 65536
    BY <1>6
  <2>4. 65536 * a + m = b * 65536 + n
    BY <2>1, <2>2, <2>3
  <2>5. m < 65536 /\ n < 65536
    BY <2>3
  <2>6. a = b /\ m = n
    BY <2>4, <2>5
  <2> QED BY <2>2, <2>3, <2>6
<1>11. c[4] = r[0] /\ v[1] = word[1]
  <2>1. 65536 * c[4] + v[1] = r[0] * 65536 + word[1]
    BY <1>4, <1>5, <1>6, <1>10
  <2>2. PICK a \in Nat, b \in Nat : a = c[4] /\ b = r[0]
    BY <1>4, <1>5
  <2>3. PICK m \in Nat, n \in Nat : m = v[1] /\ n = word[1] /\ m < 65536 /\ n < 65536
    BY <1>6
  <2>4. 65536 * a + m = b * 65536 + n
    BY <2>1, <2>2, <2>3
  <2>5. m < 65536 /\ n < 65536
    BY <2>3
  <2>6. a = b /\ m = n
    BY <2>4, <2>5
  <2> QED BY <2>2, <2>3, <2>6
<1>12. v = word
  BY <1>5, <1>8, <1>9, <1>10, <1>11, WordIs
<1> QED BY <1>1, <1>3, <1>12

(* The values of the beginnings of a numeral without its sign.             *)
Beginnings(c, base) ==
    CHOOSE value : value = [n \in 0..Len(c) |->
                               IF n = 0 THEN Zero
                               ELSE LET v == value[n - 1] IN Appended(v, base, DigitValue(c[n]))]

(* Value goes along the beginnings of a numeral.                           *)
LEMMA ValueIs ==
    ASSUME NEW text, NEW base
    PROVE  Value(text, base) =
             LET c == Magnitude(text)
             IN  IF HasSign(text) THEN Negate(Beginnings(c, base)[Len(c)])
                 ELSE Beginnings(c, base)[Len(c)]
  BY DEF Value, Beginnings

(* A digit has a value and is no sign.                                     *)
LEMMA CharacterIs ==
    ASSUME NEW base \in Bases, NEW x \in Characters(base)
    PROVE  /\ DigitValue(x) \in Nat /\ x # "-"
           /\ base \in Nat
<1>1. PICK n \in 1..base : x = Digit[n]
  BY DEF Characters
<1>2. n \in 1..16 /\ base \in Nat
  BY DEF Bases
<1>3. DigitValue(x) = n - 1
  BY <1>1, <1>2, DigitValueIs
<1> QED BY <1>1, <1>2, <1>3, DigitsDiffer

(* Each beginning is worth the one before with a digit appended.           *)
LEMMA BeginningsAre ==
    ASSUME NEW base \in Bases, NEW c \in Seq(Characters(base))
    PROVE  /\ Beginnings(c, base) \in [0..Len(c) -> Words]
           /\ Beginnings(c, base)[0] = Zero
           /\ \A n \in 1..Len(c) : Beginnings(c, base)[n] =
                 Appended(Beginnings(c, base)[n - 1], base, DigitValue(c[n]))
<1> DEFINE L == Len(c)
           step == [p \in (1..L) \X Words |-> Appended(p[2], base, DigitValue(c[p[1]]))]
           F(f) == [n \in 0..Len(c) |-> IF n = 0 THEN Zero
                       ELSE LET v == f[n - 1] IN Appended(v, base, DigitValue(c[n]))]
           value == Beginnings(c, base)
<1>1. L \in Nat
  OBVIOUS
<1>2. ASSUME NEW n \in 1..L, NEW w \in Words PROVE Appended(w, base, DigitValue(c[n])) \in Words
  <2>1. c[n] \in Characters(base)
    OBVIOUS
  <2> QED BY <2>1, CharacterIs, AppendedType
<1>3. step \in [(1..L) \X Words -> Words]
      /\ \A n \in 1..L, w \in Words : step[<<n, w>>] = Appended(w, base, DigitValue(c[n]))
  BY <1>2
<1> HIDE DEF step
<1>4. \E f : f = F(f)
  <2>1. PICK f \in [0..L -> Words] :
           f = [n \in 0..L |-> IF n = 0 THEN Zero ELSE step[<<n, f[n - 1]>>]]
    <3>1. Ranged(Words, Zero, L, step)
      BY <1>1, <1>3, ZeroIs, RangeRecursion
    <3> QED BY <3>1 DEF Ranged
  <2>2. \A n \in 0..L : n # 0 => n \in 1..L /\ n - 1 \in 0..L /\ f[n - 1] \in Words
    BY <1>1
  <2>3. f = F(f)
    BY <1>3, <2>1, <2>2
  <2> QED BY <2>3
<1>5. value = F(value)
  BY <1>4 DEF Beginnings
<1> HIDE DEF value
<1>6. /\ value[0] = Zero /\ value = [n \in 0..L |-> value[n]]
      /\ \A n \in 1..L : value[n] = Appended(value[n - 1], base, DigitValue(c[n]))
  <2>1. 0 \in 0..L /\ \A n \in 1..L : n \in 0..L /\ n # 0
    BY <1>1
  <2> QED BY <1>5, <2>1
<1> DEFINE K == {n \in Nat : n <= L => value[n] \in Words}
<1>7. 0 \in K
  BY <1>6, ZeroIs
<1>8. ASSUME NEW n \in K PROVE n + 1 \in K
  <2>1. ASSUME n + 1 <= L PROVE value[n + 1] \in Words
    <3>1. n + 1 \in 1..L /\ (n + 1) - 1 = n /\ value[n] \in Words
      BY <1>1, <2>1
    <3>2. value[n + 1] = Appended(value[n], base, DigitValue(c[n + 1]))
      BY <1>6, <3>1
    <3> QED BY <1>2, <3>1, <3>2
  <2> QED BY <2>1
<1>9. K \in SUBSET Nat
  OBVIOUS
<1> HIDE DEF K
<1>10. K = Nat
  BY <1>7, <1>8, <1>9, NaturalInduction
<1>11. \A n \in 0..L : value[n] \in Words
  BY <1>1, <1>10 DEF K
<1>12. value \in [0..L -> Words]
  BY <1>6, <1>11
<1> QED BY <1>6, <1>12 DEF value

(* The value of a numeral with one digit more.                             *)
LEMMA NextDigit ==
    ASSUME NEW base \in Bases, NEW c \in Seq(Characters(base)), NEW x \in Characters(base)
    PROVE  Beginnings(Append(c, x), base)[Len(c) + 1] =
             Appended(Beginnings(c, base)[Len(c)], base, DigitValue(x))
<1> DEFINE L == Len(c)
           f == Beginnings(c, base)
<1>1. PICK d \in Seq(Characters(base)) : d = Append(c, x)
  <2>1. Append(c, x) \in Seq(Characters(base))
    OBVIOUS
  <2> QED BY <2>1
<1>2. L \in Nat /\ Len(d) = L + 1 /\ d[L + 1] = x /\ \A n \in 1..L : d[n] = c[n]
  BY <1>1
<1> DEFINE g == Beginnings(d, base)
<1>3. f[0] = Zero /\ \A n \in 1..L : f[n] = Appended(f[n - 1], base, DigitValue(c[n]))
  BY BeginningsAre
<1>4. g[0] = Zero /\ \A n \in 1..(L + 1) : g[n] = Appended(g[n - 1], base, DigitValue(d[n]))
  BY <1>2, BeginningsAre
<1> HIDE DEF f, g
<1> DEFINE K == {n \in Nat : n <= L => g[n] = f[n]}
<1>5. 0 \in K
  BY <1>3, <1>4
<1>6. ASSUME NEW n \in K PROVE n + 1 \in K
  <2>1. ASSUME n + 1 <= L PROVE g[n + 1] = f[n + 1]
    <3>1. n + 1 \in 1..L /\ n + 1 \in 1..(L + 1) /\ (n + 1) - 1 = n /\ g[n] = f[n]
      BY <1>2, <2>1
    <3>2. f[n + 1] = Appended(f[n], base, DigitValue(c[n + 1]))
      BY <1>3, <3>1
    <3>3. g[n + 1] = Appended(g[n], base, DigitValue(d[n + 1]))
      BY <1>4, <3>1
    <3>4. d[n + 1] = c[n + 1]
      BY <1>2, <3>1
    <3> QED BY <3>1, <3>2, <3>3, <3>4
  <2> QED BY <2>1
<1>7. K \in SUBSET Nat
  OBVIOUS
<1> HIDE DEF K
<1>8. K = Nat
  BY <1>5, <1>6, <1>7, NaturalInduction
<1>9. g[L] = f[L]
  BY <1>2, <1>8 DEF K
<1>10. L + 1 \in 1..(L + 1) /\ (L + 1) - 1 = L
  BY <1>2
<1>11. g[L + 1] = Appended(g[L], base, DigitValue(d[L + 1]))
  BY <1>4, <1>10
<1>12. g[L + 1] = Appended(f[L], base, DigitValue(x))
  BY <1>2, <1>9, <1>11
<1> QED BY <1>1, <1>12 DEF f, g

(* What is written first comes last.                                       *)
LEMMA ReverseCons ==
    ASSUME NEW T, NEW d \in Seq(T), NEW x \in T
    PROVE  Reverse(<<x>> \o d) = Append(Reverse(d), x)
<1>1. PICK e \in Seq(T) : e = <<x>> \o d
  <2>1. <<x>> \o d \in Seq(T)
    OBVIOUS
  <2> QED BY <2>1
<1>2. Len(d) \in Nat /\ Len(e) = Len(d) + 1 /\ e[1] = x /\ \A i \in 1..Len(d) : e[i + 1] = d[i]
  BY <1>1
<1>3. /\ Reverse(e) \in Seq(T) /\ Len(Reverse(e)) = Len(d) + 1
      /\ \A i \in 1..(Len(d) + 1) : Reverse(e)[i] = e[((Len(d) + 1) - i) + 1]
  BY <1>2, ReverseIs
<1>4. /\ Reverse(d) \in Seq(T) /\ Len(Reverse(d)) = Len(d)
      /\ \A i \in 1..Len(d) : Reverse(d)[i] = d[(Len(d) - i) + 1]
  BY ReverseIs
<1>5. PICK a \in Seq(T), b \in Seq(T) : a = Reverse(e) /\ b = Append(Reverse(d), x)
  <2>1. Append(Reverse(d), x) \in Seq(T)
    BY <1>4
  <2> QED BY <1>3, <2>1
<1>6. Len(b) = Len(d) + 1 /\ b[Len(d) + 1] = x /\ \A i \in 1..Len(d) : b[i] = d[(Len(d) - i) + 1]
  BY <1>2, <1>4, <1>5
<1>7. ASSUME NEW i \in 1..(Len(d) + 1) PROVE a[i] = b[i]
  <2>1. CASE i = Len(d) + 1
    <3>1. ((Len(d) + 1) - i) + 1 = 1
      BY <1>2, <2>1
    <3> QED BY <1>2, <1>3, <1>5, <1>6, <2>1, <3>1
  <2>2. CASE i # Len(d) + 1
    <3>1. i \in 1..Len(d) /\ (Len(d) - i) + 1 \in 1..Len(d)
          /\ ((Len(d) + 1) - i) + 1 = ((Len(d) - i) + 1) + 1
      BY <1>2, <2>2
    <3>2. a[i] = d[(Len(d) - i) + 1]
      BY <1>2, <1>3, <1>5, <3>1
    <3> QED BY <1>6, <3>1, <3>2
  <2> QED BY <2>1, <2>2
<1>8. Len(a) = Len(d) + 1
  BY <1>3, <1>5
<1>9. a = b
  BY <1>6, <1>7, <1>8
<1> QED BY <1>1, <1>5, <1>9

(* The digits to_string writes have the value of the word.                 *)
LEMMA DigitsValue ==
    ASSUME NEW base \in Bases, NEW w \in Words
    PROVE  LET c == Reverse(Digits(w, base)) IN Beginnings(c, base)[Len(c)] = w
<1> DEFINE Text(v) == Reverse(Digits(v, base))
           K == {v \in Words : Beginnings(Text(v), base)[Len(Text(v))] = v}
<1>1. Zero \in K
  <2>1. Digits(Zero, base) = <<>>
    BY ZeroIs, DigitsIs
  <2>2. Digits(Zero, base) \in Seq(Characters(base)) /\ Len(Digits(Zero, base)) = 0
    BY <2>1, ZeroIs, DigitsType
  <2>3. Text(Zero) \in Seq(Characters(base)) /\ Len(Text(Zero)) = 0
    BY <2>2, ReverseIs
  <2>4. Beginnings(Text(Zero), base)[0] = Zero
    BY <2>3, BeginningsAre
  <2> QED BY <2>3, <2>4, ZeroIs
<1>2. ASSUME NEW v \in Words, v # Zero, Divide(v, base).word \in K PROVE v \in K
  <2>1. PICK n \in 1..base, q \in Words :
           /\ q = Divide(v, base).word /\ n - 1 = Divide(v, base).remainder
           /\ Digits(v, base) = <<Digit[n]>> \o Digits(q, base)
    BY <1>2, DigitsStep
  <2>2. PICK d \in Seq(Characters(base)) : d = Digits(q, base)
    BY DigitsType
  <2>3. PICK x \in Characters(base) : x = Digit[n]
    BY DEF Characters
  <2>4. PICK c \in Seq(Characters(base)) : c = Text(q)
    BY <2>2, ReverseIs
  <2>5. Text(v) = Append(c, x)
    BY <2>1, <2>2, <2>3, <2>4, ReverseCons
  <2>6. Beginnings(c, base)[Len(c)] = q
    BY <1>2, <2>1, <2>4
  <2>7. DigitValue(x) = n - 1
    <3>1. n \in 1..16
      BY DEF Bases
    <3> QED BY <2>3, <3>1, DigitValueIs
  <2>8. Beginnings(Append(c, x), base)[Len(c) + 1] = Appended(q, base, n - 1)
    BY <2>6, <2>7, NextDigit
  <2>9. Appended(q, base, n - 1) = v
    BY <2>1, DivisionUndone
  <2>10. Len(Append(c, x)) = Len(c) + 1
    OBVIOUS
  <2>11. Beginnings(Text(v), base)[Len(Text(v))] = v
    BY <2>5, <2>8, <2>9, <2>10
  <2> QED BY <2>11
<1>3. K \in SUBSET Words
  OBVIOUS
<1> HIDE DEF K
<1>4. K = Words
  BY <1>1, <1>2, <1>3, DigitInduction
<1> QED BY <1>4 DEF K

(* Leading zeros are worth nothing.                                        *)
LEMMA ZeroAppended ==
    ASSUME NEW base \in Bases
    PROVE  Appended(Zero, base, 0) = Zero
<1>1. PICK q \in Words, r \in Nat : q = Divide(Zero, base).word /\ r = Divide(Zero, base).remainder
                                    /\ base * Num(q) + r = Num(Zero)
  BY ZeroIs, DivideNum
<1>2. Num(q) \in Nat /\ Num(Zero) = 0
  BY ZeroIs, WordIs
<1>3. r = 0 /\ Num(q) = 0
  <2>1. CASE base = 2
    BY <1>1, <1>2, <2>1
  <2>2. CASE base = 10
    BY <1>1, <1>2, <2>2
  <2>3. CASE base = 16
    BY <1>1, <1>2, <2>3
  <2> QED BY <2>1, <2>2, <2>3 DEF Bases
<1>4. q = Zero
  BY <1>3, ZeroIs
<1> QED BY <1>1, <1>3, <1>4, ZeroIs, DivisionUndone

(* What to_string writes of a word it does not negate.                     *)
LEMMA PlainNumeral ==
    ASSUME NEW base \in Bases, NEW w \in Words, w # Zero
    PROVE  \E s \in Seq(Characters(base)) :
              /\ s = Reverse(Digits(w, base)) /\ Len(s) \in Nat \ {0}
              /\ s[1] \in Characters(base) /\ s[1] # "0" /\ s[1] # "-"
              /\ Beginnings(s, base)[Len(s)] = w
<1>1. PICK d \in Seq(Characters(base)) : d = Digits(w, base)
  BY DigitsType
<1>2. Len(d) \in Nat \ {0} /\ d[Len(d)] # "0"
  BY <1>1, DigitsLead
<1>3. PICK s \in Seq(Characters(base)) :
         s = Reverse(d) /\ Len(s) = Len(d) /\ \A i \in 1..Len(d) : s[i] = d[(Len(d) - i) + 1]
  BY ReverseIs
<1>4. 1 \in 1..Len(d) /\ (Len(d) - 1) + 1 = Len(d)
  BY <1>2
<1>5. s[1] = d[Len(d)] /\ s[1] \in Characters(base)
  BY <1>3, <1>4
<1>6. Beginnings(s, base)[Len(s)] = w
  BY <1>1, <1>3, DigitsValue
<1> QED BY <1>1, <1>2, <1>3, <1>5, <1>6, CharacterIs

(* What is appended last comes first.                                      *)
LEMMA ReverseSnoc ==
    ASSUME NEW T, NEW d \in Seq(T), NEW x
    PROVE  Reverse(Append(d, x))[1] = x /\ Tail(Reverse(Append(d, x))) = Reverse(d)
<1>1. PICK S : S = T \cup {x}
  OBVIOUS
<1>2. d \in Seq(S) /\ x \in S
  BY <1>1
<1>3. PICK e \in Seq(S) : e = Append(d, x)
  <2>1. Append(d, x) \in Seq(S)
    BY <1>2
  <2> QED BY <2>1
<1>4. Len(d) \in Nat /\ Len(e) = Len(d) + 1 /\ e[Len(d) + 1] = x /\ \A i \in 1..Len(d) : e[i] = d[i]
  BY <1>2, <1>3
<1>5. PICK a \in Seq(S) : /\ a = Reverse(e) /\ Len(a) = Len(d) + 1
                          /\ \A i \in 1..(Len(d) + 1) : a[i] = e[((Len(d) + 1) - i) + 1]
  BY <1>4, ReverseIs
<1>6. PICK b \in Seq(S) : /\ b = Reverse(d) /\ Len(b) = Len(d)
                          /\ \A i \in 1..Len(d) : b[i] = d[(Len(d) - i) + 1]
  BY <1>2, ReverseIs
<1>7. a[1] = x
  <2>1. 1 \in 1..(Len(d) + 1) /\ ((Len(d) + 1) - 1) + 1 = Len(d) + 1
    BY <1>4
  <2> QED BY <1>4, <1>5, <2>1
<1>8. a # <<>>
  BY <1>4, <1>5
<1>9. Tail(a) \in Seq(S) /\ Len(Tail(a)) = Len(d) /\ \A i \in 1..Len(d) : Tail(a)[i] = a[i + 1]
  BY <1>4, <1>5, <1>8
<1>10. ASSUME NEW i \in 1..Len(d) PROVE Tail(a)[i] = b[i]
  <2>1. /\ i + 1 \in 1..(Len(d) + 1) /\ ((Len(d) + 1) - (i + 1)) + 1 = (Len(d) - i) + 1
        /\ (Len(d) - i) + 1 \in 1..Len(d)
    BY <1>4
  <2> QED BY <1>4, <1>5, <1>6, <1>9, <2>1
<1>11. Tail(a) = b
  BY <1>6, <1>9, <1>10
<1> QED BY <1>3, <1>5, <1>6, <1>7, <1>11

(* What PrintsFormat asks of a numeral.                                    *)
IsTextOf(s, word, base) ==
    /\ IsNumeral(s, base)
    /\ HasSign(s) = (base = 10 /\ Negative(word))
    /\ Value(s, base) = word

(* to_string writes that: for every word and base, a numeral with the sign *)
(* of the word, without leading zeros, that is worth the word.             *)
LEMMA NumeralStands ==
    ASSUME NEW base \in Bases, NEW word \in Words
    PROVE  IsTextOf(to_string(word, base), word, base)
<1>1. CASE word = Zero
  <2>1. to_string(word, base) = <<"0">>
    BY <1>1 DEF to_string
  <2> DEFINE s == <<"0">>
  <2>2. s[1] = "0" /\ Len(s) = 1 /\ s # <<>>
    OBVIOUS
  <2>3. "0" \in Characters(base)
    <3>1. 1 \in 1..base
      BY DEF Bases
    <3> QED BY <3>1, DigitsDiffer DEF Characters
  <2>4. Append(<<>>, "0") = s
    OBVIOUS
  <2> HIDE DEF s
  <2>5. ~HasSign(s)
    BY <2>2 DEF HasSign
  <2>6. ~Negative(word)
    BY <1>1, LimbIs DEF Negative, Zero
  <2>7. IsNumeral(s, base)
    <3>1. Magnitude(s) = s
      BY <2>5 DEF Magnitude
    <3>2. \A i \in 1..Len(s) : s[i] \in Characters(base)
      BY <2>2, <2>3
    <3>3. s = <<"0">>
      BY DEF s
    <3> QED BY <2>2, <3>1, <3>2, <3>3 DEF IsNumeral, Characters
  <2>8. Beginnings(s, base)[1] = Zero
    <3>1. PICK c \in Seq(Characters(base)) : c = <<>> /\ Len(c) = 0
      <4>1. <<>> \in Seq(Characters(base)) /\ Len(<<>>) = 0
        OBVIOUS
      <4> QED BY <4>1
    <3>2. Append(c, "0") = s
      BY <2>4, <3>1
    <3>3. Beginnings(c, base)[0] = Zero
      BY BeginningsAre
    <3>4. DigitValue("0") = 0
      <4>1. DigitValue(Digit[1]) = 1 - 1
        BY DigitValueIs
      <4> QED BY <4>1, DigitsDiffer
    <3>5. Beginnings(Append(c, "0"), base)[Len(c) + 1]
             = Appended(Beginnings(c, base)[Len(c)], base, DigitValue("0"))
      BY <2>3, NextDigit
    <3> QED BY <3>1, <3>2, <3>3, <3>4, <3>5, ZeroAppended
  <2>9. Value(s, base) = word
    <3>1. Magnitude(s) = s
      BY <2>5 DEF Magnitude
    <3> QED BY <1>1, <2>2, <2>5, <2>8, <3>1, ValueIs
  <2>10. IsTextOf(s, word, base)
    BY <2>5, <2>6, <2>7, <2>9 DEF IsTextOf, HasSign
  <2> QED BY <2>1, <2>10 DEF s
<1>2. CASE word # Zero /\ ~(base = 10 /\ Negative(word))
  <2>1. to_string(word, base) = Reverse(Digits(word, base))
    BY <1>2 DEF to_string
  <2>2. PICK s \in Seq(Characters(base)) :
              /\ s = Reverse(Digits(word, base)) /\ Len(s) \in Nat \ {0}
              /\ s[1] \in Characters(base) /\ s[1] # "0" /\ s[1] # "-"
              /\ Beginnings(s, base)[Len(s)] = word
    BY <1>2, PlainNumeral
  <2>3. ~HasSign(s) /\ Magnitude(s) = s
    BY <2>2 DEF HasSign, Magnitude
  <2>4. s # <<>>
    BY <2>2
  <2>5. \A i \in 1..Len(s) : s[i] \in Characters(base)
    OBVIOUS
  <2>6. IsNumeral(s, base)
    BY <2>2, <2>3, <2>4, <2>5 DEF IsNumeral, Characters
  <2>7. Value(s, base) = word
    BY <2>2, <2>3, ValueIs
  <2>8. IsTextOf(s, word, base)
    BY <1>2, <2>3, <2>6, <2>7 DEF IsTextOf, HasSign
  <2> QED BY <2>1, <2>2, <2>8
<1>3. CASE word # Zero /\ base = 10 /\ Negative(word)
  <2>1. to_string(word, base) = Reverse(Append(Digits(Negate(word), base), "-"))
    BY <1>3 DEF to_string
  <2>2. PICK w \in Words : w = Negate(word) /\ w # Zero /\ Negate(w) = word
    BY <1>3, NegateNum
  <2>3. PICK c \in Seq(Characters(base)) :
              /\ c = Reverse(Digits(w, base)) /\ Len(c) \in Nat \ {0}
              /\ c[1] \in Characters(base) /\ c[1] # "0" /\ c[1] # "-"
              /\ Beginnings(c, base)[Len(c)] = w
    BY <2>2, PlainNumeral
  <2>4. PICK d \in Seq(Characters(base)) : d = Digits(w, base) /\ c = Reverse(d)
    BY <2>3, DigitsType
  <2>5. PICK s : s = Reverse(Append(d, "-"))
    OBVIOUS
  <2>6. s[1] = "-" /\ Tail(s) = c
    BY <2>4, <2>5, ReverseSnoc
  <2>7. HasSign(s) /\ Magnitude(s) = c
    BY <2>6 DEF HasSign, Magnitude
  <2>8. c # <<>>
    BY <2>3
  <2>9. \A i \in 1..Len(c) : c[i] \in Characters(base)
    OBVIOUS
  <2>10. IsNumeral(s, base)
    BY <2>3, <2>7, <2>8, <2>9 DEF IsNumeral, Characters
  <2>11. Value(s, base) = word
    BY <2>2, <2>3, <2>7, ValueIs
  <2>12. IsTextOf(s, word, base)
    BY <1>3, <2>7, <2>10, <2>11 DEF IsTextOf, HasSign
  <2> QED BY <2>1, <2>2, <2>4, <2>5, <2>12
<1> QED BY <1>1, <1>2, <1>3

-----------------------------------------------------------------------------
(* Concatenations: what FlattenSeq computes.                               *)

(* p holds the concatenations of the beginnings of seqs.                   *)
Joins(seqs, p) == p[0] = <<>> /\ \A i \in 1..Len(seqs) : p[i] = p[i - 1] \o seqs[i]

(* There are such beginnings, they agree where the sequences do,           *)
LEMMA JoinsExist ==
    ASSUME NEW T, NEW seqs \in Seq(Seq(T))
    PROVE  \E p \in [0..Len(seqs) -> Seq(T)] : Joins(seqs, p)
<1> DEFINE L == Len(seqs)
           step == [q \in (1..L) \X Seq(T) |-> q[2] \o seqs[q[1]]]
<1>1. L \in Nat /\ <<>> \in Seq(T)
  OBVIOUS
<1>2. step \in [(1..L) \X Seq(T) -> Seq(T)]
      /\ \A i \in 1..L, s \in Seq(T) : step[<<i, s>>] = s \o seqs[i]
  <2>1. ASSUME NEW i \in 1..L, NEW s \in Seq(T) PROVE s \o seqs[i] \in Seq(T)
    <3>1. seqs[i] \in Seq(T)
      OBVIOUS
    <3> QED BY <3>1
  <2> QED BY <2>1
<1> HIDE DEF step
<1>3. PICK f \in [0..L -> Seq(T)] :
         f = [i \in 0..L |-> IF i = 0 THEN <<>> ELSE step[<<i, f[i - 1]>>]]
  <2>1. PICK S, e : S = Seq(T) /\ e = <<>> /\ e \in S
    BY <1>1
  <2>2. Ranged(S, e, L, step)
    BY <1>1, <1>2, <2>1, RangeRecursion
  <2> QED BY <2>1, <2>2 DEF Ranged
<1>4. f[0] = <<>>
  <2>1. 0 \in 0..L
    BY <1>1
  <2> QED BY <1>3, <2>1, Zenon
<1>5. ASSUME NEW i \in 1..L PROVE f[i] = f[i - 1] \o seqs[i]
  <2>1. i \in 0..L /\ i # 0 /\ i - 1 \in 0..L
    BY <1>1
  <2>2. f[i] = step[<<i, f[i - 1]>>]
    BY <1>3, <2>1
  <2>3. f[i - 1] \in Seq(T)
    BY <2>1
  <2> QED BY <1>2, <2>2, <2>3
<1> QED BY <1>4, <1>5 DEF Joins

(* The beginnings depend on what they begin only.                          *)
SameAt(p, q, m) == p[m] = q[m]

BeginAlike(a, b, m) ==
    m \in Nat /\ \A i \in 1..m : i \in 1..Len(a) /\ i \in 1..Len(b) /\ a[i] = b[i]

LEMMA JoinsAgree ==
    ASSUME NEW a, NEW b, NEW p, NEW q, NEW m,
           Joins(a, p), Joins(b, q), BeginAlike(a, b, m)
    PROVE  SameAt(p, q, m)
<1>0. m \in Nat /\ \A i \in 1..m : i \in 1..Len(a) /\ i \in 1..Len(b) /\ a[i] = b[i]
  BY DEF BeginAlike
<1> DEFINE K == {n \in Nat : n <= m => p[n] = q[n]}
<1>1. 0 \in K
  BY DEF Joins
<1>2. ASSUME NEW n \in K PROVE n + 1 \in K
  <2>1. ASSUME n + 1 <= m PROVE p[n + 1] = q[n + 1]
    <3>1. /\ n + 1 \in 1..Len(a) /\ n + 1 \in 1..Len(b) /\ n + 1 \in 1..m
          /\ (n + 1) - 1 = n /\ p[n] = q[n]
      BY <1>0, <2>1
    <3>2. p[n + 1] = p[(n + 1) - 1] \o a[n + 1]
      BY <3>1 DEF Joins
    <3>3. q[n + 1] = q[(n + 1) - 1] \o b[n + 1]
      BY <3>1 DEF Joins
    <3> QED BY <1>0, <3>1, <3>2, <3>3
  <2> QED BY <2>1
<1>3. K \in SUBSET Nat
  OBVIOUS
<1> HIDE DEF K
<1>4. K = Nat
  BY <1>1, <1>2, <1>3, NaturalInduction
<1>5. m \in K /\ m <= m
  BY <1>0, <1>4
<1> QED BY <1>5 DEF K, SameAt

(* and the last is what FlattenSeq computes.                               *)
LEMMA FlattenIs ==
    ASSUME NEW T, NEW seqs \in Seq(Seq(T)),
           NEW p \in [0..Len(seqs) -> Seq(T)], Joins(seqs, p)
    PROVE  FlattenSeq(seqs) = p[Len(seqs)]
<1> DEFINE L == Len(seqs)
           F(h) == [i \in 1..L |-> IF i = 1 THEN seqs[i] ELSE h[i - 1] \o seqs[i]]
           h == CHOOSE f : f = F(f)
<1>1. L \in Nat
  OBVIOUS
<1>2. CASE L = 0
  <2>1. FlattenSeq(seqs) = seqs
    BY <1>2 DEF FlattenSeq
  <2>2. seqs = <<>>
    BY <1>2
  <2> QED BY <1>2, <2>1, <2>2 DEF Joins
<1>3. CASE L # 0
  <2>1. FlattenSeq(seqs) = h[L]
    BY <1>3 DEF FlattenSeq
  <2>2. \E f : f = F(f)
    <3> DEFINE f == [i \in 1..L |-> p[i]]
    <3>1. ASSUME NEW i \in 1..L PROVE f[i] = IF i = 1 THEN seqs[i] ELSE f[i - 1] \o seqs[i]
      <4>1. p[i] = p[i - 1] \o seqs[i] /\ seqs[i] \in Seq(T)
        BY DEF Joins
      <4>2. CASE i = 1
        <5>1. p[i - 1] = <<>>
          BY <4>2 DEF Joins
        <5>2. <<>> \o seqs[i] = seqs[i]
          BY <4>1
        <5> QED BY <4>1, <4>2, <5>1, <5>2
      <4>3. CASE i # 1
        <5>1. i - 1 \in 1..L
          BY <1>1, <4>3
        <5> QED BY <4>1, <4>3, <5>1
      <4> QED BY <4>2, <4>3
    <3>2. f = [i \in 1..L |-> f[i]]
      OBVIOUS
    <3> HIDE DEF f
    <3>3. f = F(f)
      BY <3>1, <3>2
    <3> QED BY <3>3
  <2>3. h = F(h)
    BY <2>2
  <2>4. \A i \in 1..L : h[i] = IF i = 1 THEN seqs[i] ELSE h[i - 1] \o seqs[i]
    <3> HIDE DEF h
    <3> QED BY <2>3
  <2> HIDE DEF h
  <2> DEFINE K == {n \in Nat : n + 1 <= L => h[n + 1] = p[n + 1]}
  <2>5. 0 \in K
    <3>1. 1 \in 1..L
      BY <1>1, <1>3
    <3>2. h[1] = seqs[1] /\ seqs[1] \in Seq(T)
      BY <2>4, <3>1
    <3>3. p[1] = p[1 - 1] \o seqs[1]
      BY <3>1 DEF Joins
    <3>4. p[1 - 1] = <<>>
      BY DEF Joins
    <3>5. <<>> \o seqs[1] = seqs[1]
      BY <3>2
    <3> QED BY <3>2, <3>3, <3>4, <3>5
  <2>6. ASSUME NEW n \in K PROVE n + 1 \in K
    <3>1. ASSUME (n + 1) + 1 <= L PROVE h[(n + 1) + 1] = p[(n + 1) + 1]
      <4>1. (n + 1) + 1 \in 1..L /\ (n + 1) + 1 # 1 /\ ((n + 1) + 1) - 1 = n + 1 /\ h[n + 1] = p[n + 1]
        BY <1>1, <3>1
      <4>2. h[(n + 1) + 1] = h[((n + 1) + 1) - 1] \o seqs[(n + 1) + 1]
        BY <2>4, <4>1
      <4>3. p[(n + 1) + 1] = p[((n + 1) + 1) - 1] \o seqs[(n + 1) + 1]
        BY <4>1 DEF Joins
      <4> QED BY <4>1, <4>2, <4>3
    <3> QED BY <3>1
  <2>7. K \in SUBSET Nat
    OBVIOUS
  <2> HIDE DEF K
  <2>8. K = Nat
    BY <2>5, <2>6, <2>7, NaturalInduction
  <2>9. L - 1 \in Nat /\ (L - 1) + 1 = L
    BY <1>1, <1>3
  <2>10. h[L] = p[L]
    <3>1. L - 1 \in K /\ (L - 1) + 1 <= L
      BY <1>1, <2>8, <2>9
    <3>2. h[(L - 1) + 1] = p[(L - 1) + 1]
      BY <3>1 DEF K
    <3> QED BY <2>9, <3>2
  <2> QED BY <2>1, <2>10
<1> QED BY <1>2, <1>3

(* The elements stay what they are.                                        *)
LEMMA FlattenType ==
    ASSUME NEW T, NEW seqs \in Seq(Seq(T))
    PROVE  FlattenSeq(seqs) \in Seq(T)
<1>1. PICK p \in [0..Len(seqs) -> Seq(T)] : Joins(seqs, p)
  BY JoinsExist
<1>2. FlattenSeq(seqs) = p[Len(seqs)]
  BY <1>1, FlattenIs
<1>3. Len(seqs) \in 0..Len(seqs)
  OBVIOUS
<1> QED BY <1>2, <1>3

(* Concatenating sequences of sequences concatenates what they flatten to. *)
LEMMA FlattenConcat ==
    ASSUME NEW T, NEW a \in Seq(Seq(T)), NEW b \in Seq(Seq(T))
    PROVE  FlattenSeq(a \o b) = FlattenSeq(a) \o FlattenSeq(b)
<1>1. PICK c \in Seq(Seq(T)) : c = a \o b
  <2>1. a \o b \in Seq(Seq(T))
    OBVIOUS
  <2> QED BY <2>1
<1>2. /\ Len(a) \in Nat /\ Len(b) \in Nat /\ Len(c) = Len(a) + Len(b)
      /\ \A i \in 1..Len(a) : c[i] = a[i]
      /\ \A i \in 1..Len(b) : c[Len(a) + i] = b[i]
  BY <1>1
<1>3. PICK p \in [0..Len(a) -> Seq(T)] : Joins(a, p)
  BY JoinsExist
<1>4. PICK q \in [0..Len(b) -> Seq(T)] : Joins(b, q)
  BY JoinsExist
<1>5. PICK r \in [0..Len(c) -> Seq(T)] : Joins(c, r)
  BY JoinsExist
<1>6. FlattenSeq(a) = p[Len(a)] /\ FlattenSeq(b) = q[Len(b)] /\ FlattenSeq(c) = r[Len(c)]
  BY <1>3, <1>4, <1>5, FlattenIs
<1>7. r[Len(a)] = p[Len(a)]
  <2>1. \A i \in 1..Len(a) : i \in 1..Len(c)
    BY <1>2
  <2>2. \A i \in 1..Len(a) : c[i] = a[i]
    BY <1>2
  <2>3. BeginAlike(c, a, Len(a))
    BY <1>2, <2>1, <2>2 DEF BeginAlike
  <2>4. PICK m : m = Len(a) /\ BeginAlike(c, a, m)
    BY <2>3
  <2>5. Joins(c, r) /\ Joins(a, p)
    BY <1>3, <1>5
  <2>6. SameAt(r, p, m)
    BY <2>4, <2>5, JoinsAgree
  <2> QED BY <2>4, <2>6 DEF SameAt
<1> DEFINE K == {n \in Nat : n <= Len(b) => r[Len(a) + n] = p[Len(a)] \o q[n]}
<1>8. 0 \in K
  <2>1. p[Len(a)] \in Seq(T)
    <3>1. Len(a) \in 0..Len(a)
      BY <1>2
    <3> QED BY <3>1
  <2>2. p[Len(a)] \o <<>> = p[Len(a)]
    BY <2>1
  <2>3. q[0] = <<>> /\ Len(a) + 0 = Len(a)
    BY <1>2, <1>4 DEF Joins
  <2> QED BY <1>7, <2>2, <2>3
<1>9. ASSUME NEW n \in K PROVE n + 1 \in K
  <2>1. ASSUME n + 1 <= Len(b) PROVE r[Len(a) + (n + 1)] = p[Len(a)] \o q[n + 1]
    <3>1. /\ n + 1 \in 1..Len(b) /\ Len(a) + (n + 1) \in 1..Len(c)
          /\ (Len(a) + (n + 1)) - 1 = Len(a) + n /\ (n + 1) - 1 = n /\ n \in 0..Len(b)
          /\ r[Len(a) + n] = p[Len(a)] \o q[n]
      BY <1>2, <2>1
    <3>2. r[Len(a) + (n + 1)] = r[(Len(a) + (n + 1)) - 1] \o c[Len(a) + (n + 1)]
      BY <1>5, <3>1 DEF Joins
    <3>3. q[n + 1] = q[(n + 1) - 1] \o b[n + 1]
      BY <1>4, <3>1 DEF Joins
    <3>4. c[Len(a) + (n + 1)] = b[n + 1]
      BY <1>2, <3>1
    <3>5. p[Len(a)] \in Seq(T) /\ q[n] \in Seq(T) /\ b[n + 1] \in Seq(T)
      <4>1. Len(a) \in 0..Len(a)
        BY <1>2
      <4>2. p[Len(a)] \in Seq(T)
        BY <4>1
      <4>3. q[n] \in Seq(T)
        BY <3>1
      <4>4. b[n + 1] \in Seq(T)
        BY <3>1
      <4> QED BY <4>2, <4>3, <4>4
    <3>6. PICK x \in Seq(T), y \in Seq(T), z \in Seq(T) :
             x = p[Len(a)] /\ y = q[n] /\ z = b[n + 1]
      BY <3>5
    <3>7. (x \o y) \o z = x \o (y \o z)
      BY ConcatAssociative
    <3>8. r[Len(a) + (n + 1)] = (x \o y) \o z
      BY <3>1, <3>2, <3>4, <3>6
    <3>9. p[Len(a)] \o q[n + 1] = x \o (y \o z)
      BY <3>1, <3>3, <3>6
    <3> QED BY <3>7, <3>8, <3>9
  <2>2. n + 1 \in Nat
    OBVIOUS
  <2> QED BY <2>1, <2>2
<1>10. K \in SUBSET Nat
  OBVIOUS
<1> HIDE DEF K
<1>11. K = Nat
  BY <1>8, <1>9, <1>10, NaturalInduction
<1>12. r[Len(a) + Len(b)] = p[Len(a)] \o q[Len(b)]
  <2>1. Len(b) \in K /\ Len(b) <= Len(b)
    BY <1>2, <1>11
  <2> QED BY <2>1 DEF K
<1> QED BY <1>1, <1>2, <1>6, <1>12

(* One sequence more.                                                      *)
LEMMA FlattenAppend ==
    ASSUME NEW T, NEW s \in Seq(Seq(T)), NEW x \in Seq(T)
    PROVE  FlattenSeq(Append(s, x)) = FlattenSeq(s) \o x
<1>1. PICK c \in Seq(Seq(T)) : c = Append(s, x)
  <2>1. Append(s, x) \in Seq(Seq(T))
    OBVIOUS
  <2> QED BY <2>1
<1>2. /\ Len(s) \in Nat /\ Len(c) = Len(s) + 1 /\ c[Len(s) + 1] = x
      /\ \A i \in 1..Len(s) : c[i] = s[i]
  BY <1>1
<1>3. PICK p \in [0..Len(s) -> Seq(T)] : Joins(s, p)
  BY JoinsExist
<1>4. PICK r \in [0..Len(c) -> Seq(T)] : Joins(c, r)
  BY JoinsExist
<1>5. FlattenSeq(s) = p[Len(s)] /\ FlattenSeq(c) = r[Len(c)]
  BY <1>3, <1>4, FlattenIs
<1>6. r[Len(s)] = p[Len(s)]
  <2>1. \A i \in 1..Len(s) : i \in 1..Len(c)
    BY <1>2
  <2>2. \A i \in 1..Len(s) : c[i] = s[i]
    BY <1>2
  <2>3. BeginAlike(c, s, Len(s))
    BY <1>2, <2>1, <2>2 DEF BeginAlike
  <2>4. PICK m : m = Len(s) /\ BeginAlike(c, s, m)
    BY <2>3
  <2>5. Joins(c, r) /\ Joins(s, p)
    BY <1>3, <1>4
  <2>6. SameAt(r, p, m)
    BY <2>4, <2>5, JoinsAgree
  <2> QED BY <2>4, <2>6 DEF SameAt
<1>7. r[Len(s) + 1] = r[Len(s)] \o x
  <2>1. Len(s) + 1 \in 1..Len(c) /\ (Len(s) + 1) - 1 = Len(s)
    BY <1>2
  <2> QED BY <1>2, <1>4, <2>1 DEF Joins
<1> QED BY <1>1, <1>2, <1>5, <1>6, <1>7

(* Where each part begins in the concatenation, and that it is found there.*)
Lays(seqs, pos) ==
    /\ pos \in [0..Len(seqs) -> Nat] /\ pos[0] = 0
    /\ \A i \in 1..Len(seqs) : pos[i] = pos[i - 1] + Len(seqs[i])
    /\ \A i \in 0..Len(seqs) : pos[i] <= pos[Len(seqs)]
    /\ pos[Len(seqs)] = Len(FlattenSeq(seqs))
    /\ \A i \in 1..Len(seqs) : \A j \in 1..Len(seqs[i]) :
            FlattenSeq(seqs)[pos[i - 1] + j] = seqs[i][j]

(* The elements of a concatenation.                                        *)
LEMMA ConcatElements ==
    \A T : \A a, b \in Seq(T) :
        /\ \A i \in 1..Len(a) : (a \o b)[i] = a[i]
        /\ \A i \in 1..Len(b) : (a \o b)[Len(a) + i] = b[i]
  OBVIOUS

(* Every sequence of sequences is laid out so.                             *)
LEMMA LayoutExists ==
    ASSUME NEW T, NEW seqs \in Seq(Seq(T))
    PROVE  \E pos : Lays(seqs, pos)
<1> DEFINE N == Len(seqs)
<1>0. N \in Nat
  OBVIOUS
<1>1. PICK p \in [0..N -> Seq(T)] : Joins(seqs, p)
  BY JoinsExist
<1>2. FlattenSeq(seqs) = p[N]
  BY <1>1, FlattenIs
<1> DEFINE pos == [i \in 0..N |-> Len(p[i])]
<1>3. \A i \in 0..N : pos[i] = Len(p[i]) /\ pos[i] \in Nat /\ p[i] \in Seq(T)
  OBVIOUS
<1>4. pos \in [0..N -> Nat]
  OBVIOUS
<1>5. pos[0] = 0
  <2>1. p[0] = <<>> /\ 0 \in 0..N
    BY <1>0, <1>1 DEF Joins
  <2> QED BY <1>3, <2>1
<1>6. ASSUME NEW i \in 1..N
      PROVE  /\ pos[i] = pos[i - 1] + Len(seqs[i])
             /\ p[i] = p[i - 1] \o seqs[i] /\ p[i - 1] \in Seq(T) /\ seqs[i] \in Seq(T)
             /\ pos[i - 1] = Len(p[i - 1])
  <2>1. i \in 0..N /\ i - 1 \in 0..N
    BY <1>0
  <2>2. p[i] = p[i - 1] \o seqs[i]
    BY <1>1 DEF Joins
  <2>3. p[i - 1] \in Seq(T) /\ seqs[i] \in Seq(T)
    <3>1. p[i - 1] \in Seq(T)
      BY <2>1
    <3>2. seqs[i] \in Seq(T)
      OBVIOUS
    <3> QED BY <3>1, <3>2
  <2>4. Len(p[i]) = Len(p[i - 1]) + Len(seqs[i])
    BY <2>2, <2>3
  <2> QED BY <1>3, <2>1, <2>2, <2>3, <2>4
<1> HIDE DEF pos
<1> DEFINE Within(m) ==
               /\ \A i \in 0..m : pos[i] <= pos[m]
               /\ \A i \in 1..m : \A j \in 1..Len(seqs[i]) : p[m][pos[i - 1] + j] = seqs[i][j]
           K == {m \in Nat : m <= N => Within(m)}
<1>7. 0 \in K
  BY <1>5
<1>8. ASSUME NEW m \in K PROVE m + 1 \in K
  <2>1. ASSUME m + 1 <= N PROVE Within(m + 1)
    <3>1. m + 1 \in 1..N /\ (m + 1) - 1 = m /\ m \in 0..N /\ m + 1 \in 0..N /\ Within(m)
      BY <1>0, <2>1
    <3>2. /\ pos[m + 1] = pos[m] + Len(seqs[m + 1]) /\ p[m + 1] = p[m] \o seqs[m + 1]
          /\ p[m] \in Seq(T) /\ seqs[m + 1] \in Seq(T) /\ pos[m] = Len(p[m])
      <4>1. /\ pos[m + 1] = pos[(m + 1) - 1] + Len(seqs[m + 1])
            /\ p[m + 1] = p[(m + 1) - 1] \o seqs[m + 1] /\ p[(m + 1) - 1] \in Seq(T)
            /\ seqs[m + 1] \in Seq(T) /\ pos[(m + 1) - 1] = Len(p[(m + 1) - 1])
        BY <1>6, <3>1
      <4> QED BY <3>1, <4>1
    <3>3. pos[m] \in Nat /\ pos[m + 1] \in Nat /\ Len(seqs[m + 1]) \in Nat
      BY <1>3, <3>1, <3>2
    <3>4. ASSUME NEW i \in 0..(m + 1) PROVE pos[i] <= pos[m + 1]
      <4>1. CASE i = m + 1
        BY <3>3, <4>1
      <4>2. CASE i # m + 1
        <5>1. i \in 0..m /\ pos[i] \in Nat
          BY <1>3, <3>1, <4>2
        <5> QED BY <3>1, <3>2, <3>3, <5>1
      <4> QED BY <4>1, <4>2
    <3>5. ASSUME NEW i \in 1..(m + 1), NEW j \in 1..Len(seqs[i])
          PROVE  p[m + 1][pos[i - 1] + j] = seqs[i][j]
      <4>1. CASE i = m + 1
        <5>1. j \in 1..Len(seqs[m + 1]) /\ i - 1 = m
          BY <3>1, <4>1
        <5>2. (p[m] \o seqs[m + 1])[Len(p[m]) + j] = seqs[m + 1][j]
          <6>1. PICK a \in Seq(T), b \in Seq(T) : a = p[m] /\ b = seqs[m + 1]
            BY <3>2
          <6>2. j \in 1..Len(b)
            BY <5>1, <6>1
          <6>3. (a \o b)[Len(a) + j] = b[j]
            BY <6>2
          <6> QED BY <6>1, <6>3
        <5> QED BY <3>2, <4>1, <5>1, <5>2
      <4>2. CASE i # m + 1
        <5>1. i \in 1..m /\ i \in 0..m /\ i \in 1..N /\ i - 1 \in 0..N
          <6>1. i \in 1..m
            BY <4>2
          <6>2. m <= N
            BY <1>0, <2>1
          <6> QED BY <1>0, <6>1, <6>2
        <5>2. pos[i] <= pos[m] /\ pos[i] = pos[i - 1] + Len(seqs[i]) /\ pos[i - 1] \in Nat
              /\ seqs[i] \in Seq(T) /\ p[m][pos[i - 1] + j] = seqs[i][j]
          BY <1>3, <1>6, <3>1, <5>1
        <5>3. pos[i - 1] + j \in 1..Len(p[m])
          <6>1. Len(seqs[i]) \in Nat /\ j \in Nat /\ 1 <= j /\ j <= Len(seqs[i])
            BY <5>2
          <6>2. Len(p[m]) \in Nat /\ pos[i - 1] + j <= Len(p[m])
            BY <3>2, <3>3, <5>2, <6>1
          <6> QED BY <5>2, <6>1, <6>2
        <5>4. p[m + 1][pos[i - 1] + j] = p[m][pos[i - 1] + j]
          <6>1. PICK a \in Seq(T), b \in Seq(T) : a = p[m] /\ b = seqs[m + 1]
            BY <3>2
          <6>2. PICK k : k = pos[i - 1] + j
            OBVIOUS
          <6>3. k \in 1..Len(a)
            BY <5>3, <6>1, <6>2
          <6>4. (a \o b)[k] = a[k]
            BY <6>3
          <6> QED BY <3>2, <6>1, <6>2, <6>4
        <5> QED BY <5>2, <5>4
      <4> QED BY <4>1, <4>2
    <3> QED BY <3>4, <3>5
  <2> QED BY <2>1
<1>9. K \in SUBSET Nat
  OBVIOUS
<1> HIDE DEF K
<1>10. K = Nat
  BY <1>7, <1>8, <1>9, NaturalInduction
<1>11. Within(N)
  BY <1>0, <1>10 DEF K
<1>12. pos[N] = Len(FlattenSeq(seqs))
  BY <1>0, <1>2, <1>3
<1>13. Lays(seqs, pos)
  BY <1>2, <1>4, <1>5, <1>6, <1>11, <1>12 DEF Lays
<1> QED BY <1>13

-----------------------------------------------------------------------------
(* A round: the calls a part stands for.                                   *)

(* What is printed: characters of the format, digits, a sign, or the x     *)
(* that a literal %h becomes.                                              *)
Chars == STRING \cup {"%", "x", "-", "space"} \cup Characters(16)
Texts == Seq(Chars)

(* A sequence over a set is one over a larger set.                         *)
LEMMA SeqWidens ==
    ASSUME NEW S, NEW T, T \subseteq S, NEW s \in Seq(T)
    PROVE  s \in Seq(S)
  OBVIOUS

(* Digits are characters,                                                  *)
LEMMA CharactersAre ==
    ASSUME NEW base \in Bases
    PROVE  Characters(base) \subseteq Chars
<1>1. 1..base \subseteq 1..16
  BY DEF Bases
<1> QED BY <1>1 DEF Characters, Chars

(* digits in a row are a text,                                             *)
LEMMA DigitsAreTexts ==
    ASSUME NEW base \in Bases, NEW word \in Words
    PROVE  Digits(word, base) \in Texts
<1>1. Digits(word, base) \in Seq(Characters(base))
  BY DigitsType
<1> QED BY <1>1, CharactersAre, SeqWidens DEF Texts

(* and so is what to_string writes.                                        *)
LEMMA ToStringType ==
    ASSUME NEW base \in Bases, NEW word \in Words
    PROVE  to_string(word, base) \in Texts
<1>1. CASE word = Zero
  <2>1. to_string(word, base) = <<"0">>
    BY <1>1 DEF to_string
  <2>2. 1 \in 1..16 /\ Digit[1] = "0"
    BY DigitsDiffer
  <2>3. "0" \in Chars
    BY <2>2 DEF Chars, Characters
  <2>4. <<"0">> \in Seq(Chars)
    BY <2>3
  <2> QED BY <2>1, <2>4 DEF Texts
<1>2. CASE word # Zero /\ ~(base = 10 /\ Negative(word))
  <2>1. to_string(word, base) = Reverse(Digits(word, base))
    BY <1>2 DEF to_string
  <2> QED BY <2>1, DigitsAreTexts, ReverseIs DEF Texts
<1>3. CASE word # Zero /\ base = 10 /\ Negative(word)
  <2>1. to_string(word, base) = Reverse(Append(Digits(Negate(word), base), "-"))
    BY <1>3 DEF to_string
  <2>2. PICK d \in Seq(Chars) : d = Digits(Negate(word), base)
    BY DigitsAreTexts, NegateNum, <1>3 DEF Texts
  <2>3. "-" \in Chars
    BY DEF Chars
  <2>4. Append(d, "-") \in Seq(Chars)
    BY <2>3
  <2> QED BY <2>1, <2>2, <2>4, ReverseIs DEF Texts
<1> QED BY <1>1, <1>2, <1>3

(* The calls of the round that a whole part makes.                         *)
Round(part, word) ==
    IF IsDirective(part) /\ Tail(part) \in Numeric THEN << TextOf(Tail(part), word) >>
    ELSE IF IsDirective(part) THEN << Tail(part) >>
    ELSE IF part = <<"%", "%">> THEN << <<"%">> >>
    ELSE [n \in 1..Len(part) |-> << IF n = 2 /\ part[n] = "h" THEN "x" ELSE part[n] >>]

(* They are the calls the part stands for,                                 *)
LEMMA RoundStands ==
    ASSUME NEW part, NEW word \in Words
    PROVE  StandsFor(Round(part, word), part, word)
<1>1. CASE IsDirective(part) /\ Tail(part) \in Numeric
  <2>1. PICK d \in Numeric : d = Tail(part)
    BY <1>1
  <2>2. PICK number \in Words, base \in Bases : number = Converted(d, word) /\ base = Base(d)
    BY ConvertedType
  <2>3. PICK s : s = to_string(number, base) /\ IsTextOf(s, number, base)
    BY NumeralStands
  <2>4. Round(part, word) = << s >>
    BY <1>1, <2>1, <2>2, <2>3 DEF Round, TextOf
  <2>5. Len(<< s >>) = 1 /\ << s >>[1] = s
    OBVIOUS
  <2>6. PICK t : t = << s >> /\ t = Round(part, word)
    BY <2>4
  <2>7. /\ Len(t) = 1 /\ IsNumeral(t[1], base)
        /\ HasSign(t[1]) = (base = 10 /\ Negative(number)) /\ Value(t[1], base) = number
    BY <2>3, <2>5, <2>6 DEF IsTextOf
  <2> QED BY <1>1, <2>1, <2>2, <2>6, <2>7 DEF StandsFor
<1>2. CASE IsDirective(part) /\ Tail(part) \notin Numeric
  BY <1>2 DEF StandsFor, Round
<1>3. CASE ~IsDirective(part)
  BY <1>3 DEF StandsFor, Round
<1> QED BY <1>1, <1>2, <1>3

(* and they hand texts on.                                                 *)
LEMMA RoundType ==
    ASSUME NEW part \in Seq(STRING), part # <<>>, NEW word \in Words
    PROVE  Round(part, word) \in Seq(Texts)
<1>1. CASE IsDirective(part) /\ Tail(part) \in Numeric
  <2>1. TextOf(Tail(part), word) \in Texts
    BY <1>1, ConvertedType, ToStringType DEF TextOf
  <2>2. << TextOf(Tail(part), word) >> \in Seq(Texts)
    BY <2>1
  <2> QED BY <1>1, <2>2 DEF Round
<1>2. CASE IsDirective(part) /\ Tail(part) \notin Numeric
  <2>1. Tail(part) \in Seq(STRING)
    OBVIOUS
  <2>2. STRING \subseteq Chars
    BY DEF Chars
  <2>3. Tail(part) \in Texts
    BY <2>1, <2>2, SeqWidens DEF Texts
  <2>4. << Tail(part) >> \in Seq(Texts)
    BY <2>3
  <2> QED BY <1>2, <2>4 DEF Round
<1>3. CASE ~IsDirective(part) /\ part = <<"%", "%">>
  <2>1. "%" \in Chars
    BY DEF Chars
  <2>2. <<"%">> \in Texts
    BY <2>1 DEF Texts
  <2>3. << <<"%">> >> \in Seq(Texts)
    BY <2>2
  <2> QED BY <1>3, <2>3 DEF Round
<1>4. CASE ~IsDirective(part) /\ part # <<"%", "%">>
  <2> DEFINE c(n) == IF n = 2 /\ part[n] = "h" THEN "x" ELSE part[n]
  <2>1. ASSUME NEW n \in 1..Len(part) PROVE << c(n) >> \in Texts
    <3>1. part[n] \in STRING
      OBVIOUS
    <3>2. c(n) \in Chars
      BY <3>1 DEF Chars
    <3> HIDE DEF c
    <3>3. << c(n) >> \in Seq(Chars)
      BY <3>2
    <3> QED BY <3>3 DEF Texts
  <2>2. Round(part, word) = [n \in 1..Len(part) |-> << c(n) >>]
    BY <1>4 DEF Round
  <2> HIDE DEF c
  <2>3. Len(part) \in Nat
    OBVIOUS
  <2>4. [n \in 1..Len(part) |-> << c(n) >>] \in [1..Len(part) -> Texts]
    BY <2>1
  <2>5. [n \in 1..Len(part) |-> << c(n) >>] \in Seq(Texts)
    BY <2>3, <2>4
  <2> QED BY <2>2, <2>5
<1> QED BY <1>1, <1>2, <1>3, <1>4

-----------------------------------------------------------------------------
(* Where the walk is in the format.                                        *)

(* Where each part of a format begins.                                     *)
Positions(format) == CHOOSE pos : Lays(format, pos)

(* What is assumed of the formats, and their layout.                       *)
LEMMA FormatIs ==
    ASSUME parts \in Formats
    PROVE  /\ parts \in Seq(Seq(STRING)) /\ Len(parts) \in Nat
           /\ Lays(parts, Positions(parts))
           /\ \A i \in 1..Len(parts) :
                /\ parts[i] \in Seq(STRING)
                /\ IsPart(parts[i]) \/ (CutShort(parts[i]) /\ i = Len(parts))
<1>1. parts \in Seq(Seq(STRING))
  BY PrintkAssumption
<1>2. Lays(parts, Positions(parts))
  BY <1>1, LayoutExists DEF Positions
<1>3. \A i \in 1..Len(parts) : IsPart(parts[i]) \/ (CutShort(parts[i]) /\ i = Len(parts))
  BY PrintkAssumption
<1>4. \A i \in 1..Len(parts) : parts[i] \in Seq(STRING)
  BY <1>1
<1>5. Len(parts) \in Nat
  BY <1>1
<1> QED BY <1>1, <1>2, <1>3, <1>4, <1>5

(* The walk is at the beginning of a part.                                 *)
Ahead(part) ==
    /\ At(fmt) = part[1]
    /\ Len(part) >= 2 => At(fmt + 1) = part[2]
    /\ Len(part) >= 3 => At(fmt + 2) = part[3]

(* A part has up to three characters.                                      *)
LEMMA PartLength ==
    ASSUME NEW part \in Seq(STRING), IsPart(part) \/ CutShort(part)
    PROVE  Len(part) \in 1..3
  BY DEF IsPart, CutShort, Sizes

(* After p parts the walk sees the characters of the next one; if that is  *)
(* the last, the terminator follows.                                       *)
LEMMA PartAhead ==
    ASSUME parts \in Formats, NEW p \in Nat, p < Len(parts), fmt = Positions(parts)[p] + 1
    PROVE  \E part \in Seq(STRING) :
             /\ part = parts[p + 1] /\ Len(part) \in 1..3 /\ Ahead(part) /\ fmt \in Nat
             /\ IsPart(part) \/ (CutShort(part) /\ p + 1 = Len(parts))
             /\ fmt + Len(part) = Positions(parts)[p + 1] + 1
             /\ fmt + Len(part) <= Len(Spelling) + 1 /\ Len(Spelling) \in Nat
             /\ p + 1 = Len(parts) => fmt + Len(part) = Len(Spelling) + 1
<1>1. p + 1 \in 1..Len(parts) /\ (p + 1) - 1 = p /\ p \in 0..Len(parts) /\ p + 1 \in 0..Len(parts)
  BY FormatIs
<1>2. PICK part \in Seq(STRING) : part = parts[p + 1]
  BY <1>1, FormatIs
<1>3. IsPart(part) \/ (CutShort(part) /\ p + 1 = Len(parts))
  BY <1>1, <1>2, FormatIs
<1>4. Len(part) \in 1..3
  BY <1>3, PartLength
<1>5. PICK pos : pos = Positions(parts) /\ Lays(parts, pos)
  BY FormatIs
<1>6. /\ pos[p] \in Nat /\ pos[p + 1] \in Nat /\ pos[Len(parts)] \in Nat
      /\ pos[p + 1] = pos[p] + Len(part)
      /\ pos[p + 1] <= pos[Len(parts)]
      /\ pos[Len(parts)] = Len(Spelling)
  <2>1. Len(parts) \in 0..Len(parts)
    BY FormatIs
  <2>2. pos \in [0..Len(parts) -> Nat]
    BY <1>5 DEF Lays
  <2>3. pos[p] \in Nat /\ pos[p + 1] \in Nat /\ pos[Len(parts)] \in Nat
    BY <1>1, <2>1, <2>2
  <2>4. pos[p + 1] = pos[(p + 1) - 1] + Len(parts[p + 1])
    BY <1>1, <1>5 DEF Lays
  <2>5. pos[p + 1] <= pos[Len(parts)]
    BY <1>1, <1>5 DEF Lays
  <2>6. pos[Len(parts)] = Len(Spelling)
    BY <1>5 DEF Lays, Spelling
  <2> QED BY <1>1, <1>2, <2>3, <2>4, <2>5, <2>6
<1>7. fmt = pos[p] + 1
  BY <1>5
<1>8. ASSUME NEW j \in 1..Len(part) PROVE At(pos[p] + j) = part[j]
  <2>1. Spelling[pos[(p + 1) - 1] + j] = parts[p + 1][j]
    BY <1>1, <1>2, <1>5 DEF Lays, Spelling
  <2>2. pos[p] + j <= Len(Spelling)
    BY <1>4, <1>6
  <2> QED BY <1>1, <1>2, <2>1, <2>2 DEF At
<1>9. Ahead(part)
  <2>1. fmt = pos[p] + 1 /\ fmt + 1 = pos[p] + 2 /\ fmt + 2 = pos[p] + 3
    <3>1. PICK a \in Nat : a = pos[p] /\ fmt = a + 1
      BY <1>6, <1>7
    <3>2. fmt = a + 1 /\ fmt + 1 = a + 2 /\ fmt + 2 = a + 3
      BY <3>1
    <3> QED BY <3>1, <3>2
  <2>2. At(pos[p] + 1) = part[1]
    BY <1>4, <1>8
  <2>3. Len(part) >= 2 => At(pos[p] + 2) = part[2]
    BY <1>4, <1>8
  <2>4. Len(part) >= 3 => At(pos[p] + 3) = part[3]
    BY <1>4, <1>8
  <2> QED BY <2>1, <2>2, <2>3, <2>4 DEF Ahead
<1>10. /\ fmt + Len(part) = pos[p + 1] + 1 /\ fmt \in Nat /\ Len(Spelling) \in Nat
       /\ fmt + Len(part) <= Len(Spelling) + 1
       /\ p + 1 = Len(parts) => fmt + Len(part) = Len(Spelling) + 1
  <2>1. PICK a \in Nat, b \in Nat, c \in Nat :
           a = pos[p] /\ b = pos[p + 1] /\ c = pos[Len(parts)] /\ fmt = a + 1
    BY <1>6, <1>7
  <2>2. b = a + Len(part) /\ b <= c /\ c = Len(Spelling)
    BY <1>6, <2>1
  <2>3. p + 1 = Len(parts) => b = c
    BY <2>1
  <2>4. fmt + Len(part) = b + 1 /\ fmt \in Nat
    <3>1. PICK n \in Nat : n = Len(part)
      BY <1>4
    <3> QED BY <2>1, <2>2, <3>1
  <2>5. fmt + Len(part) <= c + 1
    <3>1. b + 1 <= c + 1
      BY <2>1, <2>2
    <3> QED BY <2>4, <3>1, Zenon
  <2>6. p + 1 = Len(parts) => fmt + Len(part) = c + 1
    BY <2>3, <2>4
  <2> QED BY <2>1, <2>2, <2>4, <2>5, <2>6
<1> QED BY <1>2, <1>3, <1>4, <1>5, <1>9, <1>10

(* Behind the last part is the terminator.                                 *)
LEMMA FormatEnds ==
    ASSUME parts \in Formats, fmt = Positions(parts)[Len(parts)] + 1
    PROVE  At(fmt) = Nul /\ fmt = Len(Spelling) + 1 /\ Len(Spelling) \in Nat
<1>1. Positions(parts)[Len(parts)] = Len(Spelling)
  BY FormatIs DEF Lays, Spelling
<1>2. Len(Spelling) \in Nat
  <2>1. Len(parts) \in 0..Len(parts)
    BY FormatIs
  <2>2. Positions(parts) \in [0..Len(parts) -> Nat]
    BY FormatIs DEF Lays
  <2> QED BY <1>1, <2>1, <2>2
<1> QED BY <1>1, <1>2 DEF At

(* Tails of short sequences, and short sequences element by element.       *)
LEMMA PairTail == \A a, b : Tail(<<a, b>>) = <<b>> /\ Len(<<b>>) = 1
  OBVIOUS

LEMMA TripleTail == \A a, b, c : Tail(<<a, b, c>>) = <<b, c>> /\ Len(<<b, c>>) = 2
  OBVIOUS

LEMMA PairIs ==
    ASSUME NEW T, NEW s \in Seq(T), Len(s) = 2
    PROVE  s = <<s[1], s[2]>>
  OBVIOUS

LEMMA TripleIs ==
    ASSUME NEW T, NEW s \in Seq(T), Len(s) = 3
    PROVE  s = <<s[1], s[2], s[3]>>
  OBVIOUS

(* What follows the "%" of a whole part is what the round takes for its    *)
(* directive.                                                              *)
LEMMA DirectiveAhead ==
    ASSUME NEW part \in Seq(STRING), IsPart(part), Ahead(part), part[1] = "%"
    PROVE  /\ Directive = Tail(part) /\ 1 + Len(Directive) = Len(part)
           /\ \/ /\ part = <<"%", part[2]>> /\ Tail(part) = <<part[2]>>
                 /\ part[2] \notin Sizes /\ Len(part) = 2
              \/ /\ part = <<"%", part[2], part[3]>> /\ Tail(part) = <<part[2], part[3]>>
                 /\ part[2] \in Sizes /\ Len(part) = 3
<1>1. CASE Len(part) = 2
  <2>1. part[2] \notin Sizes /\ At(fmt + 1) = part[2]
    BY <1>1 DEF IsPart, Ahead
  <2>2. Directive = <<part[2]>>
    BY <2>1 DEF Directive
  <2>3. part = <<"%", part[2]>>
    BY <1>1, PairIs
  <2>4. PICK b : b = part[2]
    OBVIOUS
  <2>5. Tail(part) = <<b>> /\ Len(<<b>>) = 1
    BY <2>3, <2>4, PairTail
  <2> QED BY <1>1, <2>1, <2>2, <2>3, <2>4, <2>5
<1>2. CASE Len(part) = 3
  <2>1. part[2] \in Sizes /\ At(fmt + 1) = part[2] /\ At(fmt + 2) = part[3]
    BY <1>2 DEF IsPart, Ahead
  <2>2. Directive = <<part[2], part[3]>>
    BY <2>1 DEF Directive
  <2>3. part = <<"%", part[2], part[3]>>
    BY <1>2, TripleIs
  <2>4. PICK b, c : b = part[2] /\ c = part[3] /\ part = <<"%", b, c>>
    BY <2>3
  <2>5. Tail(part) = <<b, c>> /\ Len(<<b, c>>) = 2
    BY <2>4
  <2> QED BY <1>2, <2>1, <2>2, <2>3, <2>4, <2>5
<1> QED BY <1>1, <1>2 DEF IsPart

-----------------------------------------------------------------------------
(* A round takes a part.                                                   *)

(* The characters the directives are told apart by.                        *)
LEMMA NoSize ==
    /\ "h" \in Sizes /\ "l" \in Sizes /\ "q" \in Sizes /\ Nul \notin Sizes /\ "%" \notin Sizes
    /\ Nul # "%" /\ "x" # "h"
  BY DEF Sizes, Nul

(* A plain character, and the spelling of what is no directive.            *)
Spelled(part) == [n \in 1..Len(part) |-> << IF n = 2 /\ part[n] = "h" THEN "x" ELSE part[n] >>]

(* The cases of a round.                                                   *)
LEMMA RoundCases ==
    ASSUME NEW part, NEW word
    PROVE  /\ IsDirective(part) /\ Tail(part) \in Numeric =>
                Round(part, word) = << TextOf(Tail(part), word) >>
           /\ IsDirective(part) /\ Tail(part) \notin Numeric => Round(part, word) = << Tail(part) >>
           /\ ~IsDirective(part) /\ part = <<"%", "%">> => Round(part, word) = << <<"%">> >>
           /\ ~IsDirective(part) /\ part # <<"%", "%">> => Round(part, word) = Spelled(part)
  BY DEF Round, Spelled

(* The spelling of a short part.                                           *)
LEMMA SpelledOut ==
    ASSUME NEW part
    PROVE  /\ Len(part) = 1 => Spelled(part) = << <<part[1]>> >>
           /\ Len(part) = 2 /\ part[2] # "h" => Spelled(part) = << <<part[1]>>, <<part[2]>> >>
           /\ Len(part) = 3 => Spelled(part) = << <<part[1]>>,
                                << IF part[2] = "h" THEN "x" ELSE part[2] >>, <<part[3]>> >>
<1>1. Len(part) = 1 => Spelled(part) = << <<part[1]>> >>
  BY DEF Spelled
<1>2. Len(part) = 2 /\ part[2] # "h" => Spelled(part) = << <<part[1]>>, <<part[2]>> >>
  BY DEF Spelled
<1>3. Len(part) = 3 => Spelled(part) = << <<part[1]>>,
                        << IF part[2] = "h" THEN "x" ELSE part[2] >>, <<part[3]>> >>
  BY DEF Spelled
<1> QED BY <1>1, <1>2, <1>3

(* How many arguments a part takes.                                        *)
TakenBy(part) == IF IsDirective(part) THEN 1 ELSE 0

(* One round takes a whole part, and only the argument of that part.       *)
LEMMA PlainRound ==
    ASSUME NEW part \in Seq(STRING), IsPart(part), Ahead(part), Plain
    PROVE  Calls(Round(part, Argument), Len(part), TakenBy(part))
<1>1. part[1] # "%" /\ At(fmt) = part[1]
  BY DEF Plain, Ahead
<1>2. Len(part) = 1
  BY <1>1 DEF IsPart
<1>3. ~IsDirective(part) /\ part # <<"%", "%">>
  BY <1>1, <1>2 DEF IsDirective
<1>4. Round(part, Argument) = << <<At(fmt)>> >>
  BY <1>1, <1>2, <1>3, RoundCases, SpelledOut
<1>5. TakenBy(part) = 0
  BY <1>3 DEF TakenBy
<1> QED BY <1>2, <1>4, <1>5 DEF Plain

(* A directive that converts to digits.                                    *)
LEMMA NumberRound ==
    ASSUME NEW part \in Seq(STRING), IsPart(part), Ahead(part), PrintNumber
    PROVE  Calls(Round(part, Argument), Len(part), TakenBy(part))
<1>1. part[1] = "%" /\ Directive \in Numeric
  BY DEF PrintNumber, Ahead
<1>2. Directive = Tail(part) /\ 1 + Len(Directive) = Len(part)
  BY <1>1, DirectiveAhead
<1>3. IsDirective(part) /\ Tail(part) \in Numeric
  BY <1>1, <1>2 DEF IsDirective
<1>4. Round(part, Argument) = << TextOf(Directive, Argument) >>
  BY <1>2, <1>3, RoundCases
<1>5. Calls(<< TextOf(Directive, Argument) >>, 1 + Len(Directive), 1)
  BY DEF PrintNumber, TextOf
<1>6. TakenBy(part) = 1
  BY <1>3 DEF TakenBy
<1> QED BY <1>2, <1>4, <1>5, <1>6

(* %c and %s convert to no digits.                                         *)
LEMMA TextDirective ==
    ASSUME NEW d \in { <<"c">>, <<"s">> }
    PROVE  d \notin Numeric /\ Len(d) = 1
<1>1. Len(d) = 1
  OBVIOUS
<1>2. d \notin Numeric
  BY DEF Numeric
<1> QED BY <1>1, <1>2

(* %c and %s.                                                              *)
LEMMA TextRound ==
    ASSUME NEW part \in Seq(STRING), IsPart(part), Ahead(part), PrintText
    PROVE  Calls(Round(part, Argument), Len(part), TakenBy(part))
<1>1. part[1] = "%" /\ Directive \in { <<"c">>, <<"s">> }
  BY DEF PrintText, Ahead
<1>2. Directive = Tail(part) /\ 1 + Len(Directive) = Len(part)
  BY <1>1, DirectiveAhead
<1>3. Tail(part) \notin Numeric /\ Len(part) = 2
  <2>1. PICK d \in { <<"c">>, <<"s">> } : d = Directive
    BY <1>1
  <2>2. d \notin Numeric /\ Len(d) = 1
    BY TextDirective
  <2> QED BY <1>2, <2>1, <2>2
<1>4. IsDirective(part)
  BY <1>1, <1>2 DEF IsDirective
<1>5. Round(part, Argument) = << Directive >>
  BY <1>2, <1>3, <1>4, RoundCases
<1>6. TakenBy(part) = 1
  BY <1>4 DEF TakenBy
<1> QED BY <1>3, <1>5, <1>6 DEF PrintText

(* %% and what is no directive.                                            *)
LEMMA LiteralRound ==
    ASSUME NEW part \in Seq(STRING), IsPart(part), Ahead(part), PrintLiteral
    PROVE  Calls(Round(part, Argument), Len(part), TakenBy(part))
<1>1. part[1] = "%" /\ Directive \notin Numeric \cup { <<"c">>, <<"s">> }
  BY DEF PrintLiteral, Ahead
<1>2. Directive = Tail(part) /\ 1 + Len(Directive) = Len(part)
  BY <1>1, DirectiveAhead
<1>3. ~IsDirective(part)
  BY <1>1, <1>2 DEF IsDirective
<1>4. TakenBy(part) = 0
  BY <1>3 DEF TakenBy
<1> DEFINE texts == CASE Directive = <<"%">> -> << <<"%">> >>
                      [] Directive[1] = "h" -> << <<"%">>, <<"x">>, <<Directive[2]>> >>
                      [] Directive[1] \in {"l", "q"} ->
                           << <<"%">>, <<Directive[1]>>, <<Directive[2]>> >>
                      [] OTHER -> << <<"%">>, Directive >>
<1>5. Calls(texts, 1 + Len(Directive), 0)
  BY DEF PrintLiteral
<1>6. texts = Round(part, Argument)
  <2>1. CASE Len(part) = 2
    <3>1. PICK b : b = part[2] /\ part = <<"%", b>> /\ Directive = <<b>> /\ b \notin Sizes
      BY <1>1, <1>2, <2>1, DirectiveAhead
    <3>2. Directive[1] = b
      BY <3>1
    <3>3. CASE b = "%"
      <4>1. texts = << <<"%">> >>
        BY <3>1, <3>2, <3>3
      <4> QED BY <1>3, <3>1, <3>3, <4>1, RoundCases
    <3>4. CASE b # "%"
      <4>1. Directive # <<"%">> /\ part # <<"%", "%">>
        BY <3>1, <3>2, <3>4, <2>1
      <4>2. b # "h" /\ b # "l" /\ b # "q"
        BY <3>1, NoSize
      <4>3. texts = << <<"%">>, <<b>> >>
        BY <3>1, <3>2, <4>1, <4>2
      <4>4. Spelled(part) = << <<part[1]>>, <<part[2]>> >>
        BY <2>1, <3>1, <4>2, SpelledOut
      <4> QED BY <1>1, <1>3, <3>1, <4>1, <4>3, <4>4, RoundCases
    <3> QED BY <3>3, <3>4
  <2>2. CASE Len(part) = 3
    <3>1. PICK b, c : /\ b = part[2] /\ c = part[3] /\ part = <<"%", b, c>>
                      /\ Directive = <<b, c>> /\ b \in Sizes
      <4>1. /\ part = <<"%", part[2], part[3]>> /\ Tail(part) = <<part[2], part[3]>>
            /\ part[2] \in Sizes
        <5>1. \/ Len(part) = 2
              \/ /\ part = <<"%", part[2], part[3]>> /\ Tail(part) = <<part[2], part[3]>>
                 /\ part[2] \in Sizes
          BY <1>1, DirectiveAhead
        <5>2. Len(part) # 2
          BY <2>2
        <5> QED BY <5>1, <5>2, Zenon
      <4> QED BY <1>2, <4>1
    <3>2. Directive[1] = b /\ Directive[2] = c /\ Len(Directive) = 2
      BY <3>1
    <3>3. Directive # <<"%">> /\ part # <<"%", "%">>
      <4>1. Len(<<"%">>) # 2 /\ Len(<<"%", "%">>) # 3
        OBVIOUS
      <4>2. Directive # <<"%">>
        BY <3>2, <4>1
      <4>3. part # <<"%", "%">>
        BY <2>2, <4>1
      <4> QED BY <4>2, <4>3
    <3>4. Spelled(part) = << <<part[1]>>, << IF part[2] = "h" THEN "x" ELSE part[2] >>, <<part[3]>> >>
      BY <2>2, SpelledOut
    <3>5. Round(part, Argument) = << <<"%">>, << IF b = "h" THEN "x" ELSE b >>, <<c>> >>
      BY <1>1, <1>3, <3>1, <3>3, <3>4, RoundCases
    <3>6. CASE b = "h"
      BY <3>2, <3>3, <3>5, <3>6
    <3>7. CASE b = "l" \/ b = "q"
      <4>1. b # "h"
        BY <3>7
      <4> QED BY <3>2, <3>3, <3>5, <3>7, <4>1
    <3> QED BY <3>1, <3>6, <3>7 DEF Sizes
  <2> QED BY <1>1, <2>1, <2>2 DEF IsPart
<1> HIDE DEF texts
<1> QED BY <1>2, <1>4, <1>5, <1>6

(* A part that is cut short is read beyond the terminator.                 *)
LEMMA CutRound ==
    ASSUME NEW part \in Seq(STRING), CutShort(part), Ahead(part), fmt \in Nat,
           Len(Spelling) \in Nat, fmt + Len(part) = Len(Spelling) + 1, WalkNext
    PROVE  walk' = "beyond" /\ parts' = parts /\ args' = args
<1>1. part[1] = "%" /\ 1 + Len(Directive) = Len(part) + 1
  <2>1. CASE part = <<"%">>
    <3>1. Len(part) = 1 /\ part[1] = "%"
      BY <2>1
    <3>2. fmt + 1 = Len(Spelling) + 1
      BY <3>1
    <3>3. At(fmt + 1) = Nul
      BY <3>2 DEF At
    <3>4. Directive = <<At(fmt + 1)>>
      BY <3>3, NoSize DEF Directive
    <3>5. Len(<<At(fmt + 1)>>) = 1
      OBVIOUS
    <3> QED BY <3>1, <3>4, <3>5
  <2>2. CASE part # <<"%">>
    <3>1. PICK size \in Sizes : part = <<"%", size>>
      BY <2>2 DEF CutShort
    <3>2. Len(part) = 2 /\ part[1] = "%" /\ part[2] \in Sizes
      BY <3>1
    <3>3. At(fmt + 1) \in Sizes
      BY <3>2 DEF Ahead
    <3>4. Directive = <<At(fmt + 1), At(fmt + 2)>>
      BY <3>3 DEF Directive
    <3>5. Len(<<At(fmt + 1), At(fmt + 2)>>) = 2
      OBVIOUS
    <3> QED BY <3>2, <3>4, <3>5
  <2> QED BY <2>1, <2>2
<1>2. At(fmt) = "%"
  BY <1>1 DEF Ahead
<1>3. \E texts, k : Calls(texts, 1 + Len(Directive), k)
  <2>1. CASE PrintNumber
    BY <2>1 DEF PrintNumber
  <2>2. CASE PrintText
    <3>1. Len(Directive) = 1
      <4>1. PICK d \in { <<"c">>, <<"s">> } : d = Directive
        BY <2>2 DEF PrintText
      <4> QED BY <4>1, TextDirective
    <3>2. 1 + Len(Directive) = 2
      BY <3>1
    <3> QED BY <2>2, <3>2 DEF PrintText
  <2>3. CASE PrintLiteral
    BY <2>3 DEF PrintLiteral
  <2>4. ~Plain /\ ~EndOfFormat
    BY <1>2, NoSize DEF Plain, EndOfFormat
  <2> QED BY <2>1, <2>2, <2>3, <2>4 DEF WalkNext
<1>4. PICK texts, k : Calls(texts, 1 + Len(Directive), k)
  BY <1>3
<1>5. fmt + (1 + Len(Directive)) > Len(Spelling) + 1
  <2>0. Len(part) \in Nat /\ fmt \in Nat
    BY PartLength
  <2>1. PICK a \in Nat, n \in Nat : a = fmt /\ n = Len(part) /\ a + n = Len(Spelling) + 1
    BY <2>0
  <2>2. a + (n + 1) > Len(Spelling) + 1
    BY <2>1
  <2> QED BY <1>1, <2>1, <2>2
<1> QED BY <1>4, <1>5 DEF Calls

(* A whole part is taken by one round.                                     *)
LEMMA WholeRound ==
    ASSUME NEW part \in Seq(STRING), IsPart(part), Ahead(part), WalkNext
    PROVE  Calls(Round(part, Argument), Len(part), TakenBy(part))
<1>1. ~EndOfFormat
  BY NoSize DEF EndOfFormat, Ahead, IsPart
<1> QED BY <1>1, PlainRound, NumberRound, TextRound, LiteralRound DEF WalkNext

(* Each directive adds one to the arguments before the next part.          *)
LEMMA CountsOn ==
    ASSUME parts \in Formats, NEW p \in Nat, p < Len(parts)
    PROVE  /\ ArgumentsBefore(p + 1) \in Nat
           /\ ArgumentsBefore((p + 1) + 1) = ArgumentsBefore(p + 1) + TakenBy(parts[p + 1])
<1> DEFINE D(n) == {i \in 1..n : IsDirective(parts[i])}
<1>1. ArgumentsBefore(p + 1) = Cardinality(D(p)) /\ ArgumentsBefore((p + 1) + 1) = Cardinality(D(p + 1))
  <2>1. (p + 1) - 1 = p /\ ((p + 1) + 1) - 1 = p + 1
    OBVIOUS
  <2> QED BY <2>1 DEF ArgumentsBefore
<1>2. IsFiniteSet(D(p))
  <2>1. IsFiniteSet(1..p)
    BY FS_Interval
  <2>2. D(p) \subseteq 1..p
    OBVIOUS
  <2> HIDE DEF D
  <2> QED BY <2>1, <2>2, FS_Subset
<1>3. p + 1 \notin D(p)
  OBVIOUS
<1>4. D(p + 1) = IF IsDirective(parts[p + 1]) THEN D(p) \cup {p + 1} ELSE D(p)
  <2>1. \A i : i \in 1..(p + 1) <=> i \in 1..p \/ i = p + 1
    OBVIOUS
  <2> QED BY <2>1
<1> HIDE DEF D
<1>5. Cardinality(D(p)) \in Nat
  BY <1>2, FS_CardinalityType
<1>6. Cardinality(D(p) \cup {p + 1}) = Cardinality(D(p)) + 1
  BY <1>2, <1>3, FS_AddElement
<1>7. CASE IsDirective(parts[p + 1])
  BY <1>1, <1>4, <1>5, <1>6, <1>7 DEF TakenBy
<1>8. CASE ~IsDirective(parts[p + 1])
  BY <1>1, <1>4, <1>5, <1>8 DEF TakenBy
<1> QED BY <1>7, <1>8

(* There is no argument before the first part.                             *)
LEMMA CountsFrom == ArgumentsBefore(1) = 0
<1>1. {i \in 1..(1 - 1) : IsDirective(parts[i])} = {}
  OBVIOUS
<1> QED BY <1>1, FS_EmptySet DEF ArgumentsBefore

(* What a walk has handed on so far, and where it is.                      *)
Expected(n) == Round(parts[n], ArgumentAt(ArgumentsBefore(n)))

(* What is handed on is what the parts so far stand for, and these are     *)
(* whole.                                                                  *)
Follows(out) ==
    /\ out \in Seq(Seq(Texts)) /\ Len(out) <= Len(parts)
    /\ \A n \in 1..Len(out) : IsPart(parts[n]) /\ out[n] = Expected(n)

(* The walk is behind the first p parts, with their arguments taken.       *)
Reached(p) == fmt = Positions(parts)[p] + 1 /\ taken = ArgumentsBefore(p + 1)

(* How a round goes on.                                                    *)
LEMMA RoundGoesOn ==
    ASSUME parts \in Formats, ArgumentsType, NEW p \in Nat, p < Len(parts), Reached(p), WalkNext
    PROVE  \/ /\ walk' = "beyond" /\ parts' = parts /\ args' = args
              /\ CutShort(parts[Len(parts)]) /\ parts # <<>>
           \/ /\ IsPart(parts[p + 1]) /\ Expected(p + 1) \in Seq(Texts)
              /\ Calls(Expected(p + 1), Len(parts[p + 1]), TakenBy(parts[p + 1]))
              /\ fmt + Len(parts[p + 1]) = Positions(parts)[p + 1] + 1
              /\ ~(fmt + Len(parts[p + 1]) > Len(Spelling) + 1)
              /\ taken + TakenBy(parts[p + 1]) = ArgumentsBefore((p + 1) + 1)
<1>1. fmt = Positions(parts)[p] + 1 /\ taken = ArgumentsBefore(p + 1)
  BY DEF Reached
<1>2. PICK part \in Seq(STRING) :
             /\ part = parts[p + 1] /\ Len(part) \in 1..3 /\ Ahead(part) /\ fmt \in Nat
             /\ IsPart(part) \/ (CutShort(part) /\ p + 1 = Len(parts))
             /\ fmt + Len(part) = Positions(parts)[p + 1] + 1
             /\ fmt + Len(part) <= Len(Spelling) + 1 /\ Len(Spelling) \in Nat
             /\ p + 1 = Len(parts) => fmt + Len(part) = Len(Spelling) + 1
  BY <1>1, PartAhead
<1>3. CASE IsPart(part)
  <2>1. Argument = ArgumentAt(ArgumentsBefore(p + 1)) /\ Argument \in Words
    BY <1>1, CountsOn, ArgumentIs DEF Argument
  <2>2. Expected(p + 1) = Round(part, Argument)
    BY <1>2, <2>1 DEF Expected
  <2>3. Calls(Round(part, Argument), Len(part), TakenBy(part))
    BY <1>2, <1>3, WholeRound
  <2>4. part # <<>>
    <3>1. Len(part) \in 1..3
      BY <1>2, Zenon
    <3>2. 0 \notin 1..3 /\ Len(<<>>) = 0
      OBVIOUS
    <3> QED BY <3>1, <3>2, Zenon
  <2>5. Round(part, Argument) \in Seq(Texts)
    BY <2>1, <2>4, RoundType
  <2>6. taken + TakenBy(part) = ArgumentsBefore((p + 1) + 1)
    BY <1>1, <1>2, CountsOn
  <2>7. ~(fmt + Len(part) > Len(Spelling) + 1)
    <3>1. PICK m \in Nat : m = fmt + Len(part) /\ m <= Len(Spelling) + 1
      BY <1>2
    <3> QED BY <1>2, <3>1
  <2> QED BY <1>2, <1>3, <2>2, <2>3, <2>5, <2>6, <2>7
<1>4. CASE CutShort(part) /\ p + 1 = Len(parts)
  <2>1. walk' = "beyond" /\ parts' = parts /\ args' = args
    BY <1>2, <1>4, CutRound
  <2>2. parts # <<>>
    BY <1>4
  <2> QED BY <1>2, <1>4, <2>1, <2>2
<1> QED BY <1>2, <1>3, <1>4

-----------------------------------------------------------------------------
(* The output of a walk.                                                   *)

(* Sequences with the same elements are the same.                          *)
LEMMA SameSequence ==
    ASSUME NEW T, NEW a \in Seq(T), NEW b \in Seq(T), Len(a) = Len(b),
           \A n \in 1..Len(a) : a[n] = b[n]
    PROVE  a = b
  OBVIOUS

(* Texts as the screen shows them are texts.                               *)
LEMMA ShownType ==
    ASSUME NEW s \in Seq(Seq(Chars))
    PROVE  Shown(s) \in Seq(Seq(Chars))
<1>1. <<"space", "space", "space", "space">> \in Seq(Chars)
  <2>1. "space" \in Chars
    BY DEF Chars
  <2>2. PICK T : T = Chars
    OBVIOUS
  <2>3. <<"space", "space", "space", "space">> \in Seq(T)
    BY <2>1, <2>2
  <2> QED BY <2>2, <2>3
<1>2. ASSUME NEW n \in 1..Len(s) PROVE Spread(s[n]) \in Seq(Chars)
  <2>1. s[n] \in Seq(Chars)
    OBVIOUS
  <2> QED BY <1>1, <2>1 DEF Spread
<1> QED BY <1>2 DEF Shown

(* The elements of two sequences joined.                                   *)
LEMMA JoinedAt ==
    ASSUME NEW T, NEW a \in Seq(T), NEW b \in Seq(T)
    PROVE  /\ a \o b \in Seq(T) /\ Len(a \o b) = Len(a) + Len(b)
           /\ Len(a) \in Nat /\ Len(b) \in Nat
           /\ \A n \in 1..Len(a) : (a \o b)[n] = a[n]
           /\ \A n \in 1..Len(b) : (a \o b)[Len(a) + n] = b[n]
  OBVIOUS

(* Showing texts one behind the other shows each.                          *)
LEMMA ShownConcat ==
    ASSUME NEW s \in Seq(Seq(Chars)), NEW t \in Seq(Seq(Chars))
    PROVE  Shown(s \o t) = Shown(s) \o Shown(t)
<1>1. PICK a, b, c : a = Shown(s) /\ b = Shown(t) /\ c = Shown(s \o t)
  OBVIOUS
<1>2. /\ s \o t \in Seq(Seq(Chars)) /\ Len(s \o t) = Len(s) + Len(t)
      /\ Len(s) \in Nat /\ Len(t) \in Nat
      /\ \A n \in 1..Len(s) : (s \o t)[n] = s[n]
      /\ \A n \in 1..Len(t) : (s \o t)[Len(s) + n] = t[n]
  BY JoinedAt
<1>3. a \in Seq(Seq(Chars)) /\ b \in Seq(Seq(Chars)) /\ c \in Seq(Seq(Chars))
  BY <1>1, <1>2, ShownType
<1>4. Len(a) = Len(s) /\ Len(b) = Len(t) /\ Len(c) = Len(s) + Len(t)
  BY <1>1, <1>2, <1>3 DEF Shown
<1>7. /\ a \o b \in Seq(Seq(Chars)) /\ Len(a \o b) = Len(a) + Len(b)
      /\ \A n \in 1..Len(a) : (a \o b)[n] = a[n]
      /\ \A n \in 1..Len(b) : (a \o b)[Len(a) + n] = b[n]
  BY <1>3, JoinedAt
<1>5. ASSUME NEW n \in 1..Len(c) PROVE c[n] = (a \o b)[n]
  <2>1. c[n] = Spread((s \o t)[n])
    BY <1>1, <1>2, <1>4 DEF Shown
  <2>2. CASE n \in 1..Len(s)
    <3>1. (s \o t)[n] = s[n] /\ (a \o b)[n] = a[n]
      BY <2>2, <1>2, <1>4, <1>7
    <3>2. a[n] = Spread(s[n])
      BY <1>1, <2>2 DEF Shown
    <3> QED BY <2>1, <3>1, <3>2
  <2>3. CASE n \notin 1..Len(s)
    <3>1. PICK m \in 1..Len(t) : n = Len(s) + m
      <4>1. n - Len(s) \in 1..Len(t) /\ n = Len(s) + (n - Len(s))
        BY <2>3, <1>2, <1>4
      <4> QED BY <4>1
    <3>2. (s \o t)[n] = t[m] /\ (a \o b)[n] = b[m]
      BY <3>1, <1>2, <1>4, <1>7
    <3>3. b[m] = Spread(t[m])
      BY <1>1, <3>1 DEF Shown
    <3> QED BY <2>1, <3>2, <3>3
  <2> QED BY <2>2, <2>3
<1>6. a \o b \in Seq(Seq(Chars)) /\ Len(a \o b) = Len(c)
  BY <1>4, <1>7
<1> QED BY <1>1, <1>3, <1>5, <1>6, SameSequence

(* A round adds its characters to the count.                               *)
LEMMA CountGrows ==
    ASSUME NEW out \in Seq(Seq(Texts)), NEW texts \in Seq(Texts)
    PROVE  /\ Append(out, texts) \in Seq(Seq(Texts))
           /\ Len(FlattenSeq(Shown(FlattenSeq(Append(out, texts)))))
                 = Len(FlattenSeq(Shown(FlattenSeq(out)))) + Len(FlattenSeq(Shown(texts)))
<1>1. Append(out, texts) \in Seq(Seq(Texts))
  OBVIOUS
<1>2. PICK a \in Seq(Seq(Chars)) : a = FlattenSeq(out)
  BY FlattenType DEF Texts
<1>3. PICK b \in Seq(Seq(Chars)) : b = texts
  BY DEF Texts
<1>4. FlattenSeq(Append(out, texts)) = a \o b
  <2>1. FlattenSeq(Append(out, texts)) = FlattenSeq(out) \o texts
    BY FlattenAppend
  <2> QED BY <1>2, <1>3, <2>1
<1>5. PICK d \in Seq(Seq(Chars)), e \in Seq(Seq(Chars)) : d = Shown(a) /\ e = Shown(b)
  BY ShownType
<1>6. Shown(a \o b) = d \o e
  BY <1>5, ShownConcat
<1>7. FlattenSeq(d \o e) = FlattenSeq(d) \o FlattenSeq(e)
  BY FlattenConcat
<1>8. PICK u \in Seq(Chars), v \in Seq(Chars) : u = FlattenSeq(d) /\ v = FlattenSeq(e)
  BY FlattenType
<1>9. Len(u \o v) = Len(u) + Len(v)
  OBVIOUS
<1>10. /\ Len(FlattenSeq(Shown(FlattenSeq(Append(out, texts))))) = Len(u \o v)
       /\ Len(FlattenSeq(Shown(FlattenSeq(out)))) = Len(u)
       /\ Len(FlattenSeq(Shown(texts))) = Len(v)
  BY <1>2, <1>3, <1>4, <1>5, <1>6, <1>7, <1>8
<1> QED BY <1>1, <1>9, <1>10

(* What a part stands for does not change.                                 *)
LEMMA ExpectedKept ==
    ASSUME parts' = parts, args' = args
    PROVE  \A n : Expected(n)' = Expected(n)
BY DEF Expected, ArgumentAt, ArgumentsBefore

(* An output that does not change keeps following the format.              *)
LEMMA FollowsKept ==
    ASSUME parts' = parts, args' = args
    PROVE  /\ Follows(screen) /\ screen' = screen => Follows(screen)'
           /\ Follows(serial) /\ serial' = serial => Follows(serial)'
<1>1. \A n : Expected(n)' = Expected(n)
  BY ExpectedKept
<1> QED BY <1>1 DEF Follows

(* One round more.                                                         *)
Grown(out, more) ==
    /\ more \in Seq(Seq(Texts)) /\ Len(more) = Len(out) + 1 /\ Len(out) \in Nat
    /\ Len(more) <= Len(parts)
    /\ \A n \in 1..Len(more) : IsPart(parts[n]) /\ more[n] = Expected(n)

(* An output that follows the format does so with one round more.          *)
LEMMA OutGrows ==
    ASSUME parts \in Formats, NEW out, Follows(out), Len(out) < Len(parts),
           IsPart(parts[Len(out) + 1]), Expected(Len(out) + 1) \in Seq(Texts)
    PROVE  Grown(out, Append(out, Expected(Len(out) + 1)))
<1>1. /\ out \in Seq(Seq(Texts)) /\ Len(out) \in Nat
      /\ \A n \in 1..Len(out) : IsPart(parts[n]) /\ out[n] = Expected(n)
  BY DEF Follows
<1>2. PICK x \in Seq(Texts) : x = Expected(Len(out) + 1)
  OBVIOUS
<1>3. PICK more : more = Append(out, x)
  OBVIOUS
<1>4. /\ more \in Seq(Seq(Texts)) /\ Len(more) = Len(out) + 1 /\ more[Len(out) + 1] = x
      /\ \A n \in 1..Len(out) : more[n] = out[n]
  BY <1>1, <1>3
<1>5. Len(more) <= Len(parts)
  BY <1>1, <1>4, FormatIs
<1>6. ASSUME NEW n \in 1..Len(more) PROVE IsPart(parts[n]) /\ more[n] = Expected(n)
  <2>1. n \in 1..Len(out) \/ n = Len(out) + 1
    BY <1>1, <1>4
  <2> QED BY <1>1, <1>2, <1>4, <2>1
<1> QED BY <1>1, <1>2, <1>3, <1>4, <1>5, <1>6 DEF Grown

(* c_count counts the characters on the screen.                            *)
Counted == c_count = Len(FlattenSeq(Shown(FlattenSeq(screen))))
-----------------------------------------------------------------------------
(* The inductive invariant of the walks, and the theorems.                 *)

(* The walks, and where they end.                                          *)
OnScreen ==
    /\ walk = "screen" /\ serial = <<>>
    /\ Follows(screen) /\ Counted /\ Reached(Len(screen))
OnSerial ==
    /\ walk = "serial" /\ Len(screen) = Len(parts)
    /\ Follows(screen) /\ Counted /\ Follows(serial) /\ Reached(Len(serial))
BothDone ==
    /\ walk = "done" /\ Len(screen) = Len(parts) /\ Len(serial) = Len(parts)
    /\ Follows(screen) /\ Counted /\ Follows(serial)
CutOff == walk = "beyond" /\ parts # <<>> /\ CutShort(parts[Len(parts)])

(* The inductive invariant of the walks.                                   *)
WalkInv == parts \in Formats /\ (OnScreen \/ OnSerial \/ BothDone \/ CutOff)

(* The beginning of a walk.                                                *)
LEMMA EmptyFollows ==
    ASSUME parts \in Formats
    PROVE  /\ <<>> \in Seq(Seq(Texts)) /\ Len(<<>>) = 0 /\ Len(<<>>) <= Len(parts)
           /\ 1..Len(<<>>) = {}
           /\ Positions(parts)[0] = 0 /\ ArgumentsBefore(0 + 1) = 0
<1>1. /\ <<>> \in Seq(Seq(Texts)) /\ Len(<<>>) = 0
      /\ 1..Len(<<>>) = {}
  OBVIOUS
<1>2. Len(<<>>) <= Len(parts)
  BY <1>1, FormatIs
<1>3. Positions(parts)[0] = 0
  BY FormatIs DEF Lays
<1>4. ArgumentsBefore(0 + 1) = 0
  BY CountsFrom
<1> QED BY <1>1, <1>2, <1>3, <1>4

(* It holds initially.                                                     *)
LEMMA WalkInit ==
    ASSUME PrintkInit
    PROVE  WalkInv
<1>1. parts \in Formats /\ fmt = 1 /\ taken = 0 /\ walk = "screen" /\ screen = <<>> /\ serial = <<>>
      /\ c_count = 0
  BY DEF PrintkInit
<1>2. Follows(screen)
  BY <1>1, EmptyFollows DEF Follows
<1>3. Reached(Len(screen))
  <2>1. Len(screen) = 0
    BY <1>1
  <2>2. Reached(0)
    BY <1>1, EmptyFollows DEF Reached
  <2> QED BY <2>1, <2>2
<1>4. Counted
  <2>1. FlattenSeq(<<>>) = <<>>
    BY DEF FlattenSeq
  <2>2. Shown(<<>>) = <<>>
    BY DEF Shown
  <2>3. Len(<<>>) = 0
    OBVIOUS
  <2> QED BY <1>1, <2>1, <2>2, <2>3 DEF Counted
<1> QED BY <1>1, <1>2, <1>3, <1>4 DEF WalkInv, OnScreen

(* The arguments before a part stay the same.                              *)
LEMMA CountKept ==
    ASSUME parts' = parts
    PROVE  \A n : ArgumentsBefore(n)' = ArgumentsBefore(n)
BY DEF ArgumentsBefore

(* What a walk that goes on does to its own output.                        *)
LEMMA ScreenGrows ==
    ASSUME NEW texts, NEW n, NEW k, Calls(texts, n, k), walk = "screen",
           ~(fmt + n > Len(Spelling) + 1)
    PROVE  /\ screen' = Append(screen, texts) /\ serial' = serial
           /\ c_count' = c_count + Len(FlattenSeq(Shown(texts)))
           /\ fmt' = fmt + n /\ taken' = taken + k /\ walk' = walk
           /\ parts' = parts /\ args' = args
  BY DEF Calls

(* The same of the walk for the serial port.                               *)
LEMMA SerialGrows ==
    ASSUME NEW texts, NEW n, NEW k, Calls(texts, n, k), walk = "serial",
           ~(fmt + n > Len(Spelling) + 1)
    PROVE  /\ serial' = Append(serial, texts) /\ screen' = screen
           /\ c_count' = c_count
           /\ fmt' = fmt + n /\ taken' = taken + k /\ walk' = walk
           /\ parts' = parts /\ args' = args
  BY DEF Calls

(* Behind the last part a walk can only end.                               *)
LEMMA EndsHere ==
    ASSUME parts \in Formats, Reached(Len(parts)), WalkNext
    PROVE  EndOfFormat
<1>1. At(fmt) = Nul
  BY FormatEnds DEF Reached
<1> QED BY <1>1, NoSize DEF WalkNext, Plain, PrintNumber, PrintText, PrintLiteral

(* An output with one round more follows the format,                       *)
LEMMA GrownFollows ==
    ASSUME parts' = parts, args' = args
    PROVE  /\ Grown(screen, screen') => Follows(screen)'
           /\ Grown(serial, serial') => Follows(serial)'
<1>1. \A n : Expected(n)' = Expected(n)
  BY ExpectedKept
<1> QED BY <1>1 DEF Follows, Grown

(* and the walk is behind that part.                                       *)
LEMMA ReachedNext ==
    ASSUME NEW q, parts' = parts, fmt' = Positions(parts)[q] + 1, taken' = ArgumentsBefore(q + 1)
    PROVE  (Len(screen)' = q => Reached(Len(screen))') /\ (Len(serial)' = q => Reached(Len(serial))')
<1>1. Len(screen') = q => Reached(Len(screen))'
  BY DEF Reached, ArgumentsBefore
<1>2. Len(serial') = q => Reached(Len(serial))'
  BY DEF Reached, ArgumentsBefore
<1> QED BY <1>1, <1>2

(* A round of the walk for the screen, or its end.                         *)
LEMMA ScreenStep ==
    ASSUME parts \in Formats, ArgumentsType, OnScreen, WalkNext
    PROVE  WalkInv'
<1>0. /\ walk = "screen" /\ serial = <<>> /\ Follows(screen) /\ Counted /\ Reached(Len(screen))
      /\ Len(screen) \in Nat /\ Len(screen) <= Len(parts) /\ Len(parts) \in Nat
  <2>1. screen \in Seq(Seq(Texts)) /\ Len(screen) <= Len(parts)
    BY DEF OnScreen, Follows
  <2>2. Len(screen) \in Nat
    BY <2>1
  <2> QED BY <2>1, <2>2, FormatIs DEF OnScreen
<1>1. CASE Len(screen) = Len(parts)
  <2>1. EndOfFormat
    BY <1>0, <1>1, EndsHere
  <2>2. /\ walk' = "serial" /\ fmt' = 1 /\ taken' = 0 /\ parts' = parts /\ args' = args
        /\ screen' = screen /\ serial' = serial /\ c_count' = c_count
    BY <1>0, <2>1 DEF EndOfFormat, ResetArgs
  <2>3. Follows(serial)
    BY <1>0, EmptyFollows DEF Follows
  <2>4. Follows(screen)' /\ Follows(serial)'
    BY <1>0, <2>2, <2>3, FollowsKept
  <2>5. Counted'
    BY <1>0, <2>2 DEF Counted
  <2>6. Reached(Len(serial))'
    <3>1. Len(serial') = 0
      BY <1>0, <2>2
    <3>2. fmt' = Positions(parts)[0] + 1 /\ taken' = ArgumentsBefore(0 + 1)
      BY <2>2, EmptyFollows
    <3> QED BY <2>2, <3>1, <3>2, ReachedNext
  <2> QED BY <1>0, <1>1, <2>2, <2>4, <2>5, <2>6 DEF WalkInv, OnSerial
<1>2. CASE Len(screen) < Len(parts)
  <2> DEFINE p == Len(screen)
             part == parts[p + 1]
             texts == Expected(p + 1)
  <2>1. CASE walk' = "beyond" /\ parts' = parts /\ CutShort(parts[Len(parts)]) /\ parts # <<>>
    BY <2>1 DEF WalkInv, CutOff
  <2>2. CASE /\ IsPart(part) /\ texts \in Seq(Texts)
             /\ Calls(texts, Len(part), TakenBy(part))
             /\ fmt + Len(part) = Positions(parts)[p + 1] + 1
             /\ ~(fmt + Len(part) > Len(Spelling) + 1)
             /\ taken + TakenBy(part) = ArgumentsBefore((p + 1) + 1)
    <3>1. /\ screen' = Append(screen, texts) /\ serial' = serial
          /\ c_count' = c_count + Len(FlattenSeq(Shown(texts)))
          /\ fmt' = fmt + Len(part) /\ taken' = taken + TakenBy(part) /\ walk' = walk
          /\ parts' = parts /\ args' = args
      BY <1>0, <2>2, ScreenGrows
    <3>2. Grown(screen, screen')
      BY <1>0, <1>2, <2>2, <3>1, OutGrows
    <3>3. Follows(screen)'
      BY <3>1, <3>2, GrownFollows
    <3>4. Counted'
      <4>1. screen \in Seq(Seq(Texts))
        BY <1>0 DEF Follows
      <4>2. Len(FlattenSeq(Shown(FlattenSeq(screen'))))
               = Len(FlattenSeq(Shown(FlattenSeq(screen)))) + Len(FlattenSeq(Shown(texts)))
        BY <2>2, <3>1, <4>1, CountGrows
      <4> QED BY <1>0, <3>1, <4>2 DEF Counted
    <3>5. Reached(Len(screen))'
      <4>1. PICK q : q = p + 1
        OBVIOUS
      <4>2. Len(screen') = q
        BY <3>2, <4>1 DEF Grown
      <4>3. fmt' = Positions(parts)[q] + 1 /\ taken' = ArgumentsBefore(q + 1)
        BY <2>2, <3>1, <4>1
      <4> QED BY <3>1, <4>2, <4>3, ReachedNext
    <3> QED BY <1>0, <3>1, <3>3, <3>4, <3>5 DEF WalkInv, OnScreen
  <2> HIDE DEF texts, part
  <2> QED BY <1>0, <1>2, <2>1, <2>2, RoundGoesOn DEF texts, part
<1> QED BY <1>0, <1>1, <1>2

(* A round of the walk for the serial port, or its end.                    *)
LEMMA SerialStep ==
    ASSUME parts \in Formats, ArgumentsType, OnSerial, WalkNext
    PROVE  WalkInv'
<1>0. /\ walk = "serial" /\ Len(screen) = Len(parts)
      /\ Follows(screen) /\ Counted /\ Follows(serial) /\ Reached(Len(serial))
      /\ Len(serial) \in Nat /\ Len(serial) <= Len(parts) /\ Len(parts) \in Nat
  <2>1. serial \in Seq(Seq(Texts)) /\ Len(serial) <= Len(parts)
    BY DEF OnSerial, Follows
  <2>2. Len(serial) \in Nat
    BY <2>1
  <2> QED BY <2>1, <2>2, FormatIs DEF OnSerial
<1>1. CASE Len(serial) = Len(parts)
  <2>1. EndOfFormat
    BY <1>0, <1>1, EndsHere
  <2>2. /\ walk' = "done" /\ parts' = parts /\ args' = args
        /\ screen' = screen /\ serial' = serial /\ c_count' = c_count
    BY <1>0, <2>1 DEF EndOfFormat
  <2>3. Follows(screen)' /\ Follows(serial)'
    BY <1>0, <2>2, FollowsKept
  <2>4. Counted'
    BY <1>0, <2>2 DEF Counted
  <2> QED BY <1>0, <1>1, <2>2, <2>3, <2>4 DEF WalkInv, BothDone
<1>2. CASE Len(serial) < Len(parts)
  <2> DEFINE p == Len(serial)
             part == parts[p + 1]
             texts == Expected(p + 1)
  <2>1. CASE walk' = "beyond" /\ parts' = parts /\ CutShort(parts[Len(parts)]) /\ parts # <<>>
    BY <2>1 DEF WalkInv, CutOff
  <2>2. CASE /\ IsPart(part) /\ texts \in Seq(Texts)
             /\ Calls(texts, Len(part), TakenBy(part))
             /\ fmt + Len(part) = Positions(parts)[p + 1] + 1
             /\ ~(fmt + Len(part) > Len(Spelling) + 1)
             /\ taken + TakenBy(part) = ArgumentsBefore((p + 1) + 1)
    <3>1. /\ serial' = Append(serial, texts) /\ screen' = screen /\ c_count' = c_count
          /\ fmt' = fmt + Len(part) /\ taken' = taken + TakenBy(part) /\ walk' = walk
          /\ parts' = parts /\ args' = args
      BY <1>0, <2>2, SerialGrows
    <3>2. Grown(serial, serial')
      BY <1>0, <1>2, <2>2, <3>1, OutGrows
    <3>3. Follows(serial)' /\ Follows(screen)'
      BY <1>0, <3>1, <3>2, GrownFollows, FollowsKept
    <3>4. Counted'
      BY <1>0, <3>1 DEF Counted
    <3>5. Reached(Len(serial))'
      <4>1. PICK q : q = p + 1
        OBVIOUS
      <4>2. Len(serial') = q
        BY <3>2, <4>1 DEF Grown
      <4>3. fmt' = Positions(parts)[q] + 1 /\ taken' = ArgumentsBefore(q + 1)
        BY <2>2, <3>1, <4>1
      <4> QED BY <3>1, <4>2, <4>3, ReachedNext
    <3> QED BY <1>0, <3>1, <3>3, <3>4, <3>5 DEF WalkInv, OnSerial
  <2> HIDE DEF texts, part
  <2> QED BY <1>0, <1>2, <2>1, <2>2, RoundGoesOn DEF texts, part
<1> QED BY <1>0, <1>1, <1>2

(* Every step keeps the invariant.                                         *)
LEMMA WalkKept ==
    ASSUME ArgumentsType, WalkInv, [PrintkNext]_printkVars
    PROVE  WalkInv'
<1>1. CASE WalkNext
  <2>1. walk \in {"screen", "serial"}
    BY <1>1 DEF WalkNext
  <2>2. OnScreen \/ OnSerial
    BY <2>1 DEF WalkInv, BothDone, CutOff
  <2> QED BY <1>1, <2>2, ScreenStep, SerialStep DEF WalkInv
<1>2. CASE UNCHANGED printkVars
  <2>1. /\ walk' = walk /\ parts' = parts /\ args' = args /\ screen' = screen /\ serial' = serial
        /\ c_count' = c_count /\ fmt' = fmt /\ taken' = taken
    BY <1>2 DEF printkVars
  <2>2. /\ Follows(screen) => Follows(screen)'
        /\ Follows(serial) => Follows(serial)'
    BY <2>1, FollowsKept
  <2>3. Counted => Counted'
    BY <2>1 DEF Counted
  <2>4. /\ Reached(Len(screen)) => Reached(Len(screen))'
        /\ Reached(Len(serial)) => Reached(Len(serial))'
    BY <2>1 DEF Reached, ArgumentsBefore
  <2>5. parts \in Formats => parts' \in Formats
    BY <2>1
  <2>6. OnScreen => OnScreen'
    BY <2>1, <2>2, <2>3, <2>4 DEF OnScreen
  <2>7. OnSerial => OnSerial'
    BY <2>1, <2>2, <2>3, <2>4 DEF OnSerial
  <2>8. BothDone => BothDone'
    BY <2>1, <2>2, <2>3 DEF BothDone
  <2>9. CutOff => CutOff'
    BY <2>1 DEF CutOff
  <2> QED BY <2>5, <2>6, <2>7, <2>8, <2>9 DEF WalkInv
<1> QED BY <1>1, <1>2 DEF PrintkNext, Finished

(* PrintkWalks: both walks go through the format part by part, each with   *)
(* its own argument, and hand on what the part stands for.                 *)
THEOREM PrintkWalks == PrintkSpec => [](ArgumentsType /\ WalkInv)
<1>1. PrintkInit => ArgumentsType /\ WalkInv
  BY ArgumentsInit, WalkInit
<1>2. ArgumentsType /\ WalkInv /\ [PrintkNext]_printkVars => (ArgumentsType /\ WalkInv)'
  BY ArgumentsKept, WalkKept
<1> QED BY <1>1, <1>2, PTL DEF PrintkSpec

(* PrintkReadsInside: _printk reads beyond the terminator only if the      *)
(* format ends within a directive.                                         *)
THEOREM PrintkReadsInside == PrintkSpec => []ReadsInside
<1>1. WalkInv => ReadsInside
  <2>1. WalkInv /\ walk = "beyond" => CutShort(parts[Len(parts)])
    BY DEF WalkInv, OnScreen, OnSerial, BothDone, CutOff
  <2> QED BY <2>1 DEF ReadsInside, Last
<1> QED BY <1>1, PrintkWalks, PTL

(* When both walks are done, the format is printed.                        *)
LEMMA DoneIsPrinted ==
    ASSUME ArgumentsType, WalkInv
    PROVE  PrintsFormat
<1> SUFFICES ASSUME walk = "done"
             PROVE  /\ serial = screen
                    /\ Len(screen) = Len(parts)
                    /\ c_count = Len(FlattenSeq(Shown(FlattenSeq(screen))))
                    /\ \A n \in 1..Len(parts) :
                        StandsFor(screen[n], parts[n], ArgumentAt(ArgumentsBefore(n)))
  BY DEF PrintsFormat
<1>1. /\ parts \in Formats /\ Len(screen) = Len(parts) /\ Len(serial) = Len(parts)
      /\ Follows(screen) /\ Counted /\ Follows(serial)
  BY DEF WalkInv, OnScreen, OnSerial, BothDone, CutOff
<1>2. /\ screen \in Seq(Seq(Texts)) /\ serial \in Seq(Seq(Texts))
      /\ \A n \in 1..Len(parts) : screen[n] = Expected(n) /\ serial[n] = Expected(n)
  BY <1>1 DEF Follows
<1>3. serial = screen
  <2>0. PICK T : T = Seq(Texts)
    OBVIOUS
  <2>1. PICK a \in Seq(T), b \in Seq(T) : a = serial /\ b = screen
    BY <1>2, <2>0
  <2>2. Len(a) = Len(b) /\ \A n \in 1..Len(a) : a[n] = b[n]
    BY <1>1, <1>2, <2>1
  <2>3. a = b
    BY <2>2, SameSequence
  <2> QED BY <2>1, <2>3
<1>4. ASSUME NEW n \in 1..Len(parts)
      PROVE  StandsFor(screen[n], parts[n], ArgumentAt(ArgumentsBefore(n)))
  <2>1. ArgumentsBefore(n) \in Nat
    <3>1. PICK p \in Nat : p = n - 1 /\ p < Len(parts) /\ p + 1 = n
      BY <1>1, FormatIs
    <3> QED BY <1>1, <3>1, CountsOn
  <2>2. ArgumentAt(ArgumentsBefore(n)) \in Words
    BY <2>1, ArgumentIs
  <2>3. screen[n] = Round(parts[n], ArgumentAt(ArgumentsBefore(n)))
    BY <1>2 DEF Expected
  <2> QED BY <2>2, <2>3, RoundStands
<1> QED BY <1>1, <1>3, <1>4 DEF Counted

(* PrintkPrintsFormat: a format that _printk gets through is printed part  *)
(* by part, each directive with its own argument as converted and at full  *)
(* width, on the screen and on the serial port alike, and the characters   *)
(* the screen shows are counted, four for a tab.                           *)
THEOREM PrintkPrintsFormat == PrintkSpec => []PrintsFormat
<1> QED BY PrintkWalks, DoneIsPrinted, PTL
=============================================================================
