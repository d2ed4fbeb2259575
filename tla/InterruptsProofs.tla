--------------------------- MODULE InterruptsProofs ---------------------------
(***************************************************************************)
(* Theorems about Interrupts, for all lines, masks, exceptions and depths. *)
(***************************************************************************)
EXTENDS Interrupts, SequenceTheorems, TLAPS

CallsOK == calls \in Seq(Call)

(* What a step may change of the calls: the processor enters one, the last *)
(* one goes on, the last one returns.                                      *)
SameButWhole(c, d) ==
    /\ c.vector = d.vector /\ c.error = d.error /\ c.flag = d.flag
    /\ c.at = d.at /\ c.runs = d.runs

LEMMA EnterCalls ==
    ASSUME CallsOK, flag \in BOOLEAN, NEW v \in 0..47, NEW error \in BOOLEAN,
           Enter(v, error)
    PROVE  /\ CallsOK'
           /\ Len(calls') = Len(calls) + 1
           /\ calls'[Len(calls) + 1] = [vector |-> v, error |-> error, flag |-> flag,
                                        at |-> "first", runs |-> v, whole |-> TRUE]
           /\ \A i \in 1..Len(calls) :
                /\ SameButWhole(calls'[i], calls[i])
                /\ calls'[i].whole = (calls[i].whole /\ ~(OwnStack(v) /\ calls[i].vector = v))
<1> DEFINE new == [vector |-> v, error |-> error, flag |-> flag, at |-> "first",
                   runs |-> v, whole |-> TRUE]
           Old(i) == IF OwnStack(v) /\ calls[i].vector = v
                     THEN [calls[i] EXCEPT !.whole = FALSE] ELSE calls[i]
           old == [i \in 1..Len(calls) |-> Old(i)]
<1>1. calls' = Append(old, new)
  BY DEF Enter
<1>2. new \in Call
  BY DEF Call, Points
<1>3. /\ Len(calls) \in Nat
      /\ \A i \in 1..Len(calls) : calls[i] \in Call
  BY DEF CallsOK
<1>4. \A i \in 1..Len(calls) :
        /\ Old(i) \in Call
        /\ SameButWhole(Old(i), calls[i])
        /\ Old(i).whole = (calls[i].whole /\ ~(OwnStack(v) /\ calls[i].vector = v))
  <2> SUFFICES ASSUME NEW i \in 1..Len(calls)
               PROVE  /\ Old(i) \in Call
                      /\ SameButWhole(Old(i), calls[i])
                      /\ Old(i).whole
                         = (calls[i].whole /\ ~(OwnStack(v) /\ calls[i].vector = v))
    OBVIOUS
  <2>1. calls[i] \in Call
    BY <1>3
  <2>2. CASE OwnStack(v) /\ calls[i].vector = v
    <3>1. Old(i) = [calls[i] EXCEPT !.whole = FALSE]
      BY <2>2
    <3> QED
      BY <2>1, <2>2, <3>1 DEF Call, SameButWhole
  <2>3. CASE ~(OwnStack(v) /\ calls[i].vector = v)
    <3>1. Old(i) = calls[i]
      BY <2>3
    <3> HIDE DEF Old
    <3> QED
      BY <2>1, <2>3, <3>1 DEF Call, SameButWhole
  <2> QED
    BY <2>2, <2>3
<1> HIDE DEF new, Old
<1>5. old \in Seq(Call) /\ Len(old) = Len(calls)
  BY <1>3, <1>4
<1>6. \A i \in 1..Len(calls) : old[i] = Old(i)
  OBVIOUS
<1> HIDE DEF old
<1>7. /\ calls' \in Seq(Call) /\ Len(calls') = Len(calls) + 1
      /\ calls'[Len(calls) + 1] = new
      /\ \A i \in 1..Len(calls) : calls'[i] = old[i]
  BY <1>1, <1>2, <1>3, <1>5
<1> QED
  BY <1>4, <1>6, <1>7 DEF new, CallsOK

LEMMA GotoCalls ==
    ASSUME CallsOK, calls # <<>>, NEW point \in Points, Goto(point)
    PROVE  /\ CallsOK' /\ Len(calls') = Len(calls)
           /\ calls'[Len(calls)] = [calls[Len(calls)] EXCEPT !.at = point]
           /\ \A i \in 1..(Len(calls) - 1) : calls'[i] = calls[i]
<1>1. Len(calls) \in 1..Len(calls) /\ calls[Len(calls)] \in Call
  BY DEF CallsOK
<1>2. [calls[Len(calls)] EXCEPT !.at = point] \in Call
  BY <1>1 DEF Call
<1> QED
  BY <1>1, <1>2 DEF CallsOK, Goto

LEMMA PushCalls ==
    ASSUME CallsOK, after_push \in 0..47, push_reg
    PROVE  /\ CallsOK' /\ Len(calls') = Len(calls)
           /\ calls'[Len(calls)]
              = [calls[Len(calls)] EXCEPT !.at = "c", !.runs = after_push]
           /\ \A i \in 1..(Len(calls) - 1) : calls'[i] = calls[i]
<1>1. Len(calls) \in 1..Len(calls) /\ calls[Len(calls)] \in Call
  BY DEF CallsOK, push_reg, In
<1> DEFINE now == [calls[Len(calls)] EXCEPT !.at = "c", !.runs = after_push]
<1>2. now \in Call
  BY <1>1 DEF Call, Points
<1>3. calls' = [calls EXCEPT ![Len(calls)] = now]
  BY DEF push_reg
<1> HIDE DEF now
<1>4. /\ CallsOK' /\ Len(calls') = Len(calls)
      /\ calls'[Len(calls)] = now
      /\ \A i \in 1..(Len(calls) - 1) : calls'[i] = calls[i]
  BY <1>1, <1>2, <1>3 DEF CallsOK
<1> QED
  BY <1>4 DEF now

LEMMA PopCalls ==
    ASSUME CallsOK, calls # <<>>, calls' = SubSeq(calls, 1, Len(calls) - 1)
    PROVE  /\ CallsOK' /\ Len(calls') = Len(calls) - 1
           /\ \A i \in 1..(Len(calls) - 1) : calls'[i] = calls[i]
<1> DEFINE n == Len(calls) - 1
<1>1. n \in Nat /\ n <= Len(calls)
  BY DEF CallsOK
<1>2. \A i \in 1..n : calls[i] \in Call
  BY <1>1 DEF CallsOK
<1>3. /\ SubSeq(calls, 1, n) \in Seq(Call)
      /\ Len(SubSeq(calls, 1, n)) = IF 1 <= n THEN n - 1 + 1 ELSE 0
      /\ \A i \in 1..(n - 1 + 1) : SubSeq(calls, 1, n)[i] = calls[1 + i - 1]
  <2>1. n \in Int /\ 1 \in Int
    BY <1>1
  <2> HIDE DEF n
  <2> QED
    BY <1>2, <2>1, SubSeqProperties
<1>4. /\ Len(SubSeq(calls, 1, n)) = n
      /\ \A i \in 1..n : SubSeq(calls, 1, n)[i] = calls[i]
  <2> HIDE DEF n
  <2>1. n - 1 + 1 = n /\ (~(1 <= n) => n = 0) /\ \A i \in 1..n : 1 + i - 1 = i
    BY <1>1
  <2>2. CASE 1 <= n
    BY <1>3, <2>1, <2>2
  <2>3. CASE ~(1 <= n)
    BY <1>3, <2>1, <2>3
  <2> QED
    BY <2>2, <2>3
<1> QED
  BY <1>3, <1>4 DEF CallsOK
-----------------------------------------------------------------------------
(* Types.                                                                  *)
(* Everything a step can do to the calls and the labels.                   *)
Entering == \E v \in 0..47, error \in BOOLEAN : Enter(v, error) /\ (flag \/ v < 32)

LEMMA AcceptableLines ==
    ASSUME InterruptsTypeOK
    PROVE  Acceptable \subseteq Lines
  BY InterruptsAssumption
     DEF InterruptsTypeOK, Acceptable, Ahead, Master, Slave, Cascade

LEMMA EnteringSteps ==
    ASSUME InterruptsTypeOK,
           Accept \/ (\E v \in Faults : Fault(v)) \/ NonMaskable \/ SoftwareInterrupt
    PROVE  Entering
<1>1. CASE Accept
  <2>1. PICK line \in Acceptable : Enter(Vector(line), FALSE) /\ flag
    BY <1>1 DEF Accept
  <2>2. line \in 0..15
    BY AcceptableLines, InterruptsAssumption
  <2>3. Vector(line) \in 0..47
    BY <2>2 DEF Vector
  <2> QED
    BY <2>1, <2>3 DEF Entering
<1>2. CASE \E v \in Faults : Fault(v)
  <2>1. PICK v \in Faults : Enter(v, PopsErrorCode(v))
    BY <1>2 DEF Fault
  <2>2. v \in 0..47 /\ v < 32 /\ PopsErrorCode(v) \in BOOLEAN
    BY InterruptsAssumption DEF PopsErrorCode
  <2> QED
    BY <2>1, <2>2 DEF Entering
<1>3. CASE NonMaskable
  <2>1. Enter(NMI, FALSE)
    BY <1>3 DEF NonMaskable
  <2>2. NMI \in 0..47 /\ NMI < 32
    BY DEF NMI
  <2> QED
    BY <2>1, <2>2 DEF Entering
<1>4. CASE SoftwareInterrupt
  <2>1. PICK v \in {13, 14} : Enter(v, FALSE)
    BY <1>4 DEF SoftwareInterrupt
  <2>2. v \in 0..47 /\ v < 32
    OBVIOUS
  <2> QED
    BY <2>1, <2>2 DEF Entering
<1> QED
  BY <1>1, <1>2, <1>3, <1>4

LEMMA TypedInit == InterruptsInit => InterruptsTypeOK
<1> SUFFICES ASSUME InterruptsInit PROVE InterruptsTypeOK
  OBVIOUS
<1>1. imr \subseteq Lines \cup {2}
  BY InterruptsAssumption DEF InterruptsInit
<1>2. calls = <<>> /\ calls \in Seq(Call) /\ Len(calls) <= MaxDepth
  BY InterruptsAssumption DEF InterruptsInit
<1>3. /\ irr \subseteq Lines /\ inService \subseteq Lines \cup {Cascade}
      /\ after_push \in 0..47 /\ after_pop \in 0..47
      /\ imr \subseteq Lines \cup {Cascade, 4}
  BY <1>1 DEF InterruptsInit, Cascade
<1>4. flag \in BOOLEAN /\ lost \in BOOLEAN /\ tangled \in BOOLEAN
  BY DEF InterruptsInit
<1>5. phase \in {"boot", "masked", "cleared", "on"}
  BY DEF InterruptsInit
<1> QED
  BY <1>2, <1>3, <1>4, <1>5 DEF InterruptsTypeOK

(* The part of the type invariant the calls do not matter for.             *)
RestOK ==
    /\ imr \subseteq Lines \cup {Cascade, 4} /\ irr \subseteq Lines
    /\ inService \subseteq Lines \cup {Cascade}
    /\ flag \in BOOLEAN
    /\ after_push \in 0..47 /\ after_pop \in 0..47
    /\ phase \in {"boot", "masked", "cleared", "on"}
    /\ lost \in BOOLEAN /\ tangled \in BOOLEAN

LEMMA TypedSplit == InterruptsTypeOK <=> RestOK /\ CallsOK /\ Len(calls) <= MaxDepth
  BY DEF InterruptsTypeOK, RestOK, CallsOK

LEMMA TypedSplitNext ==
    InterruptsTypeOK' <=> (RestOK /\ CallsOK /\ Len(calls) <= MaxDepth)'
  BY DEF InterruptsTypeOK, RestOK, CallsOK

LEMMA TypedStep == InterruptsTypeOK /\ [InterruptsNext]_vars => InterruptsTypeOK'
<1> SUFFICES ASSUME InterruptsTypeOK, [InterruptsNext]_vars PROVE InterruptsTypeOK'
  OBVIOUS
<1>0. RestOK /\ CallsOK /\ Len(calls) <= MaxDepth /\ MaxDepth \in Nat
  BY TypedSplit, InterruptsAssumption
<1>1. CASE \E line \in Lines : Raise(line)
  <2>1. RestOK' /\ UNCHANGED calls
    BY <1>0, <1>1 DEF Raise, RestOK, slots
  <2> QED
    BY <1>0, <2>1, TypedSplitNext DEF CallsOK
<1>2. CASE Accept \/ (\E v \in Faults : Fault(v)) \/ NonMaskable \/ SoftwareInterrupt
  <2>1. PICK v \in 0..47, error \in BOOLEAN : Enter(v, error)
    BY <1>2, EnteringSteps DEF Entering
  <2>2. CallsOK' /\ Len(calls') = Len(calls) + 1
    BY <1>0, <2>1, EnterCalls DEF RestOK
  <2>3. (Len(calls) <= MaxDepth)'
    BY <1>0, <2>1, <2>2 DEF Enter, CallsOK
  <2>4. imr' \subseteq Lines \cup {Cascade, 4} /\ irr' \subseteq Lines
        /\ inService' \subseteq Lines \cup {Cascade}
    <3>1. CASE Accept
      BY <1>0, <3>1, AcceptableLines DEF Accept, RestOK
    <3>2. CASE ~Accept
      BY <1>0, <1>2, <3>2 DEF RestOK, Fault, NonMaskable, SoftwareInterrupt, pic
    <3> QED
      BY <3>1, <3>2
  <2>5. RestOK'
    BY <1>0, <2>1, <2>4 DEF RestOK, Enter, slots
  <2> QED
    BY <2>2, <2>3, <2>5, TypedSplitNext
<1>3. CASE StoreAfterPush
  <2>1. calls # <<>> /\ Goto("second") /\ "second" \in Points
    BY <1>3 DEF StoreAfterPush, In, Points
  <2>2. CallsOK' /\ Len(calls') = Len(calls)
    BY <1>0, <2>1, GotoCalls
  <2>3. Running \in Call
    BY <1>0, <2>1 DEF CallsOK, Running
  <2>4. RestOK'
    BY <1>0, <1>3, <2>3 DEF RestOK, StoreAfterPush, pic, Call
  <2> QED
    BY <1>0, <2>2, <2>4, TypedSplitNext
<1>4. CASE StoreAfterPop
  <2>1. calls # <<>> /\ Goto("push") /\ "push" \in Points
    BY <1>4 DEF StoreAfterPop, In, Points
  <2>2. CallsOK' /\ Len(calls') = Len(calls)
    BY <1>0, <2>1, GotoCalls
  <2>3. Running \in Call
    BY <1>0, <2>1 DEF CallsOK, Running
  <2>4. RestOK'
    BY <1>0, <1>4, <2>3 DEF RestOK, StoreAfterPop, pic, Call
  <2> QED
    BY <1>0, <2>2, <2>4, TypedSplitNext
<1>5. CASE push_reg
  <2>1. CallsOK' /\ Len(calls') = Len(calls)
    BY <1>0, <1>5, PushCalls DEF RestOK
  <2>2. RestOK'
    BY <1>0, <1>5 DEF RestOK, push_reg, pic, slots
  <2> QED
    BY <1>0, <2>1, <2>2, TypedSplitNext
<1>6. CASE pop_reg
  <2>1. calls # <<>> /\ Len(calls) \in Nat /\ Running \in Call
    BY <1>0, <1>6 DEF pop_reg, In, CallsOK, Running
  <2>2. RestOK'
    BY <1>0, <1>6, <2>1 DEF RestOK, pop_reg, pic, slots, Call
  <2>3. CASE calls' = SubSeq(calls, 1, Len(calls) - 1)
    <3>1. CallsOK' /\ Len(calls') = Len(calls) - 1
      BY <1>0, <2>1, <2>3, PopCalls
    <3> QED
      BY <1>0, <2>1, <2>2, <3>1, TypedSplitNext
  <2>4. CASE UNCHANGED calls
    BY <1>0, <2>2, <2>4, TypedSplitNext DEF CallsOK
  <2> QED
    BY <1>6, <2>3, <2>4 DEF pop_reg
<1>7. CASE Handle
  <2> DEFINE point == IF Running.runs \in {Vector(l) : l \in 0..15} THEN "eoi" ELSE "pop"
  <2>1. calls # <<>> /\ Goto(point)
    BY <1>7 DEF Handle, In
  <2>2. point \in Points
    BY DEF Points
  <2> HIDE DEF point
  <2>3. CallsOK' /\ Len(calls') = Len(calls)
    BY <1>0, <2>1, <2>2, GotoCalls
  <2>4. RestOK'
    BY <1>0, <1>7 DEF RestOK, Handle, sti, pic, slots
  <2> QED
    BY <1>0, <2>3, <2>4, TypedSplitNext
<1>8. CASE EndOfInterrupt
  <2>1. calls # <<>> /\ Goto("pop") /\ "pop" \in Points
    BY <1>8 DEF EndOfInterrupt, In, Points
  <2>2. CallsOK' /\ Len(calls') = Len(calls)
    BY <1>0, <2>1, GotoCalls
  <2>3. RestOK'
    BY <1>0, <1>8 DEF RestOK, EndOfInterrupt, IRQ_end_of_interrupt, WithoutFirst,
                      Master, Slave, slots
  <2> QED
    BY <1>0, <2>2, <2>3, TypedSplitNext
<1>9. CASE kmain
  <2>1. RestOK' /\ UNCHANGED calls
    BY <1>0, <1>9, InterruptsAssumption
       DEF RestOK, kmain, IRQ_set_mask, IRQ_clear_mask, sti, slots
  <2> QED
    BY <1>0, <2>1, TypedSplitNext DEF CallsOK
<1>10. CASE UNCHANGED vars
  <2>1. RestOK' /\ UNCHANGED calls
    BY <1>0, <1>10 DEF RestOK, vars, pic, slots
  <2> QED
    BY <1>0, <2>1, TypedSplitNext DEF CallsOK
<1> QED
  BY <1>1, <1>2, <1>3, <1>4, <1>5, <1>6, <1>7, <1>8, <1>9, <1>10
     DEF InterruptsNext, Stub

(* Every variable keeps its type.                                          *)
THEOREM TypeCorrect == InterruptsSpec => []InterruptsTypeOK
<1> QED
  BY TypedInit, TypedStep, PTL DEF InterruptsSpec
-----------------------------------------------------------------------------
(* No handler runs with interrupts on.  That is inductive with the flags   *)
(* the handlers will restore: only the outermost may restore TRUE.         *)
Off ==
    /\ calls # <<>> => ~flag
    /\ \A i \in 2..Len(calls) : ~calls[i].flag /\ calls[i].vector < 32

(* A step that leaves the flag and what Off reads of the calls alone.      *)
LEMMA OffKept ==
    ASSUME Off, UNCHANGED flag, CallsOK, Len(calls') = Len(calls), CallsOK',
           \A i \in 1..Len(calls) : /\ calls'[i].flag = calls[i].flag
                                    /\ calls'[i].vector = calls[i].vector
    PROVE  Off'
<1>1. calls # <<>> <=> Len(calls) # 0
  BY DEF CallsOK
<1>2. calls' # <<>> <=> Len(calls') # 0
  BY DEF CallsOK
<1>3. \A i \in 2..Len(calls') : i \in 2..Len(calls) /\ i \in 1..Len(calls)
  BY DEF CallsOK
<1> QED
  BY <1>1, <1>2, <1>3 DEF Off

(* Going on at another point leaves both alone, for every call.            *)
LEMMA OffGoto ==
    ASSUME Off, UNCHANGED flag, CallsOK, calls # <<>>, NEW point \in Points, Goto(point)
    PROVE  Off'
<1>1. /\ CallsOK' /\ Len(calls') = Len(calls)
      /\ calls'[Len(calls)] = [calls[Len(calls)] EXCEPT !.at = point]
      /\ \A i \in 1..(Len(calls) - 1) : calls'[i] = calls[i]
  BY GotoCalls
<1>2. calls[Len(calls)] \in Call /\ Len(calls) \in Nat
  BY DEF CallsOK
<1>3. \A i \in 1..Len(calls) : i = Len(calls) \/ i \in 1..(Len(calls) - 1)
  BY <1>2
<1>4. /\ calls'[Len(calls)].flag = calls[Len(calls)].flag
      /\ calls'[Len(calls)].vector = calls[Len(calls)].vector
  BY <1>1, <1>2 DEF Call
<1>5. \A i \in 1..Len(calls) : /\ calls'[i].flag = calls[i].flag
                               /\ calls'[i].vector = calls[i].vector
  BY <1>1, <1>3, <1>4
<1> QED
  BY <1>1, <1>5, OffKept

LEMMA OffStep == InterruptsTypeOK /\ Off /\ [InterruptsNext]_vars => Off'
<1> SUFFICES ASSUME InterruptsTypeOK, Off, [InterruptsNext]_vars PROVE Off'
  OBVIOUS
<1>0. RestOK /\ CallsOK /\ Len(calls) \in Nat
  BY TypedSplit DEF CallsOK
<1>1. CASE \E line \in Lines : Raise(line)
  BY <1>1 DEF Raise, Off
<1>2. CASE Accept \/ (\E v \in Faults : Fault(v)) \/ NonMaskable \/ SoftwareInterrupt
  <2>1. PICK v \in 0..47, error \in BOOLEAN : Enter(v, error) /\ (flag \/ v < 32)
    BY <1>2, EnteringSteps DEF Entering
  <2>2. /\ CallsOK'
        /\ Len(calls') = Len(calls) + 1
        /\ calls'[Len(calls) + 1] = [vector |-> v, error |-> error, flag |-> flag,
                                     at |-> "first", runs |-> v, whole |-> TRUE]
        /\ \A i \in 1..Len(calls) : SameButWhole(calls'[i], calls[i])
    BY <1>0, <2>1, EnterCalls DEF RestOK
  <2>3. flag' = FALSE
    BY <2>1 DEF Enter
  <2>4. ASSUME NEW i \in 2..Len(calls')
        PROVE  ~calls'[i].flag /\ calls'[i].vector < 32
    <3>1. CASE i = Len(calls) + 1
      <4>1. calls # <<>>
        BY <1>0, <3>1, <2>4
      <4>2. ~flag /\ v < 32
        BY <2>1, <4>1 DEF Off
      <4> QED
        BY <2>2, <3>1, <4>2
    <3>2. CASE i # Len(calls) + 1
      <4>1. i \in 2..Len(calls) /\ i \in 1..Len(calls)
        BY <1>0, <2>2, <2>4, <3>2
      <4> QED
        BY <2>2, <4>1 DEF Off, SameButWhole
    <3> QED
      BY <3>1, <3>2
  <2> QED
    BY <2>3, <2>4 DEF Off
<1>3. CASE StoreAfterPush
  <2>1. calls # <<>> /\ Goto("second") /\ "second" \in Points /\ UNCHANGED flag
    BY <1>3 DEF StoreAfterPush, In, Points
  <2> QED
    BY <1>0, <2>1, OffGoto
<1>4. CASE StoreAfterPop
  <2>1. calls # <<>> /\ Goto("push") /\ "push" \in Points /\ UNCHANGED flag
    BY <1>4 DEF StoreAfterPop, In, Points
  <2> QED
    BY <1>0, <2>1, OffGoto
<1>5. CASE push_reg
  <2>1. /\ CallsOK' /\ Len(calls') = Len(calls)
        /\ calls'[Len(calls)]
           = [calls[Len(calls)] EXCEPT !.at = "c", !.runs = after_push]
        /\ \A i \in 1..(Len(calls) - 1) : calls'[i] = calls[i]
    BY <1>0, <1>5, PushCalls DEF RestOK
  <2>2. calls # <<>> /\ UNCHANGED flag
    BY <1>5 DEF push_reg, In
  <2>3. calls[Len(calls)] \in Call
    BY <1>0, <2>2 DEF CallsOK
  <2>4. /\ calls'[Len(calls)].flag = calls[Len(calls)].flag
        /\ calls'[Len(calls)].vector = calls[Len(calls)].vector
    BY <2>1, <2>3 DEF Call
  <2>5. \A i \in 1..Len(calls) : i = Len(calls) \/ i \in 1..(Len(calls) - 1)
    BY <1>0
  <2>6. \A i \in 1..Len(calls) : /\ calls'[i].flag = calls[i].flag
                                 /\ calls'[i].vector = calls[i].vector
    BY <2>1, <2>4, <2>5
  <2> QED
    BY <1>0, <2>1, <2>2, <2>6, OffKept
<1>6. CASE pop_reg
  <2>1. calls # <<>>
    BY <1>6 DEF pop_reg, In
  <2>2. CASE UNCHANGED <<calls, flag>>
    BY <2>2 DEF Off
  <2>3. CASE calls' = SubSeq(calls, 1, Len(calls) - 1) /\ flag' = Running.flag
    <3>1. /\ CallsOK' /\ Len(calls') = Len(calls) - 1
          /\ \A i \in 1..(Len(calls) - 1) : calls'[i] = calls[i]
      BY <1>0, <2>1, <2>3, PopCalls
    <3>2. calls' # <<>> => ~flag'
      <4> SUFFICES ASSUME calls' # <<>> PROVE ~Running.flag
        BY <2>3
      <4>1. Len(calls') # 0 /\ Len(calls') \in Nat
        BY <3>1 DEF CallsOK
      <4>2. Len(calls) \in 2..Len(calls)
        BY <1>0, <3>1, <4>1
      <4> QED
        BY <4>2 DEF Off, Running
    <3>3. \A i \in 2..Len(calls') : i \in 2..Len(calls) /\ i \in 1..(Len(calls) - 1)
      BY <1>0, <3>1
    <3> QED
      BY <3>1, <3>2, <3>3 DEF Off
  <2> QED
    BY <1>6, <2>2, <2>3 DEF pop_reg
<1>7. CASE Handle
  <2> DEFINE point == IF Running.runs \in {Vector(l) : l \in 0..15} THEN "eoi" ELSE "pop"
  <2>1. calls # <<>> /\ Goto(point)
    BY <1>7 DEF Handle, In
  <2>2. point \in Points
    BY DEF Points
  <2>3. UNCHANGED flag
    BY <1>0, <1>7 DEF Handle, sti, RestOK
  <2> HIDE DEF point
  <2> QED
    BY <1>0, <2>1, <2>2, <2>3, OffGoto
<1>8. CASE EndOfInterrupt
  <2>1. calls # <<>> /\ Goto("pop") /\ "pop" \in Points /\ UNCHANGED flag
    BY <1>8 DEF EndOfInterrupt, In, Points
  <2> QED
    BY <1>0, <2>1, OffGoto
<1>9. CASE kmain
  BY <1>9 DEF kmain, Off
<1>10. CASE UNCHANGED vars
  BY <1>10 DEF vars, Off
<1> QED
  BY <1>1, <1>2, <1>3, <1>4, <1>5, <1>6, <1>7, <1>8, <1>9, <1>10
     DEF InterruptsNext, Stub

(* A handler of an IRQ is always the outermost one: the pair of cli and sti*)
(* in generic_interrupt_handler, which stands for those of its callees too,*)
(* never lets another IRQ in.                                              *)
THEOREM HandlersRunAlone == InterruptsSpec => []HandlersAlone
<1>1. InterruptsInit => Off
  BY DEF InterruptsInit, Off
<1>2. Off => HandlersAlone
  BY DEF Off, HandlersAlone, Vector
<1> QED
  BY <1>1, <1>2, TypedInit, TypedStep, OffStep, PTL DEF InterruptsSpec
-----------------------------------------------------------------------------
(* Every handler on the way can still return.  Its own registers and frame *)
(* are as it left them; the label it will leave through drops what it must *)
(* drop, and so does every label that a handler above it may yet store     *)
(* over that one; the two labels are its own while it stores them.         *)
InHandler(c) == c.at \in {"c", "eoi", "pop"}

Intact(c, pop) ==
    /\ c.whole /\ c.runs = c.vector
    /\ c.error = PopsErrorCode(c.vector)
    /\ InHandler(c) => PopsErrorCode(pop) = c.error

Homeward ==
    /\ ~lost
    /\ \A i \in 1..Len(calls) : Intact(calls[i], after_pop)
    /\ \A i \in 1..(Len(calls) - 1) : calls[i].at = "first" \/ InHandler(calls[i])
    /\ \A i, j \in 1..Len(calls) :
        i < j /\ InHandler(calls[i]) => PopsErrorCode(calls[j].vector) = calls[i].error
    /\ calls # <<>> =>
        /\ calls[Len(calls)].at \in {"second", "push"} =>
            after_push = calls[Len(calls)].vector
        /\ calls[Len(calls)].at = "push" => after_pop = calls[Len(calls)].vector

(* A step of the last handler, from within its stub or its C code.         *)
LEMMA HomeGoesOn ==
    ASSUME Homeward, CallsOK, calls # <<>>, UNCHANGED lost,
           NEW d, Len(calls') = Len(calls), CallsOK',
           calls'[Len(calls)] = d,
           \A i \in 1..(Len(calls) - 1) : calls'[i] = calls[i],
           d.vector = calls[Len(calls)].vector, d.error = calls[Len(calls)].error,
           d.whole = calls[Len(calls)].whole, d.runs = d.vector,
           after_pop' = after_pop \/ after_pop' = d.vector,
           InHandler(d) => PopsErrorCode(after_pop') = d.error,
           d.at \in {"second", "push"} => after_push' = d.vector,
           d.at = "push" => after_pop' = d.vector
    PROVE  Homeward'
<1> DEFINE n == Len(calls)
<1>1. n \in Nat /\ n \in 1..n
  BY DEF CallsOK
<1>2. \A i \in 1..n : i = n \/ (i \in 1..(n - 1) /\ i < n)
  BY <1>1
<1>3. Intact(calls[n], after_pop)
  BY <1>1 DEF Homeward
<1>4. ~lost' /\ Len(calls') = n
  BY DEF Homeward
<1>5. ASSUME NEW i \in 1..n PROVE Intact(calls'[i], after_pop')
  <2>1. CASE i = n
    BY <1>3, <2>1 DEF Intact, InHandler
  <2>2. CASE i # n
    <3>1. i \in 1..(n - 1) /\ i < n /\ calls'[i] = calls[i]
      BY <1>2, <2>2
    <3>2. Intact(calls[i], after_pop)
      BY DEF Homeward
    <3>3. InHandler(calls[i]) =>
            PopsErrorCode(calls[n].vector) = calls[i].error
      BY <1>1, <3>1 DEF Homeward
    <3> QED
      BY <3>1, <3>2, <3>3 DEF Intact, InHandler
  <2> QED
    BY <2>1, <2>2
<1>6. ASSUME NEW i \in 1..(n - 1) PROVE (calls[i].at = "first" \/ InHandler(calls[i]))'
  BY <1>6 DEF Homeward, InHandler
<1>7. ASSUME NEW i \in 1..n, NEW j \in 1..n, i < j, InHandler(calls[i])'
      PROVE  (PopsErrorCode(calls[j].vector) = calls[i].error)'
  <2>1. i \in 1..(n - 1) /\ calls'[i] = calls[i]
    BY <1>1, <1>7
  <2>2. calls'[j].vector = calls[j].vector
    BY <1>2
  <2>3. InHandler(calls[i])
    BY <1>7, <2>1 DEF InHandler
  <2>4. PopsErrorCode(calls[j].vector) = calls[i].error
    BY <1>7, <2>3 DEF Homeward
  <2> QED
    BY <2>1, <2>2, <2>4 DEF PopsErrorCode
<1> QED
  BY <1>4, <1>5, <1>6, <1>7 DEF Homeward

LEMMA HomeStep ==
    ASSUME InterruptsTypeOK, ~tangled => Homeward, [InterruptsNext]_vars
    PROVE  ~tangled' => Homeward'
<1> SUFFICES ASSUME ~tangled' PROVE Homeward'
  OBVIOUS
<1>0. RestOK /\ CallsOK /\ Len(calls) \in Nat
  BY TypedSplit DEF CallsOK
<1>a. ~tangled
  BY DEF InterruptsNext, Stub, Raise, Accept, Fault, NonMaskable, SoftwareInterrupt, Enter,
         StoreAfterPush, StoreAfterPop, push_reg, pop_reg, Handle, EndOfInterrupt, kmain, vars
<1>b. Homeward
  BY <1>a
<1>1. CASE \E line \in Lines : Raise(line)
  BY <1>1, <1>b DEF Raise, slots, Homeward, Intact, InHandler
<1>2. CASE Accept \/ (\E v \in Faults : Fault(v)) \/ NonMaskable \/ SoftwareInterrupt
  <2>1. PICK v \in 0..47, error \in BOOLEAN : Enter(v, error)
    BY <1>2, EnteringSteps DEF Entering
  <2>2. /\ CallsOK'
        /\ Len(calls') = Len(calls) + 1
        /\ calls'[Len(calls) + 1] = [vector |-> v, error |-> error, flag |-> flag,
                                     at |-> "first", runs |-> v, whole |-> TRUE]
        /\ \A i \in 1..Len(calls) :
            /\ SameButWhole(calls'[i], calls[i])
            /\ calls'[i].whole = (calls[i].whole /\ ~(OwnStack(v) /\ calls[i].vector = v))
    BY <1>0, <2>1, EnterCalls DEF RestOK
  <2>3. Survivable(v) /\ error = PopsErrorCode(v) /\ UNCHANGED <<slots, lost>>
    BY <2>1 DEF Enter
  <2>4. \A i \in 1..Len(calls') : i = Len(calls) + 1 \/ i \in 1..Len(calls)
    BY <1>0, <2>2
  <2>5. ASSUME NEW i \in 1..Len(calls)
        PROVE  /\ Intact(calls'[i], after_pop')
               /\ calls'[i].at = "first" \/ InHandler(calls'[i])
               /\ InHandler(calls'[i]) => PopsErrorCode(v) = calls'[i].error
    <3>1. Intact(calls[i], after_pop)
      BY <1>b DEF Homeward
    <3>2. /\ OwnStack(v) => calls[i].vector # v
          /\ calls[i].at = "first" \/ InHandler(calls[i])
          /\ InHandler(calls[i]) => PopsErrorCode(v) = calls[i].error
      BY <2>3 DEF Survivable, InHandler
    <3>3. SameButWhole(calls'[i], calls[i]) /\ calls'[i].whole
      <4>1. calls[i].whole /\ ~(OwnStack(v) /\ calls[i].vector = v)
        BY <3>1, <3>2 DEF Intact
      <4> QED
        BY <2>2, <4>1
    <3> QED
      BY <2>3, <3>1, <3>2, <3>3 DEF Intact, InHandler, SameButWhole, slots
  <2>6. Intact(calls'[Len(calls) + 1], after_pop') /\ calls'[Len(calls) + 1].at = "first"
        /\ calls'[Len(calls) + 1].vector = v
    <3> DEFINE c == [vector |-> v, error |-> error, flag |-> flag, at |-> "first",
                     runs |-> v, whole |-> TRUE]
    <3>1. Intact(c, after_pop') /\ c.at = "first" /\ c.vector = v
      BY <2>3 DEF Intact, InHandler
    <3> QED
      BY <2>2, <3>1
  <2>7. ASSUME NEW i \in 1..Len(calls'), NEW j \in 1..Len(calls'), i < j, InHandler(calls'[i])
        PROVE  PopsErrorCode(calls'[j].vector) = calls'[i].error
    <3>1. i \in 1..Len(calls)
      BY <1>0, <2>2, <2>7
    <3>2. CASE j = Len(calls) + 1
      BY <2>5, <2>6, <2>7, <3>1, <3>2
    <3>3. CASE j \in 1..Len(calls)
      <4>1. SameButWhole(calls'[i], calls[i]) /\ SameButWhole(calls'[j], calls[j])
        BY <2>2, <3>1, <3>3
      <4>2. InHandler(calls[i])
        BY <2>7, <4>1 DEF InHandler, SameButWhole
      <4>3. PopsErrorCode(calls[j].vector) = calls[i].error
        BY <1>b, <2>7, <3>1, <3>3, <4>2 DEF Homeward
      <4> QED
        BY <4>1, <4>3 DEF SameButWhole, PopsErrorCode
    <3> QED
      BY <2>4, <3>2, <3>3
  <2>8. \A i \in 1..(Len(calls') - 1) : i \in 1..Len(calls)
    BY <1>0, <2>2
  <2>9. ~lost'
    BY <1>b, <2>3 DEF Homeward
  <2>10. /\ \A i \in 1..Len(calls') : Intact(calls'[i], after_pop')
         /\ \A i \in 1..(Len(calls') - 1) : calls'[i].at = "first" \/ InHandler(calls'[i])
         /\ calls'[Len(calls')].at = "first"
    <3>1. \A i \in 1..Len(calls') : Intact(calls'[i], after_pop')
      BY <2>4, <2>5, <2>6
    <3> QED
      BY <2>2, <2>5, <2>6, <2>8, <3>1
  <2> QED
    BY <2>7, <2>9, <2>10 DEF Homeward, InHandler
<1>3. CASE Stub \/ Handle \/ EndOfInterrupt
  <2> DEFINE n == Len(calls)
  <2>1. calls # <<>> /\ n \in 1..n /\ calls[n] \in Call
    BY <1>0, <1>3 DEF Stub, StoreAfterPush, StoreAfterPop, push_reg, pop_reg, Handle,
                      EndOfInterrupt, In, CallsOK
  <2>2. Intact(calls[n], after_pop)
    BY <1>b, <2>1 DEF Homeward
  <2>3. CASE StoreAfterPush
    <3>1. Goto("second") /\ "second" \in Points
      BY <2>3 DEF StoreAfterPush, Points
    <3>2. /\ CallsOK' /\ Len(calls') = n
          /\ calls'[n] = [calls[n] EXCEPT !.at = "second"]
          /\ \A i \in 1..(n - 1) : calls'[i] = calls[i]
      BY <1>0, <2>1, <3>1, GotoCalls
    <3>3. after_push' = calls[n].vector /\ UNCHANGED <<after_pop, lost>>
      BY <2>3 DEF StoreAfterPush, Running
    <3> DEFINE d == [calls[n] EXCEPT !.at = "second"]
    <3>4. /\ d.vector = calls[n].vector /\ d.error = calls[n].error
          /\ d.whole = calls[n].whole /\ d.runs = calls[n].runs /\ d.at = "second"
      BY <2>1 DEF Call
    <3> HIDE DEF d
    <3>5. calls'[n] = d
      BY <3>2 DEF d
    <3>6. d.runs = d.vector /\ ~InHandler(d)
      BY <2>2, <3>4 DEF Intact, InHandler
    <3> QED
      BY <1>0, <1>b, <2>1, <3>2, <3>3, <3>4, <3>5, <3>6, HomeGoesOn
  <2>4. CASE StoreAfterPop
    <3>1. Goto("push") /\ "push" \in Points
      BY <2>4 DEF StoreAfterPop, Points
    <3>2. /\ CallsOK' /\ Len(calls') = n
          /\ calls'[n] = [calls[n] EXCEPT !.at = "push"]
          /\ \A i \in 1..(n - 1) : calls'[i] = calls[i]
      BY <1>0, <2>1, <3>1, GotoCalls
    <3>3. after_pop' = calls[n].vector /\ UNCHANGED <<after_push, lost>>
      BY <2>4 DEF StoreAfterPop, Running
    <3>4. after_push = calls[n].vector
      BY <1>b, <2>1, <2>4 DEF StoreAfterPop, In, Running, Homeward
    <3> DEFINE d == [calls[n] EXCEPT !.at = "push"]
    <3>5. /\ d.vector = calls[n].vector /\ d.error = calls[n].error
          /\ d.whole = calls[n].whole /\ d.runs = calls[n].runs /\ d.at = "push"
      BY <2>1 DEF Call
    <3> HIDE DEF d
    <3>6. calls'[n] = d
      BY <3>2 DEF d
    <3>7. d.runs = d.vector /\ ~InHandler(d)
      BY <2>2, <3>5 DEF Intact, InHandler
    <3> QED
      BY <1>0, <1>b, <2>1, <3>2, <3>3, <3>4, <3>5, <3>6, <3>7, HomeGoesOn
  <2>5. CASE push_reg
    <3>1. /\ CallsOK' /\ Len(calls') = n
          /\ calls'[n] = [calls[n] EXCEPT !.at = "c", !.runs = after_push]
          /\ \A i \in 1..(n - 1) : calls'[i] = calls[i]
      BY <1>0, <2>5, PushCalls DEF RestOK
    <3>2. UNCHANGED <<after_push, after_pop, lost>>
      BY <2>5 DEF push_reg, slots
    <3>3. after_push = calls[n].vector /\ after_pop = calls[n].vector
      BY <1>b, <2>1, <2>5 DEF push_reg, In, Running, Homeward
    <3> DEFINE d == [calls[n] EXCEPT !.at = "c", !.runs = after_push]
    <3>4. /\ d.vector = calls[n].vector /\ d.error = calls[n].error
          /\ d.whole = calls[n].whole /\ d.runs = after_push /\ d.at = "c"
      BY <2>1 DEF Call
    <3> HIDE DEF d
    <3>5. calls'[n] = d
      BY <3>1 DEF d
    <3>6. PopsErrorCode(after_pop') = d.error
      BY <2>2, <3>2, <3>3, <3>4 DEF Intact
    <3> QED
      BY <1>0, <1>b, <2>1, <3>1, <3>2, <3>3, <3>4, <3>5, <3>6, HomeGoesOn
  <2>6. CASE pop_reg
    <3>1. Running = calls[n] /\ InHandler(calls[n])
      BY <2>6 DEF pop_reg, In, Running, InHandler
    <3>2. Running.whole /\ PopsErrorCode(after_pop) = Running.error
      BY <2>2, <3>1 DEF Intact
    <3>3. calls' = SubSeq(calls, 1, n - 1) /\ UNCHANGED <<lost, after_push, after_pop>>
      BY <2>6, <3>2 DEF pop_reg, slots
    <3>4. /\ CallsOK' /\ Len(calls') = n - 1
          /\ \A i \in 1..(n - 1) : calls'[i] = calls[i]
      BY <1>0, <2>1, <3>3, PopCalls
    <3>5. \A i \in 1..(n - 1) : i \in 1..n
      BY <1>0
    <3>6. \A i \in 1..Len(calls') : Intact(calls'[i], after_pop')
      <4>1. \A i \in 1..(n - 1) : Intact(calls[i], after_pop)
        BY <1>b, <3>5 DEF Homeward
      <4> QED
        BY <3>3, <3>4, <4>1 DEF Intact, InHandler
    <3>7. \A i \in 1..Len(calls') : calls'[i].at = "first" \/ InHandler(calls'[i])
      BY <1>b, <3>4 DEF Homeward, InHandler
    <3>8. \A i, j \in 1..Len(calls') :
            i < j /\ InHandler(calls'[i]) => PopsErrorCode(calls'[j].vector) = calls'[i].error
      BY <1>b, <3>4, <3>5 DEF Homeward, InHandler
    <3>9. \A i \in 1..(Len(calls') - 1) : i \in 1..Len(calls')
      BY <1>0, <3>4
    <3>10. calls' # <<>> => Len(calls') \in 1..Len(calls')
      BY <3>4 DEF CallsOK
    <3> QED
      BY <1>b, <3>3, <3>6, <3>7, <3>8, <3>9, <3>10 DEF Homeward, InHandler
  <2>7. CASE Handle \/ EndOfInterrupt
    <3>1. PICK point \in {"eoi", "pop"} : Goto(point)
      BY <2>7 DEF Handle, EndOfInterrupt
    <3>2. point \in Points
      BY DEF Points
    <3>3. /\ CallsOK' /\ Len(calls') = n
          /\ calls'[n] = [calls[n] EXCEPT !.at = point]
          /\ \A i \in 1..(n - 1) : calls'[i] = calls[i]
      BY <1>0, <2>1, <3>1, <3>2, GotoCalls
    <3>4. UNCHANGED <<after_push, after_pop, lost>>
      BY <2>7 DEF Handle, EndOfInterrupt, slots
    <3>5. InHandler(calls[n])
      BY <2>7 DEF Handle, EndOfInterrupt, In, Running, InHandler
    <3> DEFINE d == [calls[n] EXCEPT !.at = point]
    <3>6. /\ d.vector = calls[n].vector /\ d.error = calls[n].error
          /\ d.whole = calls[n].whole /\ d.runs = calls[n].runs /\ d.at = point
      BY <2>1 DEF Call
    <3> HIDE DEF d
    <3>7. calls'[n] = d
      BY <3>3 DEF d
    <3>8. PopsErrorCode(after_pop') = d.error /\ d.runs = d.vector
          /\ d.at \notin {"second", "push"}
      BY <2>2, <3>4, <3>5, <3>6 DEF Intact
    <3> QED
      BY <1>0, <1>b, <2>1, <3>3, <3>4, <3>6, <3>7, <3>8, HomeGoesOn
  <2> QED
    BY <1>3, <2>3, <2>4, <2>5, <2>6, <2>7 DEF Stub
<1>4. CASE kmain
  BY <1>4, <1>b DEF kmain, slots, Homeward, Intact, InHandler
<1>5. CASE UNCHANGED vars
  BY <1>5, <1>b DEF vars, slots, Homeward, Intact, InHandler
<1> QED
  BY <1>1, <1>2, <1>3, <1>4, <1>5 DEF InterruptsNext

(* For any number of nested handlers: as long as no exception came at one  *)
(* of the moments Survivable rules out, nor from an `int', every entry     *)
(* runs its own handler and the kernel is never lost on the way back.      *)
THEOREM AllReturnHome == InterruptsSpec => []ReturnsHome
<1>1. InterruptsInit => Homeward
  BY DEF InterruptsInit, Homeward
<1>2. (~tangled => Homeward) => ReturnsHome
  BY DEF Homeward, Intact, ReturnsHome
<1>3. InterruptsTypeOK /\ (~tangled => Homeward) /\ [InterruptsNext]_vars
      => (~tangled => Homeward)'
  BY HomeStep
<1> QED
  BY <1>1, <1>2, <1>3, TypedInit, TypedStep, PTL DEF InterruptsSpec
-----------------------------------------------------------------------------
(* What the controllers have in service: at most line 8, which nobody      *)
(* ended, and the line whose handler, the outermost, has not come to its   *)
(* end of interrupt, with the cascade when PIC2 passed it on.  A line of   *)
(* PIC2 is not passed on while line 8 is in service.                       *)
Lone == inService \subseteq {8}

ServedBy(l) ==
    /\ l \in Lines
    /\ inService = IF l >= 8 THEN {l, Cascade} ELSE {l} \cup (inService \cap {8})

FirstServes(l) ==
    calls # <<>> /\ calls[1].vector = Vector(l) /\ calls[1].at # "pop"

InService == Lone \/ \E l \in Lines : ServedBy(l) /\ FirstServes(l)

(* Only the handler of a line sends an end of interrupt.                   *)
EndsOwn == \A i \in 1..Len(calls) : calls[i].at = "eoi" => calls[i].runs >= Vector(0)

LEMMA FirstRemoved == \A x \in Int : WithoutFirst({x}) = {}
<1> SUFFICES ASSUME NEW x \in Int PROVE WithoutFirst({x}) = {}
  OBVIOUS
<1>1. \E l \in {x} : \A k \in {x} : l <= k
  OBVIOUS
<1>2. First({x}) \in {x}
  BY <1>1 DEF First
<1> QED
  BY <1>2 DEF WithoutFirst

(* An end of interrupt leaves at most line 8 in service.                   *)
LEMMA EndLeaves ==
    ASSUME NEW l \in 0..15, ServedBy(l), IRQ_end_of_interrupt(l)
    PROVE  Lone'
<1>1. inService' = WithoutFirst(Master(inService))
                  \cup IF l > 8 THEN WithoutFirst(Slave(inService)) ELSE Slave(inService)
  BY DEF IRQ_end_of_interrupt
<1>2. CASE l < 8
  <2>1. Master(inService) = {l} /\ Slave(inService) \subseteq {8}
    BY <1>2 DEF ServedBy, Master, Slave
  <2> QED
    BY <1>1, <1>2, <2>1, FirstRemoved DEF Lone
<1>3. CASE l >= 8
  <2>1. Master(inService) = {2} /\ Slave(inService) = {l}
    BY <1>3 DEF ServedBy, Master, Slave, Cascade
  <2>2. WithoutFirst({2}) = {} /\ WithoutFirst({l}) = {}
    BY FirstRemoved
  <2> QED
    BY <1>1, <1>3, <2>1, <2>2 DEF Lone
<1> QED
  BY <1>2, <1>3

LEMMA LoneEnds == ASSUME Lone, NEW irq, IRQ_end_of_interrupt(irq) PROVE Lone'
<1>1. \A s : WithoutFirst(s) \subseteq s
  BY DEF WithoutFirst
<1>2. Master(inService) \subseteq inService /\ Slave(inService) \subseteq inService
  BY DEF Master, Slave
<1>3. inService' \subseteq inService
  BY <1>1, <1>2 DEF IRQ_end_of_interrupt
<1> QED
  BY <1>3 DEF Lone

(* A step that leaves the controllers alone and the outermost handler      *)
(* short of its end.                                                       *)
LEMMA ServiceKept ==
    ASSUME InService, UNCHANGED inService,
           calls # <<>> => /\ calls' # <<>> /\ calls'[1].vector = calls[1].vector
                           /\ calls[1].at # "pop" => calls'[1].at # "pop"
    PROVE  InService'
  BY DEF InService, Lone, ServedBy, FirstServes, Vector

(* A line accepted by a controller that has only line 8 in service.        *)
LEMMA AcceptServes ==
    ASSUME InterruptsTypeOK, Lone, NEW l \in Acceptable,
           inService' = inService \cup {l} \cup (IF l >= 8 THEN {Cascade} ELSE {})
    PROVE  ServedBy(l)'
<1>1. l \in Lines /\ l \in 0..15
  BY AcceptableLines, InterruptsAssumption
<1>2. CASE l < 8
  <2>1. inService' = inService \cup {l} /\ ~(l >= 8) /\ l # 8
    BY <1>1, <1>2
  <2>2. inService' = {l} \cup (inService' \cap {8})
    BY <2>1 DEF Lone
  <2> QED
    BY <1>1, <2>1, <2>2 DEF ServedBy
<1>3. CASE l >= 8
  <2>1. l \in Ahead(Slave(irr), Slave(inService))
    BY <1>1, <1>3 DEF Acceptable, Ahead, Master
  <2>2. \A k \in Slave(inService) : l < k
    BY <2>1 DEF Ahead
  <2>3. 8 \notin inService
    BY <1>1, <1>3, <2>2 DEF Slave
  <2>4. inService = {}
    BY <2>3 DEF Lone
  <2> QED
    BY <1>1, <1>3, <2>4 DEF ServedBy
<1> QED
  BY <1>1, <1>2, <1>3

LEMMA EndsOwnStep == InterruptsTypeOK /\ EndsOwn /\ [InterruptsNext]_vars => EndsOwn'
<1> SUFFICES ASSUME InterruptsTypeOK, EndsOwn, [InterruptsNext]_vars PROVE EndsOwn'
  OBVIOUS
<1>0. RestOK /\ CallsOK /\ Len(calls) \in Nat
  BY TypedSplit DEF CallsOK
<1>1. CASE UNCHANGED calls
  BY <1>1 DEF EndsOwn
<1>2. CASE Accept \/ (\E v \in Faults : Fault(v)) \/ NonMaskable \/ SoftwareInterrupt
  <2>1. PICK v \in 0..47, error \in BOOLEAN : Enter(v, error)
    BY <1>2, EnteringSteps DEF Entering
  <2>2. /\ Len(calls') = Len(calls) + 1
        /\ calls'[Len(calls) + 1] = [vector |-> v, error |-> error, flag |-> flag,
                                     at |-> "first", runs |-> v, whole |-> TRUE]
        /\ \A i \in 1..Len(calls) : SameButWhole(calls'[i], calls[i])
    BY <1>0, <2>1, EnterCalls DEF RestOK
  <2>3. \A i \in 1..Len(calls') : i = Len(calls) + 1 \/ i \in 1..Len(calls)
    BY <1>0, <2>2
  <2> QED
    BY <2>2, <2>3 DEF EndsOwn, SameButWhole
<1>3. ASSUME calls # <<>>, NEW c, Len(calls') = Len(calls), calls'[Len(calls)] = c,
             c.at = "eoi" => c.runs >= Vector(0),
             \A i \in 1..(Len(calls) - 1) : calls'[i] = calls[i]
      PROVE  EndsOwn'
  <2>1. \A i \in 1..Len(calls) : i = Len(calls) \/ i \in 1..(Len(calls) - 1)
    BY <1>0
  <2> QED
    BY <1>0, <1>3, <2>1 DEF EndsOwn, Vector
<1>4. ASSUME NEW point \in Points, calls # <<>>, Goto(point),
             point = "eoi" => calls[Len(calls)].runs >= Vector(0)
      PROVE  EndsOwn'
  <2>1. /\ Len(calls') = Len(calls)
        /\ calls'[Len(calls)] = [calls[Len(calls)] EXCEPT !.at = point]
        /\ \A i \in 1..(Len(calls) - 1) : calls'[i] = calls[i]
    BY <1>0, <1>4, GotoCalls
  <2>2. calls[Len(calls)] \in Call
    BY <1>0, <1>4 DEF CallsOK
  <2> DEFINE c == [calls[Len(calls)] EXCEPT !.at = point]
  <2>3. c.at = point /\ c.runs = calls[Len(calls)].runs
    BY <2>2 DEF Call
  <2> HIDE DEF c
  <2>4. calls'[Len(calls)] = c
    BY <2>1 DEF c
  <2> QED
    BY <1>3, <1>4, <2>1, <2>3, <2>4
<1>5. CASE StoreAfterPush \/ StoreAfterPop \/ EndOfInterrupt
  <2>1. PICK point \in Points \ {"eoi"} : calls # <<>> /\ Goto(point)
    BY <1>5 DEF StoreAfterPush, StoreAfterPop, EndOfInterrupt, In, Points
  <2> QED
    BY <1>4, <2>1
<1>6. CASE Handle
  <2> DEFINE point == IF Running.runs \in {Vector(l) : l \in 0..15} THEN "eoi" ELSE "pop"
  <2>1. calls # <<>> /\ Goto(point)
    BY <1>6 DEF Handle, In
  <2>2. point \in Points /\ (point = "eoi" => calls[Len(calls)].runs >= Vector(0))
    BY DEF Points, Running, Vector
  <2> HIDE DEF point
  <2> QED
    BY <1>4, <2>1, <2>2
<1>7. CASE push_reg
  <2>1. /\ Len(calls') = Len(calls) /\ calls # <<>>
        /\ calls'[Len(calls)] = [calls[Len(calls)] EXCEPT !.at = "c", !.runs = after_push]
        /\ \A i \in 1..(Len(calls) - 1) : calls'[i] = calls[i]
    BY <1>0, <1>7, PushCalls DEF RestOK, push_reg, In
  <2>2. calls[Len(calls)] \in Call
    BY <1>0, <2>1 DEF CallsOK
  <2>3. calls'[Len(calls)].at = "c"
    BY <2>1, <2>2 DEF Call
  <2> QED
    BY <1>3, <2>1, <2>3
<1>8. CASE pop_reg /\ calls' # calls
  <2>1. calls # <<>> /\ calls' = SubSeq(calls, 1, Len(calls) - 1)
    BY <1>8 DEF pop_reg, In
  <2>2. /\ Len(calls') = Len(calls) - 1
        /\ \A i \in 1..(Len(calls) - 1) : calls'[i] = calls[i]
    BY <1>0, <2>1, PopCalls
  <2>3. \A i \in 1..Len(calls') : i \in 1..Len(calls) /\ calls'[i] = calls[i]
    BY <1>0, <2>2
  <2> QED
    BY <2>3 DEF EndsOwn
<1>9. UNCHANGED calls \/ calls' # calls
  OBVIOUS
<1> QED
  BY <1>1, <1>2, <1>5, <1>6, <1>7, <1>8, <1>9
     DEF InterruptsNext, Stub, Raise, kmain, vars

LEMMA ServiceStep ==
    ASSUME InterruptsTypeOK, Off, EndsOwn, ~tangled => Homeward, ~tangled => InService,
           [InterruptsNext]_vars
    PROVE  ~tangled' => InService'
<1> SUFFICES ASSUME ~tangled' PROVE InService'
  OBVIOUS
<1>0. RestOK /\ CallsOK /\ Len(calls) \in Nat
  BY TypedSplit DEF CallsOK
<1>a. ~tangled
  BY DEF InterruptsNext, Stub, Raise, Accept, Fault, NonMaskable, SoftwareInterrupt, Enter,
         StoreAfterPush, StoreAfterPop, push_reg, pop_reg, Handle, EndOfInterrupt, kmain, vars
<1>b. Homeward /\ InService
  BY <1>a
<1>c. calls # <<>> <=> Len(calls) >= 1
  BY <1>0 DEF CallsOK
<1>1. CASE UNCHANGED <<inService, calls>>
  BY <1>b, <1>1, ServiceKept
<1>2. CASE Accept
  <2>1. PICK line \in Acceptable :
            /\ inService' = inService \cup {line} \cup (IF line >= 8 THEN {Cascade} ELSE {})
            /\ Enter(Vector(line), FALSE)
    BY <1>2 DEF Accept
  <2>2. calls = <<>> /\ Len(calls) = 0
    BY <1>2, <1>0 DEF Accept, Off
  <2>3. Lone
    BY <1>b, <2>2 DEF InService, FirstServes
  <2>4. ServedBy(line)' /\ line \in Lines
    BY <2>1, <2>3, AcceptServes, AcceptableLines
  <2>5. line \in 0..15 /\ Vector(line) \in 0..47
    BY <2>4, InterruptsAssumption DEF Vector
  <2>6. calls'[Len(calls) + 1] = [vector |-> Vector(line), error |-> FALSE, flag |-> flag,
                                  at |-> "first", runs |-> Vector(line), whole |-> TRUE]
        /\ Len(calls') = Len(calls) + 1 /\ CallsOK'
    BY <1>0, <2>1, <2>5, EnterCalls DEF RestOK
  <2>7. FirstServes(line)'
    <3>1. calls'[1] = [vector |-> Vector(line), error |-> FALSE, flag |-> flag,
                       at |-> "first", runs |-> Vector(line), whole |-> TRUE]
      BY <2>2, <2>6
    <3>2. calls'[1].vector = Vector(line) /\ calls'[1].at = "first"
      BY <3>1
    <3>3. calls' # <<>>
      <4>1. Len(calls') = 1
        BY <2>2, <2>6
      <4>2. Len(<<>>) # 1
        OBVIOUS
      <4> QED
        BY <4>1, <4>2, Zenon
    <3> QED
      BY <3>2, <3>3 DEF FirstServes, Vector
  <2> QED
    BY <2>4, <2>7 DEF InService
<1>3. CASE (\E v \in Faults : Fault(v)) \/ NonMaskable \/ SoftwareInterrupt
  <2>1. PICK v \in 0..47, error \in BOOLEAN : Enter(v, error)
    BY <1>3, EnteringSteps DEF Entering
  <2>2. /\ Len(calls') = Len(calls) + 1 /\ CallsOK'
        /\ \A i \in 1..Len(calls) : SameButWhole(calls'[i], calls[i])
    BY <1>0, <2>1, EnterCalls DEF RestOK
  <2>3. calls # <<>> => SameButWhole(calls'[1], calls[1])
    BY <1>0, <1>c, <2>2
  <2>4. UNCHANGED inService
    BY <1>3 DEF Fault, NonMaskable, SoftwareInterrupt, pic
  <2>5. calls' # <<>>
    BY <1>0, <2>2 DEF CallsOK
  <2> QED
    BY <1>b, <2>3, <2>4, <2>5, ServiceKept DEF SameButWhole
<1>4. ASSUME calls # <<>>, NEW c, Len(calls') = Len(calls), CallsOK',
             calls'[Len(calls)] = c, c.vector = calls[Len(calls)].vector,
             UNCHANGED inService,
             c.at = "pop" => c.vector < Vector(0) \/ calls[Len(calls)].at = "pop",
             \A i \in 1..(Len(calls) - 1) : calls'[i] = calls[i]
      PROVE  InService'
  <2>1. calls' # <<>>
    BY <1>0, <1>4, <1>c DEF CallsOK
  <2>2. CASE Len(calls) > 1
    <3>1. calls'[1] = calls[1]
      BY <1>0, <1>4, <2>2
    <3> QED
      BY <1>b, <1>4, <2>1, <3>1, ServiceKept
  <2>3. CASE Len(calls) = 1
    <3>1. calls'[1].vector = calls[1].vector /\ calls'[1] = c
      BY <1>4, <2>3
    <3>2. CASE c.at # "pop" \/ calls[1].at = "pop"
      BY <1>b, <1>4, <2>1, <2>3, <3>1, <3>2, ServiceKept
    <3>3. CASE c.vector < Vector(0)
      <4>1. \A l \in Lines : calls[1].vector # Vector(l)
        BY <1>4, <2>3, <3>3, InterruptsAssumption DEF Vector
      <4>2. Lone
        BY <1>b, <4>1 DEF InService, FirstServes
      <4> QED
        BY <1>4, <4>2 DEF InService, Lone
    <3> QED
      BY <1>4, <2>3, <3>2, <3>3
  <2> QED
    BY <1>0, <1>4, <1>c, <2>2, <2>3
<1>5. ASSUME NEW point \in Points, calls # <<>>, Goto(point), UNCHANGED inService,
             point = "pop" => calls[Len(calls)].vector < Vector(0)
      PROVE  InService'
  <2>1. /\ Len(calls') = Len(calls) /\ CallsOK'
        /\ calls'[Len(calls)] = [calls[Len(calls)] EXCEPT !.at = point]
        /\ \A i \in 1..(Len(calls) - 1) : calls'[i] = calls[i]
    BY <1>0, <1>5, GotoCalls
  <2>2. calls[Len(calls)] \in Call
    BY <1>0, <1>5 DEF CallsOK
  <2> DEFINE c == [calls[Len(calls)] EXCEPT !.at = point]
  <2>3. c.at = point /\ c.vector = calls[Len(calls)].vector
    BY <2>2 DEF Call
  <2> HIDE DEF c
  <2>4. calls'[Len(calls)] = c
    BY <2>1 DEF c
  <2> QED
    BY <1>4, <1>5, <2>1, <2>3, <2>4
<1>6. CASE StoreAfterPush \/ StoreAfterPop
  <2>1. PICK point \in Points \ {"pop"} : calls # <<>> /\ Goto(point) /\ UNCHANGED inService
    BY <1>6 DEF StoreAfterPush, StoreAfterPop, In, Points, pic
  <2> QED
    BY <1>5, <2>1
<1>7. CASE push_reg
  <2>1. /\ Len(calls') = Len(calls) /\ calls # <<>> /\ CallsOK' /\ UNCHANGED inService
        /\ calls'[Len(calls)] = [calls[Len(calls)] EXCEPT !.at = "c", !.runs = after_push]
        /\ \A i \in 1..(Len(calls) - 1) : calls'[i] = calls[i]
    BY <1>0, <1>7, PushCalls DEF RestOK, push_reg, In, pic
  <2>2. calls[Len(calls)] \in Call
    BY <1>0, <2>1 DEF CallsOK
  <2>3. calls'[Len(calls)].at = "c" /\ calls'[Len(calls)].vector = calls[Len(calls)].vector
    BY <2>1, <2>2 DEF Call
  <2> QED
    BY <1>4, <2>1, <2>3
<1>8. CASE Handle
  <2> DEFINE point == IF Running.runs \in {Vector(l) : l \in 0..15} THEN "eoi" ELSE "pop"
  <2>1. calls # <<>> /\ Goto(point) /\ UNCHANGED inService
    BY <1>8 DEF Handle, In, pic
  <2>2. calls[Len(calls)] \in Call
    BY <1>0, <2>1 DEF CallsOK
  <2>3. calls[Len(calls)].runs = calls[Len(calls)].vector
    BY <1>0, <1>b, <1>c, <2>1 DEF Homeward, Intact
  <2>4. ASSUME calls[Len(calls)].vector >= Vector(0)
        PROVE  Running.runs \in {Vector(l) : l \in 0..15}
    <3> DEFINE v == calls[Len(calls)].vector
    <3>1. v \in 0..47
      BY <2>2 DEF Call
    <3>2. v >= 32 /\ Running.runs = v
      BY <2>3, <2>4 DEF Running, Vector
    <3> HIDE DEF v
    <3>3. v - 32 \in 0..15 /\ Vector(v - 32) = v
      BY <3>1, <3>2 DEF Vector
    <3> QED
      BY <3>2, <3>3
  <2>5. point \in Points /\ (point = "pop" => calls[Len(calls)].vector < Vector(0))
    <3>1. calls[Len(calls)].vector \in 0..47
      BY <2>2 DEF Call
    <3>2. point \in Points
      BY DEF Points
    <3>3. point = "pop" => ~(calls[Len(calls)].vector >= Vector(0))
      BY <2>4
    <3>4. \A v \in 0..47 : v >= Vector(0) \/ v < Vector(0)
      BY DEF Vector
    <3> HIDE DEF point
    <3> QED
      BY <3>1, <3>2, <3>3, <3>4, Zenon
  <2> HIDE DEF point
  <2> QED
    BY <1>5, <2>1, <2>5
<1>9. CASE EndOfInterrupt
  <2>1. /\ calls # <<>> /\ Goto("pop") /\ "pop" \in Points
        /\ calls[Len(calls)].at = "eoi" /\ calls[Len(calls)] \in Call
        /\ IRQ_end_of_interrupt(Running.runs - Vector(0))
    BY <1>0, <1>9 DEF EndOfInterrupt, In, Running, Points, CallsOK
  <2>2. /\ calls[Len(calls)].runs = calls[Len(calls)].vector
        /\ calls[Len(calls)].runs >= Vector(0)
    BY <1>0, <1>b, <1>c, <2>1 DEF Homeward, Intact, EndsOwn
  <2>3. Len(calls) = 1
    <3>1. calls[Len(calls)].vector >= 32
      BY <2>2 DEF Vector
    <3>2. Len(calls) \in 2..Len(calls) => calls[Len(calls)].vector < 32
      BY <1>b, <1>0 DEF Off
    <3>3. calls[Len(calls)].vector \in 0..47
      BY <2>1 DEF Call
    <3>4. \A v \in 0..47 : ~(v >= 32 /\ v < 32)
      OBVIOUS
    <3>5. Len(calls) \notin 2..Len(calls)
      BY <3>1, <3>2, <3>3, <3>4, Zenon
    <3>6. calls # <<>>
      BY <2>1
    <3>7. Len(calls) >= 1
      BY <1>c, <3>6, Zenon
    <3> QED
      BY <1>0, <3>5, <3>7
  <2>4. CASE Lone
    BY <2>1, <2>4, LoneEnds DEF InService
  <2>5. CASE ~Lone
    <3>1. PICK l \in Lines : ServedBy(l) /\ calls[1].vector = Vector(l)
      BY <1>b, <2>5 DEF InService, FirstServes
    <3>2. l \in 0..15 /\ Running.runs - Vector(0) = l
      BY <2>2, <2>3, <3>1, InterruptsAssumption DEF Running, Vector
    <3>3. Lone'
      BY <2>1, <3>1, <3>2, EndLeaves
    <3> QED
      BY <3>3 DEF InService
  <2> QED
    BY <2>4, <2>5
<1>10. CASE pop_reg /\ calls' # calls
  <2>1. calls # <<>> /\ calls' = SubSeq(calls, 1, Len(calls) - 1) /\ UNCHANGED inService
        /\ calls[Len(calls)].at = "pop"
    BY <1>10 DEF pop_reg, In, Running, pic
  <2>2. /\ Len(calls') = Len(calls) - 1 /\ CallsOK'
        /\ \A i \in 1..(Len(calls) - 1) : calls'[i] = calls[i]
    BY <1>0, <2>1, PopCalls
  <2>3. CASE Len(calls) = 1
    <3>1. Lone
      BY <1>b, <2>1, <2>3 DEF InService, FirstServes
    <3> QED
      BY <2>1, <3>1 DEF InService, Lone
  <2>4. CASE Len(calls) > 1
    <3>1. calls'[1] = calls[1] /\ calls' # <<>>
      BY <1>0, <2>2, <2>4 DEF CallsOK
    <3> QED
      BY <1>b, <2>1, <3>1, ServiceKept
  <2>5. Len(calls) = 1 \/ Len(calls) > 1
    <3>1. Len(calls) >= 1
      BY <1>c, <2>1, Zenon
    <3>2. \A n \in Nat : n >= 1 => n = 1 \/ n > 1
      OBVIOUS
    <3> QED
      BY <1>0, <3>1, <3>2, Zenon
  <2> QED
    BY <2>3, <2>4, <2>5
<1>11. UNCHANGED calls \/ calls' # calls
  OBVIOUS
<1>12. pop_reg => UNCHANGED inService
  BY DEF pop_reg, pic
<1> QED
  BY <1>1, <1>2, <1>3, <1>6, <1>7, <1>8, <1>9, <1>10, <1>11, <1>12
     DEF InterruptsNext, Stub, Raise, kmain, vars, pic

(* Every interrupt accepted is ended by its own handler and by no other:   *)
(* as long as no exception came at one of the moments Survivable rules     *)
(* out, a line is in service only while its handler has not come that far, *)
(* but for line 8, whose end never reaches PIC2.                           *)
THEOREM EndedByItsHandler == InterruptsSpec => []ServiceEnded
<1> DEFINE Serves == ~tangled => Homeward
           Ends == ~tangled => InService
<1>1. InterruptsInit => Serves /\ Ends /\ EndsOwn /\ Off
  BY DEF InterruptsInit, Homeward, InService, Lone, EndsOwn, Off
<1>2. InterruptsTypeOK /\ Serves /\ [InterruptsNext]_vars => Serves'
  BY HomeStep
<1>3. InterruptsTypeOK /\ Off /\ EndsOwn /\ Serves /\ Ends /\ [InterruptsNext]_vars => Ends'
  BY ServiceStep
<1>4. InterruptsTypeOK /\ Ends => ServiceEnded
  <2> SUFFICES ASSUME InterruptsTypeOK, InService, NEW l \in inService
               PROVE  \/ Serving(l)
                      \/ l = Cascade /\ \E s \in Slave(Lines) : Serving(s)
                      \/ l = 8
    BY DEF ServiceEnded
  <2>1. CASE Lone
    BY <2>1 DEF Lone
  <2>2. ASSUME NEW k \in Lines, ServedBy(k), FirstServes(k)
        PROVE  \/ Serving(l)
               \/ l = Cascade /\ \E s \in Slave(Lines) : Serving(s)
               \/ l = 8
    <3>1. 1 \in 1..Len(calls)
      BY <2>2 DEF InterruptsTypeOK, FirstServes
    <3>2. Serving(k)
      BY <2>2, <3>1 DEF Serving, FirstServes
    <3>3. l = k \/ l = 8 \/ (l = Cascade /\ k >= 8)
      BY <2>2 DEF ServedBy
    <3> QED
      BY <3>2, <3>3 DEF Slave
  <2> QED
    BY <2>1, <2>2 DEF InService
<1> QED
  BY <1>1, <1>2, <1>3, <1>4, TypedInit, TypedStep, OffStep, EndsOwnStep, PTL
     DEF InterruptsSpec
=============================================================================
