------------------------------- MODULE Keyboard -------------------------------
(***************************************************************************)
(* ps2.c: the polled set-up of the keyboard and its controller, and the    *)
(* handler of IRQ 1, which reads one byte for each interrupt.  The         *)
(* controller, the keyboard and the interrupt request are hardware; they   *)
(* go on between any two steps of the code.                                *)
(*                                                                         *)
(* The controller has an input buffer (i_buf_status), where the kernel     *)
(* writes, and an output buffer (o_buf_status), where it reads the         *)
(* controller's replies and the keyboard's bytes alike.                    *)
(***************************************************************************)
EXTENDS Integers, Sequences

CONSTANTS
    MaxKeys,        \* bound: scan codes the keyboard sends
    Fifo            \* bytes the keyboard can hold back, 16

ASSUME KeyboardAssumption == {MaxKeys, Fifo} \subseteq Nat /\ Fifo >= 6

NoByte == 0
Keys == 1..MaxKeys      \* scan codes; the n-th one is n
StaleKey == 100         \* pressed before the kernel ran
Config == 101           \* the controller's replies
TestOK == 102
Ack == 103              \* the keyboard's answers
SetNumber == 104

VARIABLES
    pc,             \* operations of PS2_setup_keyboard done
    flag,           \* interrupts are on, and may be left on by sti
    handler,        \* IRQ 1's handler: "none", "read", "eoi"
    input,          \* the operation in the input buffer, or Nothing
    output,         \* the byte in the output buffer
    replies,        \* replies of the controller waiting for it
    queue,          \* bytes of the keyboard waiting for it
    port1,          \* the keyboard may send
    port_1_interrupt,   \* a byte in the output buffer raises IRQ 1
    irr,            \* IRQ 1 is requested
    sent,           \* history: bytes sent by the keyboard
    taken,          \* history: bytes read from the data port
    early,          \* history: a byte was waiting when port 1 was disabled
    stray           \* history: a request outlived the byte it was made for

code == <<pc, flag, handler>>
controller == <<input, output, replies, queue, port1, port_1_interrupt, irr>>
history == <<sent, taken, early, stray>>
vars == <<code, controller, history>>

(* The operations of the set-up: a command, a byte for the data port with  *)
(* what answers it, or a byte awaited.                                     *)
Op(kind, what, answers) == [kind |-> kind, what |-> what, answers |-> answers]
write_command(what) == Op("command", what, <<>>)
write_data(what, answers) == Op("data", what, answers)
read_data == Op("read", "", <<>>)
Nothing == Op("nothing", "", <<>>)

(* Two faulty variants: the answer is awaited before the test is asked for, *)
(* and the ports stay enabled while the controller is asked.               *)
AnswerFirst ==
    << write_command("disable port 1"), write_command("disable port 2"),
       write_command("read config"), read_data,
       write_command("write config"), write_data("config", <<>>),
       read_data, write_command("test"),
       write_command("enable port 1") >>

PortsEnabled ==
    << write_command("read config"), read_data,
       write_command("write config"), write_data("config", <<>>),
       write_command("test"), read_data,
       write_command("enable port 1"),
       write_data("keyboard", <<Ack>>), write_data("keyboard", <<Ack>>),
       write_data("keyboard", <<Ack>>),
       write_data("keyboard", <<Ack>>), write_data("keyboard", <<Ack, SetNumber>>) >>

(* 0xAD, 0xA7, 0x20 and the configuration; 0x60 and the new one; 0xAA and  *)
(* its result; 0xAE; then 0xF0 0x2, 0xF4, 0xF0 0x0, unanswered.            *)
PS2_setup_keyboard ==
    << write_command("disable port 1"), write_command("disable port 2"),
       write_command("read config"), read_data,
       write_command("write config"), write_data("config", <<>>),
       write_command("test"), read_data,
       write_command("enable port 1"),
       write_data("keyboard", <<Ack>>), write_data("keyboard", <<Ack>>),
       write_data("keyboard", <<Ack>>),
       write_data("keyboard", <<Ack>>), write_data("keyboard", <<Ack, SetNumber>>) >>

Done == pc = Len(PS2_setup_keyboard)
NextOp == PS2_setup_keyboard[pc + 1]
-----------------------------------------------------------------------------
(* The hardware.  IRQ 1 is edge-triggered: it is requested when the line   *)
(* rises.                                                                  *)
Level == output # NoByte /\ port_1_interrupt
Edge == irr' = (irr \/ (~Level /\ Level'))

(* The controller takes what is in its input buffer.                       *)
Obey ==
    /\ input # Nothing
    /\ input' = Nothing
    /\ port1' = CASE input.what = "disable port 1" -> FALSE
                  [] input.what \in {"enable port 1", "keyboard"} -> TRUE
                  [] OTHER -> port1
    /\ port_1_interrupt' = (port_1_interrupt \/ input.what = "config")
    /\ replies' = replies \o (CASE input.what = "read config" -> <<Config>>
                                [] input.what = "test" -> <<TestOK>>
                                [] OTHER -> <<>>)
    /\ queue' = queue \o input.answers
    /\ sent' = sent \o input.answers
    /\ early' = (early \/ (input.what = "disable port 1" /\ output # NoByte))
    /\ UNCHANGED <<code, output, taken, stray>>
    /\ Edge

Reply ==
    /\ output = NoByte /\ replies # <<>>
    /\ output' = Head(replies) /\ replies' = Tail(replies)
    /\ UNCHANGED <<code, input, queue, port1, port_1_interrupt, history>>
    /\ Edge

Send ==
    /\ output = NoByte /\ replies = <<>> /\ port1 /\ queue # <<>>
    /\ output' = Head(queue) /\ queue' = Tail(queue)
    /\ UNCHANGED <<code, input, replies, port1, port_1_interrupt, history>>
    /\ Edge

Pressed == {k \in Keys : \E i \in 1..Len(sent) : sent[i] = k}

Press ==
    /\ Len(queue) < Fifo
    /\ \E k \in Keys \ Pressed :
        /\ \A j \in Keys \ Pressed : k <= j
        /\ queue' = Append(queue, k) /\ sent' = Append(sent, k)
    /\ UNCHANGED <<code, input, output, replies, port1, port_1_interrupt, irr,
                   taken, early, stray>>

(* inb(PS2_DATA_PORT).  The line falls; a request not yet accepted may be  *)
(* kept or dropped by the interrupt controller.                            *)
Take ==
    /\ taken' = Append(taken, output)
    /\ output' = NoByte
    /\ irr' \in {irr, FALSE}
    /\ stray' = (stray \/ irr')
    /\ UNCHANGED <<input, replies, queue, port1, port_1_interrupt, sent, early>>
-----------------------------------------------------------------------------
(* The set-up, an operation a step: wait_for_write and wait_for_read poll  *)
(* the status register until the operation may go on.                      *)
wait_for_write == input = Nothing

wait_for_read == output # NoByte

SetUp ==
    /\ ~Done
    /\ \/ /\ NextOp.kind # "read" /\ wait_for_write
          /\ input' = NextOp
          /\ UNCHANGED <<output, replies, queue, port1, port_1_interrupt, irr, history>>
       \/ /\ NextOp.kind = "read" /\ wait_for_read
          /\ Take
    /\ pc' = pc + 1
    /\ UNCHANGED <<flag, handler>>

(* sti(1) in kmain.                                                        *)
TurnOnInterrupts ==
    /\ Done /\ ~flag
    /\ flag' = TRUE
    /\ UNCHANGED <<pc, handler, controller, history>>

Deliver ==
    /\ flag /\ irr /\ handler = "none"
    /\ irr' = FALSE
    /\ handler' = "read"
    /\ UNCHANGED <<pc, flag, input, output, replies, queue, port1, port_1_interrupt,
                   history>>

(* Faulty variants: two bytes, and none, for one interrupt.                *)
ReadTwo ==
    /\ handler = "read"
    /\ wait_for_read /\ Take
    /\ handler' = IF Len(taken) % 2 = 0 THEN "read" ELSE "eoi"
    /\ UNCHANGED <<pc, flag>>

ReadNothing ==
    /\ handler = "read"
    /\ handler' = "eoi"
    /\ UNCHANGED <<pc, flag, controller, history>>

(* One byte, which CON_key_action gets; interrupts are off meanwhile.      *)
PS2_keyboard_interrupt ==
    /\ handler = "read"
    /\ wait_for_read /\ Take
    /\ handler' = "eoi"
    /\ UNCHANGED <<pc, flag>>

IRQ_end_of_interrupt ==
    /\ handler = "eoi"
    /\ handler' = "none"
    /\ UNCHANGED <<pc, flag, controller, history>>

KeyboardInit ==
    /\ pc = 0 /\ flag = FALSE /\ handler = "none"
    /\ input = Nothing /\ replies = <<>> /\ queue = <<>>
    /\ output \in {NoByte, StaleKey}
    /\ port1 = TRUE /\ port_1_interrupt \in BOOLEAN
    /\ irr = Level
    /\ sent = IF output = NoByte THEN <<>> ELSE <<output>>
    /\ taken = <<>> /\ early = FALSE /\ stray = FALSE

KeyboardNext ==
    \/ Obey
    \/ Reply
    \/ Send
    \/ Press
    \/ SetUp
    \/ TurnOnInterrupts
    \/ Deliver
    \/ PS2_keyboard_interrupt
    \/ IRQ_end_of_interrupt

(* The controller works and code that need not wait goes on; nobody has to *)
(* press a key.                                                            *)
Fairness ==
    /\ WF_vars(Obey) /\ WF_vars(Reply) /\ WF_vars(Send)
    /\ WF_vars(SetUp) /\ WF_vars(TurnOnInterrupts) /\ WF_vars(Deliver)
    /\ WF_vars(PS2_keyboard_interrupt) /\ WF_vars(IRQ_end_of_interrupt)

KeyboardSpec == KeyboardInit /\ [][KeyboardNext]_vars /\ Fairness
-----------------------------------------------------------------------------
(* What the set-up takes for the configuration and for the result of the   *)
(* test is just that, unless a byte was already waiting in the output      *)
(* buffer, which is not emptied first (ps2.c:98): then that byte is written *)
(* back as the configuration.                                              *)
AnswersMatch ==
    ~early =>
        /\ Len(taken) >= 1 => taken[1] = Config
        /\ Len(taken) >= 2 => taken[2] = TestOK

Coming == output # NoByte \/ input # Nothing \/ replies # <<>> \/ queue # <<>>

(* The handler, which waits with interrupts off, never waits for a byte    *)
(* that nothing announces, unless a request outlived its byte: one read by *)
(* polling, or before the interrupt it caused was taken.                   *)
NoIdleWait == handler = "read" /\ ~stray => Coming

(* The waits of the set-up end.                                            *)
SetUpEnds == <>Done

(* Every key reaches CON_key_action or was read by the set-up, although an *)
(* interrupt is worth one byte and the keyboard's answers to the set-up    *)
(* are still unread when interrupts are turned on.                         *)
EveryKeyRead ==
    \A k \in Keys : k \in Pressed ~> \E i \in 1..Len(taken) : taken[i] = k
=============================================================================
