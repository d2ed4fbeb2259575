-------------------------------- MODULE Printk --------------------------------
(***************************************************************************)
(* Formatted output: _printk of vga_api.c, which walks a format character  *)
(* by character, takes an argument for each directive, has to_string of    *)
(* lib.c write it into a buffer of fixed size and hands the text on.  The  *)
(* walk is made twice, for the screen and, with the arguments from their   *)
(* start, for the serial port.                                             *)
(*                                                                         *)
(* An argument is a 64-bit word; it is kept as four limbs of 16 bits, the  *)
(* most significant first, because TLC's integers have 32 bits.            *)
(***************************************************************************)
EXTENDS Integers, Sequences, FiniteSets, SequencesExt

CONSTANTS
    Formats,        \* formats, each the sequence of its parts
    Values          \* arguments

Limb == 2^16
Top == 2^15
LimbValues == 0..(Limb - 1)
Words == LimbValues \X LimbValues \X LimbValues \X LimbValues

Nul == "nul"
Tab == "tab"
Sizes == {"h", "l", "q"}

(* A part is what a round of the walk is meant for: a plain character, or  *)
(* "%" and what belongs to it.  Every string is a sequence of parts, of    *)
(* which the last may be cut short.                                        *)
CutShort(part) == part \in { <<"%">> } \cup { <<"%", size>> : size \in Sizes }

IsPart(part) ==
    \/ Len(part) = 1 /\ part[1] \notin {"%", Nul}
    \/ Len(part) = 2 /\ part[1] = "%" /\ part[2] \notin Sizes \cup {Nul}
    \/ Len(part) = 3 /\ part[1] = "%" /\ part[2] \in Sizes /\ part[3] # Nul

ASSUME PrintkAssumption ==
    /\ Values \subseteq Words
    /\ Formats \subseteq Seq(Seq(STRING))
    /\ \A format \in Formats : \A i \in 1..Len(format) :
        IsPart(format[i]) \/ (CutShort(format[i]) /\ i = Len(format))

Zero == <<0, 0, 0, 0>>
Number(n) == <<0, 0, 0, n>>                     \* n below Limb
Negative(word) == word[1] >= Top
Limbs(f) == <<f[1], f[2], f[3], f[4]>>          \* TLC evaluates a tuple once
LowByte(limb) == limb % 2^8
-----------------------------------------------------------------------------
(* lib.c, to_string.                                                       *)
Negate(word) ==
    Limbs([n \in 1..4 |-> IF \A m \in (n + 1)..4 : word[m] = 0
                          THEN (Limb - word[n]) % Limb ELSE (Limb - 1) - word[n]])

Divide(word, base) ==               \* quotient and remainder, base up to 16
    LET rest[n \in 0..4] == IF n = 0 THEN 0 ELSE (rest[n - 1] * Limb + word[n]) % base
    IN  [word |-> Limbs([n \in 1..4 |-> (rest[n - 1] * Limb + word[n]) \div base]),
         remainder |-> rest[4]]

Digit == <<"0", "1", "2", "3", "4", "5", "6", "7", "8", "9",
           "a", "b", "c", "d", "e", "f">>

(* The loop: a digit a round, the least significant first.                 *)
Digits(word, base) ==
    LET digits[i \in Words] ==
            IF i = Zero THEN <<>>
            ELSE LET q == Divide(i, base)
                 IN  <<Digit[q.remainder + 1]>> \o digits[q.word]
    IN  digits[word]

SignLast(word, base) ==     \* a faulty variant: the sign comes last
    IF word = Zero THEN <<"0">>
    ELSE IF base = 10 /\ Negative(word)
         THEN Reverse(Digits(Negate(word), base)) \o <<"-">>
         ELSE Reverse(Digits(word, base))

(* Its text, without the terminator.  Only base 10 has a sign, and it has  *)
(* one for unsigned arguments, too, since the parameter is a signed long.  *)
to_string(word, base) ==
    IF word = Zero THEN <<"0">>
    ELSE IF base = 10 /\ Negative(word)
         THEN Reverse(Append(Digits(Negate(word), base), "-"))
         ELSE Reverse(Digits(word, base))
-----------------------------------------------------------------------------
(* The directives: how an argument is converted, its base and its buffer.  *)
Extended(n, range) ==               \* sign extension of a number below range
    IF n >= range \div 2
    THEN <<Limb - 1, Limb - 1, Limb - 1, n + (Limb - range)>>
    ELSE Number(n)

LongArg(word) == word
ShortArg(word) == Extended(word[4], Limb)
UShortArg(word) == Number(word[4])
CharArg(word) == Extended(LowByte(word[4]), 2^8)
UCharArg(word) == Number(LowByte(word[4]))

Numeric == { <<"d">>, <<"u">>, <<"x">>, <<"p">>, <<"b">> }
           \cup { <<size, kind>> : size \in Sizes, kind \in {"d", "u", "x"} }

Converted(directive, word) ==
    CASE directive = <<"h", "d">> -> ShortArg(word)
      [] directive \in { <<"h", "u">>, <<"h", "x">> } -> UShortArg(word)
      [] directive = <<"q", "d">> -> CharArg(word)
      [] directive \in { <<"q", "u">>, <<"q", "x">> } -> UCharArg(word)
      [] OTHER -> LongArg(word)

Base(directive) ==
    CASE Last(directive) \in {"d", "u"} -> 10
      [] Last(directive) \in {"x", "p"} -> 16
      [] Last(directive) = "b" -> 2

(* The sizes of the buffers; %d's can be given.                            *)
Buffers(d) ==
    [directive \in Numeric |->
        CASE directive = <<"d">> -> d
          [] directive = <<"u">> -> 10
          [] directive = <<"x">> -> 11
          [] directive = <<"p">> -> 8
          [] directive = <<"b">> -> 64
          [] directive = <<"h", "d">> -> 6
          [] directive = <<"h", "u">> -> 5
          [] directive = <<"h", "x">> -> 4
          [] directive = <<"l", "d">> -> 21
          [] directive = <<"l", "u">> -> 20
          [] directive = <<"l", "x">> -> 8
          [] directive = <<"q", "d">> -> 4
          [] directive = <<"q", "u">> -> 3
          [] directive = <<"q", "x">> -> 2]

SmallBuffer == Buffers(10)          \* a faulty variant: %d with the buffer of %u
Buffer == Buffers(20)
-----------------------------------------------------------------------------
VARIABLES
    parts,          \* the format
    args,           \* its arguments, one for each directive
    fmt,            \* where the walk is in the spelling
    taken,          \* arguments taken by this walk
    screen, serial, \* rounds of the two walks: for each its calls of print_c_f
                    \* and print_str_f, and for each call its text
    c_count,        \* characters the first walk counted, a tab as four
    overrun,        \* [directive, word, bytes] written past the end of a buffer
    walk            \* "screen", "serial", "done"; "beyond": behind the format

printkVars == <<parts, args, fmt, taken, screen, serial, c_count, overrun, walk>>

Spelling == FlattenSeq(parts)
At(n) == IF n <= Len(Spelling) THEN Spelling[n] ELSE Nul

(* VGA_display_char shows a tab as four spaces, and returns 4 for it; that *)
(* of %c is taken to be no tab.                                            *)
Spread(text) == IF text = <<Tab>> THEN <<"space", "space", "space", "space">> ELSE text
Shown(texts) == [n \in 1..Len(texts) |-> Spread(texts[n])]

(* A round of a walk: its calls, the characters it takes of the format and *)
(* how many arguments.                                                     *)
Calls(texts, n, k) ==
    /\ IF walk = "screen"
       THEN /\ screen' = Append(screen, texts) /\ UNCHANGED serial
            /\ c_count' = c_count + Len(FlattenSeq(Shown(texts)))
       ELSE serial' = Append(serial, texts) /\ UNCHANGED <<screen, c_count>>
    /\ fmt' = fmt + n
    /\ walk' = IF fmt + n > Len(Spelling) + 1 THEN "beyond" ELSE walk
    /\ taken' = taken + k
    /\ UNCHANGED <<parts, args>>

Plain ==
    /\ At(fmt) \notin {"%", Nul}
    /\ Calls(<< <<At(fmt)>> >>, 1, 0)
    /\ UNCHANGED overrun

SizeAlways == <<At(fmt + 1), At(fmt + 2)>>      \* a faulty variant

Directive == IF At(fmt + 1) \in Sizes THEN <<At(fmt + 1), At(fmt + 2)>>
             ELSE <<At(fmt + 1)>>

(* va_arg; behind the last argument it would find anything, here zero.     *)
ArgumentAt(k) == IF k < Len(args) THEN args[k + 1] ELSE Zero
Argument == ArgumentAt(taken)

PrintNumber ==
    /\ At(fmt) = "%" /\ Directive \in Numeric
    /\ LET word == Converted(Directive, Argument)
           s == to_string(word, Base(Directive))
       IN  /\ Calls(<<s>>, 1 + Len(Directive), 1)
           /\ overrun' = IF Len(s) + 1 <= Buffer[Directive] THEN overrun
                         ELSE overrun \cup {[directive |-> Directive, word |-> Argument,
                                             bytes |-> (Len(s) + 1) - Buffer[Directive]]}

(* %c and %s: the argument stands for the character or string itself.      *)
PrintText ==
    /\ At(fmt) = "%" /\ Directive \in { <<"c">>, <<"s">> }
    /\ Calls(<< Directive >>, 2, 1)
    /\ UNCHANGED overrun

(* %% and what is no directive; for %h the second character is an x.       *)
PrintLiteral ==
    /\ At(fmt) = "%"
    /\ Directive \notin Numeric \cup { <<"c">>, <<"s">> }
    /\ Calls(CASE Directive = <<"%">> -> << <<"%">> >>
               [] Directive[1] = "h" -> << <<"%">>, <<"x">>, <<Directive[2]>> >>
               [] Directive[1] \in {"l", "q"} ->
                    << <<"%">>, <<Directive[1]>>, <<Directive[2]>> >>
               [] OTHER -> << <<"%">>, Directive >>,
             1 + Len(Directive), 0)
    /\ UNCHANGED overrun

ResetArgs == taken' = 0

EndOfFormat ==
    /\ At(fmt) = Nul
    /\ walk' = IF walk = "screen" THEN "serial" ELSE "done"
    /\ fmt' = 1
    /\ ResetArgs
    /\ UNCHANGED <<parts, args, screen, serial, c_count, overrun>>

WalkNext ==
    /\ walk \in {"screen", "serial"}
    /\ Plain \/ PrintNumber \/ PrintText \/ PrintLiteral \/ EndOfFormat

IsDirective(part) == part[1] = "%" /\ Tail(part) \in Numeric \cup { <<"c">>, <<"s">> }
ArgumentsBefore(n) == Cardinality({i \in 1..(n - 1) : IsDirective(parts[i])})

PrintkInit ==
    /\ parts \in Formats
    /\ args \in [1..ArgumentsBefore(Len(parts) + 1) -> Values]
    /\ fmt = 1 /\ taken = 0 /\ walk = "screen"
    /\ screen = <<>> /\ serial = <<>> /\ c_count = 0 /\ overrun = {}

Finished == walk \in {"done", "beyond"} /\ UNCHANGED printkVars

PrintkNext == WalkNext \/ Finished

PrintkSpec == PrintkInit /\ [][PrintkNext]_printkVars
-----------------------------------------------------------------------------
(* What a numeral says, without to_string: the value of its digits modulo  *)
(* 2^64, and the form every value has exactly once.                        *)
DigitValue(c) == (CHOOSE n \in 1..16 : Digit[n] = c) - 1

Appended(word, base, digit) ==
    LET carry[n \in 0..4] ==            \* out of the last n limbs
            IF n = 0 THEN digit ELSE (word[5 - n] * base + carry[n - 1]) \div Limb
    IN  Limbs([n \in 1..4 |-> (word[n] * base + carry[4 - n]) % Limb])

HasSign(text) == text[1] = "-"
Magnitude(text) == IF HasSign(text) THEN Tail(text) ELSE text

Value(text, base) ==
    LET c == Magnitude(text)
        value[n \in 0..Len(c)] ==
            IF n = 0 THEN Zero
            ELSE LET v == value[n - 1] IN Appended(v, base, DigitValue(c[n]))
    IN  IF HasSign(text) THEN Negate(value[Len(c)]) ELSE value[Len(c)]

IsNumeral(text, base) ==
    LET digits == Magnitude(text)
    IN  /\ digits # <<>>
        /\ \A i \in 1..Len(digits) : digits[i] \in {Digit[n] : n \in 1..base}
        /\ digits[1] = "0" => text = <<"0">>

(* The calls a part stands for, its argument given.                        *)
StandsFor(texts, part, word) ==
    IF IsDirective(part) /\ Tail(part) \in Numeric
    THEN LET base == Base(Tail(part))  number == Converted(Tail(part), word)
         IN  /\ Len(texts) = 1
             /\ IsNumeral(texts[1], base)
             /\ HasSign(texts[1]) = (base = 10 /\ Negative(number))
             /\ Value(texts[1], base) = number
    ELSE IF IsDirective(part) THEN texts = << Tail(part) >>
    ELSE IF part = <<"%", "%">> THEN texts = << <<"%">> >>
    ELSE texts = [n \in 1..Len(part) |->
                    << IF n = 2 /\ part[n] = "h" THEN "x" ELSE part[n] >>]

(* A format is printed part by part, each directive with its own argument: *)
(* the numeral written is the argument as converted, at full width, the    *)
(* lowest long and unsigned values of 2^63 and more included, which come   *)
(* out with a sign.  The serial port gets what the screen got, and the     *)
(* characters counted are those the screen shows, four for a tab.          *)
PrintsFormat ==
    walk = "done" =>
        /\ serial = screen
        /\ Len(screen) = Len(parts)
        /\ c_count = Len(FlattenSeq(Shown(FlattenSeq(screen))))
        /\ \A n \in 1..Len(parts) :
            StandsFor(screen[n], parts[n], ArgumentAt(ArgumentsBefore(n)))

(* No buffer is overrun by more than the terminator, and that of %ld not   *)
(* at all, but for the four that hold 32 bits although a long is taken     *)
(* (%u, %x, %p, %lx), and these only by arguments of more than 32 bits.    *)
BuffersHold ==
    \A o \in overrun :
        /\ o.directive # <<"l", "d">>
        /\ \/ o.bytes = 1
           \/ /\ o.directive \in { <<"u">>, <<"x">>, <<"p">>, <<"l", "x">> }
              /\ o.word[1] # 0 \/ o.word[2] # 0

(* Both walks stop at the terminator; only a format that ends within a     *)
(* directive is read beyond it.                                            *)
ReadsInside == walk = "beyond" => CutShort(Last(parts))
=============================================================================
