------------------------------- MODULE Printk -------------------------------
(***************************************************************************)
(* Formatted output: number and vsprintf of kernel/printk.c, and printint  *)
(* and printf of ulib/printf.c.  Text is a sequence of characters, the     *)
(* arguments a sequence of numbers and texts; a number is given as the     *)
(* bits that the call passes, below LONG.                                  *)
(*                                                                         *)
(* The console: arch/x86_64/vgaoutput.c, arch/x86_64/uart.c and the        *)
(* printing functions of kernel/printk.c that end in them.  A call holds   *)
(* spin_vga with interrupts off from its first character to its last, so   *)
(* the console is a function of the calls in the order they take the lock. *)
(* The state is a record: rows, the video memory by row from row 0 on (the *)
(* screen shows rows 0 to max_ypos - 1), xpos, ypos and sent, what the     *)
(* serial line has been given.                                             *)
(***************************************************************************)
EXTENDS Integers, Sequences, FiniteSets, FiniteSetsExt, SequencesExt

CONSTANTS LONG, INT, SHORT, POINTER   \* values of the types, and 2 * sizeof(void *)
CONSTANTS max_ypos, max_xpos, Rows   \* Rows: of the video memory

digits == <<"0", "1", "2", "3", "4", "5", "6", "7", "8", "9", "A", "B", "C", "D", "E", "F">>
small == <<"0", "1", "2", "3", "4", "5", "6", "7", "8", "9", "a", "b", "c", "d", "e", "f">>
isdigit(c) == \E i \in 1..10 : digits[i] = c

\* The two readings of a number's bits.
Signed(n, type) == IF n % type >= type \div 2 THEN (n % type) - type ELSE n % type
Unsigned(n, type) == n % type

Repeat(c, n) == [i \in 1..Max({n, 0}) |-> c]
InBase(n, base, ds) == LET f[k \in Nat] == IF k = 0 THEN <<>> ELSE Append(f[k \div base], ds[(k % base) + 1]) IN f[n]
-----------------------------------------------------------------------------
\* Mutant: the sign takes no room.
numberWide(num, base, size, precision, flags) ==
  LET signed == "SIGN" \in flags
      sign == IF signed /\ num < 0 THEN <<"-">> ELSE <<>>
      ds == IF num = 0 THEN <<"0">> ELSE InBase((IF num < 0 THEN -num ELSE num) % LONG, base, digits)
  IN  Repeat(" ", size - Max({precision, Len(ds)})) \o sign \o ds

\* num is a long; the unsigned division makes up for its sign where it has
\* none, and for the lowest one, whose negation is itself.
number(num, base, size, precision, flags) ==
  LET ds == IF "SMALL" \in flags THEN small ELSE digits
      zeropad == "0" \in flags /\ "-" \notin flags
      sign == CASE "SIGN" \in flags /\ num < 0 -> <<"-">>
                [] "SIGN" \in flags /\ num >= 0 /\ "+" \in flags -> <<"+">>
                [] "SIGN" \in flags /\ num >= 0 /\ "+" \notin flags /\ " " \in flags -> <<" ">>
                [] OTHER -> <<>>
      special == IF "#" \notin flags \/ base = 10 THEN <<>>
                 ELSE IF base = 8 THEN <<"0">> ELSE <<"0", IF "SMALL" \in flags THEN "x" ELSE "X">>
      mag == (IF sign = <<"-">> THEN -num ELSE num) % LONG
      tmp == IF num = 0 THEN <<"0">> ELSE InBase(mag, base, ds)
      zeros == Repeat("0", precision - Len(tmp))
      left == size - Len(sign) - Len(special) - Len(zeros) - Len(tmp)
  IN  Repeat(" ", IF zeropad \/ "-" \in flags THEN 0 ELSE left) \o sign \o special
        \o Repeat("0", IF zeropad THEN left ELSE 0) \o zeros \o tmp
        \o Repeat(" ", IF "-" \in flags THEN left ELSE 0)

\* The character at i; the text ends with a zero.
At(s, i) == IF i <= Len(s) THEN s[i] ELSE ""
Run(s, i, P(_)) == LET f[k \in Nat] == IF At(s, k) # "" /\ P(At(s, k)) THEN f[k + 1] ELSE k IN f[i]
skip_atoi(s, i, j) == LET f[k \in Nat] == IF k = i THEN 0 ELSE f[k - 1] * 10 + SelectInSeq(digits, LAMBDA c : c = s[k - 1]) - 1
                      IN  f[j]

\* A number at i, or the next argument for "*", or none: its value, where it
\* ends and how many arguments it took.
Field(s, i, args, none) ==
  LET j == Run(s, i, isdigit)
  IN  CASE j > i -> [v |-> skip_atoi(s, i, j), at |-> j, took |-> 0]
        [] j = i /\ At(s, i) = "*" -> [v |-> Signed(Head(args), INT), at |-> i + 1, took |-> 1]
        [] OTHER -> [v |-> none, at |-> i, took |-> 0]

\* The directive at i with its flags before f, its width w, its precision p.
Parsed(s, i, f, w, p, args) ==
  LET q == At(s, p.at) \in {"h", "l", "L"}
      star == w.took = 1 /\ w.v < 0
  IN  [flags |-> {s[k] : k \in (i + 1)..(f - 1)} \cup (IF star THEN {"-"} ELSE {}),
       width |-> IF star THEN -w.v ELSE w.v,
       precision |-> IF At(s, w.at) = "." THEN Max({p.v, 0}) ELSE -1,
       qualifier |-> IF q THEN At(s, p.at) ELSE "",
       conv |-> IF q THEN At(s, p.at + 1) ELSE At(s, p.at),
       at |-> IF q THEN p.at + 1 ELSE p.at,
       args |-> SubSeq(args, w.took + p.took + 1, Len(args))]

Precision(s, w, args) ==
  IF At(s, w.at) = "." THEN Field(s, w.at + 1, SubSeq(args, w.took + 1, Len(args)), -1)
  ELSE [v |-> -1, at |-> w.at, took |-> 0]

\* From '%' on: flags, width, precision, qualifier, conversion.
Directive(s, i, args) ==
  LET f == Run(s, i + 1, LAMBDA c : c \in {"-", "+", " ", "#", "0"})
      Sized(w) == Parsed(s, i, f, w, Precision(s, w, args), args)
  IN  Sized(Field(s, f, args, -1))

\* What a conversion writes.
Converted(d) ==
  LET flags == d.flags \cup (IF d.conv \in {"d", "i"} THEN {"SIGN"} ELSE {}) \cup (IF d.conv = "x" THEN {"SMALL"} ELSE {})
      a == Head(d.args)
      type == CASE d.qualifier = "l" -> LONG [] d.qualifier = "h" -> SHORT [] OTHER -> INT
      num == IF d.qualifier = "l" \/ "SIGN" \in flags THEN Signed(a, type) ELSE Unsigned(a, type)
      base == CASE d.conv = "o" -> 8 [] d.conv \in {"x", "X"} -> 16 [] OTHER -> 10
      Padded(t) == IF "-" \in flags THEN t \o Repeat(" ", d.width - Len(t)) ELSE Repeat(" ", d.width - Len(t)) \o t
  IN  CASE d.conv = "c" -> Padded(<<a>>)
        [] d.conv = "s" -> Padded(SubSeq(a, 1, IF d.precision = -1 THEN Len(a) ELSE Min({d.precision, Len(a)})))
        [] d.conv = "p" -> number(Signed(a, LONG), 16, IF d.width = -1 THEN POINTER ELSE d.width, d.precision,
                                  IF d.width = -1 THEN flags \cup {"0"} ELSE flags)
        [] d.conv \in {"o", "x", "X", "d", "i", "u"} -> number(num, base, d.width, d.precision, flags)
        [] d.conv = "n" -> <<>>
        [] d.conv = "%" -> <<"%">>
        [] d.conv = "" -> <<"%">>
        [] OTHER -> <<"%", d.conv>>

\* The text, and what %n stored.
vsprintf(s, all) ==
  LET takes(d) == d.conv \in {"c", "s", "p", "n", "o", "x", "X", "d", "i", "u"}
      RECURSIVE from(_, _, _, _)
      from(i, args, out, stored) ==
        LET after(d) == from(d.at + 1, IF takes(d) THEN Tail(d.args) ELSE d.args, out \o Converted(d),
                             IF d.conv = "n" THEN Append(stored, Len(out)) ELSE stored)
        IN  IF i > Len(s) THEN [out |-> out, stored |-> stored]
            ELSE IF s[i] # "%" THEN from(i + 1, args, Append(out, s[i]), stored)
            ELSE after(Directive(s, i, args))
  IN  from(1, all, <<>>, <<>>)
-----------------------------------------------------------------------------
\* ulib/printf.c

printint(xx, base, sgn) ==
  LET neg == sgn /\ Signed(xx, INT) < 0
      x == Unsigned(IF neg THEN -Signed(xx, INT) ELSE xx, INT)
      buf == IF x = 0 THEN <<"0">> ELSE InBase(x, base, digits)
  IN  IF neg THEN <<"-">> \o buf ELSE buf

printf(s, all) ==
  LET RECURSIVE from(_, _, _)
      from(i, args, out) ==
        LET c == At(s, i + 1)
        IN  IF i > Len(s) \/ (s[i] = "%" /\ c = "") THEN out
            ELSE IF s[i] # "%" THEN from(i + 1, args, Append(out, s[i]))
            ELSE CASE c = "d" -> from(i + 2, Tail(args), out \o printint(Head(args), 10, TRUE))
                   [] c \in {"x", "p"} -> from(i + 2, Tail(args), out \o printint(Head(args), 16, FALSE))
                   [] c = "s" -> from(i + 2, Tail(args), out \o Head(args))
                   [] c = "c" -> from(i + 2, Tail(args), Append(out, Head(args)))
                   [] c = "%" -> from(i + 2, args, Append(out, "%"))
                   [] OTHER -> from(i + 2, args, out \o <<"%", c>>)
  IN  from(1, all, <<>>)
\* atoi of ulib/ulib.c: the digits that the text begins with.
atoi(s) == skip_atoi(s, 1, Run(s, 1, isdigit)) % INT
-----------------------------------------------------------------------------
\* The value that a reader takes a text for: blanks, sign, prefix, digits.
Read(t, base) ==
  LET u == SelectSeq(t, LAMBDA c : c \notin {" ", "+", "-", "x", "X"})
      Digit(c) == CHOOSE i \in 1..16 : digits[i] = c \/ small[i] = c
      v[k \in Nat] == IF k = 0 THEN 0 ELSE v[k - 1] * base + Digit(u[k]) - 1
  IN  IF \E k \in DOMAIN t : t[k] = "-" THEN -v[Len(u)] ELSE v[Len(u)]

\* A number printed by any directive reads back as the argument, seen as the
\* type that the directive names, its lowest value included; the text fills
\* the field, overflows it only if it must, stands where the flags say, and
\* lets the next directive find its own argument.  A user program's printf
\* agrees with the kernel's, and its atoi reads back what printf wrote of a
\* number without sign.
NumbersReadBack(fs, w, p, q, c, a) ==
  LET s == <<"%">> \o fs \o w \o p \o q \o <<c, "|", "%", "n", "%", "c">>
      type == CASE q = <<"l">> -> LONG [] q = <<"h">> -> SHORT [] OTHER -> INT
      want == IF c = "d" THEN Signed(a, type) ELSE Unsigned(a, type)
      base == CASE c = "d" \/ c = "u" -> 10 [] c = "o" -> 8 [] OTHER -> 16
  IN  /\ \A r \in {vsprintf(s, <<a, 0, "z">>)}, d \in {Directive(s, 1, <<>>)} :
           \A t \in {SubSeq(r.out, 1, Len(r.out) - 2)} :
             /\ Read(t, base) = want
             /\ SubSeq(r.out, Len(r.out) - 1, Len(r.out)) = <<"|", "z">>
             /\ r.stored = <<Len(r.out) - 1>>
             /\ Len(t) >= d.width
             /\ Len(t) > d.width /\ d.flags \cap {" "} = {} => SelectSeq(t, LAMBDA x : x # " ") = t
             /\ "-" \in d.flags /\ " " \notin d.flags => t = <<>> \/ t[1] # " "
             /\ "-" \notin d.flags => Last(t) # " "
      /\ c \in {"d", "X"} => printf(<<"%", IF c = "d" THEN "d" ELSE "x">>, <<a>>)
                               = vsprintf(<<"%", c>>, <<a>>).out
      /\ Signed(a, INT) >= 0 => atoi(printf(<<"%", "d", "|", "%", "d">>, <<a, a>>)) = Unsigned(a, INT)
-----------------------------------------------------------------------------
blank == <<7, " ">>   \* 0x720
blank_row == [x \in 0..(max_xpos - 1) |-> blank]

\* uart is set when there is a serial port.
uart_early_init(status) == status # 255
\* The port is given the character even when it is still busy after 128 polls.
uart_putc(uart, sent, c) == IF uart THEN Append(sent, c) ELSE sent
\* Nothing, or the character that the line status says has been received.
uart_getc(uart, line) == IF ~uart \/ line = <<>> THEN -1 ELSE Head(line)

\* Mutant: the rows move down.
scrollDown(s) ==
  [s EXCEPT !.rows = [y \in DOMAIN s.rows |-> IF y \in 1..max_ypos THEN s.rows[y - 1] ELSE s.rows[y]],
            !.ypos = max_ypos - 1]

\* Rows 1 .. max_ypos - 1 move up by one.
scroll(s) ==
  [s EXCEPT !.rows = [y \in DOMAIN s.rows |-> IF y < max_ypos - 1 THEN s.rows[y + 1]
                                              ELSE IF y = max_ypos - 1 THEN blank_row ELSE s.rows[y]],
            !.ypos = max_ypos - 1]

\* One character.
put(uart, attribute_byte, s0, c) ==
  LET s == [(IF s0.ypos > max_ypos THEN scroll(s0) ELSE s0) EXCEPT !.sent = uart_putc(uart, s0.sent, c)]
  IN  IF c = "\n" THEN [s EXCEPT !.xpos = 0, !.ypos = @ + 1]
      ELSE IF c = "\r" THEN s
      ELSE LET wrap == s.xpos + 1 >= max_xpos
           IN  [s EXCEPT !.rows[s.ypos][s.xpos] = <<attribute_byte, c>>,
                         !.xpos = IF wrap THEN 0 ELSE @ + 1,
                         !.ypos = IF wrap THEN @ + 1 ELSE @]

vga_puts_color(uart, back, fore, s, str) ==
  FoldLeft(LAMBDA t, c : put(uart, back * 16 + (fore % 16), t, c), s, str)
vga_puts(uart, s, str) == vga_puts_color(uart, 0, 7, s, str)

\* printk, printf, printk_color: the text that vsprintf made, in the order of
\* the calls.
printk(uart, s, call) ==
  IF call.color = <<>> THEN vga_puts(uart, s, call.str)
  ELSE vga_puts_color(uart, call.color[1], call.color[2], s, call.str)

booted == [rows |-> [y \in 0..(Rows - 1) |-> blank_row], xpos |-> 0, ypos |-> 0, sent |-> <<>>]
printed(uart, calls) == FoldLeft(LAMBDA s, c : printk(uart, s, c), booted, calls)
-----------------------------------------------------------------------------
\* The text set in lines of max_xpos characters.
typeset(calls) ==
  LET One(color, t, c) ==
        LET row == IF c \in {"\n", "\r"} THEN Last(t) ELSE Append(Last(t), <<color, c>>)
            u == Append(Front(t), row)
        IN  IF c = "\n" \/ Len(row) = max_xpos THEN Append(u, <<>>) ELSE u
      Call(t, call) == LET color == IF call.color = <<>> THEN 7 ELSE call.color[1] * 16 + (call.color[2] % 16)
                       IN  FoldLeft(LAMBDA v, c : One(color, v, c), t, call.str)
  IN  FoldLeft(Call, <<<<>>>>, calls)

\* The screen shows lines of the text, whole, in the order they were printed
\* and each at most once, wherever the calls and the scrolling fall; nothing
\* is written past the row that follows the screen; and the serial line has
\* every character, the lines that the screen lost included.  (The screen does not show every line: the scroll is one row
\* late, and the row that follows the screen is overwritten.)
ConsoleInOrder(calls) ==
  LET s == printed(TRUE, calls)
      text == typeset(calls)
      Row(y) == LET r == [x \in 1..max_xpos |-> s.rows[y][x - 1]] IN SelectSeq(r, LAMBDA e : e # blank)
      rows == [y \in 1..max_ypos |-> Row(y - 1)]
      shown == SelectSeq(rows, LAMBDA r : r # <<>>)
  IN  /\ \E f \in [DOMAIN shown -> DOMAIN text] :
           /\ \A i, j \in DOMAIN shown : i < j => f[i] < f[j]
           /\ \A i \in DOMAIN shown : text[f[i]] = shown[i]
      /\ \A y \in DOMAIN s.rows : y > max_ypos => s.rows[y] = blank_row
      /\ s.sent = FoldLeft(LAMBDA o, c : o \o c.str, <<>>, calls)
=============================================================================
