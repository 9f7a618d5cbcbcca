------------------------------- MODULE Printf -------------------------------
(***************************************************************************)
(* vsprintf.c: vsprintf() and number(), and simple_strtoul(), which reads  *)
(* a number back.  A character is a string of length one, a text a         *)
(* sequence of them; a format is a sequence of conversions, already split  *)
(* into flags, width, precision, qualifier and letter, in which an         *)
(* ordinary character is a conversion "lit".  Words have WordBits bits.    *)
(***************************************************************************)
EXTENDS Integers, Sequences, SequencesExt

CONSTANT WordBits
ASSUME PrintfAssumption == WordBits \in Nat /\ WordBits % 4 = 0 /\ WordBits > 0

None == -1
Star == -2          \* width or precision is the next argument

Wrap(n, bits) == n % 2 ^ bits
Signed(n, bits) == LET u == Wrap(n, bits) IN IF u < 2 ^ (bits - 1) THEN u ELSE u - 2 ^ bits

\* The fold of op over a sequence, each intermediate value evaluated once.
Folded(op(_, _), base, seq) ==
    LET at[n \in 0 .. Len(seq)] == IF n = 0 THEN base ELSE LET t == at[n - 1] IN op(t, seq[n])
    IN  at[Len(seq)]
Repeat(ch, n) == IF n > 0 THEN [i \in 1 .. n |-> ch] ELSE <<>>
Larger(a, b) == IF a < b THEN b ELSE a
LowerDigits == <<"0", "1", "2", "3", "4", "5", "6", "7", "8", "9", "a", "b", "c", "d", "e", "f">>
UpperDigits == <<"0", "1", "2", "3", "4", "5", "6", "7", "8", "9", "A", "B", "C", "D", "E", "F">>

-----------------------------------------------------------------------------
\* The digits of u, the most significant one first.
Numeral(u, base) ==
    LET places[n \in Nat] ==
            IF n < base THEN <<n>> ELSE Append(places[n \div base], n % base)
    IN  places[u]

\* A mutant: zeros before the sign.
Justified_SignInside(left, zeropad, pad, lead, digits) ==
    (IF left THEN <<>> ELSE Repeat(IF zeropad THEN "0" ELSE " ", pad))
    \o lead \o digits \o (IF left THEN Repeat(" ", pad) ELSE <<>>)

\* Padding goes behind the number, between sign or prefix and digits, or before all.
Justified(left, zeropad, pad, lead, digits) ==
    CASE left                -> lead \o digits \o Repeat(" ", pad)
      [] ~left /\ zeropad    -> lead \o Repeat("0", pad) \o digits
      [] ~left /\ ~zeropad   -> Repeat(" ", pad) \o lead \o digits

number(num, base, size, precision, type) ==
    LET table == IF "LARGE" \in type THEN UpperDigits ELSE LowerDigits
        sign == IF "SIGN" \notin type THEN <<>>
                ELSE IF num < 0 THEN <<"-">>
                ELSE IF "PLUS" \in type THEN <<"+">>
                ELSE IF "SPACE" \in type THEN <<" ">> ELSE <<>>
        prefix == IF "SPECIAL" \notin type THEN <<>>
                  ELSE IF base = 8 THEN <<"0">>
                  ELSE IF base = 16 THEN <<"0", IF "LARGE" \in type THEN "X" ELSE "x">> ELSE <<>>
        magnitude == Wrap(IF sign = <<"-">> THEN -num ELSE num, WordBits)
        places == Numeral(magnitude, base)
        digits == [i \in DOMAIN places |-> table[places[i] + 1]]
        lead == sign \o prefix
        pad == size - Len(lead) - Larger(precision, Len(digits))
    IN  Justified("LEFT" \in type, "ZEROPAD" \in type, pad, lead,
                  Repeat("0", precision - Len(digits)) \o digits)

-----------------------------------------------------------------------------
Lit(ch) == [conv |-> "lit", ch |-> ch]
Conv(conv, flags, width, precision, qualifier) ==
    [conv |-> conv, flags |-> flags, width |-> width, precision |-> precision,
     qualifier |-> qualifier]

BaseOf(conv) == CASE conv = "o" -> 8 [] conv \in {"x", "X", "p"} -> 16 [] OTHER -> 10
FlagsOf(conv) == CASE conv = "X" -> {"LARGE"} [] conv \in {"d", "i"} -> {"SIGN"} [] OTHER -> {}

\* The argument as the conversion takes it: a short if the qualifier is h.
Taken(conv, qualifier, n) ==
    LET bits == IF qualifier = "h" THEN WordBits \div 2 ELSE WordBits
    IN  IF conv \in {"d", "i"} THEN Signed(n, bits) ELSE Wrap(n, bits)

Justify(text, width, flags) ==
    IF "LEFT" \in flags THEN text \o Repeat(" ", width - Len(text))
    ELSE Repeat(" ", width - Len(text)) \o text

\* Every byte through sprintf() with a separator behind it; the last one is dropped.
Joined(bytes, separator, Form(_)) ==
    Front(Folded(LAMBDA s, b : s \o Form(b) \o <<separator>>, <<>>, bytes))
NullText == <<"<", "N", "U", "L", "L", ">">>

\* What the conversion d makes of the argument arg, its width and precision known.
Expand(d, flags, width, precision, arg) ==
    CASE d.conv = "c" -> Justify(<<arg>>, width, flags)
      [] d.conv = "s" ->
         LET s == IF arg.null THEN NullText ELSE arg.text
             len == IF precision = None \/ Len(s) < precision THEN Len(s) ELSE precision
         IN  Justify(SubSeq(s, 1, len), width, flags)
      [] d.conv = "p" ->
         IF width = None
         THEN number(arg, 16, WordBits \div 4, precision, flags \cup {"ZEROPAD"})
         ELSE number(arg, 16, width, precision, flags)
      [] d.conv = "@" -> Joined(arg, ".", LAMBDA b : number(b, 10, None, None, {"SIGN"}))
      [] d.conv = "!" -> Joined(arg, ":", LAMBDA b : number(b, 16, 2, None, {"ZEROPAD", "LARGE"}))
      [] d.conv = "n" -> <<>>
      [] OTHER -> number(Taken(d.conv, d.qualifier, arg), BaseOf(d.conv), width, precision,
                         flags \cup FlagsOf(d.conv))

\* One turn of the loop: acc is the text so far and the arguments not yet taken.
Directive(acc, d) ==
    LET rest == IF d.width = Star THEN Tail(acc.args) ELSE acc.args
        width == IF d.width = Star THEN Head(acc.args) ELSE d.width
        precision == IF d.precision = Star THEN Larger(Head(rest), 0) ELSE d.precision
        args == IF d.precision = Star THEN Tail(rest) ELSE rest
        turned == d.width = Star /\ width < 0
    IN  CASE d.conv = "lit" -> [acc EXCEPT !.str = Append(@, d.ch)]
          [] d.conv = "%" -> [acc EXCEPT !.str = Append(@, "%")]
          [] OTHER ->
             [str |-> acc.str \o Expand(d, IF turned THEN d.flags \cup {"LEFT"} ELSE d.flags,
                                        IF turned THEN -width ELSE width, precision, Head(args)),
              args |-> Tail(args)]

vsprintf(fmt, args) == Folded(Directive, [str |-> <<>>, args |-> args], fmt).str

-----------------------------------------------------------------------------
HexValue(ch) == (CHOOSE i \in 1 .. 16 : ch \in {LowerDigits[i], UpperDigits[i]}) - 1
isxdigit(ch) == \E i \in 1 .. 16 : ch \in {LowerDigits[i], UpperDigits[i]}

simple_strtoul(cp, base0) ==
    LET octal == base0 = 0 /\ cp # <<>> /\ cp[1] = "0"
        hex == octal /\ Len(cp) > 2 /\ cp[2] = "x" /\ isxdigit(cp[3])
        base == IF base0 # 0 THEN base0 ELSE IF hex THEN 16 ELSE IF octal THEN 8 ELSE 10
        rest == SubSeq(cp, IF hex THEN 3 ELSE IF octal THEN 2 ELSE 1, Len(cp))
        read == CHOOSE n \in 0 .. Len(rest) :
                    /\ \A i \in 1 .. n : isxdigit(rest[i]) /\ HexValue(rest[i]) < base
                    /\ n < Len(rest) => ~(isxdigit(rest[n + 1]) /\ HexValue(rest[n + 1]) < base)
    IN  Folded(LAMBDA result, ch : Wrap(result * base + HexValue(ch), WordBits), 0,
                 SubSeq(rest, 1, read))

simple_strtol(cp, base) ==
    Signed(IF cp # <<>> /\ cp[1] = "-" THEN -simple_strtoul(Tail(cp), base)
           ELSE simple_strtoul(cp, base), WordBits)
=============================================================================
