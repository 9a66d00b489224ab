------------------------------ MODULE JsValues ------------------------------
(***************************************************************************)
(* The JavaScript values and built-in conversions the connector's config   *)
(* code relies on (src/packages/webfleet-connector/src/config/index.ts).   *)
(*                                                                         *)
(* A value is tagged by its JavaScript type, so that values of different   *)
(* types can live in one function:                                         *)
(*   Num(n)   a finite integral number   Bool(b)   a boolean               *)
(*   Str(s)   a string, s the sequence of its one-character strings        *)
(*   NaN, Null, Undefined                 model values                     *)
(* Non-integral and infinite numbers are outside the model: the inputs the *)
(* models enumerate never produce them (see ASSUMEs of the users).         *)
(***************************************************************************)
EXTENDS Integers, Sequences, SequencesExt

CONSTANTS NaN, Null, Undefined

Num(n)  == [num |-> n]
Bool(b) == [bool |-> b]
Str(s)  == [str |-> s]

IsNum(v) == v \in [num : Int]
IsStr(v) == v \in [str : Seq(STRING)]

\* typeof v === 'number': NaN is a number too.
IsNumberType(v) == IsNum(v) \/ v = NaN

(***************************************************************************)
(* Characters.                                                             *)
(***************************************************************************)
DigitValue == "0" :> 0 @@ "1" :> 1 @@ "2" :> 2 @@ "3" :> 3 @@ "4" :> 4
           @@ "5" :> 5 @@ "6" :> 6 @@ "7" :> 7 @@ "8" :> 8 @@ "9" :> 9

HexDigitValue == DigitValue
           @@ "a" :> 10 @@ "b" :> 11 @@ "c" :> 12 @@ "d" :> 13 @@ "e" :> 14
           @@ "f" :> 15 @@ "A" :> 10 @@ "B" :> 11 @@ "C" :> 12 @@ "D" :> 13
           @@ "E" :> 14 @@ "F" :> 15

LowerOf == "A" :> "a" @@ "B" :> "b" @@ "C" :> "c" @@ "D" :> "d" @@ "E" :> "e"
        @@ "F" :> "f" @@ "G" :> "g" @@ "H" :> "h" @@ "I" :> "i" @@ "J" :> "j"
        @@ "K" :> "k" @@ "L" :> "l" @@ "M" :> "m" @@ "N" :> "n" @@ "O" :> "o"
        @@ "P" :> "p" @@ "Q" :> "q" @@ "R" :> "r" @@ "S" :> "s" @@ "T" :> "t"
        @@ "U" :> "u" @@ "V" :> "v" @@ "W" :> "w" @@ "X" :> "x" @@ "Y" :> "y"
        @@ "Z" :> "z"

WhiteSpace == {" ", "\t", "\n"}

\* String.prototype.toLowerCase, on the letters of the model's alphabet.
ToLowerCase(s) ==
    [i \in DOMAIN s |-> IF s[i] \in DOMAIN LowerOf THEN LowerOf[s[i]] ELSE s[i]]

RECURSIVE TrimStart(_)
TrimStart(s) == IF s # <<>> /\ Head(s) \in WhiteSpace THEN TrimStart(Tail(s)) ELSE s

Trim(s) == Reverse(TrimStart(Reverse(TrimStart(s))))

IsDigits(s, digits) == s # <<>> /\ \A i \in DOMAIN s : s[i] \in DOMAIN digits

\* The value of a digit sequence in a base.
DigitsValue(s, base, digits) == FoldLeft(LAMBDA acc, c : base * acc + digits[c], 0, s)

\* The longest prefix of s made of decimal digits.
RECURSIVE DigitPrefix(_)
DigitPrefix(s) ==
    IF s # <<>> /\ Head(s) \in DOMAIN DigitValue
    THEN <<Head(s)>> \o DigitPrefix(Tail(s))
    ELSE <<>>

SignOf(s) == IF s # <<>> /\ Head(s) = "-" THEN -1 ELSE 1
Unsigned(s) == IF s # <<>> /\ Head(s) \in {"+", "-"} THEN Tail(s) ELSE s

(***************************************************************************)
(* Number(s), the StringToNumber conversion, for literals without a        *)
(* fraction: [+-]digits[(e|E)[+]digits], 0x/0X hex digits, or blank (0).  *)
(***************************************************************************)
ExponentAt(t) == SelectInSeq(t, LAMBDA c : c \in {"e", "E"})

IsDecimalLiteral(t) ==
    LET u == Unsigned(t)
        k == ExponentAt(u)
    IN  IF k = 0 THEN IsDigits(u, DigitValue)
        ELSE /\ IsDigits(SubSeq(u, 1, k - 1), DigitValue)
             /\ IsDigits(Unsigned(SubSeq(u, k + 1, Len(u))), DigitValue)
             /\ SubSeq(u, k + 1, Len(u))[1] # "-"

DecimalValue(t) ==
    LET u == Unsigned(t)
        k == ExponentAt(u)
    IN  IF k = 0 THEN SignOf(t) * DigitsValue(u, 10, DigitValue)
        ELSE SignOf(t) * DigitsValue(SubSeq(u, 1, k - 1), 10, DigitValue)
                       * 10 ^ DigitsValue(Unsigned(SubSeq(u, k + 1, Len(u))), 10, DigitValue)

IsHexLiteral(t) ==
    Len(t) > 2 /\ t[1] = "0" /\ t[2] \in {"x", "X"} /\ IsDigits(SubSeq(t, 3, Len(t)), HexDigitValue)

StringToNumber(s) ==
    LET t == Trim(s)
    IN  CASE t = <<>>            -> Num(0)
          [] IsHexLiteral(t)     -> Num(DigitsValue(SubSeq(t, 3, Len(t)), 16, HexDigitValue))
          [] IsDecimalLiteral(t) -> Num(DecimalValue(t))
          [] OTHER               -> NaN

\* parseInt(s, 10): sign and longest digit prefix after leading white space.
ParseInt10(s) ==
    LET t == TrimStart(s)
        d == DigitPrefix(Unsigned(t))
    IN  IF d = <<>> THEN NaN ELSE Num(SignOf(t) * DigitsValue(d, 10, DigitValue))

\* The leaf value JSON.parse(JSON.stringify(v)) yields: NaN becomes null;
\* an undefined property is dropped, and reading it gives undefined again.
JsonClone(v) == IF v = NaN THEN Null ELSE v

=============================================================================
