-------------------------------- MODULE Jsonc --------------------------------
(***************************************************************************)
(* server/src/jsonc.c, the reader of JSON with comments, and the writers   *)
(* of profile_json.h and strbuf.h.  A text is a sequence of symbols: one   *)
(* character, a run of letters that no rule looks into, or the four digits *)
(* after \u with their u ("u001f").  Texts here put no run of letters      *)
(* after a backslash.                                                      *)
(***************************************************************************)
LOCAL INSTANCE Integers
LOCAL INSTANCE SequencesExt
LOCAL INSTANCE TLC

NL == "NL"
SP == "SP"
White == {NL, SP, "TAB"}
Digits == <<"0", "1", "2", "3", "4", "5", "6", "7", "8", "9">>
Digit == {Digits[i] : i \in DOMAIN Digits}
\* Where a sequence has something first.
FirstAt(seq, x) == CHOOSE i \in DOMAIN seq : seq[i] = x /\ (\A j \in 1 .. i - 1 : seq[j] # x)

\* A value has every field of json_value; Zero is 0, and n * 10^e otherwise.
Zero == [n |-> 0, e |-> 0, infinite |-> FALSE]
Null == [kind |-> "NULL", num |-> Zero, str |-> <<>>, items |-> <<>>, keys |-> <<>>]
Number(num) == [Null EXCEPT !.kind = "NUMBER", !.num = num]
String(str) == [Null EXCEPT !.kind = "STRING", !.str = str]
Boolean(b) == [Null EXCEPT !.kind = IF b THEN "TRUE" ELSE "FALSE"]
ListOf(items) == [Null EXCEPT !.kind = "ARRAY", !.items = items]
ObjectOf(keys, items) == [Null EXCEPT !.kind = "OBJECT", !.keys = keys, !.items = items]

-----------------------------------------------------------------------------
(* strip_comments *)

\* A comment vanishes, with nothing in its place.  A string is left alone.
AfterSymbol(s, text, i) ==
  LET c == text[i]
      kept(m) == [s EXCEPT !.out = Append(@, c), !.mode = m]
      to(m) == [s EXCEPT !.mode = m]
  IN  CASE s.mode = "SKIP LINE"  -> to("LINE")
        [] s.mode = "SKIP BLOCK" -> to("BLOCK")
        [] s.mode = "NORMAL" /\ c = "/" /\ i < Len(text) /\ text[i + 1] = "/" -> to("SKIP LINE")
        [] s.mode = "NORMAL" /\ c = "/" /\ i < Len(text) /\ text[i + 1] = "*" -> to("SKIP BLOCK")
        [] s.mode = "NORMAL" -> kept(IF c = "\"" THEN "STRING" ELSE "NORMAL")
        [] s.mode = "STRING" -> kept(CASE c = "\\" -> "ESCAPE" [] c = "\"" -> "NORMAL" [] OTHER -> "STRING")
        [] s.mode = "ESCAPE" -> kept("STRING")
        [] s.mode = "LINE"   -> IF c = NL THEN kept("NORMAL") ELSE s
        [] s.mode = "BLOCK"  -> IF c = "*" THEN to("STAR") ELSE s
        [] s.mode = "STAR"   -> to(CASE c = "/" -> "NORMAL" [] c = "*" -> "STAR" [] OTHER -> "BLOCK")
\* The loop, by halves: a text is long, and the recursion stays shallow.
RECURSIVE AfterSymbols(_, _, _, _)
AfterSymbols(s, text, first, last) ==
  LET middle == (first + last) \div 2
      halfway == AfterSymbols(s, text, first, middle)
  IN  IF first > last THEN s
      ELSE IF first = last THEN AfterSymbol(s, text, first)
      ELSE IF halfway.mode = "END" THEN halfway
      ELSE AfterSymbols(halfway, text, middle + 1, last)
StripComments(text) == AfterSymbols([mode |-> "NORMAL", out |-> <<>>], text, 1, Len(text)).out

-----------------------------------------------------------------------------
(* parse_value and what it calls: from a place in a text, the value there and *)
(* the place after it                                                         *)

Failed == [ok |-> FALSE, value |-> Null, after |-> 0]
Found(value, after) == [ok |-> TRUE, value |-> value, after |-> after]
SymbolAt(text, at) == IF at <= Len(text) THEN text[at] ELSE "END"

RECURSIVE PastAll(_, _, _)
PastAll(text, at, set) ==
  IF SymbolAt(text, at) \in set THEN PastAll(text, at + 1, set) ELSE at
SkipWhite(text, at) == PastAll(text, at, White)

\* C strings end at the first NUL.
UpToNul(str) == IF Contains(str, "NUL") THEN SubSeq(str, 1, FirstAt(str, "NUL") - 1)
                ELSE str
Escape == ("\"" :> "\"") @@ ("\\" :> "\\") @@ ("/" :> "/") @@ ("n" :> NL) @@ ("t" :> "TAB")
          @@ ("u001f" :> "US") @@ ("u0000" :> "NUL")

\* parse_string_raw, after the opening quote.  Line breaks are taken as they are.

RECURSIVE StringFrom(_, _, _)
StringFrom(text, at, str) ==
  LET c == SymbolAt(text, at)
      escaped == SymbolAt(text, at + 1)
  IN  IF c = "END" THEN Failed
      ELSE IF c = "\"" THEN Found(String(UpToNul(str)), at + 1)
      ELSE IF c # "\\" THEN StringFrom(text, at + 1, Append(str, c))
      ELSE IF escaped \in DOMAIN Escape THEN StringFrom(text, at + 2, Append(str, Escape[escaped]))
      ELSE Failed
ParseString(text, at) ==
  IF SymbolAt(text, at) = "\"" THEN StringFrom(text, at + 1, <<>>) ELSE Failed

\* What strtod() makes of it: n * 10^e without trailing zeros, or infinity.
RECURSIVE Whole(_)
Whole(digits) == IF digits = <<>> THEN 0 ELSE 10 * Whole(Front(digits)) + FirstAt(Digits, Last(digits)) - 1
RECURSIVE Scaled10(_, _)
Scaled10(n, e) == IF n = 0 THEN Zero
                  ELSE IF n % 10 = 0 THEN Scaled10(n \div 10, e + 1)
                  ELSE [n |-> n, e |-> e, infinite |-> FALSE]
Infinity == [n |-> 1, e |-> 0, infinite |-> TRUE]
LargestExponent == 308
Strtod(negative, whole, fraction, exponent) ==
  LET size == Scaled10(Whole(whole \o fraction), exponent - Len(fraction))
      big == IF size.e > LargestExponent THEN Infinity ELSE size
  IN  [big EXCEPT !.n = IF negative THEN -@ ELSE @]

\* parse_number checks less than JSON: "1." and "1e" are numbers.
ParseNumber(text, at) ==
  LET negative == SymbolAt(text, at) = "-"
      first == IF negative THEN at + 1 ELSE at
      point == PastAll(text, first, Digit)
      power == IF SymbolAt(text, point) = "." THEN PastAll(text, point + 1, Digit) ELSE point
      signed == SymbolAt(text, power + 1) \in {"+", "-"}
      digits == IF signed THEN power + 2 ELSE power + 1
      end == IF SymbolAt(text, power) = "e" THEN PastAll(text, digits, Digit) ELSE power
      exponent == IF end = power THEN 0 ELSE Whole(SubSeq(text, digits, end - 1))
  IN  IF point = first THEN Failed
      ELSE Found(Number(Strtod(negative, SubSeq(text, first, point - 1), SubSeq(text, point + 1, power - 1),
                               IF SymbolAt(text, power + 1) = "-" THEN -exponent ELSE exponent)), end)

Close(kind) == IF kind = "ARRAY" THEN "]" ELSE "}"

\* parse_array and parse_object: a key only in an object, a comma may trail.
RECURSIVE ParseValue(_, _), ParseItems(_, _, _)
ParseKey(text, at) ==
  LET key == ParseString(text, at)
      colon == SkipWhite(text, key.after)
  IN  IF key.ok /\ SymbolAt(text, colon) = ":" THEN [key EXCEPT !.after = colon + 1] ELSE Failed
ParseItems(text, at, before) ==
  LET key == IF before.kind = "OBJECT" THEN ParseKey(text, at) ELSE Found(String(<<>>), at)
      item == ParseValue(text, SkipWhite(text, key.after))
      next == SkipWhite(text, item.after)
      past == SkipWhite(text, next + 1)
      value == [before EXCEPT !.items = Append(@, item.value),
                              !.keys = IF before.kind = "OBJECT" THEN Append(@, key.value.str) ELSE @]
  IN  IF ~key.ok \/ ~item.ok THEN Failed
      ELSE IF SymbolAt(text, next) = Close(before.kind) THEN Found(value, next + 1)
      ELSE IF SymbolAt(text, next) # "," THEN Failed
      ELSE IF SymbolAt(text, past) = Close(before.kind) THEN Found(value, past + 1)
      ELSE ParseItems(text, past, value)
ParseContainer(text, at, kind) ==
  LET first == SkipWhite(text, at + 1)
      empty == [Null EXCEPT !.kind = kind]
  IN  IF SymbolAt(text, first) = Close(kind) THEN Found(empty, first + 1) ELSE ParseItems(text, first, empty)
ParseValue(text, from) ==
  LET at == SkipWhite(text, from)
      c == SymbolAt(text, at)
  IN  CASE c = "{" -> ParseContainer(text, at, "OBJECT")
        [] c = "[" -> ParseContainer(text, at, "ARRAY")
        [] c = "\"" -> ParseString(text, at)
        [] c \in {"true", "false"} -> Found(Boolean(c = "true"), at + 1)
        [] c = "null" -> Found(Null, at + 1)
        [] c \in Digit \cup {"-"} -> ParseNumber(text, at)
        [] OTHER -> Failed

\* json_parse: one value and nothing after it.
Parse(text) ==
  LET stripped == StripComments(text)
      root == ParseValue(stripped, 1)
  IN  IF root.ok /\ SkipWhite(stripped, root.after) > Len(stripped) THEN root ELSE Failed

-----------------------------------------------------------------------------
(* json_obj_get and the readers with a fallback *)

\* The first of two equal keys wins; anything but an object has no keys.
Has(value, key) == value.kind = "OBJECT" /\ Contains(value.keys, <<key>>)
Get(value, key) ==
  IF Has(value, key) THEN value.items[FirstAt(value.keys, <<key>>)]
  ELSE Null
NumberIn(value, key, fallback) ==
  IF Get(value, key).kind = "NUMBER" THEN Get(value, key).num ELSE fallback
BooleanIn(value, key, fallback) ==
  IF Get(value, key).kind \in {"TRUE", "FALSE"} THEN Get(value, key).kind = "TRUE" ELSE fallback
StringIn(value, key, fallback) ==
  IF Get(value, key).kind = "STRING" THEN Get(value, key).str ELSE fallback

-----------------------------------------------------------------------------
(* sb_json_string, "%g" and profile_json_write_value *)

\* Mutant: quotes and backslashes go out as they are.
QuotedRaw(str) == <<"\"">> \o str \o <<"\"">>
Escaped(c) ==
  CASE c \in {"\"", "\\"} -> <<"\\", c>>
    [] c = NL -> <<"\\", "n">> [] c = "TAB" -> <<"\\", "t">>
    [] c = "US" -> <<"\\", "u001f">> [] OTHER -> <<c>>
Quoted(str) == <<"\"">> \o FlattenSeq([i \in DOMAIN str |-> Escaped(str[i])]) \o <<"\"">>

RECURSIVE Decimal(_)
Decimal(n) == IF n < 10 THEN <<Digits[n + 1]>> ELSE Append(Decimal(n \div 10), Digits[(n % 10) + 1])
Zeros(n) == [i \in 1..n |-> "0"]
\* Numbers here have at most the six digits "%g" keeps.
Printed(num) ==
  LET size == IF num.n < 0 THEN -num.n ELSE num.n
      digits == Decimal(size)
      power == Len(digits) - 1 + num.e
      high == IF power < 0 THEN -power ELSE power
  IN  (IF num.n < 0 THEN <<"-">> ELSE <<>>) \o
      (CASE num.infinite -> <<"inf">>
         [] ~num.infinite /\ power \in 0..5 /\ num.e >= 0 -> digits \o Zeros(num.e)
         [] ~num.infinite /\ power \in 0..5 /\ num.e < 0 ->
              SubSeq(digits, 1, power + 1) \o <<".">> \o SubSeq(digits, power + 2, Len(digits))
         [] ~num.infinite /\ power \in -4 .. -1 -> <<"0", ".">> \o Zeros(high - 1) \o digits
         [] OTHER ->
              <<digits[1]>> \o (IF Len(digits) > 1 THEN <<".">> ELSE <<>>) \o Tail(digits)
              \o <<"e", IF power < 0 THEN "-" ELSE "+">>
              \o (IF high < 10 THEN <<"0">> ELSE <<>>) \o Decimal(high))

RECURSIVE Write(_), WriteItems(_, _)
WriteItems(value, i) ==
  IF i > Len(value.items) THEN <<>>
  ELSE (IF i > 1 THEN <<",">> ELSE <<>>)
       \o (IF value.kind = "OBJECT" THEN Append(Quoted(value.keys[i]), ":") ELSE <<>>)
       \o Write(value.items[i]) \o WriteItems(value, i + 1)
Write(value) ==
  CASE value.kind = "NULL"   -> <<"null">>
    [] value.kind = "TRUE"   -> <<"true">>
    [] value.kind = "FALSE"  -> <<"false">>
    [] value.kind = "NUMBER" -> Printed(value.num)
    [] value.kind = "STRING" -> Quoted(value.str)
    [] value.kind = "ARRAY"  -> <<"[">> \o WriteItems(value, 1) \o <<"]">>
    [] value.kind = "OBJECT" -> <<"{">> \o WriteItems(value, 1) \o <<"}">>
=============================================================================
