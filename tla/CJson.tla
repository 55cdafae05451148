-------------------------------- MODULE CJson --------------------------------
(***************************************************************************)
(* cJSON between items and text: what the printer, the parser, Duplicate,  *)
(* Compare and Minify do with any tree the calls of ItemList can build.    *)
(* Text is counted in bytes, since the printer reserves its room ahead and *)
(* the parser may be given a length instead of a terminator. TLC only.     *)
(***************************************************************************)
EXTENDS ItemList, TLC, SequencesExt, FiniteSetsExt

CONSTANTS
  NestingLimit,  \* CJSON_NESTING_LIMIT
  IntMax,        \* INT_MAX, for the sizes of buffers
  DefaultSize,   \* of the buffer print starts with
  NumberSize,    \* how much of a number parse_number looks at
  MaxWeight      \* bound on the items in use

ASSUME SizesAssumption == {NestingLimit, IntMax, DefaultSize, NumberSize, MaxWeight} \subseteq Nat

\* A kind is [type, value]: the value of a number is the text %g writes of the double, of as
\* many digits as it takes. Some are not finite.
NotFinite == {"nan", "inf", "-inf"}
\* Some bytes are written as others: the terminator, byte 1, U+1F600, the three of a BOM.
Nul == "~"
Control == "^"
Smiley == "@"
Bom == "###"

\* "" behind the end, where the code looks at no byte
At(t, off) == IF off < Len(t) THEN SubSeq(t, off + 1, off + 1) ELSE ""
IsPrefixOf(w, t, off) == off + Len(w) <= Len(t) /\ SubSeq(t, off + 1, off + Len(w)) = w
RECURSIVE Repeat(_, _)
Repeat(w, n) == IF n = 0 THEN "" ELSE w \o Repeat(w, n - 1)

-----------------------------------------------------------------------------
(* Trees, by the pointers *)

RECURSIVE Walk(_)
Walk(x) == IF x = Null THEN <<>> ELSE <<x>> \o Walk(h.next[x])

RECURSIVE Tree(_)
Tree(x) == [type |-> kind[x].type, value |-> kind[x].value, name |-> string[x],
            kids |-> LET s == Walk(h.child[x]) IN [k \in DOMAIN s |-> Tree(s[k])]]

\* get_array_item and get_object_item, case_insensitive_strcmp being strcmp of Lower
RECURSIVE Skip(_, _)
Skip(x, index) == IF x = Null \/ index = 0 THEN x ELSE Skip(h.next[x], index - 1)
get_array_item(array, index) == Skip(h.child[array], index)

Lower(name) == IF name = "A" THEN "a" ELSE name
SameName(x, y, case_sensitive) == IF case_sensitive THEN x = y ELSE Lower(x) = Lower(y)
\* On the names of the children: the index found, 0 for NULL. With case_sensitive a child
\* without a name ends the search, and else it is passed over.
FindName(names, name, case_sensitive) ==
    LET Stops(k) == IF names[k] = Null THEN case_sensitive
                    ELSE name # Null /\ SameName(names[k], name, case_sensitive)
        k == SelectInSeq([j \in DOMAIN names |-> j], Stops)
    IN IF name = Null \/ k = 0 THEN 0 ELSE IF names[k] = Null THEN 0 ELSE k
get_object_item(object, name, case_sensitive) ==
    LET s == Walk(h.child[object])
        k == FindName([j \in DOMAIN s |-> string[s[j]]], name, case_sensitive)
    IN IF k = 0 THEN Null ELSE s[k]

\* The blocks of a tree: items, strings and names
RECURSIVE BlocksOf(_)
BlocksOf(t) ==
    1 + (IF t.value # Null /\ t.type \in {"string", "raw"} THEN 1 ELSE 0) + (IF t.name # Null THEN 1 ELSE 0)
      + FoldLeft(LAMBDA n, kid : n + BlocksOf(kid), 0, t.kids)

-----------------------------------------------------------------------------
(* Printing *)

\* printbuffer: offset is Len(text), left the allocations that succeed. over: a write left
\* the buffer, past: a read did.
Buffer(length, noalloc, realloc, format, left) ==
    [text |-> "", length |-> length, noalloc |-> noalloc, realloc |-> realloc, format |-> format,
     depth |-> 0, left |-> left, ok |-> TRUE, over |-> FALSE, past |-> FALSE]

Refused(p) == [p EXCEPT !.ok = FALSE]
\* Mutant of ensure: what is written so far is not counted.
ensureNoOffset(p, needed) ==
    IF ~p.ok \/ needed + 1 <= p.length THEN p
    ELSE IF p.noalloc \/ p.left = 0 THEN Refused(p)
    ELSE [p EXCEPT !.length = (needed + 1) * 2, !.left = @ - 1]
ensure(p, needed) ==
    LET need == Len(p.text) + needed + 1
        newsize == IF need > IntMax \div 2 THEN IntMax ELSE need * 2
    IN IF ~p.ok THEN p
       ELSE IF p.length > 0 /\ Len(p.text) >= p.length THEN Refused(p)
       ELSE IF needed > IntMax THEN Refused(p)
       ELSE IF need <= p.length THEN p
       ELSE IF p.noalloc \/ need > IntMax \/ p.left = 0 THEN Refused(p)
       ELSE [p EXCEPT !.length = newsize, !.left = @ - 1,
                      !.past = @ \/ (~p.realloc /\ Len(p.text) + 1 > p.length)]

\* Room is reserved and a piece written, with its terminator or without.
Put(p, needed, piece, terminator) ==
    LET q == ensure(p, needed) IN
    IF ~q.ok THEN q
    ELSE [q EXCEPT !.text = @ \o piece, !.over = @ \/ Len(q.text) + Len(piece) + terminator > q.length]

\* Mutants of Escape: a character that means something to the parser is left as it is.
EscapeNoBackslash(c) == CASE c = "\"" -> "\\\"" [] c = "\n" -> "\\n" [] c = Control -> "\\u0001" [] OTHER -> c
EscapeNoQuote(c) == CASE c = "\\" -> "\\\\" [] c = "\n" -> "\\n" [] c = Control -> "\\u0001" [] OTHER -> c
Escape(c) == CASE c = "\"" -> "\\\"" [] c = "\\" -> "\\\\" [] c = "\n" -> "\\n"
               [] c = Control -> "\\u0001" [] OTHER -> c
RECURSIVE Escaped(_)
Escaped(s) == IF s = "" THEN "" ELSE Escape(At(s, 0)) \o Escaped(SubSeq(s, 2, Len(s)))

print_string_ptr(s, p) ==
    LET text == IF s = Null THEN "" ELSE Escaped(s) IN Put(p, Len(text) + 3, "\"" \o text \o "\"", 1)

print_number(value, p) ==
    LET text == IF value \in NotFinite THEN "null" ELSE value IN Put(p, Len(text) + 1, text, 1)

Comma(p) == IF p.format THEN ", " ELSE ","
Deeper(p, by) == [p EXCEPT !.depth = @ + by]

RECURSIVE print_value(_, _)
print_array(t, p) ==
    LET element(q, k) ==
            LET r == print_value(t.kids[k], q) IN
            IF k = Len(t.kids) THEN r ELSE Put(r, Len(Comma(p)) + 1, Comma(p), 1)
    IN Deeper(Put(FoldLeft(element, Deeper(Put(p, 1, "[", 0), 1), [k \in DOMAIN t.kids |-> k]), 2, "]", 1), -1)

print_object(t, p) ==
    LET open == IF p.format THEN "{\n" ELSE "{"
        colon == IF p.format THEN ":\t" ELSE ":"
        member(q, k) ==
            LET tabs == Put(q, q.depth, Repeat("\t", q.depth), 0)
                key == print_string_ptr(t.kids[k].name, IF p.format THEN tabs ELSE q)
                value == print_value(t.kids[k], Put(key, Len(colon), colon, 0))
                end == (IF k = Len(t.kids) THEN "" ELSE ",") \o IF p.format THEN "\n" ELSE ""
            IN Put(value, Len(end) + 1, end, 1)
        all == FoldLeft(member, Deeper(Put(p, Len(open) + 1, open, 0), 1), [k \in DOMAIN t.kids |-> k])
        close == IF p.format THEN Repeat("\t", p.depth) \o "}" ELSE "}"
    IN Deeper(Put(all, IF p.format THEN all.depth + 1 ELSE 2, close, 1), -1)

print_value(t, p) ==
    CASE t.type \in {"null", "false", "true"} -> Put(p, Len(t.type) + 1, t.type, 1)
      [] t.type = "number" -> print_number(t.value, p)
      [] t.type = "raw"    -> IF t.value = Null THEN Refused(p) ELSE Put(p, Len(t.value) + 1, t.value, 1)
      [] t.type = "string" -> print_string_ptr(t.value, p)
      [] t.type = "array"  -> print_array(t, p)
      [] t.type = "object" -> print_object(t, p)

\* print, behind cJSON_Print and cJSON_PrintUnformatted: first the default buffer, in the
\* end a block of the right size. cJSON_PrintBuffered, PrintPreallocated: the buffer itself.
PrintBuffered(t, prebuffer, format, realloc, left) ==
    LET p == Buffer(prebuffer, FALSE, realloc, format, left - 1) IN
    IF left = 0 THEN Refused(p) ELSE print_value(t, p)
print(t, format, realloc, left) ==
    LET p == PrintBuffered(t, DefaultSize, format, realloc, left) IN IF p.left = 0 THEN Refused(p) ELSE p
PrintPreallocated(t, length, format) == print_value(t, Buffer(length, TRUE, TRUE, format, 0))

-----------------------------------------------------------------------------
(* Parsing *)

\* parse_buffer: offset and depth; item is the item that is filled, left the allocations
\* that succeed, held the blocks the parser has made and not freed. past: a byte behind the
\* text was read.
Fail(p) == [p EXCEPT !.ok = FALSE]
CanAccess(t, p) == p.off < Len(t)
Advance(p, n) == [p EXCEPT !.off = @ + n]
NewItem == [type |-> "invalid", value |-> Null, name |-> Null, kids |-> <<>>]

IsBlank(c) == c \in {" ", "\t", "\n", Control, Nul}
RECURSIVE NonBlank(_, _)
NonBlank(t, off) == IF off < Len(t) /\ IsBlank(At(t, off)) THEN NonBlank(t, off + 1) ELSE off
\* At the end of the text it steps back to the last byte.
buffer_skip_whitespace(t, p) ==
    LET off == NonBlank(t, p.off) IN
    IF ~CanAccess(t, p) THEN p ELSE [p EXCEPT !.off = IF off = Len(t) THEN off - 1 ELSE off]

skip_utf8_bom(t, p) == IF Len(t) > 4 /\ IsPrefixOf(Bom, t, 0) THEN Advance(p, Len(Bom)) ELSE p

\* The run of digits from off on, and its value
Digits == {"0", "1", "2", "3", "4", "5", "6", "7", "8", "9"}
DigitsFrom(w, off) == SubSeq(w, off + 1, off + Max({n \in 0 .. Len(w) : \A i \in off .. off + n - 1 : At(w, i) \in Digits}))
Integer(w) == FoldLeft(LAMBDA n, i : n * 10 + CHOOSE k \in 0 .. 9 : ToString(k) = At(w, i), 0, [i \in 1 .. Len(w) |-> i - 1])

\* What %g writes of 0.digits * 10^point
General(digits, point) ==
    LET n == Len(digits)
        x == point - 1
        fraction == IF n = 1 THEN "" ELSE "." \o SubSeq(digits, 2, n)
        size == IF x < 0 THEN -x ELSE x
    IN CASE point \in -3 .. 0    -> "0." \o Repeat("0", -point) \o digits
         [] point \in 1 .. n - 1 -> SubSeq(digits, 1, point) \o "." \o SubSeq(digits, point + 1, n)
         [] point \in n .. 15    -> digits \o Repeat("0", point - n)
         [] OTHER -> At(digits, 0) \o fraction \o (IF x < 0 THEN "e-" ELSE "e+") \o (IF size < 10 THEN "0" ELSE "") \o ToString(size)
\* The double next to it: too large it is infinite, too small zero.
Double(minus, digits, point) ==
    LET significant == {i \in 1 .. Len(digits) : At(digits, i - 1) # "0"}
        p == point - Min(significant) + 1
    IN minus \o IF significant = {} THEN "0"
                ELSE IF p > 309 THEN "inf"
                ELSE IF p < -323 THEN "0"
                ELSE General(SubSeq(digits, Min(significant), Max(significant)), p)

\* strtod on what parse_number copies: the characters it takes, 0 without a number, and the value
strtod(w) ==
    LET minus == IF At(w, 0) = "-" THEN "-" ELSE ""
        whole == DigitsFrom(w, Len(minus))
        dot == Len(minus \o whole)
        fraction == IF At(w, dot) = "." THEN DigitsFrom(w, dot + 1) ELSE ""
        mantissa == dot + IF At(w, dot) = "." THEN 1 + Len(fraction) ELSE 0
        sign == IF At(w, mantissa + 1) \in {"+", "-"} THEN At(w, mantissa + 1) ELSE ""
        e == mantissa + 1 + Len(sign)
        power == IF At(w, mantissa) \in {"e", "E"} THEN DigitsFrom(w, e) ELSE ""
        exponent == IF sign = "-" THEN -Integer(power) ELSE Integer(power)
    IN [used |-> IF whole \o fraction = "" THEN 0 ELSE IF power = "" THEN mantissa ELSE e + Len(power),
        value |-> Double(minus, whole \o fraction, Len(whole) + exponent)]
parse_number(t, p) ==
    LET number == strtod(SubSeq(t, p.off + 1, IF p.off + NumberSize < Len(t) THEN p.off + NumberSize ELSE Len(t))) IN
    IF number.used = 0 THEN Fail(p)
    ELSE Advance([p EXCEPT !.item.type = "number", !.item.value = number.value], number.used)

\* The quote that ends a string, Len if there is none
RECURSIVE StringEnd(_, _)
StringEnd(t, off) ==
    IF off >= Len(t) THEN Len(t)
    ELSE IF At(t, off) = "\"" THEN off
    ELSE IF At(t, off) = "\\" THEN IF off + 1 >= Len(t) THEN Len(t) ELSE StringEnd(t, off + 2)
    ELSE StringEnd(t, off + 1)

\* parse_hex4: 0 for what is no hexadecimal number
HexValue == [c \in {"0", "1", "3", "6", "8", "a", "d", "e", "D", "E"} |->
             CASE c = "0" -> 0 [] c = "1" -> 1 [] c = "3" -> 3 [] c = "6" -> 6 [] c = "8" -> 8 [] c = "a" -> 10
               [] c \in {"d", "D"} -> 13 [] OTHER -> 14]
parse_hex4(t, off) ==
    IF \E i \in 0 .. 3 : At(t, off + i) \notin DOMAIN HexValue THEN 0
    ELSE FoldLeft(LAMBDA n, i : n * 16 + HexValue[At(t, off + i)], 0, <<0, 1, 2, 3>>)

\* utf16_literal_to_utf8 up to the code point: how many bytes of text it takes, 0 if it is
\* refused
utf16_literal(t, off, end) ==
    LET first == parse_hex4(t, off + 2)
        second == parse_hex4(t, off + 8)
        refused == [used |-> 0, code |-> 0]
    IN IF end - off < 6 THEN refused
       ELSE IF first \in 56320 .. 57343 THEN refused
       ELSE IF first \notin 55296 .. 56319 THEN [used |-> 6, code |-> first]
       ELSE IF end - off < 12 \/ ~IsPrefixOf("\\u", t, off + 6) \/ second \notin 56320 .. 57343 THEN refused
       ELSE [used |-> 12, code |-> 65536 + (first % 1024) * 1024 + (second % 1024)]
Char(code) == CASE code = 0 -> Nul [] code = 1 -> Control [] code = 97 -> "a" [] code = 128512 -> Smiley [] OTHER -> "?"

\* The loop of parse_string from off to the quote at end: [ok, text, off]. As text ends
\* with the first terminator, what follows one is lost.
RECURSIVE Unescape(_, _, _, _)
Unescape(t, off, end, text) ==
    LET c == At(t, off + 1)
        u == utf16_literal(t, off, end)
    IN IF off >= end THEN [ok |-> TRUE, text |-> text, off |-> end]
       ELSE IF At(t, off) # "\\" THEN Unescape(t, off + 1, end, text \o At(t, off))
       ELSE IF c = "n" THEN Unescape(t, off + 2, end, text \o "\n")
       ELSE IF c \in {"\"", "\\", "/"} THEN Unescape(t, off + 2, end, text \o c)
       ELSE IF c = "u" /\ u.used > 0 THEN Unescape(t, off + u.used, end, text \o Char(u.code))
       ELSE [ok |-> FALSE, text |-> text, off |-> off]
RECURSIVE UpToNul(_)
UpToNul(s) == IF s = "" \/ At(s, 0) = Nul THEN "" ELSE At(s, 0) \o UpToNul(SubSeq(s, 2, Len(s)))

\* parse_string once the closing quote is found at end, and s is read
Filled(p, end, s) ==
    IF ~s.ok THEN [Fail(p) EXCEPT !.off = s.off, !.left = @ - 1]
    ELSE [p EXCEPT !.item.type = "string", !.item.value = UpToNul(s.text), !.off = end + 1,
                   !.left = @ - 1, !.held = @ + 1]
Quoted(t, p, end) ==
    IF end >= Len(t) \/ p.left = 0 THEN Fail(Advance(p, 1))
    ELSE Filled(p, end, Unescape(t, p.off + 1, end, ""))
parse_string(t, p) ==
    IF ~CanAccess(t, p) THEN [Fail(p) EXCEPT !.past = TRUE, !.off = @ + 1]
    ELSE IF At(t, p.off) # "\"" THEN Fail(Advance(p, 1))
    ELSE Quoted(t, p, StringEnd(t, p.off + 1))

\* Mutant of DeleteList: the item in progress is not freed.
DeleteListButLast(p, list) ==
    [Fail(p) EXCEPT !.held = @ - FoldLeft(LAMBDA n, x : n + BlocksOf(x), 0, Front(list))]
\* cJSON_Delete of the items of a list that is given up
DeleteList(p, list) == [Fail(p) EXCEPT !.held = @ - FoldLeft(LAMBDA n, x : n + BlocksOf(x), 0, list)]

RECURSIVE parse_value(_, _)

\* The loop of parse_array and parse_object, from the byte before an element: list are the
\* items so far, item is their parent. named: with a name in front of the value, as in objects.
RECURSIVE Elements(_, _, _, _, _)

\* behind a value and the blanks after it
Separator(t, p, item, list, named) ==
    IF At(t, p.off) = "," THEN Elements(t, p, item, list, named)
    ELSE IF At(t, p.off) # (IF named THEN "}" ELSE "]") THEN DeleteList(p, list)
    ELSE Advance([p EXCEPT !.depth = @ - 1, !.item = [item EXCEPT !.type = IF named THEN "object" ELSE "array",
                                                                  !.kids = list]], 1)
Value(t, p, item, list, named) ==
    IF ~p.ok THEN DeleteList(p, Append(list, p.item))
    ELSE Separator(t, buffer_skip_whitespace(t, p), item, Append(list, p.item), named)
\* behind a name, which becomes the item's string
Name(t, p, item, list) ==
    LET swapped == [p EXCEPT !.item.name = p.item.value, !.item.value = Null]
    IN IF ~p.ok THEN DeleteList(p, Append(list, p.item))
       ELSE IF At(t, p.off) # ":" THEN DeleteList(swapped, Append(list, swapped.item))
       ELSE Value(t, parse_value(t, buffer_skip_whitespace(t, Advance(swapped, 1))), item, list, TRUE)
Elements(t, p, item, list, named) ==
    LET new == [p EXCEPT !.item = NewItem, !.left = @ - 1, !.held = @ + 1]
        start == buffer_skip_whitespace(t, Advance(new, 1))
    IN IF p.left = 0 THEN DeleteList(p, list)
       ELSE IF named THEN Name(t, buffer_skip_whitespace(t, parse_string(t, start)), item, list)
       ELSE Value(t, parse_value(t, start), item, list, FALSE)

\* parse_array and parse_object: the item is filled at the end.
FilledUnlessFailed(r, item) == IF r.ok THEN r ELSE [r EXCEPT !.item = item]
parse_list(t, p, named) ==
    LET open == buffer_skip_whitespace(t, Advance([p EXCEPT !.depth = @ + 1], 1))
        close == IF named THEN "}" ELSE "]"
    IN IF p.depth >= NestingLimit THEN Fail(p)
       ELSE IF At(t, open.off) = close
       THEN Advance([open EXCEPT !.depth = @ - 1, !.item.type = IF named THEN "object" ELSE "array"], 1)
       ELSE IF ~CanAccess(t, open) THEN Fail(Advance(open, -1))
       ELSE FilledUnlessFailed(Elements(t, Advance(open, -1), p.item, <<>>, named), p.item)

parse_value(t, p) ==
    LET Is(w) == IsPrefixOf(w, t, p.off)
        literal(w) == Advance([p EXCEPT !.item.type = w], Len(w))
    IN CASE Is("null")  -> literal("null")
         [] Is("false") -> literal("false")
         [] Is("true")  -> literal("true")
         [] Is("\"")    -> parse_string(t, p)
         [] At(t, p.off) \in Digits \cup {"-"} -> parse_number(t, p)
         [] Is("[")     -> parse_list(t, p, FALSE)
         [] Is("{")     -> parse_list(t, p, TRUE)
         [] OTHER       -> Fail(p)

\* cJSON_ParseWithLengthOpts. cJSON_Parse counts the terminator in.
Ended(t, require_null_terminated, p) ==
    LET q == buffer_skip_whitespace(t, p)
    IN IF ~p.ok THEN DeleteList(p, <<p.item>>)
       ELSE IF ~require_null_terminated THEN p
       ELSE IF At(t, q.off) # Nul THEN DeleteList(q, <<q.item>>)
       ELSE q
ParseWithLengthOpts(t, require_null_terminated, left) ==
    LET start == [off |-> 0, depth |-> 0, item |-> NewItem, left |-> left, held |-> 0, ok |-> TRUE, past |-> FALSE]
        p == buffer_skip_whitespace(t, skip_utf8_bom(t, [start EXCEPT !.left = @ - 1, !.held = 1]))
    IN IF t = "" \/ left = 0 THEN Fail(start)
       ELSE Ended(t, require_null_terminated, parse_value(t, p))

-----------------------------------------------------------------------------
(* cJSON_Duplicate, cJSON_Compare and cJSON_Minify *)

\* Mutant of Duplicate: children lose their names.
RECURSIVE DuplicateNameless(_, _)
DuplicateNameless(t, m) ==
    LET own == BlocksOf([t EXCEPT !.kids = <<>>])
        child(r, kid) == LET c == DuplicateNameless([kid EXCEPT !.name = Null], r) IN
                         IF ~r.ok THEN r ELSE [c EXCEPT !.item = [r.item EXCEPT !.kids = Append(@, c.item)]]
    IN IF m.left < own THEN [m EXCEPT !.ok = FALSE, !.left = 0]
       ELSE FoldLeft(child, [m EXCEPT !.left = @ - own, !.held = @ + own, !.item = [t EXCEPT !.kids = <<>>]], t.kids)

\* m: the allocations that succeed and the blocks held
RECURSIVE Duplicate(_, _)
Duplicate(t, m) ==
    LET own == BlocksOf([t EXCEPT !.kids = <<>>])
        new == [t EXCEPT !.kids = <<>>]
        child(r, kid) ==
            LET c == Duplicate(kid, r) IN
            IF ~r.ok THEN r
            ELSE IF c.ok THEN [c EXCEPT !.item = [r.item EXCEPT !.kids = Append(@, c.item)]]
            ELSE [c EXCEPT !.held = @ - BlocksOf(r.item)]
    IN IF m.left < own THEN [m EXCEPT !.ok = FALSE, !.left = 0]
       ELSE FoldLeft(child, [ok |-> TRUE, left |-> m.left - own, held |-> m.held + own, item |-> new], t.kids)

\* Mutant of Compare: of objects, only the members of the first are looked up.
RECURSIVE CompareOneWay(_, _, _)
CompareOneWay(a, b, cs) ==
    /\ a.type = b.type
    /\ a.type = "number" => a.value = b.value /\ a.value \notin NotFinite
    /\ a.type = "string" => a.value = b.value
    /\ a.type = "array" => /\ Len(a.kids) = Len(b.kids)
                           /\ \A k \in DOMAIN a.kids : CompareOneWay(a.kids[k], b.kids[k], cs)
    /\ a.type = "object" =>
         \A k \in DOMAIN a.kids :
            LET j == FindName([i \in DOMAIN b.kids |-> b.kids[i].name], a.kids[k].name, cs) IN
            j # 0 /\ CompareOneWay(a.kids[k], b.kids[j], cs)

\* compare_double: the difference of two infinities is no number, and one infinity is as
\* good as equal to whatever else.
compare_double(a, b) ==
    LET infinite == {a, b} \cap {"inf", "-inf"} IN
    /\ "nan" \notin {a, b}
    /\ IF infinite # {} THEN a # b ELSE a = b \/ {a, b} = {"0", "-0"}

\* Of two different items
RECURSIVE Compare(_, _, _)
Compare(a, b, case_sensitive) ==
    LET NamesOf(x) == [k \in DOMAIN x.kids |-> x.kids[k].name]
        FoundIn(x, y) == \A k \in DOMAIN x.kids :
            LET j == FindName(NamesOf(y), x.kids[k].name, case_sensitive) IN
            j # 0 /\ Compare(x.kids[k], y.kids[j], case_sensitive)
    IN /\ a.type = b.type
       /\ CASE a.type \in {"null", "false", "true"} -> TRUE
            [] a.type = "number" -> compare_double(a.value, b.value)
            [] a.type \in {"string", "raw"} -> a.value # Null /\ a.value = b.value
            [] a.type = "array"  -> /\ Len(a.kids) = Len(b.kids)
                                    /\ \A k \in DOMAIN a.kids : Compare(a.kids[k], b.kids[k], case_sensitive)
            [] a.type = "object" -> FoundIn(a, b) /\ FoundIn(b, a)

\* The offset behind the next w, from off on, Len if there is none: skip_oneline_comment
\* and skip_multiline_comment
RECURSIVE Behind(_, _, _)
Behind(w, t, off) == IF off >= Len(t) THEN Len(t) ELSE IF IsPrefixOf(w, t, off) THEN off + Len(w) ELSE Behind(w, t, off + 1)
\* minify_string: the offset behind a string. A quote behind any backslash is no end.
RECURSIVE BehindString(_, _)
BehindString(t, off) ==
    IF off >= Len(t) THEN Len(t)
    ELSE IF At(t, off) = "\"" THEN off + 1
    ELSE BehindString(t, off + IF IsPrefixOf("\\\"", t, off) THEN 2 ELSE 1)
RECURSIVE Minify(_, _)
Minify(t, off) ==
    LET c == At(t, off)
        end == BehindString(t, off + 1)
    IN CASE off >= Len(t) -> ""
         [] c \in {" ", "\t", "\n"} -> Minify(t, off + 1)
         [] IsPrefixOf("//", t, off) -> Minify(t, Behind("\n", t, off + 2))
         [] IsPrefixOf("/*", t, off) -> Minify(t, Behind("*/", t, off + 2))
         [] c = "/" /\ ~IsPrefixOf("//", t, off) /\ ~IsPrefixOf("/*", t, off) -> Minify(t, off + 1)
         [] c = "\"" -> SubSeq(t, off + 1, end) \o Minify(t, end)
         [] OTHER -> c \o Minify(t, off + 1)
=============================================================================
