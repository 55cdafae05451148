------------------------------ MODULE CJsonUse ------------------------------
(***************************************************************************)
(* A program that uses cJSON: it builds a tree by any calls, prints it     *)
(* with any of the printers or copies it, parses what was printed, cut or  *)
(* damaged, or other text, and minifies it. Allocations may fail.          *)
(***************************************************************************)
EXTENDS CJson

CONSTANTS
  Texts,     \* other texts that are parsed
  Damage,    \* bytes that take the place of others
  SmallWeight \* bound on the trees tried with every failure, cut, length and damaged byte

VARIABLES
  text,      \* what was printed or given
  last       \* the last call and what came of it

allvars == <<vars, text, last>>

\* Numbers and strings count twice: the more of them, the fewer items.
Used == Cardinality(live) + Cardinality({x \in live : kind[x] \notin Arrays})

\* Enough allocations never to fail
Plenty == 99
Small == Used <= SmallWeight
Try(few) == {Plenty} \cup IF Small THEN few ELSE {}

Built == last.call = "none"
Build == Built /\ Next /\ Used' <= MaxWeight /\ UNCHANGED <<text, last>>

\* All items are in the tree of x.
Whole(x) == x \in live /\ \A y \in live : Root(y) <=> y = x
PrintedBy(call, p) == text' = (IF p.ok THEN p.text ELSE "") /\ last' = [call |-> call, p |-> p]

PrintTree(x, format) ==
    /\ Built /\ Whole(x)
    /\ \E left \in Try({0, 1, 2}), realloc \in BOOLEAN :
         PrintedBy("print", print(Tree(x), format, realloc, left))
    /\ UNCHANGED vars
Buffered(x, format) ==
    /\ Built /\ Small /\ Whole(x)
    /\ \E prebuffer \in {0, 1, 5}, realloc \in BOOLEAN :
         PrintedBy("print", PrintBuffered(Tree(x), prebuffer, format, realloc, Plenty))
    /\ UNCHANGED vars
Preallocated(x, format) ==
    /\ Built /\ Small /\ Whole(x)
    /\ \E length \in 0 .. IntMax : PrintedBy("preallocated", PrintPreallocated(Tree(x), length, format))
    /\ UNCHANGED vars
Give ==
    /\ Built /\ live = {}
    /\ text' \in Texts
    /\ last' = [call |-> "given"]
    /\ UNCHANGED vars

\* Only what cJSON_Print has returned is parsed, or given.
Parses == last.call = "given" \/ (last.call = "print" /\ last.p.ok /\ last.p.left > 10 /\ last.p.realloc)
Parsed(call, t, require, left) ==
    last' = [call |-> call, t |-> t, require |-> require, left |-> left, p |-> ParseWithLengthOpts(t, require, left)]
Parse ==
    /\ Parses
    /\ \E require \in BOOLEAN, left \in Try(0 .. 8) : Parsed("parse", text \o Nul, require, left)
    /\ UNCHANGED <<vars, text>>
ParseCut ==
    /\ Parses /\ Small
    /\ \E n \in 0 .. Len(text), nul \in {"", Nul} : Parsed("cut", SubSeq(text, 1, n) \o nul, FALSE, Plenty)
    /\ UNCHANGED <<vars, text>>
ParseDamaged ==
    /\ Parses /\ Small
    /\ \E n \in 1 .. Len(text), c \in Damage :
         Parsed("damaged", SubSeq(text, 1, n - 1) \o c \o SubSeq(text, n + 1, Len(text)), FALSE, Plenty)
    /\ UNCHANGED <<vars, text>>
MinifyText ==
    /\ Parses
    /\ \E comment \in {"", "// x\n", "/* x */", "/*/*/", "/"} :
         /\ Small \/ comment = ""
         /\ last' = [call |-> "minify", text |-> Minify(comment \o text, 0)]
    /\ UNCHANGED <<vars, text>>
Copy(x) ==
    /\ Built /\ Whole(x)
    /\ \E left \in Try(0 .. 8) :
         last' = [call |-> "duplicate", left |-> left,
                  p |-> Duplicate(Tree(x), [ok |-> TRUE, left |-> left, held |-> 0, item |-> NewItem])]
    /\ UNCHANGED <<vars, text>>

UseInit == Init /\ text = "" /\ last = [call |-> "none"]
UseNext ==
    \/ Build
    \/ \E x \in Items, format \in BOOLEAN : PrintTree(x, format) \/ Buffered(x, format) \/ Preallocated(x, format)
    \/ Give \/ Parse \/ ParseCut \/ ParseDamaged \/ MinifyText
    \/ \E x \in Items : Copy(x)
UseSpec == UseInit /\ [][UseNext]_allvars

-----------------------------------------------------------------------------
(* Properties *)

\* An item is found by its index where the caller has put it, and by its name the first
\* one of that name, behind no item without a name when case matters.
LookupRight ==
    \A p \in live :
        /\ \A k \in 0 .. Len(kids[p]) : get_array_item(p, k) = IF k < Len(kids[p]) THEN kids[p][k + 1] ELSE Null
        /\ \A name \in Names, cs \in BOOLEAN :
             LET Named(x) == string[x] # Null /\ SameName(string[x], name, cs)
                 hits == {k \in DOMAIN kids[p] : Named(kids[p][k]) /\ \A j \in 1 .. k - 1 :
                             ~Named(kids[p][j]) /\ (cs => string[kids[p][j]] # Null)}
             IN get_object_item(p, name, cs) = IF hits = {} THEN Null ELSE kids[p][Max(hits)]

\* What is read of a tree that was printed: a number that is not finite has become null, a
\* name outside an object is gone, none in an object is empty.
RECURSIVE Read(_, _)
Read(t, named) ==
    [type  |-> IF t.type = "number" /\ t.value \in NotFinite THEN "null" ELSE t.type,
     value |-> IF t.type = "number" /\ t.value \in NotFinite THEN Null ELSE IF t.type = "string" /\ t.value = Null THEN "" ELSE t.value,
     name  |-> IF ~named THEN Null ELSE IF t.name = Null THEN "" ELSE t.name,
     kids  |-> [k \in DOMAIN t.kids |-> Read(t.kids[k], t.type = "object")]]
RECURSIVE Depth(_)
Depth(t) == IF t.type \notin {"array", "object"} THEN 0
            ELSE 1 + FoldLeft(LAMBDA n, kid : IF Depth(kid) > n THEN Depth(kid) ELSE n, 0, t.kids)
TheRoot == CHOOSE x \in live : Whole(x)

\* What cJSON_Print or cJSON_PrintUnformatted writes of any tree is read back as that tree,
\* unless it is nested too deep for the parser or memory runs out.
RoundTrip ==
    last.call = "parse" /\ live # {} /\ last.left = Plenty =>
        LET t == Tree(TheRoot) IN
        IF Depth(t) <= NestingLimit THEN last.p.ok /\ last.p.item = Read(t, FALSE) ELSE ~last.p.ok

\* Text that breaks off is not taken for a tree, unless it is a number.
CutRefused ==
    last.call = "cut" /\ live # {} /\ last.t \notin {text, text \o Nul} =>
        ~last.p.ok \/ Tree(TheRoot).type = "number"

\* Whatever text the parser accepts, the printer writes so that it is read as the same, but
\* that a number too large for a double, which is read as infinite, is written as null.
Stable ==
    last.call \in {"parse", "cut", "damaged"} /\ last.p.ok =>
        \A format \in BOOLEAN :
            LET p == print_value(last.p.item, Buffer(1000, TRUE, TRUE, format, 0)) IN
            p.ok /\ ParseWithLengthOpts(p.text \o Nul, TRUE, Plenty).item = Read(last.p.item, FALSE)

\* What the parser accepts is a text, and all of it.
ParserStrict == CutRefused /\ Stable

\* A parse or a duplication that fails, at whatever byte or allocation, has freed all it
\* had made, and one that succeeds holds the blocks of its tree.
NothingLost ==
    last.call \in {"parse", "cut", "damaged", "duplicate"} =>
        last.p.held = IF last.p.ok THEN BlocksOf(last.p.item) ELSE 0

\* No printer leaves its buffer, and the parser no text it was given the length of, but for
\* one byte behind a comma in an object where the text ends, and one byte of a buffer of
\* size 0 that is copied without realloc.
InBounds ==
    last.call \in {"print", "preallocated", "parse", "cut", "damaged"} /\ "p" \in DOMAIN last =>
        IF last.call \in {"print", "preallocated"}
        THEN ~last.p.over /\ (last.p.past => ~last.p.realloc)
        ELSE last.p.past => At(last.t, Len(last.t) - 1) = ","

\* cJSON.h: 5 bytes more than needed suffice. 1 does, and a printer that may allocate
\* succeeds on whatever fits into INT_MAX.
RoomSuffices ==
    /\ last.call = "preallocated" =>
         LET p == print_value(Tree(TheRoot), Buffer(1000, TRUE, TRUE, last.p.format, 0)) IN
         /\ p.ok /\ last.p.length >= Len(p.text) + 2 => last.p.ok
         /\ last.p.ok => last.p.text = p.text
    /\ last.call = "print" /\ ~last.p.ok /\ last.p.left > 10 =>
         LET p == print_value(Tree(TheRoot), Buffer(1000, TRUE, TRUE, last.p.format, 0)) IN
         ~p.ok \/ Len(p.text) + 2 > IntMax

\* No printer writes, and the parser does not read, where it may not, and room that is
\* there is used.
RoomRight == InBounds /\ RoomSuffices

\* A duplicate compares equal, except where a number is not finite, or names in an object
\* are missing or the same for different values.
RECURSIVE Comparable(_, _)
Comparable(t, cs) ==
    /\ t.type = "number" => t.value \notin NotFinite
    /\ t.type = "object" =>
         \A j, k \in DOMAIN t.kids :
            /\ t.kids[k].name # Null
            /\ j < k /\ SameName(t.kids[j].name, t.kids[k].name, cs) => Compare(t.kids[j], t.kids[k], cs)
    /\ \A k \in DOMAIN t.kids : Comparable(t.kids[k], cs)
SameAsDuplicate ==
    last.call = "duplicate" /\ last.p.ok =>
        LET t == Tree(TheRoot) IN
        /\ last.p.item = t
        /\ \A cs \in BOOLEAN : Compare(t, last.p.item, cs) = Comparable(t, cs)

\* Two trees compare the same either way round: no object equals one that has more members.
CompareFair ==
    last.call \in {"parse", "damaged"} /\ last.p.ok /\ live # {} =>
        \A cs \in BOOLEAN :
            Compare(Tree(TheRoot), last.p.item, cs) = Compare(last.p.item, Tree(TheRoot), cs)

\* What is looked up, copied and compared is what is there.
AccessRight == LookupRight /\ SameAsDuplicate /\ CompareFair

\* A minified text is what cJSON_PrintUnformatted writes, with comments or without, unless
\* a string ends with a backslash, which is taken to escape the quote behind it.
RECURSIVE EndsWithBackslash(_)
EndsWithBackslash(t) ==
    \/ \E s \in {t.value, t.name} : s # Null /\ s # "" /\ At(s, Len(s) - 1) = "\\"
    \/ \E k \in DOMAIN t.kids : EndsWithBackslash(t.kids[k])
MinifyKeeps ==
    last.call = "minify" /\ live # {} =>
        \/ EndsWithBackslash(Tree(TheRoot))
        \/ last.text = print_value(Tree(TheRoot), Buffer(1000, TRUE, TRUE, FALSE, 0)).text

\* Printed, minified and read back, a tree is the same.
TextKeepsTree == RoundTrip /\ MinifyKeeps
=============================================================================
