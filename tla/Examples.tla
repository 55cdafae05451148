------------------------------ MODULE Examples ------------------------------
(***************************************************************************)
(* The applications in examples/: what the server functions do with the    *)
(* arguments a handler gives them, on integers of a few bits and words of  *)
(* one letter. A function maps the memory m and book_map to the set of     *)
(* outcomes [res, m, store], res being in blocks at ResAt(id).             *)
(***************************************************************************)
EXTENDS Stub

U32 == 16                                           \* 2^32, of few bits
Wrap(x) == ((x + (U32 \div 2)) % U32) - (U32 \div 2)     \* int32_t

Out(res, m, store) == {[res |-> res, m |-> m, store |-> store]}
Crash(m, what, store) == Out(Null, Fault(m, what), store)

Math_Add(v, id, m, store) == Out((v[1] + v[2]) % U32, m, store)
Math_Sub(v, id, m, store) == Out(Wrap(v[1] - v[2]), m, store)
Math_Multiply(v, id, m, store) ==
    Out(IF Junk \in {v[1].A, v[1].B} THEN Junk ELSE Wrap(v[1].A * v[1].B), m, store)
Math_Divide(v, id, m, store) ==
    IF v[2] = 0 THEN Crash(m, "division by zero", store)
    ELSE Out([Quo |-> v[1] \div v[2], Rem |-> v[1] % v[2]], Alloc(m, {ResAt(id)}), store)

\* toupper and tolower of the words in use
Upper == [x |-> "X", X |-> "X"]
Lower == [x |-> "x", X |-> "x"]
\* (The provers take no literal for a string.)
ASSUME WordsAssumption == Upper \in [DOMAIN Upper -> STRING] /\ Lower \in [DOMAIN Lower -> STRING]
Mapped(word, map, id, m, store) ==
    IF word = Null THEN Crash(m, "strlen of NULL", store)
    ELSE Out(IF word \in DOMAIN map THEN map[word] ELSE word, Alloc(m, {ResAt(id)}), store)
string_toupper(v, id, m, store) == Mapped(v[1], Upper, id, m, store)
string_tolower(v, id, m, store) == Mapped(v[1], Lower, id, m, store)
\* The block is not terminated: strlen in the handler counts what follows it with the
\* result, or runs into memory that is not there.
Trailing == "?"
string_concat(v, id, m, store) ==
    IF Null \in {v[1], v[2]} THEN Crash(m, "strlen of NULL", store)
    ELSE LET texts == {v[1] \o v[2] \o rest : rest \in {Blank, Trailing}} \ {Null} IN
         (UNION {Out(text, Alloc(m, {ResAt(id)}), store) : text \in texts}) \cup Crash(m, "read past a block", store)
string_atoi(v, id, m, store) ==
    IF v[1] = Null THEN Crash(m, "sscanf of NULL", store) ELSE Out(IF v[1] = "7" THEN 7 ELSE 0, m, store)

-----------------------------------------------------------------------------
(* examples/book/server/main.c: store is book_map, from names to books in blocks at .at *)

MapAt(id) == <<"call", id, "map">>

bookMarket_getBook(v, id, m, store) ==
    IF v[1] = Null THEN Crash(m, "hash of NULL", store)
    ELSE IF v[1] \notin DOMAIN store THEN UNION {Out(Null, e, store) : e \in errorf(m)}
    ELSE Out(store[v[1]].book, Clone("Book", ResAt(id), store[v[1]].book, m), store)

\* Mutant of bookMarket_consume: the account itself is returned.
bookMarket_consumeReturnsArgument(v, id, m, store) ==
    Out(v[2], m, store)

Charged(price) == CASE price.unit = "yuan" -> price.num
                    [] price.unit = "dime" -> price.num \div 10
                    [] OTHER -> price.num \div 100
bookMarket_consume(v, id, m, store) ==
    LET price == v[1].price
        left == IF Junk \in {price.num, v[2].balance} THEN Junk ELSE v[2].balance - Charged(price)
        account == [v[2] EXCEPT !.balance = left]
    IN IF price = Null THEN Crash(m, "read of a NULL struct", store)
       ELSE Out(account, Clone("Account", ResAt(id), account, m), store)

PriceBlocks(at, price) == {Append(at, "price")} \cup Parts(Pointers, "Price", Append(at, "price"), price)

\* book_destroy: the blocks of a book but for its name
Forget(at, book, m) ==
    IF book.price = Null THEN Fault(m, "read of a NULL struct")
    ELSE FreeAll(m, {at} \cup PriceBlocks(at, book.price))

Put(map, key, x) == [k \in DOMAIN map \cup {key} |-> IF k = key THEN x ELSE map[k]]

\* hashmap_set destroys the book it replaces, after the new one was cloned
bookMarket_shelve(v, id, m, store) ==
    LET name == v[1].name
        cloned == Clone("Book", MapAt(id), v[1], m)
        m1 == IF name \in DOMAIN store THEN Forget(store[name].at, store[name].book, cloned) ELSE cloned
    IN Out(Null, m1, Put(store, name, [at |-> MapAt(id), book |-> v[1]]))

bookMarket_updateBookPrice(v, id, m, store) ==
    LET at == store[v[1]].at
        old == store[v[1]].book
        m1 == FreeAll(m, PriceBlocks(at, old.price))
    IN IF v[1] = Null THEN Crash(m, "hash of NULL", store)
       ELSE IF v[1] \notin DOMAIN store THEN Out(Null, m, store)
       ELSE IF old.price = Null THEN Crash(m, "read of a NULL struct", store)
       ELSE Out(Null, Clone("Price", Append(at, "price"), v[2], m1),
                [store EXCEPT ![v[1]].book.price = v[2]])

App(method, v, id, m, store) ==
    CASE method = "Add" -> Math_Add(v, id, m, store)
      [] method = "Sub" -> Math_Sub(v, id, m, store)
      [] method = "Multiply" -> Math_Multiply(v, id, m, store)
      [] method = "Divide" -> Math_Divide(v, id, m, store)
      [] method = "toupper" -> string_toupper(v, id, m, store)
      [] method = "tolower" -> string_tolower(v, id, m, store)
      [] method = "concat" -> string_concat(v, id, m, store)
      [] method = "atoi" -> string_atoi(v, id, m, store)
      [] method = "getBook" -> bookMarket_getBook(v, id, m, store)
      [] method = "consume" -> bookMarket_consume(v, id, m, store)
      [] method = "updateBookPrice" -> bookMarket_updateBookPrice(v, id, m, store)
      [] method = "shelve" -> bookMarket_shelve(v, id, m, store)
=============================================================================
