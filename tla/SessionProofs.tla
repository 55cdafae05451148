--------------------------- MODULE SessionProofs ---------------------------
(***************************************************************************)
(* Proofs about Session: the values that the generated code sends arrive,  *)
(* errors arrive in their place, only a handler with the types of the stub *)
(* runs the application, setting up and taking down both ends keeps track  *)
(* of what they hold, every block has one owner that frees it, and neither *)
(* process does anything undefined but in the known cases.                 *)
(***************************************************************************)
EXTENDS Session, TLAPS

-----------------------------------------------------------------------------
(* The tables of the generated code *)

LEMMA NullIsNoValue == Null # Blank /\ Null \notin Int /\ Null \notin Nat /\ Null \notin STRING /\ Null # Junk /\ Null # Nan
BY NullAssumption DEF Texts

LEMMA StructKinds ==
  /\ DOMAIN Structs = {"Account", "Book", "Price", "Quotient", "TwoNum"}
  /\ Fields("Account") = {"userName", "balance"} /\ Kind("Account", "userName") = "string" /\ Kind("Account", "balance") = "float"
  /\ Fields("Book") = {"price", "name"} /\ Kind("Book", "price") = "Price" /\ Kind("Book", "name") = "string"
  /\ Fields("Price") = {"unit", "num"} /\ Kind("Price", "unit") = "string" /\ Kind("Price", "num") = "float"
  /\ Fields("Quotient") = {"Quo", "Rem"} /\ Kind("Quotient", "Quo") = "uint64" /\ Kind("Quotient", "Rem") = "uint64"
  /\ Fields("TwoNum") = {"A", "B"} /\ Kind("TwoNum", "A") = "int32" /\ Kind("TwoNum", "B") = "int32"
BY DEF Structs, Fields, Kind

LEMMA KindsOfFields ==
  ASSUME NEW T \in DOMAIN Structs, NEW f \in Fields(T)
  PROVE  /\ Kind(T, f) \in {"string", "float", "uint64", "int32", "Price"}
         /\ Kind(T, f) = "Price" => T = "Book"
         /\ IsMessage(Kind(T, f)) <=> Kind(T, f) = "Price"
         /\ IsNumber(Kind(T, f)) <=> Kind(T, f) \in {"float", "uint64", "int32"}
<1>1. Kind(T, f) \in {"string", "float", "uint64", "int32", "Price"} /\ (Kind(T, f) = "Price" => T = "Book")
  BY StructKinds
<1> QED BY <1>1, StructKinds DEF IsMessage, IsNumber

\* The clients are generated with the same functions for a message as the servers.
LEMMA TablesSame ==
  CM!inits = SM!inits /\ CM!destroys = SM!destroys /\ CM!marshals = SM!marshals /\ CM!unmarshals = SM!unmarshals
<1>1. CM!inits = SM!inits
  BY DEF SM!inits, CM!inits, SM!Account_init, CM!Account_init, SM!Book_init, CM!Book_init, SM!Price_init, CM!Price_init,
         SM!Quotient_init, CM!Quotient_init, SM!TwoNum_init, CM!TwoNum_init
<1>2. CM!destroys = SM!destroys
  BY DEF SM!destroys, CM!destroys, SM!Account_destroy, CM!Account_destroy, SM!Book_destroy, CM!Book_destroy, SM!Price_destroy,
         CM!Price_destroy, SM!Quotient_destroy, CM!Quotient_destroy, SM!TwoNum_destroy, CM!TwoNum_destroy
<1>3. CM!marshals = SM!marshals
  BY DEF SM!marshals, CM!marshals, SM!Account_marshal, CM!Account_marshal, SM!Book_marshal, CM!Book_marshal, SM!Price_marshal,
         CM!Price_marshal, SM!Quotient_marshal, CM!Quotient_marshal, SM!TwoNum_marshal, CM!TwoNum_marshal
<1>4. CM!unmarshals = SM!unmarshals
  BY DEF SM!unmarshals, CM!unmarshals, SM!Account_unmarshal, CM!Account_unmarshal, SM!Book_unmarshal, CM!Book_unmarshal,
         SM!Price_unmarshal, CM!Price_unmarshal, SM!Quotient_unmarshal, CM!Quotient_unmarshal, SM!TwoNum_unmarshal, CM!TwoNum_unmarshal
<1> QED BY <1>1, <1>2, <1>3, <1>4

\* Every field is sent and read, every pointer is initialised and freed, and a float, the
\* only field that may be null and ends T_unmarshal, is the last that is read.
Complete(T) ==
  /\ SM!marshals[T] = Fields(T)
  /\ {SM!unmarshals[T][i] : i \in DOMAIN SM!unmarshals[T]} = Fields(T)
  /\ \A i, j \in DOMAIN SM!unmarshals[T] : i \in Nat /\ (Kind(T, SM!unmarshals[T][i]) = "float" => j <= i)
  /\ SM!inits[T] = Pointers[T] /\ SM!destroys[T] = Pointers[T]
  /\ Pointers[T] = {f \in Fields(T) : Kind(T, f) \in {"string", "Price"}}

LEMMA TablesComplete == \A T \in DOMAIN Structs : Complete(T)
<1>p. \A T \in DOMAIN Structs : Pointers[T] = {f \in Fields(T) : Kind(T, f) \in {"string", "Price"}}
  BY KindsOfFields DEF Pointers
<1>1. Complete("Account")
  BY <1>p, StructKinds DEF Complete, SM!marshals, SM!unmarshals, SM!inits, SM!destroys, SM!Account_init, SM!Account_destroy,
         SM!Account_marshal, SM!Account_unmarshal
<1>2. Complete("Book")
  BY <1>p, StructKinds DEF Complete, SM!marshals, SM!unmarshals, SM!inits, SM!destroys, SM!Book_init, SM!Book_destroy,
         SM!Book_marshal, SM!Book_unmarshal
<1>3. Complete("Price")
  BY <1>p, StructKinds DEF Complete, SM!marshals, SM!unmarshals, SM!inits, SM!destroys, SM!Price_init, SM!Price_destroy,
         SM!Price_marshal, SM!Price_unmarshal
<1>4. Complete("Quotient")
  BY <1>p, StructKinds DEF Complete, SM!marshals, SM!unmarshals, SM!inits, SM!destroys, SM!Quotient_init, SM!Quotient_destroy,
         SM!Quotient_marshal, SM!Quotient_unmarshal
<1>5. Complete("TwoNum")
  BY <1>p, StructKinds DEF Complete, SM!marshals, SM!unmarshals, SM!inits, SM!destroys, SM!TwoNum_init, SM!TwoNum_destroy,
         SM!TwoNum_marshal, SM!TwoNum_unmarshal
<1> QED BY <1>1, <1>2, <1>3, <1>4, <1>5, StructKinds

LEMMA ServiceRows ==
  /\ DOMAIN Services = {"getBook", "consume", "updateBookPrice", "shelve", "Add", "Sub", "Multiply", "Divide",
                        "toupper", "tolower", "concat", "atoi"}
  /\ Services["getBook"]         = [params |-> <<"string">>, ret |-> "Book"]
  /\ Services["consume"]         = [params |-> <<"Book", "Account">>, ret |-> "Account"]
  /\ Services["updateBookPrice"] = [params |-> <<"string", "Price">>, ret |-> "void"]
  /\ Services["shelve"]          = [params |-> <<"Book">>, ret |-> "void"]
  /\ Services["Add"]             = [params |-> <<"uint32", "uint32">>, ret |-> "uint32"]
  /\ Services["Sub"]             = [params |-> <<"int32", "int32">>, ret |-> "int32"]
  /\ Services["Multiply"]        = [params |-> <<"TwoNum">>, ret |-> "int32"]
  /\ Services["Divide"]          = [params |-> <<"uint64", "uint64">>, ret |-> "Quotient"]
  /\ Services["toupper"]         = [params |-> <<"string">>, ret |-> "string"]
  /\ Services["tolower"]         = [params |-> <<"string">>, ret |-> "string"]
  /\ Services["concat"]          = [params |-> <<"string", "string">>, ret |-> "string"]
  /\ Services["atoi"]            = [params |-> <<"string">>, ret |-> "int32"]
BY DEF Services, SM!register_bookMarket_service, SM!register_Math_service, SM!register_string_service,
       SM!bookMarket_getBook_handler, SM!bookMarket_consume_handler, SM!bookMarket_updateBookPrice_handler,
       SM!bookMarket_shelve_handler, SM!Math_Add_handler, SM!Math_Sub_handler, SM!Math_Multiply_handler,
       SM!Math_Divide_handler, SM!string_toupper_handler, SM!string_tolower_handler, SM!string_concat_handler,
       SM!string_atoi_handler

-----------------------------------------------------------------------------
(* T_marshal and T_unmarshal of the other end *)

\* T_unmarshal reads all the fields: only a float or a struct may be null.
LEMMA AllReached ==
  ASSUME NEW T \in DOMAIN Structs, NEW tree,
         \A f \in Fields(T) : tree[f] = Null => Kind(T, f) \in {"float", "Price"}
  PROVE  Reached(SM!unmarshals, T, tree) = Fields(T)
<1> DEFINE fields == SM!unmarshals[T]
           Stops(f) == ~IsMessage(Kind(T, f)) /\ tree[f] = Null
<1>1. {fields[i] : i \in DOMAIN fields} = Fields(T) /\ \A i, j \in DOMAIN fields : i \in Nat /\ (Kind(T, fields[i]) = "float" => j <= i)
  BY TablesComplete DEF Complete
<1>2. DOMAIN fields \subseteq 1 .. Len(fields) /\ \A i \in DOMAIN fields : \A j \in 1 .. i - 1 : j \in DOMAIN fields
  <2>1. fields \in {SM!Account_unmarshal, SM!Book_unmarshal, SM!Price_unmarshal, SM!Quotient_unmarshal, SM!TwoNum_unmarshal}
    BY StructKinds DEF SM!unmarshals
  <2>2. DOMAIN fields = 1 .. 2 /\ Len(fields) = 2
    BY <2>1 DEF SM!Account_unmarshal, SM!Book_unmarshal, SM!Price_unmarshal, SM!Quotient_unmarshal, SM!TwoNum_unmarshal
  <2> QED BY <2>2
<1>3. \A i \in DOMAIN fields : \A j \in 1 .. i - 1 : ~Stops(fields[j])
  <2> SUFFICES ASSUME NEW i \in DOMAIN fields, NEW j, j \in 1 .. i - 1, Stops(fields[j]) PROVE FALSE
    OBVIOUS
  <2>1. j \in DOMAIN fields /\ i \in Nat /\ j < i
    BY <1>1, <1>2
  <2>2. fields[j] \in Fields(T)
    BY <1>1, <2>1
  <2>3. Kind(T, fields[j]) = "float"
    BY <2>2, KindsOfFields
  <2> QED BY <1>1, <2>1, <2>3
<1>4. {i \in DOMAIN fields : \A k \in 1 .. i - 1 : ~Stops(fields[k])} = DOMAIN fields
  BY <1>3
<1> QED BY <1>1, <1>4 DEF Reached

\* What T_marshal makes of a struct without structs in it
LEMMA FlatTree ==
  ASSUME NEW T \in DOMAIN Structs, T # "Book", NEW x, x # Null, NEW floats, Null \notin floats, ScalarsRight(T, x, floats)
  PROVE  LET tree == TreeFlat(SM!marshals, T, FilledFlat(SM!marshals, T, x)) IN
         /\ \A f \in Fields(T) :
              tree[f] = CASE Kind(T, f) = "string" -> IF x[f] = Null THEN Blank ELSE x[f]
                          [] Kind(T, f) = "float" -> IF x[f] = Nan THEN Null ELSE x[f]
                          [] OTHER -> x[f]
         /\ \A f \in Fields(T) : tree[f] = Null => Kind(T, f) \in {"float", "Price"}
<1> DEFINE filled == FilledFlat(SM!marshals, T, x)
           tree == TreeFlat(SM!marshals, T, filled)
<1>1. SUFFICES ASSUME NEW f \in Fields(T)
               PROVE  /\ tree[f] = CASE Kind(T, f) = "string" -> IF x[f] = Null THEN Blank ELSE x[f]
                                      [] Kind(T, f) = "float" -> IF x[f] = Nan THEN Null ELSE x[f]
                                      [] OTHER -> x[f]
                      /\ tree[f] = Null => Kind(T, f) \in {"float", "Price"}
  OBVIOUS
<1>2. f \in SM!marshals[T]
  BY TablesComplete DEF Complete
<1>3. /\ Kind(T, f) \in {"string", "float", "uint64", "int32"} /\ ~IsMessage(Kind(T, f))
      /\ IsNumber(Kind(T, f)) <=> Kind(T, f) # "string"
  BY KindsOfFields
<1>4. Kind(T, f) # "string" => x[f] # Null
  BY <1>3, NullIsNoValue DEF ScalarsRight, Scalars
<1>5. filled[f] = IF Kind(T, f) = "string" /\ x[f] = Null THEN Blank ELSE x[f]
  BY <1>2, <1>3, <1>4 DEF FilledFlat, FilledBy
<1>6. filled[f] # Null
  BY <1>4, <1>5, NullIsNoValue
<1>7. tree[f] = Printed(Kind(T, f), filled[f])
  BY <1>2, <1>3, <1>6 DEF TreeFlat, TreeBy
<1> QED BY <1>3, <1>5, <1>6, <1>7 DEF Printed

LEMMA FlatNotNull ==
  ASSUME NEW T \in DOMAIN Structs, NEW x, x = [f \in Fields(T) |-> x[f]], \A f \in Fields(T) : x[f] \in AllScalars
  PROVE  x # Null
<1>1. x \in [Fields(T) -> AllScalars \cup [Fields("Price") -> AllScalars]]
  OBVIOUS
<1> QED BY <1>1, NullAssumption

LEMMA ScalarsAll ==
  ASSUME NEW kind, NEW floats, floats \subseteq AllScalars
  PROVE  Scalars(kind, floats) \subseteq AllScalars
BY DEF Scalars, AllScalars

LEMMA FlatParts ==
  ASSUME NEW T \in DOMAIN Structs, T # "Book", NEW x, x # Null, NEW floats, Null \notin floats, floats \subseteq AllScalars,
         ScalarsRight(T, x, floats)
  PROVE  /\ FilledFlat(SM!marshals, T, x) # Null
         /\ TreeFlat(SM!marshals, T, FilledFlat(SM!marshals, T, x)) # Null
<1> DEFINE filled == FilledFlat(SM!marshals, T, x)
           tree == TreeFlat(SM!marshals, T, filled)
<1>1. \A f \in Fields(T) : f \in SM!marshals[T] /\ ~IsMessage(Kind(T, f)) /\ x[f] \in AllScalars
  BY TablesComplete, KindsOfFields, ScalarsAll DEF Complete, ScalarsRight
<1>2. \A f \in Fields(T) : filled[f] \in AllScalars
  BY <1>1 DEF FilledFlat, FilledBy, AllScalars, Texts
<1>3. filled = [f \in Fields(T) |-> filled[f]]
  BY DEF FilledFlat, FilledBy
<1>4. \A f \in Fields(T) : tree[f] \in AllScalars
  BY <1>1, <1>2 DEF TreeFlat, TreeBy, AllScalars, Texts, Printed
<1>5. tree = [f \in Fields(T) |-> tree[f]]
  BY DEF TreeFlat, TreeBy
<1> QED BY <1>2, <1>3, <1>4, <1>5, FlatNotNull

\* A struct without structs in it arrives.
LEMMA FlatArrives ==
  ASSUME NEW T \in DOMAIN Structs, T # "Book", NEW x, x # Null, NEW floats, Null \notin floats, ScalarsRight(T, x, floats)
  PROVE  UnmarshalFlat(SM!unmarshals, T, InitFlat(SM!inits, T), TreeFlat(SM!marshals, T, FilledFlat(SM!marshals, T, x)))
           = SentFlat(T, x)
<1> DEFINE tree == TreeFlat(SM!marshals, T, FilledFlat(SM!marshals, T, x))
           first == InitFlat(SM!inits, T)
           got == UnmarshalFlat(SM!unmarshals, T, first, tree)
<1>1. Reached(SM!unmarshals, T, tree) = Fields(T)
  BY FlatTree, AllReached
<1>2. ASSUME NEW f \in Fields(T) PROVE got[f] = SentFlat(T, x)[f]
  <2>1. ~IsMessage(Kind(T, f)) /\ Kind(T, f) \in {"string", "float", "uint64", "int32"}
    BY KindsOfFields
  <2>2. got[f] = IF tree[f] = Null THEN first[f] ELSE ReadValue(Kind(T, f), tree[f])
    BY <1>1, <2>1 DEF UnmarshalFlat, UnmarshalBy
  <2>3. Kind(T, f) = "float" => first[f] = Junk
    <3>1. Kind(T, f) = "float" => f \notin SM!inits[T]
      BY TablesComplete DEF Complete
    <3> QED BY <3>1 DEF InitFlat, InitBy
  <2>4. tree[f] = CASE Kind(T, f) = "string" -> IF x[f] = Null THEN Blank ELSE x[f]
                    [] Kind(T, f) = "float" -> IF x[f] = Nan THEN Null ELSE x[f]
                    [] OTHER -> x[f]
    BY FlatTree
  <2>5. Kind(T, f) # "string" => x[f] # Null
    BY <2>1, NullIsNoValue DEF ScalarsRight, Scalars
  <2>6. SentFlat(T, x)[f] = CASE Kind(T, f) = "string" -> IF x[f] = Null THEN Blank ELSE x[f]
                              [] Kind(T, f) = "float" -> IF x[f] = Nan THEN Junk ELSE x[f]
                              [] OTHER -> IF x[f] > IntMax THEN IntMax ELSE x[f]
    BY <2>1 DEF SentFlat, SentBy
  <2>7. CASE Kind(T, f) = "string"
    BY <2>2, <2>4, <2>6, <2>7, NullIsNoValue DEF ReadValue
  <2>8. CASE Kind(T, f) = "float"
    BY <2>2, <2>3, <2>4, <2>5, <2>6, <2>8, NullIsNoValue DEF ReadValue
  <2>9. CASE Kind(T, f) \in {"uint64", "int32"}
    BY <2>2, <2>4, <2>5, <2>6, <2>9 DEF ReadValue
  <2> QED BY <2>1, <2>7, <2>8, <2>9
<1>3. got = [f \in Fields(T) |-> got[f]]
  BY DEF UnmarshalFlat, UnmarshalBy
<1>4. SentFlat(T, x) = [f \in Fields(T) |-> SentFlat(T, x)[f]]
  BY DEF SentFlat, SentBy
<1> HIDE DEF got
<1> QED BY <1>2, <1>3, <1>4 DEF got

\* A struct that is no Price is or is not nested; what its fields become is the same on every
\* level but for a Price inside.
LEMMA StructTree ==
  ASSUME NEW T \in DOMAIN Structs, NEW x, x # Null, NEW floats, Null \notin floats, floats \subseteq AllScalars,
         WellTyped(T, x, floats)
  PROVE  LET tree == Tree(SM!marshals, T, Filled(SM!marshals, T, x)) IN
         \A f \in Fields(T) :
           /\ tree[f] = CASE Kind(T, f) = "string" -> IF x[f] = Null THEN Blank ELSE x[f]
                          [] Kind(T, f) = "float" -> IF x[f] = Nan THEN Null ELSE x[f]
                          [] Kind(T, f) = "Price" ->
                               IF x[f] = Null THEN Null
                               ELSE TreeFlat(SM!marshals, "Price", FilledFlat(SM!marshals, "Price", x[f]))
                          [] OTHER -> x[f]
           /\ tree[f] = Null => Kind(T, f) \in {"float", "Price"}
           /\ Kind(T, f) = "Price" /\ x[f] # Null => tree[f] # Null
<1> DEFINE filled == Filled(SM!marshals, T, x)
           tree == Tree(SM!marshals, T, filled)
<1>1. SUFFICES ASSUME NEW f \in Fields(T)
               PROVE  /\ tree[f] = CASE Kind(T, f) = "string" -> IF x[f] = Null THEN Blank ELSE x[f]
                                     [] Kind(T, f) = "float" -> IF x[f] = Nan THEN Null ELSE x[f]
                                     [] Kind(T, f) = "Price" ->
                                          IF x[f] = Null THEN Null
                                          ELSE TreeFlat(SM!marshals, "Price", FilledFlat(SM!marshals, "Price", x[f]))
                                     [] OTHER -> x[f]
                      /\ tree[f] = Null => Kind(T, f) \in {"float", "Price"}
                      /\ Kind(T, f) = "Price" /\ x[f] # Null => tree[f] # Null
  OBVIOUS
<1>2. f \in SM!marshals[T]
  BY TablesComplete DEF Complete
<1>3. CASE Kind(T, f) # "Price"
  <2>1. ~IsMessage(Kind(T, f)) /\ Kind(T, f) \in {"string", "float", "uint64", "int32"}
    BY <1>3, KindsOfFields
  <2>2. Kind(T, f) # "string" => x[f] # Null
    BY <2>1, NullIsNoValue DEF WellTyped, ScalarsRight, Scalars
  <2>3. filled[f] = IF Kind(T, f) = "string" /\ x[f] = Null THEN Blank ELSE x[f]
    BY <1>2, <2>1, <2>2 DEF Filled, FilledBy
  <2>4. filled[f] # Null
    BY <2>2, <2>3, NullIsNoValue
  <2>5. tree[f] = Printed(Kind(T, f), filled[f])
    BY <1>2, <2>1, <2>4 DEF Tree, TreeBy
  <2> QED BY <1>3, <2>1, <2>3, <2>4, <2>5 DEF Printed
<1>4. CASE Kind(T, f) = "Price"
  <2>1. IsMessage(Kind(T, f)) /\ "Price" \in DOMAIN Structs
    BY <1>4, KindsOfFields, StructKinds
  <2>2. CASE x[f] = Null
    <3>1. filled[f] = Null
      BY <1>2, <1>4, <2>2 DEF Filled, FilledBy
    <3>2. tree[f] = Null
      BY <3>1 DEF Tree, TreeBy
    <3> QED BY <1>4, <2>2, <3>2
  <2>3. CASE x[f] # Null
    <3>1. ScalarsRight("Price", x[f], floats)
      BY <1>4, <2>1, <2>3 DEF WellTyped
    <3>2. /\ FilledFlat(SM!marshals, "Price", x[f]) # Null
          /\ TreeFlat(SM!marshals, "Price", FilledFlat(SM!marshals, "Price", x[f])) # Null
      BY <2>1, <2>3, <3>1, FlatParts
    <3>3. filled[f] = FilledFlat(SM!marshals, "Price", x[f])
      BY <1>2, <1>4, <2>1, <2>3 DEF Filled, FilledBy
    <3>4. tree[f] = TreeFlat(SM!marshals, "Price", FilledFlat(SM!marshals, "Price", x[f]))
      BY <1>2, <1>4, <2>1, <3>2, <3>3 DEF Tree, TreeBy
    <3> QED BY <1>4, <2>3, <3>2, <3>4
  <2> QED BY <2>2, <2>3
<1> QED BY <1>3, <1>4

\* What one end marshals and the other unmarshals is what Sent says.
LEMMA StructArrives ==
  ASSUME NEW T \in DOMAIN Structs, NEW x, x # Null, NEW floats, Null \notin floats, floats \subseteq AllScalars,
         WellTyped(T, x, floats)
  PROVE  Unmarshal(SM!unmarshals, T, InitValue(SM!inits, T), Tree(SM!marshals, T, Filled(SM!marshals, T, x))) = Sent(T, x)
<1> DEFINE tree == Tree(SM!marshals, T, Filled(SM!marshals, T, x))
           first == InitValue(SM!inits, T)
           got == Unmarshal(SM!unmarshals, T, first, tree)
<1>1. Reached(SM!unmarshals, T, tree) = Fields(T)
  BY StructTree, AllReached
<1>2. ASSUME NEW f \in Fields(T) PROVE got[f] = Sent(T, x)[f]
  <2>1. Kind(T, f) \in {"string", "float", "uint64", "int32", "Price"} /\ (IsMessage(Kind(T, f)) <=> Kind(T, f) = "Price")
    BY KindsOfFields
  <2>2. /\ tree[f] = CASE Kind(T, f) = "string" -> IF x[f] = Null THEN Blank ELSE x[f]
                       [] Kind(T, f) = "float" -> IF x[f] = Nan THEN Null ELSE x[f]
                       [] Kind(T, f) = "Price" ->
                            IF x[f] = Null THEN Null
                            ELSE TreeFlat(SM!marshals, "Price", FilledFlat(SM!marshals, "Price", x[f]))
                       [] OTHER -> x[f]
        /\ Kind(T, f) = "Price" /\ x[f] # Null => tree[f] # Null
    BY StructTree
  <2>3. CASE Kind(T, f) # "Price"
    <3>1. got[f] = IF tree[f] = Null THEN first[f] ELSE ReadValue(Kind(T, f), tree[f])
      BY <1>1, <2>1, <2>3 DEF Unmarshal, UnmarshalBy
    <3>2. Kind(T, f) = "float" => first[f] = Junk
      <4>1. Kind(T, f) = "float" => f \notin SM!inits[T]
        BY TablesComplete DEF Complete
      <4> QED BY <4>1 DEF InitValue, InitBy
    <3>3. Kind(T, f) # "string" => x[f] # Null
      BY <2>1, <2>3, NullIsNoValue DEF WellTyped, ScalarsRight, Scalars
    <3>4. Sent(T, x)[f] = CASE Kind(T, f) = "string" -> IF x[f] = Null THEN Blank ELSE x[f]
                            [] Kind(T, f) = "float" -> IF x[f] = Nan THEN Junk ELSE x[f]
                            [] OTHER -> IF x[f] > IntMax THEN IntMax ELSE x[f]
      BY <2>1, <2>3 DEF Sent, SentBy
    <3>5. CASE Kind(T, f) = "string"
      BY <2>2, <3>1, <3>4, <3>5, NullIsNoValue DEF ReadValue
    <3>6. CASE Kind(T, f) = "float"
      BY <2>2, <3>1, <3>2, <3>3, <3>4, <3>6, NullIsNoValue DEF ReadValue
    <3>7. CASE Kind(T, f) \in {"uint64", "int32"}
      BY <2>2, <3>1, <3>3, <3>4, <3>7 DEF ReadValue
    <3> QED BY <2>1, <2>3, <3>5, <3>6, <3>7
  <2>4. CASE Kind(T, f) = "Price"
    <3>1. got[f] = IF tree[f] = Null THEN Null ELSE UnmarshalFlat(SM!unmarshals, "Price", first[f], tree[f])
      BY <1>1, <2>1, <2>4 DEF Unmarshal, UnmarshalBy
    <3>2. first[f] = InitFlat(SM!inits, "Price")
      <4>1. f \in SM!inits[T]
        BY <2>4, TablesComplete DEF Complete
      <4> QED BY <2>1, <2>4, <4>1 DEF InitValue, InitBy
    <3>3. Sent(T, x)[f] = SentFlat("Price", x[f])
      BY <2>4 DEF Sent, SentBy
    <3>4. CASE x[f] = Null
      BY <2>2, <2>4, <3>1, <3>3, <3>4 DEF SentFlat, SentBy
    <3>5. CASE x[f] # Null
      <4>1. "Price" \in DOMAIN Structs /\ ScalarsRight("Price", x[f], floats)
        BY <2>1, <2>4, <3>5, StructKinds DEF WellTyped
      <4>2. tree[f] = TreeFlat(SM!marshals, "Price", FilledFlat(SM!marshals, "Price", x[f])) /\ tree[f] # Null
        BY <2>2, <2>4, <3>5
      <4>3. got[f] = UnmarshalFlat(SM!unmarshals, "Price", InitFlat(SM!inits, "Price"),
                                   TreeFlat(SM!marshals, "Price", FilledFlat(SM!marshals, "Price", x[f])))
        BY <3>1, <3>2, <4>2
      <4> QED BY <3>3, <3>5, <4>1, <4>3, FlatArrives
    <3> QED BY <3>4, <3>5
  <2> QED BY <2>3, <2>4
<1>3. got = [f \in Fields(T) |-> got[f]]
  BY DEF Unmarshal, UnmarshalBy
<1>4. Sent(T, x) = [f \in Fields(T) |-> Sent(T, x)[f]]
  BY DEF Sent, SentBy
<1> HIDE DEF got
<1> QED BY <1>2, <1>3, <1>4 DEF got

-----------------------------------------------------------------------------
(* What the application is called with and returns *)

\* What a float is that T_unmarshal has read, and a struct that it has filled
Floats == Int \cup {Junk}
IsRead(T, x) ==
  /\ WellTyped(T, x, Floats) /\ x = [f \in Fields(T) |-> x[f]]
  /\ \A f \in Fields(T) : IsMessage(Kind(T, f)) /\ x[f] # Null => x[f] = [g \in Fields(Kind(T, f)) |-> x[f][g]]

LEMMA SentFlatTyped ==
  ASSUME NEW T \in DOMAIN Structs, NEW x, x # Null, ScalarsRight(T, x, Int \cup {Nan, Junk})
  PROVE  ScalarsRight(T, SentFlat(T, x), Floats)
<1> SUFFICES ASSUME NEW f \in Fields(T), ~IsMessage(Kind(T, f))
             PROVE  SentFlat(T, x)[f] \in Scalars(Kind(T, f), Floats)
  BY DEF ScalarsRight
<1>1. Kind(T, f) \in {"string", "float", "uint64", "int32"}
  BY KindsOfFields
<1>2. x[f] \in Scalars(Kind(T, f), Int \cup {Nan, Junk})
  BY DEF ScalarsRight
<1>3. CASE Kind(T, f) = "string"
  BY <1>2, <1>3 DEF SentFlat, SentBy, Scalars, Texts
<1>4. CASE Kind(T, f) = "float"
  BY <1>2, <1>4 DEF SentFlat, SentBy, Scalars, Floats
<1>5. CASE Kind(T, f) \in {"uint64", "int32"}
  BY <1>2, <1>5, IntMaxAssumption DEF SentFlat, SentBy, Scalars
<1> QED BY <1>1, <1>3, <1>4, <1>5

LEMMA SentTyped ==
  ASSUME NEW T \in DOMAIN Structs, NEW x, x # Null, WellTyped(T, x, Int \cup {Nan, Junk})
  PROVE  IsRead(T, Sent(T, x))
<1>1. Sent(T, x) = [f \in Fields(T) |-> Sent(T, x)[f]]
  BY DEF Sent, SentBy
<1>2. ASSUME NEW f \in Fields(T), ~IsMessage(Kind(T, f))
      PROVE  Sent(T, x)[f] \in Scalars(Kind(T, f), Floats)
  <2>1. Kind(T, f) \in {"string", "float", "uint64", "int32"}
    BY <1>2, KindsOfFields
  <2>2. x[f] \in Scalars(Kind(T, f), Int \cup {Nan, Junk})
    BY <1>2 DEF WellTyped, ScalarsRight
  <2>3. CASE Kind(T, f) = "string"
    BY <2>2, <2>3 DEF Sent, SentBy, Scalars, Texts
  <2>4. CASE Kind(T, f) = "float"
    BY <2>2, <2>4 DEF Sent, SentBy, Scalars, Floats
  <2>5. CASE Kind(T, f) \in {"uint64", "int32"}
    BY <2>2, <2>5, IntMaxAssumption DEF Sent, SentBy, Scalars
  <2> QED BY <2>1, <2>3, <2>4, <2>5
<1>3. ASSUME NEW f \in Fields(T), IsMessage(Kind(T, f)), Sent(T, x)[f] # Null
      PROVE  /\ ScalarsRight(Kind(T, f), Sent(T, x)[f], Floats)
             /\ Sent(T, x)[f] = [g \in Fields(Kind(T, f)) |-> Sent(T, x)[f][g]]
  <2>1. Kind(T, f) = "Price" /\ "Price" \in DOMAIN Structs
    BY <1>3, KindsOfFields, StructKinds
  <2>2. Sent(T, x)[f] = SentFlat("Price", x[f])
    BY <2>1 DEF Sent, SentBy
  <2>3. x[f] # Null
    BY <1>3, <2>2 DEF SentFlat, SentBy
  <2>4. ScalarsRight("Price", x[f], Int \cup {Nan, Junk})
    BY <1>3, <2>1, <2>3 DEF WellTyped
  <2>5. SentFlat("Price", x[f]) = [g \in Fields("Price") |-> SentFlat("Price", x[f])[g]]
    BY <2>3 DEF SentFlat, SentBy
  <2> QED BY <2>1, <2>2, <2>3, <2>4, <2>5, SentFlatTyped
<1> QED BY <1>1, <1>2, <1>3 DEF IsRead, WellTyped, ScalarsRight

LEMMA WiderFloats ==
  ASSUME NEW T \in DOMAIN Structs, NEW x, NEW few, NEW many, few \subseteq many, WellTyped(T, x, few)
  PROVE  WellTyped(T, x, many)
<1>1. ASSUME NEW kind PROVE Scalars(kind, few) \subseteq Scalars(kind, many)
  BY DEF Scalars
<1> QED BY <1>1 DEF WellTyped, ScalarsRight

\* The server's book_map: books that were read, in blocks of the calls that stored them
StoreRight(st) ==
  \A name \in DOMAIN st :
    /\ st[name] = [at |-> st[name].at, book |-> st[name].book]
    /\ \E k \in Nat : st[name].at = MapAt(k)
    /\ IsRead("Book", st[name].book)

\* What a handler calls the application with, once it accepted the request
ReadRight(h, vals) ==
  \A i \in DOMAIN h.params :
    IF IsMessage(h.params[i]) THEN IsRead(h.params[i], vals[i])
    ELSE vals[i] \in Scalars(h.params[i], Floats)
\* What an application returns
ResultRight(T, x) == IsMessage(T) => x = Null \/ WellTyped(T, x, Floats)

LEMMA BooksTyped ==
  ASSUME NEW x, IsRead("Book", x)
  PROVE  /\ DOMAIN x = {"price", "name"} /\ x.name \in Texts \cup {Null}
         /\ x.price # Null => ScalarsRight("Price", x.price, Floats)
BY StructKinds DEF IsRead, WellTyped, ScalarsRight, Scalars, IsMessage
LEMMA PricesTyped ==
  ASSUME NEW x, ScalarsRight("Price", x, Floats)
  PROVE  x.num \in Floats /\ x.unit \in Texts \cup {Null}
<1>1. /\ "num" \in Fields("Price") /\ Kind("Price", "num") = "float" /\ ~IsMessage("float")
      /\ "unit" \in Fields("Price") /\ Kind("Price", "unit") = "string" /\ ~IsMessage("string")
  BY StructKinds DEF IsMessage
<1> QED BY <1>1 DEF ScalarsRight, Scalars

-----------------------------------------------------------------------------
(* Memory: the generated code and the applications touch only the blocks of calls *)

\* The memory of a process, and blocks of calls
IsMemory(m) == m = [heap |-> m.heap, fault |-> m.fault, err |-> m.err]
OfCalls(blocks) == \A p \in blocks : p[1] = "call"
\* The fault of server_destroy
OfPool(fault) == fault = "use of a pool never made"
\* m is what such code may make of l.
Follows(l, m) ==
  /\ IsMemory(m) /\ (l.fault # "none" => m.fault = l.fault) /\ (OfPool(m.fault) => OfPool(l.fault))
  /\ \A p : p[1] # "call" => (p \in m.heap <=> p \in l.heap)

\* The paths of blocks, as far as their order in a path matters
IsPath(p) == DOMAIN p = 1 .. Len(p) /\ Len(p) \in Nat \ {0}
OfCall(p) == IsPath(p) /\ p[1] = "call"

LEMMA PathsInside ==
  ASSUME NEW p, OfCall(p), NEW f
  PROVE  OfCall(Append(p, f))
BY DEF OfCall, IsPath

LEMMA CallPaths ==
  ASSUME NEW id, NEW i
  PROVE  /\ OfCall(ArgAt(id, i)) /\ OfCall(ResAt(id)) /\ OfCall(MapAt(id)) /\ OfCall(Node(id, i))
         /\ OfCall(TypeName(id)) /\ OfCall(Data(id))
BY DEF OfCall, IsPath, ArgAt, ResAt, MapAt, Node, TypeName, Data

LEMMA BlocksOfCalls ==
  ASSUME NEW table, NEW T, NEW p, OfCall(p), NEW x
  PROVE  OfCalls(Blocks(table, T, p, x)) /\ OfCalls(Parts(table, T, p, x)) /\ OfCalls(Destroyed(table, T, p, x))
<1>1. ASSUME NEW U, NEW q, OfCall(q), NEW y PROVE OfCalls(Parts(table, U, q, y))
  BY <1>1, PathsInside DEF OfCalls, Parts, OfCall
<1>2. ASSUME NEW f PROVE OfCalls(Parts(table, Kind(T, f), Append(p, f), x[f]))
  BY <1>1, PathsInside
<1>3. OfCalls(Blocks(table, T, p, x))
  BY <1>1, <1>2 DEF Blocks, OfCalls
<1> QED BY <1>1, <1>3 DEF Destroyed, OfCalls

LEMMA AllocIs ==
  ASSUME NEW m, IsMemory(m), NEW blocks
  PROVE  Alloc(m, blocks) = [heap |-> m.heap \cup blocks, fault |-> m.fault, err |-> m.err] /\ IsMemory(Alloc(m, blocks))
<1>1. Alloc(m, blocks) = [heap |-> m.heap \cup blocks, fault |-> m.fault, err |-> m.err]
  BY DEF IsMemory, Alloc
<1> QED BY <1>1 DEF IsMemory
LEMMA LessIs ==
  ASSUME NEW m, IsMemory(m), NEW blocks
  PROVE  /\ [m EXCEPT !.heap = @ \ blocks] = [heap |-> m.heap \ blocks, fault |-> m.fault, err |-> m.err]
         /\ IsMemory([m EXCEPT !.heap = @ \ blocks])
<1>1. [m EXCEPT !.heap = @ \ blocks] = [heap |-> m.heap \ blocks, fault |-> m.fault, err |-> m.err]
  BY DEF IsMemory
<1> QED BY <1>1 DEF IsMemory
LEMMA ErrIs ==
  ASSUME NEW m, IsMemory(m), NEW err
  PROVE  [m EXCEPT !.err = err] = [heap |-> m.heap, fault |-> m.fault, err |-> err] /\ IsMemory([m EXCEPT !.err = err])
<1>1. [m EXCEPT !.err = err] = [heap |-> m.heap, fault |-> m.fault, err |-> err]
  BY DEF IsMemory
<1> QED BY <1>1 DEF IsMemory
LEMMA FaultIs ==
  ASSUME NEW m, IsMemory(m), NEW what
  PROVE  /\ Fault(m, what) = [heap |-> m.heap, fault |-> IF m.fault = "none" THEN what ELSE m.fault, err |-> m.err]
         /\ IsMemory(Fault(m, what))
<1>1. Fault(m, what) = [heap |-> m.heap, fault |-> IF m.fault = "none" THEN what ELSE m.fault, err |-> m.err]
  BY DEF IsMemory, Fault
<1> QED BY <1>1 DEF IsMemory
LEMMA FreeAllIs ==
  ASSUME NEW m, IsMemory(m), NEW blocks
  PROVE  /\ FreeAll(m, blocks) =
              [heap |-> m.heap \ blocks,
               fault |-> IF m.fault = "none" /\ ~(blocks \subseteq m.heap) THEN "free of a freed block" ELSE m.fault,
               err |-> m.err]
         /\ IsMemory(FreeAll(m, blocks))
<1>1. FreeAll(m, blocks) = [FaultIf(~(blocks \subseteq m.heap), m, "free of a freed block") EXCEPT !.heap = @ \ blocks]
  BY DEF FreeAll
<1>2. CASE blocks \subseteq m.heap
  <2>1. FreeAll(m, blocks) = [m EXCEPT !.heap = @ \ blocks]
    BY <1>1, <1>2 DEF FaultIf
  <2>2. FreeAll(m, blocks) = [heap |-> m.heap \ blocks, fault |-> m.fault, err |-> m.err]
    BY <2>1 DEF IsMemory
  <2> QED BY <1>2, <2>2 DEF IsMemory
<1>3. CASE ~(blocks \subseteq m.heap)
  <2> DEFINE faulty == Fault(m, "free of a freed block")
  <2>1. FreeAll(m, blocks) = [faulty EXCEPT !.heap = @ \ blocks]
    BY <1>1, <1>3 DEF FaultIf
  <2>2. faulty = [heap |-> m.heap, fault |-> IF m.fault = "none" THEN "free of a freed block" ELSE m.fault, err |-> m.err]
    BY FaultIs
  <2> HIDE DEF faulty
  <2>3. FreeAll(m, blocks) =
          [heap |-> m.heap \ blocks, fault |-> IF m.fault = "none" THEN "free of a freed block" ELSE m.fault, err |-> m.err]
    BY <2>1, <2>2
  <2> QED BY <1>3, <2>3 DEF IsMemory
<1> QED BY <1>2, <1>3

LEMMA ErrFields ==
  ASSUME NEW m, IsMemory(m), NEW err
  PROVE  /\ [m EXCEPT !.err = err].heap = m.heap /\ [m EXCEPT !.err = err].fault = m.fault
         /\ [m EXCEPT !.err = err].err = err
<1> DEFINE changed == [m EXCEPT !.err = err]
<1>1. changed = [heap |-> m.heap, fault |-> m.fault, err |-> err]
  BY ErrIs
<1> HIDE DEF changed
<1> QED BY <1>1 DEF changed
LEMMA FaultFields ==
  ASSUME NEW m, IsMemory(m), NEW what
  PROVE  /\ Fault(m, what).heap = m.heap /\ Fault(m, what).err = m.err
         /\ Fault(m, what).fault = IF m.fault = "none" THEN what ELSE m.fault
<1> DEFINE fault == IF m.fault = "none" THEN what ELSE m.fault
<1>1. Fault(m, what) = [heap |-> m.heap, fault |-> fault, err |-> m.err]
  BY FaultIs
<1> HIDE DEF fault
<1>2. Fault(m, what).heap = m.heap /\ Fault(m, what).err = m.err /\ Fault(m, what).fault = fault
  BY <1>1
<1> QED BY <1>2 DEF fault
LEMMA FreeAllFields ==
  ASSUME NEW m, IsMemory(m), NEW blocks
  PROVE  /\ FreeAll(m, blocks).heap = m.heap \ blocks /\ FreeAll(m, blocks).err = m.err
         /\ FreeAll(m, blocks).fault =
              IF m.fault = "none" /\ ~(blocks \subseteq m.heap) THEN "free of a freed block" ELSE m.fault
<1> DEFINE fault == IF m.fault = "none" /\ ~(blocks \subseteq m.heap) THEN "free of a freed block" ELSE m.fault
<1>1. FreeAll(m, blocks) = [heap |-> m.heap \ blocks, fault |-> fault, err |-> m.err]
  BY FreeAllIs
<1> HIDE DEF fault
<1>2. FreeAll(m, blocks).heap = m.heap \ blocks /\ FreeAll(m, blocks).err = m.err /\ FreeAll(m, blocks).fault = fault
  BY <1>1
<1> QED BY <1>2 DEF fault

LEMMA FollowsItself == ASSUME NEW m, IsMemory(m) PROVE Follows(m, m)
BY DEF Follows
LEMMA FollowsAlloc ==
  ASSUME NEW l, NEW m, Follows(l, m), NEW blocks, OfCalls(blocks)
  PROVE  Follows(l, Alloc(m, blocks))
<1>1. IsMemory(m) /\ (l.fault # "none" => m.fault = l.fault) /\ (OfPool(m.fault) => OfPool(l.fault)) /\ \A p : p[1] # "call" => (p \in m.heap <=> p \in l.heap)
  BY DEF Follows
<1>2. Alloc(m, blocks).heap = m.heap \cup blocks /\ Alloc(m, blocks).fault = m.fault /\ IsMemory(Alloc(m, blocks))
  BY <1>1, AllocIs
<1> QED BY <1>1, <1>2 DEF Follows, OfCalls
LEMMA FollowsFree ==
  ASSUME NEW l, NEW m, Follows(l, m), NEW blocks, OfCalls(blocks)
  PROVE  Follows(l, FreeAll(m, blocks))
<1>1. IsMemory(m) /\ (l.fault # "none" => m.fault = l.fault) /\ (OfPool(m.fault) => OfPool(l.fault)) /\ \A p : p[1] # "call" => (p \in m.heap <=> p \in l.heap)
  BY DEF Follows
<1>2. IsMemory(FreeAll(m, blocks))
  BY <1>1, FreeAllIs
<1>3. /\ FreeAll(m, blocks).heap = m.heap \ blocks /\ (m.fault # "none" => FreeAll(m, blocks).fault = m.fault)
      /\ FreeAll(m, blocks).fault \in {m.fault, "free of a freed block"}
  BY <1>1, FreeAllFields
<1> QED BY <1>1, <1>2, <1>3 DEF Follows, OfCalls, OfPool
LEMMA FollowsFault ==
  ASSUME NEW l, NEW m, Follows(l, m), NEW what, what # "use of a pool never made"
  PROVE  Follows(l, Fault(m, what)) /\ \A condition : Follows(l, FaultIf(condition, m, what))
<1>1. IsMemory(m) /\ (l.fault # "none" => m.fault = l.fault) /\ (OfPool(m.fault) => OfPool(l.fault)) /\ \A p : p[1] # "call" => (p \in m.heap <=> p \in l.heap)
  BY DEF Follows
<1>2. /\ Fault(m, what).heap = m.heap /\ IsMemory(Fault(m, what))
      /\ Fault(m, what).fault = IF m.fault = "none" THEN what ELSE m.fault
  BY <1>1, FaultIs, FaultFields
<1>3. Follows(l, Fault(m, what))
  BY <1>1, <1>2 DEF Follows, OfPool
<1>4. ASSUME NEW condition PROVE FaultIf(condition, m, what) \in {m, Fault(m, what)}
  BY DEF FaultIf
<1> QED BY <1>3, <1>4
LEMMA FollowsErr ==
  ASSUME NEW l, NEW m, Follows(l, m), NEW err
  PROVE  Follows(l, [m EXCEPT !.err = err])
<1>1. IsMemory(m) /\ (l.fault # "none" => m.fault = l.fault) /\ (OfPool(m.fault) => OfPool(l.fault)) /\ \A p : p[1] # "call" => (p \in m.heap <=> p \in l.heap)
  BY DEF Follows
<1>2. [m EXCEPT !.err = err].heap = m.heap /\ [m EXCEPT !.err = err].fault = m.fault /\ IsMemory([m EXCEPT !.err = err])
  BY <1>1, ErrIs, ErrFields
<1> QED BY <1>1, <1>2 DEF Follows

\* Either outcome of errorf
LEMMA errorfIs ==
  ASSUME NEW l, NEW m, Follows(l, m), NEW e \in errorf(m)
  PROVE  /\ e \in {[m EXCEPT !.err = "garbled"], Fault(m, VaList)} /\ Follows(l, e)
         /\ e.fault \in {m.fault, IF m.fault = "none" THEN VaList ELSE m.fault}
<1> DEFINE told == [m EXCEPT !.err = "garbled"]
           ended == Fault(m, VaList)
<1>1. e \in {told, ended}
  BY DEF errorf
<1>2. Follows(l, told) /\ Follows(l, ended)
  BY FollowsErr, FollowsFault DEF VaList
<1>3. told.fault = m.fault /\ ended.fault = IF m.fault = "none" THEN VaList ELSE m.fault
  BY ErrFields, FaultFields DEF Follows
<1> HIDE DEF told, ended
<1> QED BY <1>1, <1>2, <1>3 DEF told, ended

-----------------------------------------------------------------------------
(* The applications *)

\* What any outcome of an application is like
OutcomeRight(ret, m, o) ==
  /\ o = [res |-> o.res, m |-> o.m, store |-> o.store]
  /\ Follows(m, o.m) /\ ResultRight(ret, o.res) /\ StoreRight(o.store)

LEMMA OutRight ==
  ASSUME NEW ret, NEW l, NEW res, NEW m, NEW st, Follows(l, m), ResultRight(ret, res), StoreRight(st), NEW o \in Out(res, m, st)
  PROVE  OutcomeRight(ret, l, o)
BY DEF Out, OutcomeRight
LEMMA CrashRight ==
  ASSUME NEW ret, NEW l, NEW m, NEW st, NEW what, what # "use of a pool never made", Follows(l, m), StoreRight(st), NEW o \in Crash(m, what, st)
  PROVE  OutcomeRight(ret, l, o)
BY FollowsFault, OutRight DEF Crash, ResultRight

LEMMA NumbersNoMessages ==
  ~IsMessage("uint32") /\ ~IsMessage("int32") /\ ~IsMessage("uint64") /\ ~IsMessage("string") /\ ~IsMessage("void") /\ ~IsMessage("float")
BY StructKinds DEF IsMessage

LEMMA MathRight ==
  ASSUME NEW h \in {Services["Add"], Services["Sub"], Services["Multiply"], Services["Divide"]},
         NEW vals, ReadRight(h, vals), NEW id, NEW m, IsMemory(m), NEW st, StoreRight(st)
  PROVE  /\ h = Services["Add"] => \A o \in Math_Add(vals, id, m, st) : OutcomeRight(h.ret, m, o)
         /\ h = Services["Sub"] => \A o \in Math_Sub(vals, id, m, st) : OutcomeRight(h.ret, m, o)
         /\ h = Services["Multiply"] => \A o \in Math_Multiply(vals, id, m, st) : OutcomeRight(h.ret, m, o)
         /\ h = Services["Divide"] => \A o \in Math_Divide(vals, id, m, st) : OutcomeRight(h.ret, m, o)
<1>1. Follows(m, m)
  BY FollowsItself
<1>2. ASSUME h = Services["Add"], NEW o \in Math_Add(vals, id, m, st) PROVE OutcomeRight(h.ret, m, o)
  <2>1. \A x : ResultRight(h.ret, x)
    BY <1>2, ServiceRows, NumbersNoMessages DEF ResultRight
  <2>2. \E x : o \in Out(x, m, st)
    BY <1>2 DEF Math_Add
  <2> QED BY <1>1, <2>1, <2>2, OutRight
<1>3. ASSUME h = Services["Sub"], NEW o \in Math_Sub(vals, id, m, st) PROVE OutcomeRight(h.ret, m, o)
  <2>1. \A x : ResultRight(h.ret, x)
    BY <1>3, ServiceRows, NumbersNoMessages DEF ResultRight
  <2>2. \E x : o \in Out(x, m, st)
    BY <1>3 DEF Math_Sub
  <2> QED BY <1>1, <2>1, <2>2, OutRight
<1>4. ASSUME h = Services["Multiply"], NEW o \in Math_Multiply(vals, id, m, st) PROVE OutcomeRight(h.ret, m, o)
  <2>1. \A x : ResultRight(h.ret, x)
    BY <1>4, ServiceRows, NumbersNoMessages DEF ResultRight
  <2>2. \E x : o \in Out(x, m, st)
    BY <1>4 DEF Math_Multiply
  <2> QED BY <1>1, <2>1, <2>2, OutRight
<1>5. ASSUME h = Services["Divide"], NEW o \in Math_Divide(vals, id, m, st) PROVE OutcomeRight(h.ret, m, o)
  <2>1. h = [params |-> <<"uint64", "uint64">>, ret |-> "Quotient"]
    BY <1>5, ServiceRows
  <2>2. vals[1] \in Nat /\ vals[2] \in Nat
    BY <2>1, NumbersNoMessages DEF ReadRight, Scalars
  <2>3. CASE vals[2] = 0
    BY <1>1, <1>5, <2>3, CrashRight DEF Math_Divide
  <2>4. CASE vals[2] # 0
    <3> DEFINE q == [Quo |-> vals[1] \div vals[2], Rem |-> vals[1] % vals[2]]
    <3>1. q.Quo \in Nat /\ q.Rem \in Nat
      BY <2>2, <2>4
    <3>2. WellTyped("Quotient", q, Floats)
      BY <3>1, StructKinds, NumbersNoMessages DEF WellTyped, ScalarsRight, Scalars
    <3>3. Follows(m, Alloc(m, {ResAt(id)}))
      BY <1>1, CallPaths, FollowsAlloc DEF OfCall, OfCalls
    <3>4. o \in Out(q, Alloc(m, {ResAt(id)}), st)
      BY <1>5, <2>4 DEF Math_Divide
    <3>5. ResultRight(h.ret, q)
      BY <2>1, <3>2 DEF ResultRight
    <3> HIDE DEF q
    <3> QED BY <3>3, <3>4, <3>5, OutRight
  <2> QED BY <2>3, <2>4
<1> QED BY <1>2, <1>3, <1>4, <1>5

LEMMA StringsRight ==
  ASSUME NEW h \in {Services["toupper"], Services["tolower"], Services["concat"], Services["atoi"]},
         NEW vals, NEW id, NEW m, IsMemory(m), NEW st, StoreRight(st)
  PROVE  /\ \A o \in string_toupper(vals, id, m, st) : OutcomeRight(h.ret, m, o)
         /\ \A o \in string_tolower(vals, id, m, st) : OutcomeRight(h.ret, m, o)
         /\ \A o \in string_concat(vals, id, m, st) : OutcomeRight(h.ret, m, o)
         /\ \A o \in string_atoi(vals, id, m, st) : OutcomeRight(h.ret, m, o)
<1>1. Follows(m, m) /\ Follows(m, Alloc(m, {ResAt(id)}))
  BY CallPaths, FollowsItself, FollowsAlloc DEF OfCall, OfCalls
<1>2. \A x : ResultRight(h.ret, x)
  BY ServiceRows, NumbersNoMessages DEF ResultRight
<1>3. ASSUME NEW word, NEW map, NEW o \in Mapped(word, map, id, m, st) PROVE OutcomeRight(h.ret, m, o)
  BY <1>1, <1>2, <1>3, OutRight, CrashRight DEF Mapped
<1>4. ASSUME NEW o \in string_concat(vals, id, m, st) PROVE OutcomeRight(h.ret, m, o)
  <2>1. CASE Null \in {vals[1], vals[2]}
    BY <1>1, <1>4, <2>1, CrashRight DEF string_concat
  <2>2. CASE Null \notin {vals[1], vals[2]}
    <3> DEFINE texts == {vals[1] \o vals[2] \o rest : rest \in {Blank, Trailing}} \ {Null}
               told == UNION {Out(text, Alloc(m, {ResAt(id)}), st) : text \in texts}
               ended == Crash(m, "read past a block", st)
               null == Crash(m, "strlen of NULL", st)
    <3>4. string_concat(vals, id, m, st) = IF Null \in {vals[1], vals[2]} THEN null ELSE told \cup ended
      BY Zenon DEF string_concat
    <3> HIDE DEF texts
    <3>5. \A x \in told : \E text : x \in Out(text, Alloc(m, {ResAt(id)}), st)
      OBVIOUS
    <3> HIDE DEF told, ended, null
    <3>6. o \in told \/ o \in ended
      BY <1>4, <2>2, <3>4
    <3>1. (\E x : o \in Out(x, Alloc(m, {ResAt(id)}), st)) \/ o \in Crash(m, "read past a block", st)
      BY <3>5, <3>6 DEF ended
    <3>2. ASSUME NEW x, o \in Out(x, Alloc(m, {ResAt(id)}), st) PROVE OutcomeRight(h.ret, m, o)
      BY <1>1, <1>2, <3>2, OutRight
    <3>3. CASE o \in Crash(m, "read past a block", st)
      BY <1>1, <3>3, CrashRight
    <3> QED BY <3>1, <3>2, <3>3
  <2> QED BY <2>1, <2>2
<1>5. \A o \in string_atoi(vals, id, m, st) : OutcomeRight(h.ret, m, o)
  BY <1>1, <1>2, OutRight, CrashRight DEF string_atoi
<1> QED BY <1>3, <1>4, <1>5 DEF string_toupper, string_tolower

LEMMA CloneIs ==
  ASSUME NEW l, NEW m, Follows(l, m), NEW T, NEW p, OfCall(p), NEW x
  PROVE  Follows(l, Clone(T, p, x, m))
<1>1. OfCalls({p} \cup Blocks(Pointers, T, p, x))
  BY BlocksOfCalls DEF OfCalls, OfCall
<1> QED BY <1>1, FollowsAlloc DEF Clone

LEMMA getBookRight ==
  ASSUME NEW vals, NEW id, NEW m, IsMemory(m), NEW st, StoreRight(st), NEW o \in bookMarket_getBook(vals, id, m, st)
  PROVE  OutcomeRight("Book", m, o)
<1>1. Follows(m, m)
  BY FollowsItself
<1>2. CASE vals[1] = Null
  BY <1>1, <1>2, CrashRight DEF bookMarket_getBook
<1>3. CASE vals[1] # Null /\ vals[1] \notin DOMAIN st
  <2>1. PICK e \in errorf(m) : o \in Out(Null, e, st)
    BY <1>3 DEF bookMarket_getBook
  <2>2. Follows(m, e) /\ ResultRight("Book", Null)
    BY <1>1, <2>1, errorfIs DEF ResultRight
  <2> QED BY <2>1, <2>2, OutRight
<1>4. CASE vals[1] # Null /\ vals[1] \in DOMAIN st
  <2>1. Follows(m, Clone("Book", ResAt(id), st[vals[1]].book, m))
    BY <1>1, CallPaths, CloneIs
  <2>2. ResultRight("Book", st[vals[1]].book)
    BY <1>4 DEF ResultRight, StoreRight, IsRead
  <2> QED BY <1>4, <2>1, <2>2, OutRight DEF bookMarket_getBook
<1> QED BY <1>2, <1>3, <1>4

LEMMA consumeRight ==
  ASSUME NEW vals, ReadRight(Services["consume"], vals), NEW id, NEW m, IsMemory(m), NEW st, StoreRight(st),
         NEW o \in bookMarket_consume(vals, id, m, st)
  PROVE  OutcomeRight("Account", m, o)
<1>1. Follows(m, m)
  BY FollowsItself
<1>2. IsRead("Book", vals[1]) /\ IsRead("Account", vals[2])
  <2>1. IsMessage("Book") /\ IsMessage("Account")
    BY StructKinds DEF IsMessage
  <2> QED BY <2>1, ServiceRows DEF ReadRight
<1> DEFINE price == vals[1].price
           left == IF Junk \in {price.num, vals[2].balance} THEN Junk ELSE vals[2].balance - Charged(price)
           account == [vals[2] EXCEPT !.balance = left]
<1>3. CASE price = Null
  BY <1>1, <1>3, CrashRight DEF bookMarket_consume
<1>4. CASE price # Null
  <2>1. price.num \in Floats
    BY <1>2, <1>4, BooksTyped, PricesTyped
  <2>2. DOMAIN vals[2] = {"userName", "balance"} /\ vals[2].balance \in Floats /\ vals[2].userName \in Texts \cup {Null}
    BY <1>2, StructKinds, NumbersNoMessages DEF IsRead, WellTyped, ScalarsRight, Scalars
  <2>3. left \in Floats
    <3>1. Junk \notin {price.num, vals[2].balance} => price.num \in Int /\ vals[2].balance \in Int
      BY <2>1, <2>2 DEF Floats
    <3>2. price.num \in Int => Charged(price) \in Int
      BY DEF Charged
    <3> QED BY <3>1, <3>2 DEF Floats
  <2> HIDE DEF left
  <2>4. DOMAIN account = {"userName", "balance"} /\ account.balance = left /\ account.userName = vals[2].userName
    BY <2>2
  <2>5. WellTyped("Account", account, Floats)
    <3> HIDE DEF account
    <3> QED BY <2>2, <2>3, <2>4, StructKinds, NumbersNoMessages DEF WellTyped, ScalarsRight, Scalars
  <2>6. Follows(m, Clone("Account", ResAt(id), account, m))
    BY <1>1, CallPaths, CloneIs
  <2>7. o \in Out(account, Clone("Account", ResAt(id), account, m), st)
    BY <1>4 DEF bookMarket_consume, left
  <2> HIDE DEF account
  <2> QED BY <2>5, <2>6, <2>7, OutRight DEF ResultRight
<1> QED BY <1>3, <1>4

LEMMA PriceBlocksOfCalls ==
  ASSUME NEW at, OfCall(at), NEW price
  PROVE  OfCalls(PriceBlocks(at, price)) /\ OfCalls({at} \cup PriceBlocks(at, price)) /\ OfCall(Append(at, "price"))
<1>1. OfCall(Append(at, "price"))
  BY PathsInside
<1>2. OfCalls(Parts(Pointers, "Price", Append(at, "price"), price))
  BY <1>1, BlocksOfCalls
<1> QED BY <1>1, <1>2 DEF PriceBlocks, OfCalls, OfCall

LEMMA shelveRight ==
  ASSUME NEW vals, ReadRight(Services["shelve"], vals), NEW id \in Nat, NEW m, IsMemory(m), NEW st, StoreRight(st),
         NEW o \in bookMarket_shelve(vals, id, m, st)
  PROVE  OutcomeRight("void", m, o)
<1> DEFINE name == vals[1].name
           cloned == Clone("Book", MapAt(id), vals[1], m)
           m1 == IF name \in DOMAIN st THEN Forget(st[name].at, st[name].book, cloned) ELSE cloned
           entry == [at |-> MapAt(id), book |-> vals[1]]
<1>1. IsRead("Book", vals[1])
  BY ServiceRows, StructKinds DEF ReadRight, IsMessage
<1>2. Follows(m, cloned)
  BY FollowsItself, CallPaths, CloneIs
<1>3. Follows(m, m1)
  <2>1. CASE name \in DOMAIN st
    <3>1. OfCall(st[name].at)
      BY <2>1, CallPaths DEF StoreRight
    <3> HIDE DEF cloned
    <3>2. Follows(m, Forget(st[name].at, st[name].book, cloned))
      BY <1>2, <3>1, PriceBlocksOfCalls, FollowsFault, FollowsFree DEF Forget
    <3> QED BY <2>1, <3>2
  <2> QED BY <1>2, <2>1
<1>4. StoreRight(Put(st, name, entry))
  <2> HIDE DEF name
  <2>1. entry = [at |-> entry.at, book |-> entry.book] /\ entry.at = MapAt(id) /\ entry.book = vals[1]
    OBVIOUS
  <2> HIDE DEF entry
  <2> QED BY <1>1, <2>1 DEF StoreRight, Put
<1>5. ResultRight("void", Null)
  BY DEF ResultRight
<1>6. o \in Out(Null, m1, Put(st, name, entry))
  BY DEF bookMarket_shelve
<1> HIDE DEF m1, name, entry
<1> QED BY <1>3, <1>4, <1>5, <1>6, OutRight

LEMMA updateBookPriceRight ==
  ASSUME NEW vals, ReadRight(Services["updateBookPrice"], vals), NEW id, NEW m, IsMemory(m), NEW st, StoreRight(st),
         NEW o \in bookMarket_updateBookPrice(vals, id, m, st)
  PROVE  OutcomeRight("void", m, o)
<1> DEFINE name == vals[1]
           at == st[name].at
           old == st[name].book
           m1 == FreeAll(m, PriceBlocks(at, old.price))
           newer == [st EXCEPT ![name].book.price = vals[2]]
<1>1. Follows(m, m) /\ ResultRight("void", Null)
  BY FollowsItself DEF ResultRight
<1>2. CASE name = Null \/ name \notin DOMAIN st \/ old.price = Null
  <2>1. \/ o \in Crash(m, "hash of NULL", st) \/ o \in Crash(m, "read of a NULL struct", st)
        \/ o \in Out(Null, m, st)
    BY <1>2 DEF bookMarket_updateBookPrice
  <2> QED BY <1>1, <2>1, CrashRight, OutRight
<1>3. CASE name # Null /\ name \in DOMAIN st /\ old.price # Null
  <2>1. IsRead("Price", vals[2])
    BY ServiceRows, StructKinds DEF ReadRight, IsMessage
  <2>2. OfCall(at)
    BY <1>3, CallPaths DEF StoreRight
  <2>3. Follows(m, Clone("Price", Append(at, "price"), vals[2], m1))
    BY <1>1, <2>2, PriceBlocksOfCalls, FollowsFree, CloneIs
  <2>4. st[name] = [at |-> at, book |-> old] /\ IsRead("Book", old)
    BY <1>3 DEF StoreRight
  <2>5. DOMAIN old = {"price", "name"} /\ old.name \in Texts \cup {Null}
    BY <2>4, BooksTyped
  <2>6. newer = [st EXCEPT ![name] = [at |-> at, book |-> [old EXCEPT !.price = vals[2]]]]
    <3>1. newer = [st EXCEPT ![name] = [st[name] EXCEPT !.book = [old EXCEPT !.price = vals[2]]]]
      OBVIOUS
    <3>2. ASSUME NEW book PROVE [st[name] EXCEPT !.book = book] = [at |-> at, book |-> book]
      <4> HIDE DEF at, old
      <4> QED BY <2>4
    <3> HIDE DEF at, newer
    <3> QED BY <3>1, <3>2
  <2> DEFINE book == [old EXCEPT !.price = vals[2]]
  <2>7. DOMAIN book = {"price", "name"} /\ book.price = vals[2] /\ book.name = old.name
    BY <2>5
  <2>8. IsRead("Book", book)
    <3> HIDE DEF book
    <3>1. ScalarsRight("Price", vals[2], Floats)
      BY <2>1 DEF IsRead, WellTyped
    <3>2. /\ Fields("Book") = {"price", "name"} /\ Kind("Book", "price") = "Price" /\ Kind("Book", "name") = "string"
          /\ IsMessage("Price") /\ ~IsMessage("string")
      BY StructKinds DEF IsMessage
    <3>3. ScalarsRight("Book", book, Floats)
      BY <2>5, <2>7, <3>2 DEF ScalarsRight, Scalars
    <3>4. WellTyped("Book", book, Floats)
      BY <2>7, <3>1, <3>2, <3>3 DEF WellTyped
    <3>5. book = [f \in Fields("Book") |-> book[f]]
      <4>1. book = [f \in DOMAIN old |-> book[f]]
        BY DEF book
      <4> QED BY <2>5, <3>2, <4>1
    <3>6. vals[2] = [g \in Fields("Price") |-> vals[2][g]]
      BY <2>1 DEF IsRead
    <3> QED BY <2>7, <3>2, <3>4, <3>5, <3>6 DEF IsRead
  <2>9. StoreRight(newer)
    <3> HIDE DEF book, at, old, name
    <3>1. newer = [st EXCEPT ![name] = [at |-> at, book |-> book]]
      BY <2>6 DEF book, at, old, name
    <3>2. \E k \in Nat : at = MapAt(k)
      BY <1>3 DEF StoreRight, at
    <3> HIDE DEF newer
    <3>3. ASSUME NEW x \in DOMAIN newer
          PROVE  newer[x] = [at |-> newer[x].at, book |-> newer[x].book] /\ (\E k \in Nat : newer[x].at = MapAt(k)) /\ IsRead("Book", newer[x].book)
      <4>1. CASE x = name
        <5>1. newer[x] = [at |-> at, book |-> book]
          BY <1>3, <3>1, <4>1
        <5>2. newer[x].at = at /\ newer[x].book = book
          BY <5>1
        <5> QED BY <2>8, <3>2, <5>1, <5>2
      <4>2. CASE x # name
        <5>1. newer[x] = st[x] /\ x \in DOMAIN st
          BY <3>1, <3>3, <4>2
        <5> QED BY <5>1 DEF StoreRight
      <4> QED BY <4>1, <4>2
    <3> QED BY <3>3 DEF StoreRight
  <2>10. o \in Out(Null, Clone("Price", Append(at, "price"), vals[2], m1), newer)
    BY <1>3 DEF bookMarket_updateBookPrice
  <2> HIDE DEF newer, m1, at
  <2> QED BY <1>1, <2>3, <2>9, <2>10, OutRight
<1> QED BY <1>2, <1>3

\* What any function of the examples comes to
LEMMA AppRight ==
  ASSUME NEW method \in DOMAIN Services, NEW vals, ReadRight(Services[method], vals), NEW id \in Nat, NEW m, IsMemory(m),
         NEW st, StoreRight(st), NEW o \in App(method, vals, id, m, st)
  PROVE  OutcomeRight(Services[method].ret, m, o)
<1>1. method \in {"getBook", "consume", "updateBookPrice", "shelve", "Add", "Sub", "Multiply", "Divide", "toupper", "tolower", "concat", "atoi"}
  BY ServiceRows
<1>2. CASE method \in {"Add", "Sub", "Multiply", "Divide"}
  BY <1>2, MathRight DEF App
<1>3. CASE method \in {"toupper", "tolower", "concat", "atoi"}
  BY <1>3, StringsRight DEF App
<1>4. CASE method \in {"getBook", "consume"}
  BY <1>4, ServiceRows, getBookRight, consumeRight DEF App
<1>5. CASE method \in {"updateBookPrice", "shelve"}
  BY <1>5, ServiceRows, updateBookPriceRight, shelveRight DEF App
<1> QED BY <1>1, <1>2, <1>3, <1>4, <1>5

LEMMA OutcomesRight ==
  ASSUME IsCall(call), call.method \in DOMAIN Services, n \in Nat, StoreRight(store),
         NEW h, h = Services[call.method], NEW vals, ReadRight(h, vals), NEW m, IsMemory(m), NEW o \in Outcomes(h, vals, m)
  PROVE  OutcomeRight(h.ret, m, o)
<1>1. Follows(m, m)
  BY FollowsItself
<1>2. CASE call.app = "example"
  BY <1>2, AppRight DEF Outcomes
<1>3. CASE call.app = "refuses"
  <2>1. Follows(m, [m EXCEPT !.err = "refused"]) /\ ResultRight(h.ret, Null)
    BY <1>1, FollowsErr DEF ResultRight
  <2> QED BY <1>3, <2>1, OutRight DEF Outcomes
<1>4. CASE call.app = "returns NULL"
  <2>1. ResultRight(h.ret, Null)
    BY DEF ResultRight
  <2> QED BY <1>1, <1>4, <2>1, OutRight DEF Outcomes
<1>5. CASE call.app = "NULL members"
  <2> DEFINE res == [f \in Fields(h.ret) |-> IF IsNumber(Kind(h.ret, f)) THEN 0 ELSE Null]
  <2>1. h.ret \in DOMAIN Structs
    BY <1>5 DEF IsCall, IsMessage
  <2>2. ASSUME NEW f \in Fields(h.ret), ~IsMessage(Kind(h.ret, f)) PROVE res[f] \in Scalars(Kind(h.ret, f), Floats)
    BY <2>1, <2>2, KindsOfFields DEF Scalars, Floats, Texts
  <2>3. ASSUME NEW f \in Fields(h.ret), IsMessage(Kind(h.ret, f)) PROVE res[f] = Null
    BY <2>1, <2>3, KindsOfFields
  <2>4. WellTyped(h.ret, res, Floats)
    <3> HIDE DEF res
    <3> QED BY <2>2, <2>3 DEF WellTyped, ScalarsRight
  <2>5. Follows(m, Alloc(m, {ResAt(n)}))
    BY <1>1, CallPaths, FollowsAlloc DEF OfCall, OfCalls
  <2>6. o \in Out(res, Alloc(m, {ResAt(n)}), store)
    BY <1>5 DEF Outcomes
  <2> HIDE DEF res
  <2> QED BY <2>4, <2>5, <2>6, OutRight DEF ResultRight
<1> QED BY <1>2, <1>3, <1>4, <1>5 DEF IsCall

-----------------------------------------------------------------------------
(* The handlers *)

\* A request that reaches a handler: the stub had no struct that is NULL.
Requested == IsCall(call) /\ ~NullStruct /\ wire = ArgsOf(call.stub, call.vals)

\* CHECK_ARG_CNT and CHECK_ARG_TYPE compare all the types.
LEMMA AcceptedTypes ==
  ASSUME Requested, NEW method \in DOMAIN Services, Accepts(Services[method], wire)
  PROVE  Services[method].params = call.stub.params
<1> DEFINE h == Services[method]
<1>1. call.stub.params \in Seq(STRING)
  BY DEF Requested, IsCall
<1>2. wire = [i \in DOMAIN call.stub.params |-> ArgOf(call.stub.params[i], call.vals[i])]
  BY DEF Requested, ArgsOf
<1>3. Len(wire) = Len(call.stub.params) /\ DOMAIN wire = 1 .. Len(call.stub.params)
  BY <1>1, <1>2
<1>4. Len(h.params) \in Nat /\ DOMAIN h.params = 1 .. Len(h.params) /\ h.params = [i \in 1 .. Len(h.params) |-> h.params[i]]
  BY ServiceRows
<1>5. \A i \in 1 .. Len(call.stub.params) : wire[i].type = call.stub.params[i]
  BY <1>1, <1>2 DEF ArgOf
<1>6. Len(h.params) = Len(call.stub.params) /\ \A i \in 1 .. Len(call.stub.params) : h.params[i] = call.stub.params[i]
  BY <1>3, <1>5 DEF Accepts
<1> HIDE DEF h
<1> QED BY <1>1, <1>4, <1>6 DEF h

\* Every argument arrives.
Arrived(T, x) == IF IsMessage(T) THEN Sent(T, x) ELSE IF T = "string" /\ x \in {Null, Blank} THEN Null ELSE x

LEMMA ArgsRead ==
  ASSUME Requested, NEW method \in DOMAIN Services, Accepts(Services[method], wire)
  PROVE  LET h == Services[method] IN
         /\ \A i \in DOMAIN call.vals : ReadArgs(h, wire)[i] = Arrived(call.stub.params[i], call.vals[i])
         /\ ReadRight(h, ReadArgs(h, wire))
<1> DEFINE h == Services[method]
           params == call.stub.params
<1>1. h.params = params
  BY AcceptedTypes
<1>2. DOMAIN wire = DOMAIN params /\ DOMAIN call.vals = DOMAIN params
  BY DEF Requested, IsCall, ArgsOf
<1>3. ASSUME NEW i \in DOMAIN params
      PROVE  /\ ReadArgs(h, wire)[i] = Arrived(params[i], call.vals[i])
             /\ IF IsMessage(params[i]) THEN IsRead(params[i], ReadArgs(h, wire)[i])
                ELSE ReadArgs(h, wire)[i] \in Scalars(params[i], Floats)
  <2> DEFINE T == params[i]
             x == call.vals[i]
  <2>1. wire[i] = ArgOf(T, x)
    BY DEF Requested, ArgsOf
  <2>2. ReadArgs(h, wire)[i] = ValueRead(T, wire[i])
    BY <1>1, <1>2 DEF ReadArgs
  <2>3. IsArg(T, x)
    BY <1>2 DEF Requested, IsCall
  <2>4. CASE IsMessage(T)
    <3>1. T \in DOMAIN Structs /\ x # Null
      BY <1>2, <2>4 DEF Requested, NullStruct, Has, IsMessage
    <3>2. WellTyped(T, x, Int \cup {Nan})
      BY <2>3, <2>4, <3>1 DEF IsArg
    <3>3. Null \notin Int \cup {Nan} /\ Int \cup {Nan} \subseteq AllScalars /\ Int \cup {Nan} \subseteq Int \cup {Nan, Junk}
      BY NullIsNoValue DEF AllScalars
    <3>4. wire[i].data = Tree(SM!marshals, T, Filled(SM!marshals, T, x))
      BY <2>1, <2>4, <3>1, TablesSame DEF ArgOf
    <3>5. ReadArgs(h, wire)[i] = Unmarshal(SM!unmarshals, T, InitValue(SM!inits, T), wire[i].data)
      BY <2>2, <2>4 DEF ValueRead
    <3> HIDE DEF T, x, h
    <3>6. ReadArgs(h, wire)[i] = Sent(T, x)
      BY <3>1, <3>2, <3>3, <3>4, <3>5, StructArrives
    <3>7. WellTyped(T, x, Int \cup {Nan, Junk})
      BY <3>1, <3>2, <3>3, WiderFloats
    <3>8. IsRead(T, Sent(T, x))
      BY <3>1, <3>7, SentTyped
    <3> QED BY <2>4, <3>6, <3>8 DEF Arrived, T, x
  <2>5. CASE ~IsMessage(T)
    <3>1. x \in Scalars(T, Int \cup {Nan})
      BY <2>3, <2>5 DEF IsArg
    <3>2. wire[i].type = T /\ wire[i].data = IF x = Null THEN Blank ELSE x
      BY <2>1, <2>5 DEF ArgOf
    <3>3. ReadArgs(h, wire)[i] = DataOf(wire[i])
      BY <2>2, <2>5 DEF ValueRead
    <3>4. T # "float"
      BY <1>1, ServiceRows
    <3> HIDE DEF T, x, h
    <3>5. CASE T = "string"
      <4>1. ReadArgs(h, wire)[i] = IF x \in {Null, Blank} THEN Null ELSE x
        BY <3>2, <3>3, <3>5 DEF DataOf, IsEmpty
      <4> QED BY <2>5, <3>1, <3>5, <4>1 DEF Arrived, Scalars, T, x
    <3>6. CASE T # "string"
      <4>1. x # Null
        BY <3>1, <3>4, <3>6, NullIsNoValue DEF Scalars
      <4>2. ReadArgs(h, wire)[i] = x
        BY <3>2, <3>3, <3>6, <4>1 DEF DataOf, IsEmpty
      <4>3. x \in Scalars(T, Floats)
        BY <3>1, <3>4, <3>6 DEF Scalars
      <4> QED BY <2>5, <3>6, <4>2, <4>3 DEF Arrived, T, x
    <3> QED BY <3>5, <3>6
  <2> QED BY <2>4, <2>5
<1> HIDE DEF h
<1> QED BY <1>1, <1>2, <1>3 DEF ReadRight, h

LEMMA StringsOfCalls ==
  ASSUME NEW p, OfCall(p), NEW table, NEW T, NEW tree
  PROVE  OfCalls(StringsRead(table, T, p, tree)) /\ OfCalls(UnmarshalBlocks(table, T, p, tree))
<1>1. ASSUME NEW U, NEW q, OfCall(q), NEW t PROVE OfCalls(StringsRead(table, U, q, t))
  BY <1>1, PathsInside DEF OfCalls, StringsRead, OfCall
<1>2. ASSUME NEW f PROVE OfCalls({Append(p, "text")} \cup StringsRead(table, Kind(T, f), Append(p, f), tree[f]))
  <2>1. OfCalls(StringsRead(table, Kind(T, f), Append(p, f), tree[f]))
    BY <1>1, PathsInside
  <2> QED BY <2>1, PathsInside DEF OfCalls, OfCall
<1>3. OfCalls(UnmarshalBlocks(table, T, p, tree))
  BY <1>1, <1>2 DEF UnmarshalBlocks, OfCalls
<1> QED BY <1>1, <1>3

LEMMA RequestOfCalls ==
  ASSUME NEW id, NEW args, NEW h
  PROVE  OfCalls(RequestBlocks(id, args)) /\ OfCalls(ArgBlocks(id, h, args)) /\ OfCalls(ResponseBlocks(id))
<1>1. OfCalls(RequestBlocks(id, args))
  BY DEF OfCalls, RequestBlocks
<1>2. OfCalls(ResponseBlocks(id))
  BY DEF OfCalls, ResponseBlocks
<1>3. ASSUME NEW i
      PROVE  OfCalls(InitBlocks(SM!inits, h.params[i], ArgAt(id, i))
                     \cup UnmarshalBlocks(SM!unmarshals, h.params[i], ArgAt(id, i), args[i].data))
  BY CallPaths, BlocksOfCalls, StringsOfCalls DEF InitBlocks, OfCalls
<1> QED BY <1>1, <1>2, <1>3 DEF ArgBlocks, OfCalls

LEMMA ResultFollows ==
  ASSUME NEW id, NEW h, NEW res, NEW l, NEW m, Follows(l, m)
  PROVE  /\ WriteResult(id, h, res, m).m = IF Failed(m) THEN m ELSE Alloc(ResultMemory(id, h, res, m), ResponseBlocks(id))
         /\ Follows(l, WriteResult(id, h, res, m).m)
         /\ Failed(m) => WriteResult(id, h, res, m).resp = ErrorResponse(m.err)
         /\ ~Failed(m) => WriteResult(id, h, res, m).resp = Response(h.ret, ResultData(h, res))
<1> DEFINE blocks == {<<"call", id, "text">>} \cup (Blocks(Pointers, h.ret, ResAt(id), ResultFilled(h, res))
                                                     \ Blocks(Pointers, h.ret, ResAt(id), res))
<1>1. OfCalls(blocks)
  BY CallPaths, BlocksOfCalls DEF OfCalls
<1>2. ResultMemory(id, h, res, m) \in {m, Fault(m, "strlen of NULL"), Alloc(m, blocks)}
  BY DEF ResultMemory
<1> HIDE DEF blocks
<1>3. Follows(l, ResultMemory(id, h, res, m))
  <2>1. Follows(l, Fault(m, "strlen of NULL"))
    BY FollowsFault
  <2>2. Follows(l, Alloc(m, blocks))
    BY <1>1, FollowsAlloc
  <2> QED BY <1>2, <2>1, <2>2
<1>4. Follows(l, Alloc(ResultMemory(id, h, res, m), ResponseBlocks(id)))
  BY <1>3, RequestOfCalls, FollowsAlloc
<1> QED BY <1>4 DEF WriteResult

\* Two faults under names, for provers that take no literal with a blank in it.
StrlenOfNull == "strlen of NULL"
ReadOfNull == "read of a NULL struct"
LEMMA NamedFaults == StrlenOfNull # "none" /\ ReadOfNull # "none"
BY DEF StrlenOfNull, ReadOfNull

\* strlen of the text of no tree
LEMMA ResultFaults ==
  ASSUME NEW id, NEW h, NEW res, NEW m, IsMemory(m), ~Failed(m), IsMessage(h.ret), res = Null
  PROVE  WriteResult(id, h, res, m).m.fault = IF m.fault = "none" THEN StrlenOfNull ELSE m.fault
<1> DEFINE faulty == Fault(m, StrlenOfNull)
<1>1. WriteResult(id, h, res, m).m = Alloc(faulty, ResponseBlocks(id))
  BY DEF WriteResult, ResultMemory, StrlenOfNull
<1>2. IsMemory(faulty) /\ faulty.fault = IF m.fault = "none" THEN StrlenOfNull ELSE m.fault
  BY FaultIs, FaultFields
<1> HIDE DEF faulty
<1>3. Alloc(faulty, ResponseBlocks(id)).fault = faulty.fault
  <2>1. Alloc(faulty, ResponseBlocks(id)) = [heap |-> faulty.heap \cup ResponseBlocks(id), fault |-> faulty.fault, err |-> faulty.err]
    BY <1>2, AllocIs
  <2> QED BY <2>1
<1> QED BY <1>1, <1>2, <1>3

LEMMA CleanUpFollows ==
  ASSUME NEW id, NEW h, NEW vals, NEW res, NEW l, NEW m, Follows(l, m)
  PROVE  Follows(l, CleanUp(id, h, vals, res, m))
<1> DEFINE args == UNION {Destroyed(SM!destroys, h.params[i], ArgAt(id, i), vals[i]) : i \in Structured(h)}
           null == \E i \in Structured(h) : ReadsNull(SM!destroys, h.params[i], vals[i])
           freed == FreeAll(FaultIf(null, m, "read of a NULL struct"), args)
           destroyed == Destroy(SM!destroys, h.ret, ResAt(id), res, freed)
<1>1. OfCalls(args)
  BY CallPaths, BlocksOfCalls DEF OfCalls
<1>2. OfCalls(Destroyed(SM!destroys, h.ret, ResAt(id), res)) /\ OfCalls({ResAt(id)})
  BY CallPaths, BlocksOfCalls DEF OfCalls, OfCall
<1>3. CleanUp(id, h, vals, res, m) \in {freed, FreeAll(freed, {ResAt(id)}), FreeAll(destroyed, {ResAt(id)})}
  BY DEF CleanUp
<1>4. Follows(l, freed)
  <2> HIDE DEF args, null
  <2> QED BY <1>1, FollowsFault, FollowsFree
<1> HIDE DEF freed
<1>5. Follows(l, destroyed)
  BY <1>2, <1>4, FollowsFault, FollowsFree DEF Destroy
<1> HIDE DEF destroyed
<1> QED BY <1>2, <1>3, <1>4, <1>5, FollowsFree

LEMMA SendFollows ==
  ASSUME NEW id, NEW answer, NEW l, NEW m, Follows(l, m)
  PROVE  Follows(l, SendResponse(id, answer, m))
BY FollowsErr, FollowsFree, RequestOfCalls DEF SendResponse

LEMMA FollowsOn ==
  ASSUME NEW k, NEW l, NEW m, Follows(k, l), Follows(l, m)
  PROVE  Follows(k, m)
BY DEF Follows

\* What a handler leaves, and what it sends
Answered(h, o) ==
  /\ Follows(s, o.m) /\ StoreRight(o.store)
  /\ o.ran = <<>> => o.resp = ErrorResponse("garbled")
  /\ o.ran # <<>> =>
       /\ h.params = call.stub.params
       /\ \A i \in DOMAIN call.vals : o.ran[1].vals[i] = Arrived(call.stub.params[i], call.vals[i])
       /\ ResultRight(h.ret, o.ran[1].res)
       /\ o.resp = IF o.ran[1].err # NoError THEN ErrorResponse(o.ran[1].err)
                   ELSE Response(h.ret, ResultData(h, o.ran[1].res))
       /\ o.ran[1].err = NoError /\ IsMessage(h.ret) /\ o.ran[1].res = Null => o.m.fault # "none"

LEMMA HandledRight ==
  ASSUME Requested, call.method \in DOMAIN Services, n \in Nat, IsMemory(s), StoreRight(store),
         NEW o \in Handled(Services[call.method])
  PROVE  Answered(Services[call.method], o)
<1> DEFINE h == Services[call.method]
           m == Alloc(s, RequestBlocks(n, wire))
           vals == ReadArgs(h, wire)
           begun == Alloc(m, ArgBlocks(n, h, wire))
<1>1. Follows(s, m) /\ Follows(s, begun) /\ IsMemory(begun)
  <2>1. OfCalls(RequestBlocks(n, wire)) /\ OfCalls(ArgBlocks(n, h, wire))
    BY RequestOfCalls
  <2>2. Follows(s, m)
    BY <2>1, FollowsItself, FollowsAlloc
  <2> HIDE DEF m
  <2>3. Follows(s, begun)
    BY <2>1, <2>2, FollowsAlloc
  <2> QED BY <2>2, <2>3 DEF Follows
<1>2. CASE ~Accepts(h, wire)
  <2>1. o \in Refuse(store, m)
    BY <1>2 DEF Handled
  <2> HIDE DEF h, m
  <2>2. PICK e \in errorf(m) :
          o.m = [e EXCEPT !.err = NoError] /\ o.store = store /\ o.ran = <<>> /\ o.resp = ErrorResponse("garbled")
    BY <2>1, SMTT(30) DEF Refuse
  <2>3. Follows(s, [e EXCEPT !.err = NoError])
    BY <1>1, errorfIs, FollowsErr
  <2>4. Follows(s, o.m)
    BY <2>2, <2>3
  <2> QED BY <2>2, <2>4 DEF Answered
<1>3. CASE Accepts(h, wire)
  <2>1. PICK out \in Outcomes(h, vals, begun) : o = Finish(n, h, vals, out)
    BY <1>3 DEF Handled
  <2>2. h.params = call.stub.params /\ ReadRight(h, vals)
        /\ \A i \in DOMAIN call.vals : vals[i] = Arrived(call.stub.params[i], call.vals[i])
    BY <1>3, AcceptedTypes, ArgsRead
  <2> HIDE DEF h, m, vals, begun
  <2>3. OutcomeRight(h.ret, begun, out)
    BY <1>1, <2>2, OutcomesRight DEF Requested, h
  <2>4. Follows(s, out.m) /\ ResultRight(h.ret, out.res) /\ StoreRight(out.store)
    BY <1>1, <2>3, FollowsOn DEF OutcomeRight
  <2> DEFINE w == WriteResult(n, h, out.res, out.m)
  <2>5. o = [resp |-> w.resp, store |-> out.store, m |-> SendResponse(n, w.resp, CleanUp(n, h, vals, w.res, w.m)),
             ran |-> <<[vals |-> vals, res |-> out.res, err |-> out.m.err]>>]
    BY <2>1 DEF Finish
  <2>6. /\ Follows(s, w.m)
        /\ w.resp = IF out.m.err # NoError THEN ErrorResponse(out.m.err) ELSE Response(h.ret, ResultData(h, out.res))
    BY <2>4, ResultFollows DEF Failed
  <2>10. ~Failed(out.m) /\ IsMessage(h.ret) /\ out.res = Null => w.m.fault # "none"
    BY <2>4, ResultFaults, NamedFaults DEF Follows
  <2> HIDE DEF w
  <2>11. Follows(w.m, w.m)
    BY <2>6, FollowsItself DEF Follows
  <2>7. Follows(s, o.m) /\ Follows(w.m, o.m)
    BY <2>5, <2>6, <2>11, CleanUpFollows, SendFollows
  <2>8. o.ran[1] = [vals |-> vals, res |-> out.res, err |-> out.m.err] /\ o.ran # <<>>
    BY <2>5
  <2>9. o.ran[1].vals = vals /\ o.ran[1].res = out.res /\ o.ran[1].err = out.m.err
    BY <2>8
  <2>12. out.m.err = NoError /\ IsMessage(h.ret) /\ out.res = Null => o.m.fault # "none"
    BY <2>7, <2>10 DEF Follows, Failed
  <2> QED BY <2>2, <2>4, <2>5, <2>6, <2>7, <2>8, <2>9, <2>12 DEF Answered, h
<1> HIDE DEF h
<1> QED BY <1>2, <1>3

-----------------------------------------------------------------------------
(* The stubs *)

LEMMA WriteArgsRight ==
  ASSUME NEW id, NEW f, NEW vals, NEW m, IsMemory(m)
  PROVE  /\ Follows(m, WriteArgs(id, f, vals, m))
         /\ ReturnsEarly(f, m) => Failed(WriteArgs(id, f, vals, m))
         /\ ~ReturnsEarly(f, m) =>
              /\ WriteArgs(id, f, vals, m).err = m.err
              /\ WriteArgs(id, f, vals, m).fault = "none" => \A i \in Messages(f) : vals[i] # Null
<1> DEFINE begun == Alloc(m, {<<"call", id, "args">>})
<1>1. Follows(m, begun) /\ begun.err = m.err /\ begun.fault = m.fault
  <2>1. OfCalls({<<"call", id, "args">>})
    BY DEF OfCalls
  <2> QED BY <2>1, FollowsItself, FollowsAlloc, AllocIs
<1> HIDE DEF begun
<1>2. CASE ReturnsEarly(f, m)
  <2>1. Failed(begun)
    BY <1>1, <1>2 DEF ReturnsEarly, Failed
  <2> DEFINE j == CHOOSE i \in Messages(f) : \A k \in Messages(f) : i <= k
             p == ArgAt(id, j)
             item == IF vals[j] = Null THEN {} ELSE {Append(p, "item")}
             marshalled == MarshalMemory(CM!marshals, f.params[j], p, vals[j], begun)
  <2>2. OfCalls(item) /\ OfCalls({Node(id, j)})
    <3> HIDE DEF j
    <3>1. OfCall(Append(p, "item")) /\ OfCall(Node(id, j))
      BY CallPaths, PathsInside
    <3> QED BY <3>1 DEF OfCalls, OfCall
  <2>3. marshalled = [Alloc(begun, item) EXCEPT !.err = "marshal"] \/ marshalled = begun
    BY DEF MarshalMemory
  <2>4. WriteArgs(id, f, vals, m) = marshalled \/ WriteArgs(id, f, vals, m) = Alloc(marshalled, {Node(id, j)})
    BY <1>2 DEF WriteArgs, EarlyMemory, begun
  <2> HIDE DEF item, marshalled, j, p
  <2>5. Follows(m, Alloc(begun, item))
    BY <1>1, <2>2, FollowsAlloc
  <2>6. Follows(m, [Alloc(begun, item) EXCEPT !.err = "marshal"])
    BY <2>5, FollowsErr
  <2>7. [Alloc(begun, item) EXCEPT !.err = "marshal"].err = "marshal"
    BY <2>5, ErrIs DEF Follows
  <2>8. Follows(m, marshalled) /\ Failed(marshalled)
    BY <1>1, <2>1, <2>3, <2>6, <2>7 DEF Failed, NoError
  <2>9. Follows(m, Alloc(marshalled, {Node(id, j)}))
    BY <2>2, <2>8, FollowsAlloc
  <2>10. Alloc(marshalled, {Node(id, j)}).err = marshalled.err
    BY <2>8, AllocIs DEF Follows
  <2> QED BY <1>2, <2>4, <2>8, <2>9, <2>10 DEF Failed
<1>3. CASE ~ReturnsEarly(f, m)
  <2> DEFINE there == {i \in Messages(f) : vals[i] # Null}
             blocks == UNION {{Node(id, i), <<"call", id, "text", i>>} : i \in there}
             checked == FaultIf(there # Messages(f), begun, "strlen of NULL")
  <2>1. WriteArgs(id, f, vals, m) = Alloc(checked, blocks)
    BY <1>3 DEF WriteArgs, TreeMemory, begun
  <2>2. OfCalls(blocks)
    BY CallPaths DEF OfCalls, OfCall
  <2>3. checked = IF there # Messages(f) THEN Fault(begun, "strlen of NULL") ELSE begun
    BY DEF FaultIf
  <2>4. Follows(m, Fault(begun, "strlen of NULL"))
    BY <1>1, FollowsFault
  <2>5. Fault(begun, "strlen of NULL").err = m.err /\ Fault(begun, "strlen of NULL").fault # "none"
    <3>1. IsMemory(begun)
      BY <1>1 DEF Follows
    <3>2. /\ Fault(begun, "strlen of NULL").err = begun.err
          /\ Fault(begun, "strlen of NULL").fault = IF begun.fault = "none" THEN "strlen of NULL" ELSE begun.fault
      BY <3>1, FaultFields
    <3> QED BY <1>1, <3>2
  <2>6. there = Messages(f) => \A i \in Messages(f) : vals[i] # Null
    OBVIOUS
  <2> HIDE DEF blocks, checked, there
  <2>7. Follows(m, checked) /\ checked.err = m.err /\ (checked.fault = "none" => there = Messages(f))
    BY <1>1, <2>3, <2>4, <2>5
  <2>8. Follows(m, Alloc(checked, blocks))
    BY <2>2, <2>7, FollowsAlloc
  <2>9. Alloc(checked, blocks).err = checked.err /\ Alloc(checked, blocks).fault = checked.fault
    BY <2>7, AllocIs DEF Follows
  <2> QED BY <1>3, <2>1, <2>6, <2>7, <2>8, <2>9
<1> QED BY <1>2, <1>3

\* A free takes nothing else along.
LEMMA FreeUnlessNullRight ==
  ASSUME NEW l, NEW m, Follows(l, m), NEW pointer, NEW p, OfCall(p)
  PROVE  /\ Follows(l, FreeUnlessNull(m, pointer, p)) /\ FreeUnlessNull(m, pointer, p).err = m.err
         /\ FreeUnlessNull(m, pointer, p).fault = "none" => m.fault = "none"
<1>1. OfCalls({p}) /\ IsMemory(m)
  BY DEF OfCalls, OfCall, Follows
<1>2. Follows(l, FreeAll(m, {p}))
  BY <1>1, FollowsFree
<1>3. FreeAll(m, {p}).err = m.err /\ (FreeAll(m, {p}).fault = "none" => m.fault = "none")
  BY <1>1, FreeAllFields
<1> QED BY <1>2, <1>3 DEF FreeUnlessNull

LEMMA ResultReadRight ==
  ASSUME NEW id, NEW f, NEW r, NEW l, Follows(l, r.m)
  PROVE  /\ Follows(l, ResultRead(id, f, r))
         /\ Failed(r.m) => ResultRead(id, f, r) = r.m
         /\ Right(f, r) => ResultRead(id, f, r).err = r.m.err /\ ResultRead(id, f, r).fault = r.m.fault
         /\ ~Right(f, r) => Failed(ResultRead(id, f, r)) \/ ResultRead(id, f, r).fault # "none"
<1> DEFINE blocks == {ResAt(id)} \cup InitBlocks(CM!inits, f.ret, ResAt(id))
                     \cup UnmarshalBlocks(CM!unmarshals, f.ret, ResAt(id), r.data)
<1>1. OfCalls(blocks) /\ IsMemory(r.m)
  BY CallPaths, BlocksOfCalls, StringsOfCalls DEF InitBlocks, OfCalls, OfCall, Follows
<1>2. ResultRead(id, f, r) =
        IF Failed(r.m) THEN r.m
        ELSE IF ~Right(f, r)
        THEN IF r.type_name = Null THEN Fault(r.m, "strcmp of NULL") ELSE [r.m EXCEPT !.err = "garbled"]
        ELSE IF ~IsMessage(f.ret) THEN r.m ELSE Alloc(r.m, blocks)
  BY DEF ResultRead
<1> HIDE DEF blocks
<1>3. Follows(l, Alloc(r.m, blocks)) /\ Follows(l, Fault(r.m, "strcmp of NULL")) /\ Follows(l, [r.m EXCEPT !.err = "garbled"])
  BY <1>1, FollowsAlloc, FollowsFault, FollowsErr
<1>4. Alloc(r.m, blocks).err = r.m.err /\ Alloc(r.m, blocks).fault = r.m.fault
  BY <1>1, AllocIs
<1>5. Fault(r.m, "strcmp of NULL").fault # "none" /\ Failed([r.m EXCEPT !.err = "garbled"])
  <2>1. Fault(r.m, "strcmp of NULL").fault = IF r.m.fault = "none" THEN "strcmp of NULL" ELSE r.m.fault
    BY <1>1, FaultFields
  <2>2. [r.m EXCEPT !.err = "garbled"].err = "garbled"
    BY <1>1, ErrIs
  <2> QED BY <2>1, <2>2 DEF Failed, NoError
<1>6. Right(f, r) => ~Failed(r.m)
  BY DEF Right
<1> QED BY <1>2, <1>3, <1>4, <1>5, <1>6

LEMMA StubEndsRight ==
  ASSUME NEW id, NEW f, NEW r, NEW l, Follows(l, r.m)
  PROVE  /\ Follows(l, StubEnds(id, f, r))
         /\ Failed(r.m) => StubEnds(id, f, r).err = r.m.err
         /\ Right(f, r) => StubEnds(id, f, r).err = r.m.err
         /\ ~Right(f, r) => Failed(StubEnds(id, f, r)) \/ StubEnds(id, f, r).fault # "none"
<1> DEFINE m == ResultRead(id, f, r)
           kept == Right(f, r) /\ f.ret = "string"
           once == IF kept THEN m ELSE FreeUnlessNull(m, r.data, Data(id))
           twice == FreeUnlessNull(once, r.type_name, TypeName(id))
           nodes == {Node(id, i) : i \in DOMAIN f.params}
<1>1. StubEnds(id, f, r) = [twice EXCEPT !.heap = @ \ nodes]
  BY DEF StubEnds
<1>2. Follows(l, m)
  BY ResultReadRight
<1> HIDE DEF m, nodes
<1>3. Follows(l, once) /\ once.err = m.err /\ (once.fault = "none" => m.fault = "none")
  BY <1>2, CallPaths, FreeUnlessNullRight
<1> HIDE DEF once
<1>4. Follows(l, twice) /\ twice.err = m.err /\ (twice.fault = "none" => m.fault = "none")
  BY <1>3, CallPaths, FreeUnlessNullRight
<1> HIDE DEF twice
<1>5. StubEnds(id, f, r) = [heap |-> twice.heap \ nodes, fault |-> twice.fault, err |-> twice.err]
  BY <1>1, <1>4 DEF Follows, IsMemory
<1>6. OfCalls(nodes)
  BY CallPaths DEF OfCalls, OfCall, nodes
<1>7. Follows(l, StubEnds(id, f, r))
  BY <1>4, <1>5, <1>6 DEF Follows, IsMemory, OfCalls
<1>8. StubEnds(id, f, r).err = m.err /\ (StubEnds(id, f, r).fault = "none" => m.fault = "none")
  BY <1>4, <1>5
<1> QED BY <1>7, <1>8, ResultReadRight DEF m, Failed

LEMMA ReadResponseRight ==
  ASSUME NEW id, NEW answer, NEW cut \in Cuts, NEW m, IsMemory(m), ~Failed(m),
         cut # "head" => answer.kind \in {"error", "nothing", "value"},
         answer.kind = "error" => answer.data # NoError
  PROVE  LET r == ReadResponse(id, answer, cut, m) IN
         /\ Follows(m, r.m)
         /\ ~Failed(r.m) =>
              \/ answer.kind = "value" /\ r.type_name = answer.type /\ r.data = answer.data
              \/ answer.kind = "nothing" /\ r.type_name = Null
<1> DEFINE r == ReadResponse(id, answer, cut, m)
           lost == [m EXCEPT !.err = "errno"]
           told == [m EXCEPT !.err = answer.data]
           read == Alloc(m, {TypeName(id), Data(id)})
<1>1. /\ Follows(m, m) /\ Follows(m, lost) /\ Follows(m, told) /\ Follows(m, read)
  <2>1. OfCalls({TypeName(id), Data(id)})
    BY CallPaths DEF OfCalls, OfCall
  <2>2. Follows(m, m)
    BY FollowsItself
  <2> QED BY <2>1, <2>2, FollowsAlloc, FollowsErr
<1>2. lost.err = "errno" /\ told.err = answer.data
  BY ErrFields
<1>3. Failed(lost) /\ (answer.kind = "error" => Failed(told))
  BY <1>2 DEF Failed, NoError
<1>4. CASE cut = "head"
  <2>1. r.m = lost
    BY <1>4 DEF ReadResponse
  <2> QED BY <1>1, <1>3, <2>1
<1>5. CASE cut # "head" /\ answer.kind = "error"
  <2>1. r.m = told
    BY <1>5 DEF ReadResponse
  <2> QED BY <1>1, <1>3, <1>5, <2>1
<1>6. CASE cut # "head" /\ answer.kind = "nothing"
  <2>1. r = [type_name |-> Null, data |-> Null, m |-> m]
    BY <1>6 DEF ReadResponse
  <2>2. r.m = m /\ r.type_name = Null
    BY <2>1
  <2> QED BY <1>1, <1>6, <2>2
<1>7. CASE cut # "head" /\ answer.kind = "value"
  <2>1. CASE cut \in {"type_name", "data"}
    <3>1. r.m = lost
      BY <1>7, <2>1 DEF ReadResponse
    <3> QED BY <1>1, <1>3, <3>1
  <2>2. CASE cut = "whole"
    <3>1. r = [type_name |-> answer.type, data |-> answer.data, m |-> read]
      BY <1>7, <2>2 DEF ReadResponse
    <3> HIDE DEF read
    <3>2. r.m = read /\ r.type_name = answer.type /\ r.data = answer.data
      BY <3>1
    <3> QED BY <1>1, <1>7, <3>2
  <2> QED BY <1>7, <2>1, <2>2 DEF Cuts
<1> QED BY <1>4, <1>5, <1>6, <1>7

LEMMA DestroyFollows ==
  ASSUME NEW table, NEW T, NEW p, OfCall(p), NEW x, NEW l, NEW m, Follows(l, m)
  PROVE  Follows(l, Destroy(table, T, p, x, m))
<1>1. OfCalls(Destroyed(table, T, p, x))
  BY BlocksOfCalls
<1> DEFINE checked == FaultIf(ReadsNull(table, T, x), m, "read of a NULL struct")
<1>2. Follows(l, checked)
  BY FollowsFault
<1>3. Destroy(table, T, p, x, m) = FreeAll(checked, Destroyed(table, T, p, x))
  BY DEF Destroy
<1> HIDE DEF checked
<1> QED BY <1>1, <1>2, <1>3, FollowsFree

LEMMA DeleteFollows ==
  ASSUME NEW id, NEW f, NEW x, NEW m, IsMemory(m)
  PROVE  Follows(m, DeleteResult(id, f, x, m)) /\ (Failed(m) <=> Failed(DeleteResult(id, f, x, m)))
<1> DEFINE destroyed == Destroy(CM!destroys, f.ret, ResAt(id), x, m)
<1>1. Follows(m, m) /\ OfCalls({Data(id)}) /\ OfCalls({ResAt(id)}) /\ OfCall(ResAt(id))
  BY FollowsItself, CallPaths DEF OfCalls, OfCall
<1>2. Follows(m, destroyed) /\ Follows(m, FreeAll(m, {Data(id)}))
  BY <1>1, DestroyFollows, FollowsFree
<1>3. destroyed.err = m.err /\ FreeAll(m, {Data(id)}).err = m.err
  <2> DEFINE checked == FaultIf(ReadsNull(CM!destroys, f.ret, x), m, "read of a NULL struct")
  <2>1. IsMemory(checked) /\ checked.err = m.err
    BY FaultIs, FaultFields DEF FaultIf
  <2>2. destroyed = FreeAll(checked, Destroyed(CM!destroys, f.ret, ResAt(id), x))
    BY DEF Destroy
  <2> HIDE DEF checked, destroyed
  <2> QED BY <2>1, <2>2, FreeAllFields
<1> HIDE DEF destroyed
<1>4. Follows(m, FreeAll(destroyed, {ResAt(id)})) /\ FreeAll(destroyed, {ResAt(id)}).err = destroyed.err
  BY <1>1, <1>2, FollowsFree, FreeAllFields DEF Follows
<1>5. DeleteResult(id, f, x, m) \in {m, FreeAll(m, {Data(id)}), FreeAll(destroyed, {ResAt(id)})}
  BY DEF DeleteResult, destroyed
<1> QED BY <1>1, <1>2, <1>3, <1>4, <1>5 DEF Failed

-----------------------------------------------------------------------------
(* The invariant of a call *)

\* What the variables hold, whatever the call
Recorded ==
  /\ n \in Nat /\ IsMemory(s) /\ IsMemory(c) /\ StoreRight(store)
  /\ svr = [lfd |-> svr.lfd, epoll_fd |-> svr.epoll_fd, pool |-> svr.pool, services |-> svr.services]
  /\ svr.services \in {<<>>, Services}
\* call is one of Calls while anything of it is under way.
CallKnown == wire # Null \/ ran # <<>> \/ cpc \in {"sent", "returned"} => IsCall(call)
\* A request that was not served yet: the stub waits for it and has no error.
Sending == wire # Null => Requested /\ cpc = "sent" /\ ran = <<>> /\ resp = Empty /\ ~Failed(c)
\* What the application was called with, in a service of the types of the stub
RanRight ==
  ran # <<>> =>
    /\ call.method \in DOMAIN Services /\ Services[call.method].params = call.stub.params
    /\ \A i \in DOMAIN call.vals : ran[1].vals[i] = Arrived(call.stub.params[i], call.vals[i])
    /\ ResultRight(Services[call.method].ret, ran[1].res)
\* The response a stub waits for: what sent it, and what it says
Underway ==
  cpc = "sent" =>
    /\ resp.kind \in {"none", "unsent", "closed", "error", "value", "nothing"}
    /\ resp.kind = "unsent" <=> Failed(c)
    /\ resp.kind \in {"none", "unsent"} => ran = <<>>
    /\ resp.kind = "error" => resp.data # NoError /\ (ran # <<>> => resp.data = ran[1].err)
    /\ resp.kind = "closed" /\ ran # <<>> => s.fault # "none"
    /\ resp.kind \in {"value", "nothing"} =>
         /\ ran # <<>> /\ ran[1].err = NoError
         /\ LET ret == Services[call.method].ret IN
            /\ resp = Response(ret, ResultData(Services[call.method], ran[1].res))
            /\ IsMessage(ret) => ran[1].res # Null
CallRight == Recorded /\ CallKnown /\ Sending /\ RanRight /\ Underway /\ ResultArrives /\ ErrorsArrive

\* The invariant of setting up and taking down: a server that listened once knows all it has
\* made, and of a client that has not dialled nothing is there.
Kinds == {"lfd", "epoll_fd", "pool"}
HasMade ==
  /\ listens = 0 => \A p \in s.heap : p[1] \notin Kinds
  /\ listens <= 1 =>
       \A p \in s.heap : p[1] \in Kinds \cup {"svr", "services"} =>
         /\ spc # "start"
         /\ spc \in {"created", "listening", "stopped"} => p \in Closed
         /\ spc = "destroyed" => s.fault # "none"
\* A client that has not dialled, or in vain, has no block.
NotDialled == cpc \in {"start", "undialled"} => c.heap = {}
LifeRight == TypeOK /\ HasMade /\ NotDialled

LEMMA CallInit == Init => CallRight
<1> SUFFICES ASSUME Init PROVE CallRight
  OBVIOUS
<1>1. IsMemory(s) /\ IsMemory(c)
  BY DEF Init, Memory, IsMemory
<1>2. StoreRight(store)
  BY DEF Init, StoreRight
<1>3. Recorded
  <2>1. svr = [lfd |-> svr.lfd, epoll_fd |-> svr.epoll_fd, pool |-> svr.pool, services |-> svr.services]
    BY DEF Init
  <2>2. svr.services = <<>>
    BY DEF Init
  <2> QED BY <1>1, <1>2, <2>1, <2>2 DEF Recorded, Init
<1>4. wire = Null /\ ran = <<>> /\ cpc = "start"
  BY DEF Init
<1> QED BY <1>3, <1>4 DEF CallRight, CallKnown, Sending, RanRight, Underway, ResultArrives, ErrorsArrive

\* What the server's main does, no call sees.
LEMMA CallUnseen ==
  ASSUME CallRight, Recorded', UNCHANGED <<c, cpc, call, n, v, wire, resp, ran>>, s.fault # "none" => s'.fault # "none"
  PROVE  CallRight'
<1>1. CallKnown' /\ RanRight' /\ Underway'
  <2>1. CallKnown'
    BY DEF CallRight, CallKnown
  <2>2. RanRight'
    BY DEF CallRight, RanRight
  <2>3. Underway'
    BY DEF CallRight, Underway, Failed
  <2> QED BY <2>1, <2>2, <2>3
<1>2. Sending'
  <2>1. NullStruct' <=> NullStruct
    BY DEF NullStruct, Has
  <2> QED BY <2>1 DEF CallRight, Sending, Requested, Failed
<1>3. ResultArrives' /\ ErrorsArrive'
  BY DEF CallRight, ResultArrives, ErrorsArrive, Failed
<1> QED BY <1>1, <1>2, <1>3 DEF CallRight

LEMMA CallMain ==
  ASSUME CallRight,
         server_create \/ server_register \/ (\E addr \in Addresses, fresh \in BOOLEAN, fails \in Fails : server_listen(addr, fresh, fails))
         \/ EpollFails \/ server_destroy \/ ServerExit
  PROVE  CallRight'
<1>1. Recorded
  BY DEF CallRight
<1>2. UNCHANGED <<c, cpc, call, n, v, wire, resp, ran, store>>
  BY DEF server_create, server_register, server_listen, EpollFails, server_destroy, ServerExit, client
<1>3. IsMemory(s') /\ svr' = [lfd |-> svr'.lfd, epoll_fd |-> svr'.epoll_fd, pool |-> svr'.pool, services |-> svr'.services]
      /\ svr'.services \in {<<>>, Services}
  <2>1. CASE server_create
    BY <1>1, <2>1, AllocIs DEF server_create, Recorded
  <2>2. CASE server_register
    <3>1. s' = s /\ svr' = [lfd |-> svr.lfd, epoll_fd |-> svr.epoll_fd, pool |-> svr.pool, services |-> Services]
      BY <1>1, <2>2 DEF server_register, Recorded
    <3> QED BY <1>1, <3>1 DEF Recorded
  <2>3. ASSUME NEW addr \in Addresses, NEW fresh \in BOOLEAN, NEW fails \in Fails, server_listen(addr, fresh, fails)
        PROVE  IsMemory(s') /\ svr' = [lfd |-> svr'.lfd, epoll_fd |-> svr'.epoll_fd, pool |-> svr'.pool, services |-> svr'.services]
               /\ svr'.services \in {<<>>, Services}
    <3>1. CASE s' \in Addressed(addr, s) /\ UNCHANGED svr
      <4>1. IsMemory(Fault(s, VaList))
        BY <1>1, FaultIs DEF Recorded
      <4> QED BY <1>1, <3>1, <4>1 DEF Recorded, Addressed
    <3>2. CASE init(listens + 1, fails)
      <4>1. IsMemory(s')
        BY <1>1, <3>2, AllocIs DEF init, Recorded
      <4>2. \E lfd, epoll_fd : svr' = [lfd |-> lfd, epoll_fd |-> epoll_fd, pool |-> listens + 1, services |-> svr.services]
        BY <3>2 DEF init
      <4> QED BY <1>1, <4>1, <4>2 DEF Recorded
    <3> QED BY <2>3, <3>1, <3>2 DEF server_listen
  <2>4. CASE EpollFails \/ ServerExit
    <3>1. IsMemory(Fault(s, VaList))
      BY <1>1, FaultIs DEF Recorded
    <3> QED BY <1>1, <2>4, <3>1 DEF EpollFails, ServerExit, Recorded
  <2>5. CASE server_destroy
    <3>1. IsMemory(Fault(s, "use of a pool never made"))
      BY <1>1, FaultIs DEF Recorded
    <3>2. IsMemory([s EXCEPT !.heap = @ \ Closed])
      BY <1>1, LessIs DEF Recorded
    <3> QED BY <1>1, <2>5, <3>1, <3>2 DEF server_destroy, Recorded
  <2> QED BY <2>1, <2>2, <2>3, <2>4, <2>5
<1>4. Recorded'
  BY <1>1, <1>2, <1>3 DEF Recorded, StoreRight, IsMemory, IsRead
<1>5. s.fault # "none" => s'.fault # "none"
  <2> SUFFICES ASSUME s.fault # "none" PROVE s'.fault # "none"
    OBVIOUS
  <2>1. CASE server_create
    BY <1>1, <2>1, AllocIs DEF server_create, Recorded
  <2> QED BY <2>1 DEF server_register, server_listen, EpollFails, server_destroy, ServerExit
<1> QED BY <1>2, <1>4, <1>5, CallUnseen

LEMMA CallServe == ASSUME CallRight, Serve PROVE CallRight'
<1>1. Recorded /\ Requested /\ IsCall(call) /\ cpc = "sent" /\ ran = <<>> /\ ~Failed(c)
  BY DEF CallRight, Sending, Requested, Serve
<1>2. wire' = Null /\ UNCHANGED <<svr, client>> /\ cpc' = "sent"
  BY <1>1 DEF Serve, client
<1>3. CallKnown' /\ Sending' /\ ResultArrives' /\ ErrorsArrive' /\ ~Failed(c')
  BY <1>1, <1>2 DEF CallKnown, Sending, ResultArrives, ErrorsArrive, client, Failed
<1>4. CASE call.method \notin DOMAIN svr.services
  <2>1. resp' = [kind |-> "closed"] /\ s' = [s EXCEPT !.heap = @ \ {<<"conn">>}] /\ UNCHANGED <<store, ran>>
    BY <1>4 DEF Serve
  <2>2. IsMemory(s')
    BY <1>1, <2>1, LessIs DEF Recorded
  <2>3. Recorded'
    BY <1>1, <1>2, <2>1, <2>2 DEF Recorded, client, StoreRight, IsMemory
  <2>4. RanRight'
    BY <1>1, <2>1 DEF RanRight
  <2>5. resp'.kind = "closed"
    BY <2>1
  <2>6. Underway'
    <3>1. ran' = <<>>
      BY <1>1, <2>1
    <3> QED BY <1>3, <2>5, <3>1 DEF Underway
  <2> QED BY <1>3, <2>3, <2>4, <2>6 DEF CallRight
<1>5. CASE call.method \in DOMAIN svr.services
  <2>1. svr.services = Services
    BY <1>1, <1>5 DEF Recorded
  <2> DEFINE h == Services[call.method]
  <2>2. PICK o \in Handled(h) :
          /\ s' = o.m /\ store' = o.store /\ ran' = o.ran
          /\ resp' = IF o.m.fault # "none" THEN [kind |-> "closed"] ELSE o.resp
    BY <1>5, <2>1 DEF Serve
  <2>3. Answered(h, o)
    BY <1>1, <1>5, <2>1, HandledRight DEF Recorded
  <2>4. Recorded'
    BY <1>1, <1>2, <2>2, <2>3 DEF Recorded, client, Answered, Follows, StoreRight, IsMemory
  <2>5. call' = call /\ Services[call'.method] = h
    BY <1>2 DEF client
  <2> HIDE DEF h
  <2>6. RanRight'
    <3> SUFFICES ASSUME o.ran # <<>>
                 PROVE  /\ h.params = call.stub.params /\ ResultRight(h.ret, o.ran[1].res)
                        /\ \A i \in DOMAIN call.vals : o.ran[1].vals[i] = Arrived(call.stub.params[i], call.vals[i])
      BY <1>5, <2>1, <2>2, <2>5 DEF RanRight, h
    <3> QED BY <2>3 DEF Answered
  <2>7. Underway'
    <3>1. CASE o.m.fault # "none"
      <4>1. resp'.kind = "closed" /\ s'.fault # "none"
        BY <2>2, <3>1
      <4> QED BY <1>3, <4>1 DEF Underway
    <3>2. CASE o.m.fault = "none" /\ o.ran = <<>>
      <4>1. resp' = ErrorResponse("garbled")
        BY <2>2, <2>3, <3>2 DEF Answered
      <4>2. resp'.kind = "error" /\ resp'.data = "garbled" /\ ran' = <<>>
        BY <2>2, <3>2, <4>1 DEF ErrorResponse
      <4> QED BY <1>3, <4>2 DEF Underway, NoError
    <3>3. CASE o.m.fault = "none" /\ o.ran # <<>> /\ o.ran[1].err # NoError
      <4>1. resp' = ErrorResponse(o.ran[1].err)
        BY <2>2, <2>3, <3>3 DEF Answered
      <4>2. resp'.kind = "error" /\ resp'.data # NoError /\ resp'.data = ran'[1].err
        BY <2>2, <3>3, <4>1 DEF ErrorResponse
      <4> QED BY <1>3, <4>2 DEF Underway
    <3>4. CASE o.m.fault = "none" /\ o.ran # <<>> /\ o.ran[1].err = NoError
      <4>1. resp' = Response(h.ret, ResultData(h, o.ran[1].res)) /\ (IsMessage(h.ret) => o.ran[1].res # Null)
        BY <2>2, <2>3, <3>4 DEF Answered
      <4>2. resp'.kind \in {"value", "nothing"}
        BY <4>1 DEF Response
      <4>3. ran' # <<>> /\ ran'[1] = o.ran[1]
        BY <2>2, <3>4
      <4> QED BY <1>3, <2>5, <3>4, <4>1, <4>2, <4>3 DEF Underway
    <3> QED BY <3>1, <3>2, <3>3, <3>4
  <2> QED BY <1>3, <2>4, <2>6, <2>7 DEF CallRight
<1> QED BY <1>4, <1>5

LEMMA CallBegin == ASSUME CallRight, NEW k \in DOMAIN Calls, Begin(k) PROVE CallRight'
<1> DEFINE f == Calls[k].stub
           vals == Calls[k].vals
<1>1. Recorded /\ wire = Null
  BY DEF CallRight, Sending, Begin
<1>2. /\ UNCHANGED server /\ n' = n + 1 /\ call' = Calls[k] /\ ran' = <<>> /\ c' = WriteArgs(n + 1, f, vals, c)
      /\ IF ReturnsEarly(f, c)
         THEN cpc' = "returned" /\ v' = Nothing(f.ret) /\ UNCHANGED <<wire, resp>>
         ELSE /\ cpc' = "sent"
              /\ wire' = IF Failed(c) \/ c'.fault # "none" THEN Null ELSE ArgsOf(f, vals)
              /\ resp' = IF Failed(c) THEN [kind |-> "unsent"] ELSE Empty
  BY DEF Begin
<1>3. /\ Follows(c, c') /\ (ReturnsEarly(f, c) => Failed(c'))
      /\ ~ReturnsEarly(f, c) => c'.err = c.err /\ (c'.fault = "none" => \A i \in Messages(f) : vals[i] # Null)
  BY <1>1, <1>2, WriteArgsRight DEF Recorded
<1>4. Recorded'
  <2>1. IsMemory(c') /\ n' \in Nat
    BY <1>1, <1>2, <1>3 DEF Recorded, Follows
  <2> QED BY <1>1, <1>2, <2>1 DEF Recorded, server, StoreRight, IsMemory
<1>5. IsCall(call') /\ call'.stub = f /\ call'.vals = vals
  BY <1>2, CallsAssumption
<1> HIDE DEF f, vals
<1>6. CallKnown' /\ RanRight'
  BY <1>2, <1>5 DEF CallKnown, RanRight
<1>7. CASE ReturnsEarly(f, c)
  <2>1. cpc' = "returned" /\ v' = Nothing(call'.stub.ret) /\ wire' = Null /\ Failed(c')
    BY <1>1, <1>2, <1>3, <1>5, <1>7
  <2>2. Sending' /\ Underway' /\ ResultArrives' /\ ErrorsArrive'
    BY <1>2, <2>1 DEF Sending, Underway, ResultArrives, ErrorsArrive
  <2> QED BY <1>4, <1>6, <2>2 DEF CallRight
<1>8. CASE ~ReturnsEarly(f, c)
  <2>1. cpc' = "sent" /\ (Failed(c') <=> Failed(c))
    BY <1>2, <1>3, <1>8 DEF Failed
  <2>2. ResultArrives' /\ ErrorsArrive'
    BY <2>1 DEF ResultArrives, ErrorsArrive
  <2>3. Underway'
    <3>1. CASE Failed(c)
      <4>1. resp'.kind = "unsent"
        BY <1>2, <1>8, <3>1
      <4> QED BY <1>2, <2>1, <3>1, <4>1 DEF Underway
    <3>2. CASE ~Failed(c)
      <4>1. resp'.kind = "none"
        BY <1>2, <1>8, <3>2 DEF Empty
      <4> QED BY <1>2, <2>1, <3>2, <4>1 DEF Underway
    <3> QED BY <3>1, <3>2
  <2>4. Sending'
    <3> SUFFICES ASSUME wire' # Null PROVE Requested' /\ resp' = Empty /\ ~Failed(c')
      BY <1>2, <2>1 DEF Sending
    <3>1. ~Failed(c) /\ c'.fault = "none" /\ wire' = ArgsOf(f, vals) /\ resp' = Empty
      BY <1>2, <1>8
    <3>2. \A i \in Messages(f) : vals[i] # Null
      BY <1>3, <1>8, <3>1
    <3>3. ~NullStruct'
      <4>1. ASSUME NEW T \in DOMAIN Structs, NEW i \in DOMAIN vals, f.params[i] = T PROVE vals[i] # Null
        <5>1. DOMAIN vals = DOMAIN f.params
          BY <1>5 DEF IsCall
        <5> QED BY <3>2, <4>1, <5>1 DEF Messages, IsMessage
      <4> QED BY <1>5, <4>1 DEF NullStruct, Has
    <3> QED BY <1>5, <2>1, <3>1, <3>3 DEF Requested
  <2> QED BY <1>4, <1>6, <2>2, <2>3, <2>4 DEF CallRight
<1> QED BY <1>7, <1>8

\* What read_response leaves in a stub that could send its request, or could not
ReturnedBy(cut) ==
  IF resp.kind = "unsent" THEN [type_name |-> Null, data |-> Null, m |-> c] ELSE ReadResponse(n, resp, cut, c)

LEMMA ReturnRead ==
  ASSUME CallRight, NEW cut \in Cuts, Return(cut)
  PROVE  LET r == ReturnedBy(cut)
             ret == Services[call.method].ret
         IN /\ Follows(c, r.m) /\ IsCall(call)
            /\ ran # <<>> /\ ran[1].err # NoError =>
                 Failed(r.m) /\ (r.m.err = ran[1].err \/ (r.m.err = "errno" /\ (Losing \/ s.fault # "none")))
            /\ ~Failed(r.m) =>
                 /\ ran # <<>> /\ ResultRight(ret, ran[1].res) /\ (IsMessage(ret) => ran[1].res # Null)
                 /\ \/ ret # "void" /\ r.type_name = ret /\ r.data = ResultData(Services[call.method], ran[1].res)
                    \/ ret = "void" /\ r.type_name = Null
<1> DEFINE r == ReturnedBy(cut)
           h == Services[call.method]
<1>1. cpc = "sent" /\ IsMemory(c) /\ IsCall(call) /\ Underway /\ RanRight
  BY DEF Return, CallRight, Recorded, CallKnown
<1>2. /\ resp.kind # "none" \/ NoAnswer
      /\ cut # "whole" => NoAnswer \/ (Losing /\ resp.kind # "unsent")
      /\ NoAnswer => cut = "head"
  BY DEF Return
<1>3. CASE resp.kind = "unsent"
  <2>1. r.m = c /\ Failed(c) /\ ran = <<>>
    BY <1>1, <1>3 DEF ReturnedBy, Underway
  <2> QED BY <1>1, <2>1, FollowsItself
<1>4. CASE resp.kind # "unsent"
  <2>1. r = ReadResponse(n, resp, cut, c) /\ ~Failed(c)
    BY <1>1, <1>4 DEF ReturnedBy, Underway
  <2>2. cut # "head" => resp.kind \in {"error", "nothing", "value"}
    BY <1>1, <1>2, <1>4 DEF Underway, NoAnswer
  <2>3. resp.kind = "error" => resp.data # NoError
    BY <1>1 DEF Underway
  <2> HIDE DEF r
  <2>4. /\ Follows(c, r.m)
        /\ ~Failed(r.m) =>
             \/ resp.kind = "value" /\ r.type_name = resp.type /\ r.data = resp.data
             \/ resp.kind = "nothing" /\ r.type_name = Null
    BY <1>1, <2>1, <2>2, <2>3, ReadResponseRight
  <2>5. resp.kind \in {"value", "nothing"} =>
          /\ ran # <<>> /\ ran[1].err = NoError /\ resp = Response(h.ret, ResultData(h, ran[1].res))
          /\ IsMessage(h.ret) => ran[1].res # Null
    BY <1>1 DEF Underway
  <2>6. ran # <<>> => ResultRight(h.ret, ran[1].res)
    BY <1>1 DEF RanRight
  <2> HIDE DEF h
  <2>7. ASSUME NEW data, resp = Response(h.ret, data)
        PROVE  /\ resp.kind = "value" => h.ret # "void" /\ resp.type = h.ret /\ resp.data = data
               /\ resp.kind = "nothing" => h.ret = "void"
    BY <2>7 DEF Response
  <2>8. ASSUME ran # <<>>, ran[1].err # NoError
        PROVE  Failed(r.m) /\ (r.m.err = ran[1].err \/ (r.m.err = "errno" /\ (Losing \/ s.fault # "none")))
    <3>1. resp.kind \in {"closed", "error"} /\ (resp.kind = "error" => resp.data = ran[1].err)
          /\ (resp.kind = "closed" => s.fault # "none")
      BY <1>1, <1>4, <2>5, <2>8 DEF Underway
    <3>2. CASE cut = "head"
      <4>1. r.m.err = "errno"
        BY <1>1, <2>1, <3>2, ErrFields DEF ReadResponse
      <4> QED BY <1>2, <3>1, <3>2, <4>1 DEF Failed, NoError, NoAnswer
    <3>3. CASE cut # "head"
      <4>1. resp.kind = "error"
        BY <1>2, <3>1, <3>3 DEF NoAnswer
      <4>2. r.m.err = resp.data
        BY <1>1, <2>1, <3>3, <4>1, ErrFields DEF ReadResponse
      <4> QED BY <2>8, <3>1, <4>1, <4>2 DEF Failed
    <3> QED BY <3>2, <3>3
  <2> QED BY <1>1, <2>4, <2>5, <2>6, <2>7, <2>8 DEF h, r
<1> QED BY <1>3, <1>4

LEMMA CallReturn == ASSUME CallRight, NEW cut \in Cuts, Return(cut) PROVE CallRight'
<1> DEFINE f == call.stub
           h == Services[call.method]
           r == ReturnedBy(cut)
<1>1. Recorded /\ RanRight /\ cpc' = "returned" /\ wire' = Null /\ UNCHANGED <<server, call, n, ran>>
  BY DEF CallRight, Return
<1>2. c' \in StubOutcomes(n, f, r) /\ v' = ResultOf(f, r)
  BY DEF Return, ReturnedBy
<1>3. /\ Follows(c, r.m) /\ IsCall(call)
      /\ ran # <<>> /\ ran[1].err # NoError =>
           Failed(r.m) /\ (r.m.err = ran[1].err \/ (r.m.err = "errno" /\ (Losing \/ s.fault # "none")))
      /\ ~Failed(r.m) =>
           /\ ran # <<>> /\ ResultRight(h.ret, ran[1].res) /\ (IsMessage(h.ret) => ran[1].res # Null)
           /\ \/ h.ret # "void" /\ r.type_name = h.ret /\ r.data = ResultData(h, ran[1].res)
              \/ h.ret = "void" /\ r.type_name = Null
  BY ReturnRead
<1>4. f.ret \in STRING
  BY <1>3 DEF IsCall
<1> HIDE DEF r, h
<1>5. /\ Follows(c, c') /\ (Failed(r.m) => c'.err = r.m.err) /\ (Right(f, r) => c'.err = r.m.err)
      /\ ~Right(f, r) => Failed(c') \/ c'.fault # "none"
      /\ Failed(c') => ~Right(f, r)
  <2> DEFINE ended == StubEnds(n, f, r)
  <2>1. /\ Follows(c, ended) /\ (Failed(r.m) => ended.err = r.m.err) /\ (Right(f, r) => ended.err = r.m.err)
        /\ ~Right(f, r) => Failed(ended) \/ ended.fault # "none"
    BY <1>3, StubEndsRight
  <2>2. CASE c' = ended
    BY <2>1, <2>2 DEF Right, Failed
  <2>3. CASE c' # ended
    <3>1. Mistyped(f, r) /\ c' = Fault(r.m, VaList)
      BY <1>2, <2>3 DEF StubOutcomes
    <3> HIDE DEF ended
    <3>2. Follows(c, c')
      BY <1>3, <3>1, FollowsFault DEF VaList
    <3>4. VaList # "none"
      BY DEF VaList
    <3>5. IsMemory(r.m)
      BY <1>3 DEF Follows
    <3>3. c'.err = r.m.err /\ c'.fault # "none"
      BY <3>1, <3>4, <3>5, FaultFields
    <3> QED BY <3>1, <3>2, <3>3 DEF Mistyped, Failed
  <2> QED BY <2>2, <2>3
<1>6. Recorded' /\ CallKnown' /\ Sending' /\ Underway'
  <2>1. IsMemory(c')
    BY <1>5 DEF Follows
  <2>2. Recorded'
    BY <1>1, <2>1 DEF Recorded, server, StoreRight, IsMemory
  <2> QED BY <1>1, <1>3, <2>2 DEF CallKnown, Sending, Underway
<1>7. RanRight'
  BY <1>1 DEF RanRight
<1>9. ErrorsArrive'
  <2>1. Failed(c') => v' = Nothing(f.ret)
    BY <1>2, <1>5 DEF ResultOf
  <2>2. s' = s
    BY <1>1 DEF server
  <2> QED BY <2>2, <1>1, <1>3, <1>5, <2>1 DEF ErrorsArrive
<1>10. ResultArrives'
  <2> SUFFICES ASSUME ~Failed(c'), c'.fault = "none"
               PROVE  /\ ran # <<>>
                      /\ v' = CASE IsMessage(f.ret) -> Sent(f.ret, ran[1].res)
                                [] f.ret = "string" /\ ran[1].res = Null -> Blank
                                [] f.ret = "void" -> Null
                                [] OTHER -> ran[1].res
    BY <1>1 DEF ResultArrives
  <2>1. Right(f, r) /\ ~Failed(r.m) /\ ran # <<>>
    BY <1>3, <1>5 DEF Right
  <2> DEFINE res == ran[1].res
  <2> HIDE DEF res
  <2>2. CASE f.ret = "void"
    <3>1. v' = Null
      BY <1>2, <2>2, NumbersNoMessages DEF ResultOf, Nothing, IsNumber
    <3> QED BY <2>1, <2>2, <3>1, NumbersNoMessages
  <2>3. CASE f.ret # "void"
    <3>1. r.type_name = f.ret
      BY <2>1, <2>3 DEF Right
    <3>2. f.ret # Null
      BY <1>4, NullIsNoValue
    <3>3. /\ h.ret = f.ret /\ r.data = ResultData(h, res) /\ ResultRight(h.ret, res)
          /\ IsMessage(h.ret) => res # Null
      BY <1>3, <2>1, <3>1, <3>2 DEF res
    <3>4. CASE IsMessage(f.ret)
      <4>1. v' = Unmarshal(SM!unmarshals, f.ret, InitValue(SM!inits, f.ret), r.data)
        BY <1>2, <2>1, <2>3, <3>4, TablesSame DEF ResultOf
      <4>2. r.data = Tree(SM!marshals, f.ret, Filled(SM!marshals, f.ret, res)) /\ res # Null
        BY <3>3, <3>4 DEF ResultData, ResultFilled
      <4>3. WellTyped(f.ret, res, Floats) /\ f.ret \in DOMAIN Structs
        BY <3>3, <3>4 DEF ResultRight, IsMessage
      <4>4. Null \notin Floats /\ Floats \subseteq AllScalars
        BY NullIsNoValue DEF Floats, AllScalars
      <4>5. v' = Sent(f.ret, res)
        BY <4>1, <4>2, <4>3, <4>4, StructArrives
      <4> QED BY <2>1, <3>4, <4>5, NumbersNoMessages DEF res
    <3>5. CASE ~IsMessage(f.ret)
      <4>1. v' = r.data
        BY <1>2, <2>1, <2>3, <3>5 DEF ResultOf
      <4>2. r.data = IF f.ret = "string" /\ res = Null THEN Blank ELSE res
        BY <3>3, <3>5 DEF ResultData
      <4> QED BY <2>1, <2>3, <3>5, <4>1, <4>2 DEF res
    <3> QED BY <3>4, <3>5
  <2> QED BY <2>2, <2>3
<1> QED BY <1>6, <1>7, <1>9, <1>10 DEF CallRight

LEMMA CallDelete == ASSUME CallRight, Delete PROVE CallRight'
<1>1. Recorded /\ RanRight /\ wire = Null /\ cpc' = "idle" /\ UNCHANGED <<server, call, n, wire, resp, ran>>
  BY DEF CallRight, Sending, Delete
<1>2. Follows(c, c')
  BY <1>1, DeleteFollows DEF Delete, Recorded
<1>3. Recorded'
  <2>1. IsMemory(c')
    BY <1>2 DEF Follows
  <2> QED BY <1>1, <2>1 DEF Recorded, server, StoreRight, IsMemory
<1>4. CallKnown' /\ RanRight'
  <2>1. CallKnown
    BY DEF CallRight
  <2> QED BY <1>1, <2>1 DEF CallKnown, RanRight
<1> QED BY <1>1, <1>3, <1>4 DEF CallRight, Sending, Underway, ResultArrives, ErrorsArrive

\* Neither client_dial nor client_destroy is part of a call.
LEMMA CallOutside ==
  ASSUME CallRight, Recorded', cpc \notin {"sent", "returned"}, cpc' \notin {"sent", "returned"},
         UNCHANGED <<call, n, wire, resp, ran>>
  PROVE  CallRight'
<1>1. wire' = Null
  BY DEF CallRight, Sending
<1>2. CallKnown'
  BY DEF CallRight, CallKnown
<1>3. RanRight'
  BY DEF CallRight, RanRight
<1> QED BY <1>1, <1>2, <1>3 DEF CallRight, Sending, Underway, ResultArrives, ErrorsArrive

LEMMA CallDial ==
  ASSUME CallRight, NEW addr, NEW fresh, NEW fails, client_dial(addr, fresh, fails)
  PROVE  CallRight'
<1>1. Recorded
  BY DEF CallRight
<1>2. /\ cpc \notin {"sent", "returned"} /\ cpc' \notin {"sent", "returned"}
      /\ UNCHANGED <<svr, store, call, n, wire, resp, ran>>
  BY DEF client_dial
<1>3. \/ c' = Alloc(c, {<<"cli">>, <<"conn">>}) /\ s' = Alloc(s, {<<"conn">>})
      \/ s' = s /\ \E more : LET less == [c EXCEPT !.heap = (@ \cup more) \ DialBad] IN c' = less \/ c' = Fault(less, VaList)
  BY DEF client_dial, Addressed
<1>4. ASSUME NEW m, IsMemory(m), NEW more PROVE IsMemory([m EXCEPT !.heap = (@ \cup more) \ DialBad])
  <2>1. [m EXCEPT !.heap = (@ \cup more) \ DialBad] =
          [heap |-> (m.heap \cup more) \ DialBad, fault |-> m.fault, err |-> m.err]
    BY <1>4 DEF IsMemory
  <2> QED BY <2>1 DEF IsMemory
<1>5. IsMemory(c') /\ IsMemory(s')
  <2>1. IsMemory(c) /\ IsMemory(s)
    BY <1>1 DEF Recorded
  <2>2. ASSUME NEW m, IsMemory(m), NEW blocks PROVE IsMemory(Alloc(m, blocks))
    BY <2>2, AllocIs
  <2>3. CASE c' = Alloc(c, {<<"cli">>, <<"conn">>}) /\ s' = Alloc(s, {<<"conn">>})
    BY <2>1, <2>2, <2>3
  <2>4. ASSUME s' = s, NEW more,
               LET less == [c EXCEPT !.heap = (@ \cup more) \ DialBad] IN c' = less \/ c' = Fault(less, VaList)
        PROVE  IsMemory(c') /\ IsMemory(s')
    BY <1>4, <2>1, <2>4, FaultIs
  <2> QED BY <1>3, <2>3, <2>4
<1>6. Recorded'
  BY <1>1, <1>2, <1>5 DEF Recorded, StoreRight, IsMemory
<1> QED BY <1>2, <1>6, CallOutside

LEMMA CallDestroy == ASSUME CallRight, client_destroy PROVE CallRight'
<1>1. Recorded
  BY DEF CallRight
<1>2. /\ cpc = "idle" /\ cpc' = "destroyed"
      /\ UNCHANGED <<svr, store, call, n, wire, resp, ran>>
  BY DEF client_destroy
<1>3. IsMemory(c') /\ IsMemory(s')
  BY <1>1, LessIs DEF Recorded, client_destroy
<1>4. Recorded'
  BY <1>1, <1>2, <1>3 DEF Recorded, StoreRight, IsMemory
<1> QED BY <1>2, <1>4, CallOutside

LEMMA CallNext == CallRight /\ [Next]_vars => CallRight'
<1> SUFFICES ASSUME CallRight, [Next]_vars PROVE CallRight'
  OBVIOUS
<1>1. CASE UNCHANGED vars
  <2>1. Recorded'
    BY <1>1 DEF CallRight, Recorded, vars, server, client, StoreRight, IsMemory
  <2> QED BY <1>1, <2>1, CallUnseen DEF vars, server, client
<1>2. CASE server_create \/ server_register \/ EpollFails \/ server_destroy \/ ServerExit
  BY <1>2, CallMain
<1>3. ASSUME NEW addr \in Addresses, NEW fresh \in BOOLEAN, NEW fails \in Fails, server_listen(addr, fresh, fails)
      PROVE  CallRight'
  BY <1>3, CallMain
<1>4. CASE Serve
  BY <1>4, CallServe
<1>5. ASSUME NEW addr \in Addresses, NEW fresh \in BOOLEAN, NEW fails \in {"none", "socket", "write"}, client_dial(addr, fresh, fails)
      PROVE  CallRight'
  BY <1>5, CallDial
<1>6. ASSUME NEW k \in DOMAIN Calls, Begin(k) PROVE CallRight'
  BY <1>6, CallBegin
<1>7. ASSUME NEW cut \in Cuts, Return(cut) PROVE CallRight'
  BY <1>7, CallReturn
<1>8. CASE Delete \/ client_destroy
  BY <1>8, CallDelete, CallDestroy
<1> QED BY <1>1, <1>2, <1>3, <1>4, <1>5, <1>6, <1>7, <1>8 DEF Next

\* The invariant of a call: what is on the wire and what the application was called with
\* belong to the call in progress (client_call waits for its answer before it returns).
THEOREM CallsRight == Spec => []CallRight
BY CallInit, CallNext, PTL DEF Spec

\* The application is called with what the caller passed to the stub, and a stub that
\* returns without an error returns what the application returned to this call.
THEOREM ValuesAlwaysArrive == Spec => []ValuesArrive
<1>1. CallRight => ValuesArrive
  <2> SUFFICES ASSUME CallRight PROVE ArgsArrive
    BY DEF ValuesArrive, CallRight
  <2> SUFFICES ASSUME ran # <<>>, NEW i \in DOMAIN call.vals
               PROVE  ran[1].vals[i] = Arrived(call.stub.params[i], call.vals[i])
    BY DEF ArgsArrive, Arrived
  <2> QED BY DEF CallRight, RanRight
<1> QED BY <1>1, CallsRight, PTL

\* An error that the application set makes the stub fail (handlers send the error, not the
\* result), and a stub that failed returns nothing.
THEOREM ErrorsAlwaysArrive == Spec => []ErrorsArrive
<1>1. CallRight => ErrorsArrive
  BY DEF CallRight
<1> QED BY <1>1, CallsRight, PTL

\* CHECK_ARG_CNT and CHECK_ARG_TYPE: the application runs only when the types of the
\* request are those of the handler.
THEOREM OnlyMatchingRuns == Spec => []OnlyMatchingRun
<1>1. CallRight => OnlyMatchingRun
  BY DEF CallRight, RanRight, OnlyMatchingRun
<1> QED BY <1>1, CallsRight, PTL

-----------------------------------------------------------------------------
(* Setting up and taking down *)

\* The blocks of the server's main
ServerParts == Kinds \cup {"svr", "services"}
\* What is not for the server's main to do leaves these blocks alone.
Keeps(l, m) == (l.fault # "none" => m.fault = l.fault) /\ \A p : p[1] \in ServerParts => (p \in m.heap <=> p \in l.heap)

LEMMA KeepsFollowing == ASSUME NEW l, NEW m, Follows(l, m) PROVE Keeps(l, m)
BY DEF Keeps, Follows, ServerParts, Kinds

LEMMA LifeKept ==
  ASSUME LifeRight, Keeps(s, s'), UNCHANGED <<svr, spc, listens>>,
         cpc' \in {"start", "undialled", "idle", "sent", "returned", "destroyed"}, dials' \in 0 .. MaxListens, n' \in 0 .. MaxCalls,
         NotDialled'
  PROVE  LifeRight'
<1>1. \A part \in Kinds : Live(part) => Live(part)'
  <2> SUFFICES ASSUME NEW part \in Kinds, Live(part) PROVE Live(part)'
    OBVIOUS
  <2> DEFINE p == <<part, svr[part]>>
  <2>1. p[1] \in ServerParts
    BY DEF ServerParts
  <2> QED BY <2>1 DEF Keeps, Live
<1>2. TypeOK'
  BY <1>1 DEF LifeRight, TypeOK, Kinds
<1>3. HasMade'
  <2>1. Closed' = Closed
    BY DEF Closed
  <2>2. ASSUME NEW p \in s'.heap, p[1] \in ServerParts PROVE p \in s.heap
    BY <2>2 DEF Keeps
  <2> QED BY <2>1, <2>2 DEF LifeRight, HasMade, Keeps, ServerParts
<1> QED BY <1>2, <1>3 DEF LifeRight

LEMMA LifeInit == Init => LifeRight
<1> SUFFICES ASSUME Init PROVE LifeRight
  OBVIOUS
<1>1. s.heap = {} /\ c.heap = {}
  BY DEF Init, Memory
<1>2. 0 \in 0 .. MaxListens /\ 0 \in 0 .. MaxCalls
  BY BoundsAssumption
<1>3. TypeOK
  BY <1>2 DEF Init, TypeOK
<1> QED BY <1>1, <1>3 DEF LifeRight, HasMade, NotDialled

LEMMA LifeCreate == ASSUME Recorded, LifeRight, server_create PROVE LifeRight'
<1>1. /\ spc = "start" /\ spc' = "created" /\ UNCHANGED <<listens, cpc, dials, n, c>>
      /\ s'.heap = s.heap \cup {<<"svr">>, <<"services">>}
  <2>1. Alloc(s, {<<"svr">>, <<"services">>}) =
          [heap |-> s.heap \cup {<<"svr">>, <<"services">>}, fault |-> s.fault, err |-> s.err]
    BY AllocIs DEF Recorded
  <2> QED BY <2>1 DEF server_create, client
<1>2. TypeOK' /\ NotDialled'
  BY <1>1 DEF LifeRight, TypeOK, NotDialled
<1>3. <<"svr">>[1] \notin Kinds /\ <<"services">>[1] \notin Kinds
  BY DEF Kinds
<1>4. listens' = 0 => \A p \in s'.heap : p[1] \notin Kinds
  BY <1>1, <1>3 DEF LifeRight, HasMade
<1>5. ASSUME listens' <= 1, NEW p \in s'.heap, p[1] \in ServerParts PROVE p \in Closed'
  <2>1. p \in {<<"svr">>, <<"services">>}
    BY <1>1, <1>5 DEF LifeRight, HasMade, ServerParts
  <2> QED BY <2>1 DEF Closed
<1>6. HasMade'
  BY <1>1, <1>4, <1>5 DEF HasMade, ServerParts
<1> QED BY <1>2, <1>6 DEF LifeRight

LEMMA LifeRegister == ASSUME Recorded, LifeRight, server_register PROVE LifeRight'
<1>1. /\ spc = "created" /\ UNCHANGED <<s, spc, listens, cpc, dials, n, c>>
      /\ svr'.lfd = svr.lfd /\ svr'.epoll_fd = svr.epoll_fd /\ svr'.pool = svr.pool
  <2>1. svr' = [lfd |-> svr.lfd, epoll_fd |-> svr.epoll_fd, pool |-> svr.pool, services |-> Services]
    BY DEF server_register, Recorded
  <2> QED BY <2>1 DEF server_register, client
<1>2. TypeOK' /\ NotDialled'
  BY <1>1 DEF LifeRight, TypeOK, NotDialled
<1>3. HasMade'
  BY <1>1 DEF LifeRight, HasMade, Closed
<1> QED BY <1>2, <1>3 DEF LifeRight

\* init leaves what it made in the fields, up to the system call that failed.
LEMMA LifeListen ==
  ASSUME Recorded, LifeRight, NEW addr, NEW fresh, NEW fails \in Fails, server_listen(addr, fresh, fails)
  PROVE  LifeRight'
<1>1. /\ spc \in {"created", "stopped"} /\ listens < MaxListens /\ listens' = listens + 1
      /\ UNCHANGED <<cpc, dials, n, c>>
      /\ \/ spc' = "stopped" /\ UNCHANGED svr /\ s'.heap = s.heap
         \/ init(listens + 1, fails)
  <2>1. Fault(s, VaList).heap = s.heap
    BY FaultFields DEF Recorded
  <2> QED BY <2>1 DEF server_listen, client, Addressed
<1>2. listens \in Nat /\ listens' \in 0 .. MaxListens /\ listens' # 0 /\ (listens' <= 1 => listens = 0)
  BY <1>1, BoundsAssumption DEF LifeRight, TypeOK
<1>3. NotDialled'
  BY <1>1 DEF LifeRight, NotDialled
<1>4. CASE spc' = "stopped" /\ UNCHANGED svr /\ s'.heap = s.heap
  <2>1. TypeOK'
    BY <1>1, <1>2, <1>4 DEF LifeRight, TypeOK
  <2>2. HasMade'
    BY <1>1, <1>2, <1>4 DEF LifeRight, HasMade, Closed
  <2> QED BY <1>3, <2>1, <2>2 DEF LifeRight
<1>5. CASE init(listens + 1, fails)
  <2> DEFINE k == listens + 1
             made == Made(k, fails)
  <2>1. s'.heap = s.heap \cup made
    <3> HIDE DEF made
    <3>1. Alloc(s, made) = [heap |-> s.heap \cup made, fault |-> s.fault, err |-> s.err]
      BY AllocIs DEF Recorded
    <3> QED BY <1>5, <3>1 DEF init, made
  <2>2. /\ svr'.lfd = IF Listens(fails) THEN k ELSE svr.lfd
        /\ svr'.epoll_fd = IF Polls(fails) THEN k ELSE svr.epoll_fd
        /\ svr'.pool = k
        /\ spc' = IF fails = "done" THEN "listening" ELSE "stopped"
    BY <1>5 DEF init
  <2>3. k \in Int /\ k # None /\ k # Junk
    BY <1>2, NullAssumption DEF None
  <2> HIDE DEF k
  <2>4. TypeOK'
    <3>1. ASSUME fails = "done" PROVE Live("lfd")' /\ Live("epoll_fd")' /\ Live("pool")'
      <4>1. svr'.lfd = k /\ svr'.epoll_fd = k /\ svr'.pool = k
        BY <2>2, <3>1 DEF Listens, Polls
      <4>2. <<"lfd", k>> \in s'.heap /\ <<"epoll_fd", k>> \in s'.heap /\ <<"pool", k>> \in s'.heap
        BY <2>1, <3>1 DEF Made, Listens, Polls
      <4> QED BY <2>3, <4>1, <4>2 DEF Live
    <3> QED BY <1>1, <1>2, <2>2, <3>1 DEF LifeRight, TypeOK
  <2>5. HasMade'
    <3> SUFFICES ASSUME listens = 0, NEW p \in s'.heap, p[1] \in ServerParts PROVE p \in Closed'
      BY <1>2, <2>2 DEF HasMade, ServerParts
    <3>1. CASE p \in s.heap
      <4>1. p \in Closed /\ p[1] \notin Kinds
        BY <1>1, <3>1 DEF LifeRight, HasMade, ServerParts
      <4>2. ASSUME NEW x PROVE <<"lfd", x>>[1] \in Kinds /\ <<"epoll_fd", x>>[1] \in Kinds /\ <<"pool", x>>[1] \in Kinds
        BY DEF Kinds
      <4>3. p \in {<<"services">>, <<"svr">>}
        BY <4>1, <4>2 DEF Closed
      <4> QED BY <4>3 DEF Closed
    <3>2. CASE p \in made
      <4>1. p # <<"listener", k>>
        <5>1. <<"listener", k>>[1] \notin ServerParts
          BY DEF ServerParts, Kinds
        <5> QED BY <5>1
      <4>2. CASE p = <<"pool", k>>
        BY <2>2, <4>2 DEF Closed
      <4>3. CASE p = <<"lfd", k>> /\ Listens(fails)
        BY <2>2, <4>3 DEF Closed
      <4>4. CASE p = <<"epoll_fd", k>> /\ Polls(fails)
        BY <2>2, <4>4 DEF Closed
      <4> QED BY <3>2, <4>1, <4>2, <4>3, <4>4 DEF Made
    <3> QED BY <2>1, <3>1, <3>2
  <2> QED BY <1>3, <2>4, <2>5 DEF LifeRight
<1> QED BY <1>1, <1>4, <1>5

LEMMA LifeEnds == ASSUME Recorded, LifeRight, EpollFails \/ server_destroy \/ ServerExit PROVE LifeRight'
<1>1. UNCHANGED <<svr, listens, cpc, dials, n, c>>
  BY DEF EpollFails, server_destroy, ServerExit, client
<1>2. spc' \in {"stopped", "destroyed", "exited"}
  BY DEF EpollFails, server_destroy, ServerExit
<1>3. TypeOK' /\ NotDialled'
  BY <1>1, <1>2 DEF LifeRight, TypeOK, NotDialled
<1>4. HasMade'
  <2>1. CASE EpollFails
    <3>1. Fault(s, VaList).heap = s.heap
      BY FaultFields DEF Recorded
    <3>2. s'.heap = s.heap /\ spc = "listening" /\ spc' = "stopped"
      BY <2>1, <3>1 DEF EpollFails
    <3> QED BY <1>1, <3>2 DEF LifeRight, HasMade, Closed
  <2>2. CASE server_destroy
    <3>1. spc \in {"created", "stopped"} /\ s.fault = "none" /\ spc' = "destroyed"
          /\ s' = IF svr.pool = Junk THEN Fault(s, "use of a pool never made") ELSE [s EXCEPT !.heap = @ \ Closed]
      BY <2>2 DEF server_destroy
    <3>2. Fault(s, "use of a pool never made").heap = s.heap /\ Fault(s, "use of a pool never made").fault # "none"
      <4>1. IsMemory(s)
        BY DEF Recorded
      <4>2. /\ Fault(s, "use of a pool never made").heap = s.heap
            /\ Fault(s, "use of a pool never made").fault = IF s.fault = "none" THEN "use of a pool never made" ELSE s.fault
        BY <4>1, FaultFields
      <4> QED BY <3>1, <4>2
    <3>3. [s EXCEPT !.heap = @ \ Closed].heap = s.heap \ Closed
      <4>1. [s EXCEPT !.heap = @ \ Closed] = [heap |-> s.heap \ Closed, fault |-> s.fault, err |-> s.err]
        BY LessIs DEF Recorded
      <4> QED BY <4>1
    <3>4. CASE svr.pool = Junk
      BY <1>1, <3>1, <3>2, <3>4 DEF LifeRight, HasMade
    <3>5. CASE svr.pool # Junk
      <4>1. s'.heap = s.heap \ Closed
        BY <3>1, <3>3, <3>5
      <4>2. listens' <= 1 => \A p \in s'.heap : p[1] \notin ServerParts
        BY <1>1, <3>1, <4>1 DEF LifeRight, HasMade, ServerParts
      <4>3. listens' = 0 => \A p \in s'.heap : p[1] \notin Kinds
        BY <1>1, <4>1 DEF LifeRight, HasMade
      <4> QED BY <4>2, <4>3 DEF HasMade, ServerParts
    <3> QED BY <3>4, <3>5
  <2>3. CASE ServerExit
    BY <1>1, <2>3 DEF ServerExit, LifeRight, HasMade, Closed
  <2> QED BY <2>1, <2>2, <2>3
<1> QED BY <1>3, <1>4 DEF LifeRight

\* One connection more or less is not for the server's main.
LEMMA KeepsConn ==
  ASSUME NEW m, IsMemory(m)
  PROVE  Keeps(m, Alloc(m, {<<"conn">>})) /\ Keeps(m, [m EXCEPT !.heap = @ \ {<<"conn">>}]) /\ Keeps(m, m)
<1>1. <<"conn">>[1] \notin ServerParts
  BY DEF ServerParts, Kinds
<1>2. Alloc(m, {<<"conn">>}) = [heap |-> m.heap \cup {<<"conn">>}, fault |-> m.fault, err |-> m.err]
  BY AllocIs
<1>3. [m EXCEPT !.heap = @ \ {<<"conn">>}] = [heap |-> m.heap \ {<<"conn">>}, fault |-> m.fault, err |-> m.err]
  BY LessIs
<1> QED BY <1>1, <1>2, <1>3 DEF Keeps

LEMMA LifeServe == ASSUME CallRight, LifeRight, Serve PROVE LifeRight'
<1>1. Recorded /\ Requested /\ IsMemory(s)
  BY DEF CallRight, Recorded, Sending, Serve
<1>2. UNCHANGED <<svr, spc, listens, cpc, dials, n, c>>
  BY DEF Serve, client
<1>3. Keeps(s, s')
  <2>1. CASE call.method \notin DOMAIN svr.services
    BY <1>1, <2>1, KeepsConn DEF Serve
  <2>2. CASE call.method \in DOMAIN svr.services
    <3>1. svr.services = Services
      BY <1>1, <2>2 DEF Recorded
    <3>2. PICK o \in Handled(Services[call.method]) : s' = o.m
      BY <2>2, <3>1 DEF Serve
    <3>3. Answered(Services[call.method], o)
      BY <1>1, <2>2, <3>1, HandledRight DEF Recorded
    <3> QED BY <3>2, <3>3, KeepsFollowing DEF Answered
  <2> QED BY <2>1, <2>2
<1>4. NotDialled'
  BY <1>2 DEF LifeRight, NotDialled
<1> QED BY <1>2, <1>3, <1>4, LifeKept DEF LifeRight, TypeOK

LEMMA LifeClient ==
  ASSUME CallRight, LifeRight,
         (\E addr, fresh, fails : client_dial(addr, fresh, fails)) \/ (\E k \in DOMAIN Calls : Begin(k))
         \/ (\E cut \in Cuts : Return(cut)) \/ Delete \/ client_destroy
  PROVE  LifeRight'
<1>1. /\ UNCHANGED <<svr, spc, listens>>
      /\ s' \in {s, Alloc(s, {<<"conn">>}), [s EXCEPT !.heap = @ \ {<<"conn">>}]}
  <2>1. ASSUME NEW addr, NEW fresh, NEW fails, client_dial(addr, fresh, fails)
        PROVE  UNCHANGED <<svr, spc, listens>> /\ s' \in {s, Alloc(s, {<<"conn">>})}
    BY <2>1 DEF client_dial
  <2>2. CASE (\E k \in DOMAIN Calls : Begin(k)) \/ (\E cut \in Cuts : Return(cut)) \/ Delete
    BY <2>2 DEF Begin, Return, Delete, server
  <2>3. CASE client_destroy
    BY <2>3 DEF client_destroy
  <2> QED BY <2>1, <2>2, <2>3
<1>2. IsMemory(s)
  BY DEF CallRight, Recorded
<1>3. Keeps(s, s')
  BY <1>1, <1>2, KeepsConn
<1>4. dials' \in 0 .. MaxListens /\ n' \in 0 .. MaxCalls
  <2>0. dials \in 0 .. MaxListens /\ n \in 0 .. MaxCalls
    BY DEF LifeRight, TypeOK
  <2>1. ASSUME NEW addr, NEW fresh, NEW fails, client_dial(addr, fresh, fails)
        PROVE  dials < MaxListens /\ dials' = dials + 1 /\ n' = n
    BY <2>1 DEF client_dial
  <2>2. CASE (\E k \in DOMAIN Calls : Begin(k)) \/ (\E cut \in Cuts : Return(cut)) \/ Delete \/ client_destroy
    BY <2>0, <2>2, BoundsAssumption DEF Begin, Return, Delete, client_destroy
  <2>3. CASE \E addr, fresh, fails : client_dial(addr, fresh, fails)
    <3>1. dials < MaxListens /\ dials' = dials + 1 /\ n' = n
      BY <2>1, <2>3
    <3> QED BY <2>0, <3>1, BoundsAssumption
  <2> QED BY <2>2, <2>3
<1>6. cpc' \in {"undialled", "idle", "sent", "returned", "destroyed"}
  BY DEF client_dial, Begin, Return, Delete, client_destroy
<1>7. NotDialled'
  <2> SUFFICES ASSUME cpc' = "undialled" PROVE c'.heap = {}
    BY <1>6 DEF NotDialled
  <2>1. PICK addr, fresh, fails : client_dial(addr, fresh, fails)
    BY DEF Begin, Return, Delete, client_destroy
  <2>2. PICK more \in {{}, {<<"conn">>}} : c' \in Addressed(addr, [c EXCEPT !.heap = (@ \cup {<<"cli">>} \cup more) \ DialBad])
    BY <2>1 DEF client_dial
  <2>3. c.heap = {}
    BY <2>1 DEF client_dial, LifeRight, NotDialled
  <2>4. IsMemory(c)
    BY DEF CallRight, Recorded
  <2> DEFINE less == [c EXCEPT !.heap = (@ \cup {<<"cli">>} \cup more) \ DialBad]
  <2>5. less = [heap |-> (c.heap \cup {<<"cli">>} \cup more) \ DialBad, fault |-> c.fault, err |-> c.err]
    BY <2>4 DEF IsMemory
  <2>7. IsMemory(less) /\ less.heap = (c.heap \cup {<<"cli">>} \cup more) \ DialBad
    BY <2>5 DEF IsMemory
  <2> HIDE DEF less
  <2>6. c'.heap = (c.heap \cup {<<"cli">>} \cup more) \ DialBad
    BY <2>2, <2>7, FaultFields, ZenonT(60) DEF Addressed, less
  <2> QED BY <2>3, <2>6 DEF DialBad
<1> QED BY <1>1, <1>3, <1>4, <1>6, <1>7, LifeKept

LEMMA LifeNext == CallRight /\ LifeRight /\ [Next]_vars => LifeRight'
<1> SUFFICES ASSUME CallRight, LifeRight, [Next]_vars PROVE LifeRight'
  OBVIOUS
<1>r. Recorded
  BY DEF CallRight
<1>1. CASE UNCHANGED vars
  BY <1>1 DEF vars, server, client, LifeRight, TypeOK, Live, HasMade, NotDialled, Closed
<1>2. CASE server_create \/ server_register
  BY <1>2, <1>r, LifeCreate, LifeRegister
<1>3. CASE EpollFails \/ server_destroy \/ ServerExit
  BY <1>3, <1>r, LifeEnds
<1>4. ASSUME NEW addr \in Addresses, NEW fresh \in BOOLEAN, NEW fails \in Fails, server_listen(addr, fresh, fails)
      PROVE  LifeRight'
  BY <1>4, <1>r, LifeListen
<1>5. CASE Serve
  BY <1>5, LifeServe
<1>6. CASE \/ \E addr, fresh, fails : client_dial(addr, fresh, fails)
           \/ \E k \in DOMAIN Calls : Begin(k)
           \/ \E cut \in Cuts : Return(cut)
           \/ Delete \/ client_destroy
  BY <1>6, LifeClient
<1> QED BY <1>1, <1>2, <1>3, <1>4, <1>5, <1>6 DEF Next

\* A server that listens has its sockets, epoll and pool; server_destroy after one
\* server_listen, however far it came, releases all init made; client_dial that fails keeps
\* nothing.
THEOREM LifecycleIsRight == Spec => []LifecycleRight
<1>1. LifeRight => LifecycleRight
  BY DEF LifeRight, HasMade, NotDialled, LifecycleRight, DestroyReleases, DialReleases, Kinds
<1> QED BY <1>1, CallsRight, LifeInit, LifeNext, PTL DEF Spec

-----------------------------------------------------------------------------
(* Who owns a block: its path says which call made it, and for what *)

\* p is the path of a block of call id, in part
At(p, id, part) == IsPath(p) /\ Len(p) >= 3 /\ p[1] = "call" /\ p[2] = id /\ p[3] = part

LEMMA PathsAt ==
  ASSUME NEW id, NEW i
  PROVE  /\ At(ArgAt(id, i), id, "arg") /\ At(ResAt(id), id, "res") /\ At(MapAt(id), id, "map")
         /\ Len(ArgAt(id, i)) = 4 /\ Len(ResAt(id)) = 3 /\ Len(MapAt(id)) = 3
BY DEF At, IsPath, ArgAt, ResAt, MapAt

LEMMA PathsLonger ==
  ASSUME NEW p, NEW id, NEW part, At(p, id, part), NEW f
  PROVE  /\ At(Append(p, f), id, part)
         /\ Len(Append(p, f)) = Len(p) + 1 /\ Append(p, f)[Len(Append(p, f))] = f
<1> DEFINE q == Append(p, f)
<1>1. IsPath(p) /\ Len(p) >= 3 /\ p[1] = "call" /\ p[2] = id /\ p[3] = part
  BY DEF At
<1>2. DOMAIN p = 1 .. Len(p) /\ Len(p) \in Nat \ {0}
  BY <1>1 DEF IsPath
<1>3. Len(q) = Len(p) + 1 /\ DOMAIN q = 1 .. Len(p) + 1 /\ q[Len(p) + 1] = f
  BY <1>2
<1>4. ASSUME NEW i \in 1 .. Len(p) PROVE q[i] = p[i]
  BY <1>2
<1>5. q[1] = p[1] /\ q[2] = p[2] /\ q[3] = p[3]
  <2>1. 1 \in 1 .. Len(p) /\ 2 \in 1 .. Len(p) /\ 3 \in 1 .. Len(p)
    BY <1>1, <1>2
  <2> HIDE DEF q
  <2> QED BY <1>4, <2>1
<1> HIDE DEF q
<1>6. IsPath(q)
  BY <1>2, <1>3 DEF IsPath
<1>7. Len(q) >= 3
  BY <1>1, <1>2, <1>3
<1>8. q[Len(q)] = f
  BY <1>3
<1>9. At(q, id, part)
  BY <1>1, <1>5, <1>6, <1>7 DEF At
<1> QED BY <1>3, <1>8, <1>9 DEF q

LEMMA BlocksAt ==
  ASSUME NEW q, NEW id, NEW part, At(q, id, part), NEW table, NEW T, NEW x
  PROVE  /\ \A p \in Blocks(table, T, q, x) : At(p, id, part) /\ p # q
         /\ \A p \in Parts(table, T, q, x) : At(p, id, part) /\ p # q
<1>1. ASSUME NEW r, At(r, id, part), NEW U, NEW y, NEW p \in Parts(table, U, r, y) PROVE At(p, id, part) /\ Len(p) = Len(r) + 1
  <2>1. PICK f : p = Append(r, f)
    BY DEF Parts
  <2> QED BY <1>1, <2>1, PathsLonger
<1>2. Len(q) \in Nat
  BY DEF At, IsPath
<1>3. ASSUME NEW f, NEW p \in Parts(table, Kind(T, f), Append(q, f), x[f]) PROVE At(p, id, part) /\ Len(p) = Len(q) + 2
  <2>1. At(Append(q, f), id, part) /\ Len(Append(q, f)) = Len(q) + 1
    BY PathsLonger
  <2>2. At(p, id, part) /\ Len(p) = Len(Append(q, f)) + 1
    BY <1>1, <1>3, <2>1
  <2> QED BY <1>2, <2>1, <2>2
<1>4. ASSUME NEW p \in Parts(table, T, q, x) PROVE At(p, id, part) /\ p # q
  <2>1. At(p, id, part) /\ Len(p) = Len(q) + 1
    BY <1>1
  <2> QED BY <1>2, <2>1
<1>5. ASSUME NEW f, NEW p \in Parts(table, Kind(T, f), Append(q, f), x[f]) PROVE At(p, id, part) /\ p # q
  BY <1>2, <1>3, <1>5
<1> QED BY <1>4, <1>5 DEF Blocks

\* T_destroy frees all that a struct leads to.
LEMMA DestroysAll ==
  ASSUME NEW T \in DOMAIN Structs, NEW p, NEW x
  PROVE  /\ Blocks(SM!destroys, T, p, x) = Blocks(Pointers, T, p, x)
         /\ Blocks(CM!destroys, T, p, x) = Blocks(Pointers, T, p, x)
<1>1. \A U \in DOMAIN Structs : SM!destroys[U] = Pointers[U]
  BY TablesComplete DEF Complete
<1>2. Inner(SM!destroys, T, x) = Inner(Pointers, T, x) /\ \A q, y : Parts(SM!destroys, T, q, y) = Parts(Pointers, T, q, y)
  BY <1>1 DEF Inner, Parts
<1>3. ASSUME NEW f \in Inner(Pointers, T, x), NEW q, NEW y
      PROVE  Parts(SM!destroys, Kind(T, f), q, y) = Parts(Pointers, Kind(T, f), q, y)
  <2>1. Kind(T, f) \in DOMAIN Structs
    BY DEF Inner, IsMessage
  <2> QED BY <1>1, <2>1 DEF Parts
<1>4. {Parts(SM!destroys, Kind(T, f), Append(p, f), x[f]) : f \in Inner(Pointers, T, x)} =
      {Parts(Pointers, Kind(T, f), Append(p, f), x[f]) : f \in Inner(Pointers, T, x)}
  BY <1>3
<1>5. Blocks(SM!destroys, T, p, x) = Blocks(Pointers, T, p, x)
  BY <1>2, <1>4 DEF Blocks
<1> QED BY <1>5, TablesSame

LEMMA StructNotNull == ASSUME NEW T \in DOMAIN Structs, NEW x, IsRead(T, x) PROVE x # Null
<1>1. ASSUME NEW f \in Fields(T) PROVE x[f] \in AllScalars \cup [Fields("Price") -> AllScalars]
  <2>1. Kind(T, f) \in {"string", "float", "uint64", "int32", "Price"} /\ (IsMessage(Kind(T, f)) <=> Kind(T, f) = "Price")
    BY KindsOfFields
  <2>2. Floats \subseteq AllScalars /\ Null \in AllScalars
    BY DEF Floats, AllScalars
  <2>3. CASE Kind(T, f) # "Price"
    <3>1. x[f] \in Scalars(Kind(T, f), Floats)
      BY <2>1, <2>3 DEF IsRead, WellTyped, ScalarsRight
    <3> QED BY <2>2, <3>1, ScalarsAll
  <2>4. CASE Kind(T, f) = "Price" /\ x[f] # Null
    <3> DEFINE price == x[f]
    <3>1. price = [g \in Fields("Price") |-> price[g]] /\ ScalarsRight("Price", price, Floats)
      BY <2>1, <2>4 DEF IsRead, WellTyped
    <3> HIDE DEF price
    <3>2. ASSUME NEW g \in Fields("Price") PROVE price[g] \in AllScalars
      <4>1. ~IsMessage(Kind("Price", g)) /\ "Price" \in DOMAIN Structs
        BY StructKinds, NumbersNoMessages
      <4>2. price[g] \in Scalars(Kind("Price", g), Floats)
        BY <3>1, <4>1 DEF ScalarsRight
      <4> QED BY <2>2, <4>2, ScalarsAll
    <3>3. price \in [Fields("Price") -> AllScalars]
      BY <3>1, <3>2
    <3> QED BY <3>3 DEF price
  <2> QED BY <2>2, <2>3, <2>4
<1>2. x \in [Fields(T) -> AllScalars \cup [Fields("Price") -> AllScalars]]
  BY <1>1 DEF IsRead
<1> QED BY <1>2, NullAssumption

\* What a float of a client may be
AnyFloats == Int \cup {Nan, Junk}

LEMMA PriceKept ==
  ASSUME NEW x, x # Null, ScalarsRight("Price", x, AnyFloats)
  PROVE  SentFlat("Price", x) # Null
<1> DEFINE y == SentFlat("Price", x)
<1>1. y = [f \in Fields("Price") |-> y[f]]
  BY DEF SentFlat, SentBy
<1>2. "Price" \in DOMAIN Structs
  BY StructKinds
<1>3. ScalarsRight("Price", y, Floats) /\ Floats \subseteq AllScalars
  BY <1>2, SentFlatTyped DEF AnyFloats, Floats, AllScalars
<1> HIDE DEF y
<1>4. ASSUME NEW f \in Fields("Price") PROVE y[f] \in AllScalars
  <2>1. ~IsMessage(Kind("Price", f))
    BY StructKinds, NumbersNoMessages
  <2> QED BY <1>3, <2>1, ScalarsAll DEF ScalarsRight
<1> QED BY <1>1, <1>2, <1>4, FlatNotNull DEF y

\* T_init and T_unmarshal: the blocks they make are those the struct leads to, and texts.
LEMMA ReadBlocks ==
  ASSUME NEW T \in DOMAIN Structs, NEW x, x # Null, WellTyped(T, x, AnyFloats),
         NEW q, NEW id, NEW part \in {"arg", "res"}, At(q, id, part)
  PROVE  LET tree == Tree(SM!marshals, T, Filled(SM!marshals, T, x))
             y == Sent(T, x)
             made == InitBlocks(SM!inits, T, q) \cup UnmarshalBlocks(SM!unmarshals, T, q, tree)
         IN /\ Blocks(Pointers, T, q, y) \subseteq made
            /\ (T = "Book" => y.price # Null) => \A p \in made : p \in Blocks(Pointers, T, q, y) \/ EndsWith(p, "text")
            /\ T = "Book" => (y.price = Null <=> x.price = Null)
<1> DEFINE tree == Tree(SM!marshals, T, Filled(SM!marshals, T, x))
           y == Sent(T, x)
           first == InitValue(SM!inits, T)
           made == InitBlocks(SM!inits, T, q) \cup UnmarshalBlocks(SM!unmarshals, T, q, tree)
<1>0. Null \notin AnyFloats /\ AnyFloats \subseteq AllScalars
  BY NullIsNoValue DEF AnyFloats, AllScalars
<1>1. ASSUME NEW f \in Fields(T)
      PROVE  /\ Kind(T, f) = "string" => tree[f] # Null /\ y[f] # Null /\ first[f] = Null
             /\ Kind(T, f) = "Price" =>
                  /\ T = "Book" /\ first[f] = InitFlat(SM!inits, "Price") /\ first[f] # Null
                  /\ y[f] = SentFlat("Price", x[f]) /\ (y[f] # Null <=> x[f] # Null) /\ (tree[f] # Null <=> x[f] # Null)
                  /\ x[f] # Null => tree[f] = TreeFlat(SM!marshals, "Price", FilledFlat(SM!marshals, "Price", x[f]))
             /\ f \in Pointers[T] <=> Kind(T, f) \in {"string", "Price"}
             /\ IsMessage(Kind(T, f)) <=> Kind(T, f) = "Price"
  <2>1. /\ tree[f] = CASE Kind(T, f) = "string" -> IF x[f] = Null THEN Blank ELSE x[f]
                       [] Kind(T, f) = "float" -> IF x[f] = Nan THEN Null ELSE x[f]
                       [] Kind(T, f) = "Price" ->
                            IF x[f] = Null THEN Null
                            ELSE TreeFlat(SM!marshals, "Price", FilledFlat(SM!marshals, "Price", x[f]))
                       [] OTHER -> x[f]
        /\ tree[f] = Null => Kind(T, f) \in {"float", "Price"}
        /\ Kind(T, f) = "Price" /\ x[f] # Null => tree[f] # Null
    BY <1>0, StructTree
  <2>2. (f \in Pointers[T] <=> Kind(T, f) \in {"string", "Price"}) /\ (IsMessage(Kind(T, f)) <=> Kind(T, f) = "Price")
        /\ (f \in SM!inits[T] <=> f \in Pointers[T]) /\ (Kind(T, f) = "Price" => T = "Book")
    BY TablesComplete, KindsOfFields DEF Complete
  <2>3. Kind(T, f) = "string" => y[f] # Null /\ first[f] = Null
    BY <2>2, NullIsNoValue DEF Sent, SentBy, InitValue, InitBy
  <2>4. CASE Kind(T, f) = "Price"
    <3>1. first[f] = InitFlat(SM!inits, "Price")
      BY <2>2, <2>4 DEF InitValue, InitBy
    <3>2. InitFlat(SM!inits, "Price") # Null
      <4> DEFINE w == InitFlat(SM!inits, "Price")
      <4>1. w = [g \in Fields("Price") |-> w[g]] /\ \A g \in Fields("Price") : w[g] \in {Junk, Null}
        BY DEF InitFlat, InitBy
      <4>2. "Price" \in DOMAIN Structs
        BY StructKinds
      <4> HIDE DEF w
      <4>3. w # Null
        BY <4>1, <4>2, FlatNotNull DEF AllScalars
      <4> QED BY <4>3 DEF w
    <3>3. y[f] = SentFlat("Price", x[f])
      BY <2>4 DEF Sent, SentBy
    <3>4. x[f] # Null => ScalarsRight("Price", x[f], AnyFloats)
      BY <2>2, <2>4 DEF WellTyped
    <3>5. x[f] = Null => SentFlat("Price", x[f]) = Null
      BY DEF SentFlat, SentBy
    <3>6. y[f] # Null <=> x[f] # Null
      BY <3>3, <3>4, <3>5, PriceKept
    <3> QED BY <2>1, <2>2, <2>4, <3>1, <3>2, <3>3, <3>6
  <2> QED BY <2>1, <2>2, <2>3, <2>4
<1>2. Reached(SM!unmarshals, T, tree) = Fields(T)
  BY <1>0, StructTree, AllReached
<1>3. Pointers[T] \subseteq Fields(T)
  BY DEF Pointers
<1>4. ASSUME NEW f \in Fields(T), Kind(T, f) = "Price", x[f] # Null
      PROVE  /\ Parts(Pointers, Kind(T, f), Append(q, f), y[f]) = {Append(Append(q, f), "unit")}
             /\ StringsRead(SM!unmarshals, Kind(T, f), Append(q, f), tree[f]) = {Append(Append(q, f), "unit")}
  <2>1. "Price" \in DOMAIN Structs /\ Fields("Price") = {"unit", "num"} /\ Kind("Price", "unit") = "string" /\ Kind("Price", "num") = "float"
    BY StructKinds
  <2>2. Pointers["Price"] = {"unit"}
    BY <2>1, TablesComplete DEF Complete
  <2>3. y[f] = SentFlat("Price", x[f]) /\ tree[f] = TreeFlat(SM!marshals, "Price", FilledFlat(SM!marshals, "Price", x[f]))
    BY <1>1, <1>4
  <2>4. ScalarsRight("Price", x[f], AnyFloats)
    BY <1>1, <1>4 DEF WellTyped
  <2>5. \A g \in Fields("Price") : tree[f][g] = Null => Kind("Price", g) \in {"float", "Price"}
    BY <1>0, <1>4, <2>1, <2>3, <2>4, FlatTree
  <2>6. Reached(SM!unmarshals, "Price", tree[f]) = {"unit", "num"} /\ tree[f]["unit"] # Null
    BY <2>1, <2>5, AllReached
  <2>7. y[f]["unit"] # Null
    BY <1>4, <2>1, <2>3, NullIsNoValue DEF SentFlat, SentBy
  <2>8. Parts(Pointers, "Price", Append(q, f), y[f]) = {Append(Append(q, f), "unit")}
    BY <2>2, <2>7 DEF Parts
  <2>9. {g \in Reached(SM!unmarshals, "Price", tree[f]) : Kind("Price", g) = "string" /\ tree[f][g] # Null} = {"unit"}
    BY <2>1, <2>6
  <2>10. StringsRead(SM!unmarshals, "Price", Append(q, f), tree[f]) = {Append(Append(q, f), "unit")}
    BY <2>9 DEF StringsRead
  <2> QED BY <1>4, <2>8, <2>10
<1>5. ASSUME NEW f \in Fields(T), Kind(T, f) = "Price"
      PROVE  Parts(Pointers, Kind(T, f), Append(q, f), first[f]) = {}
  <2>1. "Price" \in DOMAIN Structs /\ Fields("Price") = {"unit", "num"} /\ Kind("Price", "unit") = "string" /\ Kind("Price", "num") = "float"
    BY StructKinds
  <2>2. Pointers["Price"] = {"unit"} /\ SM!inits["Price"] = {"unit"}
    BY <2>1, TablesComplete DEF Complete
  <2>3. InitFlat(SM!inits, "Price")["unit"] = Null
    BY <2>1, <2>2, NumbersNoMessages DEF InitFlat, InitBy
  <2> QED BY <1>1, <1>5, <2>2, <2>3 DEF Parts
<1> HIDE DEF tree, y, first
<1>6. Blocks(Pointers, T, q, y) \subseteq made
  <2> SUFFICES ASSUME NEW p \in Blocks(Pointers, T, q, y) PROVE p \in made
    OBVIOUS
  <2>1. CASE p \in Parts(Pointers, T, q, y)
    <3>1. PICK f \in Fields(T) : f \in Pointers[T] /\ y[f] # Null /\ p = Append(q, f)
      BY <1>3, <2>1 DEF Parts
    <3>2. CASE Kind(T, f) = "string"
      <4>1. p \in StringsRead(SM!unmarshals, T, q, tree)
        BY <1>1, <1>2, <3>1, <3>2 DEF StringsRead
      <4> QED BY <4>1 DEF UnmarshalBlocks
    <3>3. CASE Kind(T, f) = "Price"
      <4>1. p \in Parts(Pointers, T, q, first)
        BY <1>1, <3>1, <3>3 DEF Parts
      <4> QED BY <4>1 DEF InitBlocks, Blocks, first
    <3> QED BY <1>1, <3>1, <3>2, <3>3
  <2>2. CASE p \notin Parts(Pointers, T, q, y)
    <3>1. PICK f \in Inner(Pointers, T, y) : p \in Parts(Pointers, Kind(T, f), Append(q, f), y[f])
      BY <2>2 DEF Blocks
    <3>2. f \in Fields(T) /\ Kind(T, f) = "Price" /\ x[f] # Null
      BY <1>1, <1>3, <3>1 DEF Inner
    <3>3. p \in StringsRead(SM!unmarshals, Kind(T, f), Append(q, f), tree[f])
      BY <1>4, <3>1, <3>2
    <3>4. f \in StructsRead(SM!unmarshals, T, tree)
      BY <1>1, <1>2, <3>2 DEF StructsRead
    <3> QED BY <3>3, <3>4 DEF UnmarshalBlocks
  <2> QED BY <2>1, <2>2
<1>7. ASSUME T = "Book" => y.price # Null, NEW p \in made PROVE p \in Blocks(Pointers, T, q, y) \/ EndsWith(p, "text")
  <2>1. \A f \in Fields(T) : Kind(T, f) = "Price" => y[f] # Null /\ x[f] # Null
    <3>1. ASSUME NEW f \in Fields(T), Kind(T, f) = "Price" PROVE f = "price" /\ T = "Book"
      BY <3>1, KindsOfFields, StructKinds
    <3> QED BY <1>1, <1>7, <3>1
  <2>2. CASE p \in InitBlocks(SM!inits, T, q)
    <3>1. CASE p \in Parts(Pointers, T, q, first)
      <4>1. PICK f \in Fields(T) : f \in Pointers[T] /\ first[f] # Null /\ p = Append(q, f)
        BY <1>3, <3>1 DEF Parts
      <4>2. y[f] # Null
        BY <1>1, <2>1, <4>1
      <4> QED BY <4>1, <4>2 DEF Blocks, Parts
    <3>2. CASE p \notin Parts(Pointers, T, q, first)
      <4>1. PICK f \in Inner(Pointers, T, first) : p \in Parts(Pointers, Kind(T, f), Append(q, f), first[f])
        BY <2>2, <3>2 DEF InitBlocks, Blocks, first
      <4>2. f \in Fields(T) /\ Kind(T, f) = "Price"
        BY <1>1, <1>3, <4>1 DEF Inner
      <4> QED BY <1>5, <4>1, <4>2
    <3> QED BY <3>1, <3>2
  <2>3. CASE p \in StringsRead(SM!unmarshals, T, q, tree)
    <3>1. PICK f \in Fields(T) : Kind(T, f) = "string" /\ p = Append(q, f)
      BY <1>2, <2>3 DEF StringsRead
    <3> QED BY <1>1, <3>1 DEF Blocks, Parts
  <2>4. CASE p \notin InitBlocks(SM!inits, T, q) /\ p \notin StringsRead(SM!unmarshals, T, q, tree)
    <3>1. PICK f \in StructsRead(SM!unmarshals, T, tree) :
            p \in {Append(q, "text")} \cup StringsRead(SM!unmarshals, Kind(T, f), Append(q, f), tree[f])
      BY <2>4 DEF UnmarshalBlocks
    <3>2. f \in Fields(T) /\ Kind(T, f) = "Price" /\ y[f] # Null /\ x[f] # Null
      BY <1>1, <1>2, <2>1, <3>1 DEF StructsRead
    <3>3. CASE p = Append(q, "text")
      BY <3>3, PathsLonger DEF EndsWith, At
    <3>4. CASE p \in StringsRead(SM!unmarshals, Kind(T, f), Append(q, f), tree[f])
      <4>1. p \in Parts(Pointers, Kind(T, f), Append(q, f), y[f])
        BY <1>4, <3>2, <3>4
      <4>2. f \in Inner(Pointers, T, y)
        BY <1>1, <3>2 DEF Inner
      <4> QED BY <4>1, <4>2 DEF Blocks
    <3> QED BY <3>1, <3>3, <3>4
  <2> QED BY <2>2, <2>3, <2>4
<1>8. T = "Book" => (y.price = Null <=> x.price = Null)
  <2> SUFFICES ASSUME T = "Book" PROVE y.price = Null <=> x.price = Null
    OBVIOUS
  <2>1. "price" \in Fields(T) /\ Kind(T, "price") = "Price"
    BY StructKinds
  <2> QED BY <1>1, <2>1
<1> QED BY <1>6, <1>7, <1>8 DEF y, tree

-----------------------------------------------------------------------------
(* The invariant of the blocks *)

\* What the client still frees: the trees of a request on its way, the result it returned
Nodes(id, f) == {Node(id, i) : i \in DOMAIN f.params}
Trees == IF cpc = "sent" THEN Nodes(n, call.stub) ELSE {}
Owes == cpc = "returned" /\ v # Null /\ ~IsNumber(call.stub.ret)
ResultBlocks == IF call.stub.ret = "string" THEN {Data(n)} ELSE {ResAt(n)} \cup Blocks(Pointers, call.stub.ret, ResAt(n), v)
\* Every block of the client is its connection, a known loss, or still to be freed, unless
\* a stub was the end of it.
Ended == cpc = "returned" /\ c.fault # "none"
ClientOwns ==
  /\ \A p \in c.heap \ {<<"cli">>, <<"conn">>} : ClientLoses(p) \/ p \in Trees \/ (Owes /\ p \in ResultBlocks) \/ Ended
  /\ Owes => call.stub.ret \in DOMAIN Structs \cup {"string"}
  /\ Owes /\ c.fault = "none" => ResultBlocks \subseteq c.heap /\ (call.stub.ret = "Book" => v.price # Null)

\* A book of book_map in its blocks
BookAt(entry) == {entry.at} \cup Blocks(Pointers, "Book", entry.at, entry.book)
\* All of st is there, and was made by the call with number bound or an earlier one.
Stored(st, heap, bound) ==
  \A name \in DOMAIN st :
    /\ BookAt(st[name]) \subseteq heap /\ st[name].book.price # Null
    /\ \E k \in Nat : st[name].at = MapAt(k) /\ k <= bound
\* No two books were made by one call.
Apart(st) == \A x, y \in DOMAIN st : x # y => st[x].at # st[y].at
\* A block of book_map
InStore(p, st) == \E name \in DOMAIN st : p \in BookAt(st[name])
\* The last call that may have been served
Latest == IF wire = Null THEN n ELSE n - 1
\* Every block of a call that the server holds is a known loss or one of book_map.
ServerOwns ==
  s.fault = "none" =>
    /\ \A p \in s.heap : p[1] = "call" => ServerLoses(p) \/ InStore(p, store)
    /\ Stored(store, s.heap, Latest) /\ Apart(store)

\* A value is sent whole, or the server has crashed when it freed the result.
SentWhole ==
  cpc = "sent" /\ resp.kind = "value" =>
    /\ resp.data # Null
    /\ Services[call.method].ret = "Book" => ran[1].res.price # Null
MemoryRight == ClientOwns /\ ServerOwns /\ SentWhole

-----------------------------------------------------------------------------
(* The blocks of the client *)

LEMMA AllocFields ==
  ASSUME NEW m, IsMemory(m), NEW blocks
  PROVE  Alloc(m, blocks).heap = m.heap \cup blocks /\ Alloc(m, blocks).fault = m.fault /\ Alloc(m, blocks).err = m.err
<1>1. Alloc(m, blocks) = [heap |-> m.heap \cup blocks, fault |-> m.fault, err |-> m.err]
  BY AllocIs
<1> QED BY <1>1
\* The frees behind end:, of what read_response left and the result
LEMMA StubEndsHeap ==
  ASSUME NEW id, NEW f, NEW r, IsMemory(r.m)
  PROVE  LET m == ResultRead(id, f, r)
             kept == Right(f, r) /\ f.ret = "string"
             data == IF ~kept /\ r.data # Null THEN {Data(id)} ELSE {}
             name == IF r.type_name # Null THEN {TypeName(id)} ELSE {}
             ended == StubEnds(id, f, r)
         IN /\ ended.heap = ((m.heap \ data) \ name) \ Nodes(id, f)
            /\ data \cup name \subseteq m.heap => ended.fault = m.fault
            /\ ended.fault \in {m.fault, "free of a freed block"}
            /\ ended.err = m.err
<1> DEFINE m == ResultRead(id, f, r)
           kept == Right(f, r) /\ f.ret = "string"
           data == IF ~kept /\ r.data # Null THEN {Data(id)} ELSE {}
           name == IF r.type_name # Null THEN {TypeName(id)} ELSE {}
           once == IF kept THEN m ELSE FreeUnlessNull(m, r.data, Data(id))
           twice == FreeUnlessNull(once, r.type_name, TypeName(id))
           ended == StubEnds(id, f, r)
<1>1. ended = [twice EXCEPT !.heap = @ \ Nodes(id, f)]
  BY DEF StubEnds, Nodes
<1>2. IsMemory(m)
  <2>1. Follows(r.m, r.m)
    BY FollowsItself
  <2>2. Follows(r.m, m)
    BY <2>1, ResultReadRight
  <2> QED BY <2>2 DEF Follows
<1>3. Data(id) # TypeName(id)
  BY DEF Data, TypeName
<1> HIDE DEF m, kept
<1>4. /\ IsMemory(once) /\ once.err = m.err /\ once.heap = m.heap \ data
      /\ (data \subseteq m.heap => once.fault = m.fault) /\ once.fault \in {m.fault, "free of a freed block"}
  <2>1. CASE kept \/ r.data = Null
    <3>1. once = m /\ data = {}
      BY <2>1 DEF FreeUnlessNull
    <3> QED BY <1>2, <3>1
  <2>2. CASE ~kept /\ r.data # Null
    <3>1. once = FreeUnlessNull(m, r.data, Data(id)) /\ data = {Data(id)}
      BY <2>2
    <3> DEFINE x == FreeUnlessNull(m, r.data, Data(id))
    <3>2. x = FreeAll(m, {Data(id)})
      BY <2>2 DEF FreeUnlessNull
    <3>3. /\ IsMemory(FreeAll(m, {Data(id)})) /\ FreeAll(m, {Data(id)}).err = m.err /\ FreeAll(m, {Data(id)}).heap = m.heap \ {Data(id)}
          /\ FreeAll(m, {Data(id)}).fault = IF m.fault = "none" /\ ~({Data(id)} \subseteq m.heap) THEN "free of a freed block" ELSE m.fault
      BY <1>2, FreeAllIs, FreeAllFields
    <3> HIDE DEF once, data, x
    <3> QED BY <3>1, <3>2, <3>3 DEF x
  <2> QED BY <2>1, <2>2
<1> HIDE DEF once
<1>5. /\ IsMemory(twice) /\ twice.err = once.err /\ twice.heap = once.heap \ name
      /\ (name \subseteq once.heap => twice.fault = once.fault) /\ twice.fault \in {once.fault, "free of a freed block"}
  <2>1. CASE r.type_name = Null
    <3>1. twice = once /\ name = {}
      BY <2>1 DEF FreeUnlessNull
    <3> QED BY <1>4, <3>1
  <2>2. CASE r.type_name # Null
    <3>1. name = {TypeName(id)}
      BY <2>2
    <3>2. twice = FreeAll(once, {TypeName(id)})
      BY <2>2 DEF FreeUnlessNull
    <3>3. /\ IsMemory(FreeAll(once, {TypeName(id)})) /\ FreeAll(once, {TypeName(id)}).err = once.err
          /\ FreeAll(once, {TypeName(id)}).heap = once.heap \ {TypeName(id)}
          /\ FreeAll(once, {TypeName(id)}).fault =
               IF once.fault = "none" /\ ~({TypeName(id)} \subseteq once.heap) THEN "free of a freed block" ELSE once.fault
      BY <1>4, FreeAllIs, FreeAllFields, ZenonT(60)
    <3> HIDE DEF twice, name
    <3> QED BY <3>1, <3>2, <3>3
  <2> QED BY <2>1, <2>2
<1>6. data \cup name \subseteq m.heap => data \subseteq m.heap /\ name \subseteq once.heap
  BY <1>3, <1>4
<1> HIDE DEF data, name, twice
<1>7. ended.heap = twice.heap \ Nodes(id, f) /\ ended.fault = twice.fault /\ ended.err = twice.err
  <2>1. [twice EXCEPT !.heap = @ \ Nodes(id, f)] = [heap |-> twice.heap \ Nodes(id, f), fault |-> twice.fault, err |-> twice.err]
    BY <1>5, LessIs
  <2> HIDE DEF ended
  <2> QED BY <1>1, <2>1
<1> HIDE DEF ended
<1>8. ended.fault \in {m.fault, "free of a freed block"}
  BY <1>4, <1>5, <1>7
<1>9. data \cup name \subseteq m.heap => ended.fault = m.fault
  BY <1>4, <1>5, <1>6, <1>7
<1>10. ended.heap = ((m.heap \ data) \ name) \ Nodes(id, f) /\ ended.err = m.err
  BY <1>4, <1>5, <1>7
<1> QED BY <1>8, <1>9, <1>10 DEF m, kept, data, name, ended

\* A stub that ends with nothing read: it failed, or expects a result that does not come.
LEMMA EndsWithout ==
  ASSUME NEW id, NEW f, NEW r, IsMemory(r.m), r.m.fault = "none",
         Failed(r.m) \/ r.type_name = Null,
         r.type_name = Null => r.data = Null,
         f.ret # Null
  PROVE  LET ended == StubEnds(id, f, r) IN
         /\ ended.heap \subseteq r.m.heap \ Nodes(id, f)
         /\ r.type_name = Null /\ ended.fault # "none" => ended.fault = "strcmp of NULL" /\ ~Failed(r.m) /\ f.ret # "void"
         /\ ended.fault \in {"none", "strcmp of NULL", "free of a freed block"} /\ (Failed(r.m) => ended.fault # "strcmp of NULL")
         /\ ended.err = r.m.err
         /\ ResultOf(f, r) = Nothing(f.ret)
<1> DEFINE m == ResultRead(id, f, r)
           ended == StubEnds(id, f, r)
           data == IF ~(Right(f, r) /\ f.ret = "string") /\ r.data # Null THEN {Data(id)} ELSE {}
           name == IF r.type_name # Null THEN {TypeName(id)} ELSE {}
<1>1. Right(f, r) => f.ret = "void" /\ ~Failed(r.m)
  BY DEF Right
<1>2. ResultOf(f, r) = Nothing(f.ret)
  BY <1>1 DEF ResultOf
<1>3. m = r.m \/ (m = Fault(r.m, "strcmp of NULL") /\ ~Failed(r.m) /\ f.ret # "void")
  <2>1. CASE Failed(r.m)
    BY <2>1 DEF ResultRead
  <2>2. CASE ~Failed(r.m) /\ ~Right(f, r)
    BY <2>2 DEF ResultRead, Right
  <2>3. CASE Right(f, r)
    BY <1>1, <2>3, NumbersNoMessages DEF ResultRead
  <2> QED BY <2>1, <2>2, <2>3
<1>4. Fault(r.m, "strcmp of NULL").heap = r.m.heap /\ Fault(r.m, "strcmp of NULL").err = r.m.err
      /\ Fault(r.m, "strcmp of NULL").fault = "strcmp of NULL"
  BY FaultFields
<1> HIDE DEF m
<1>5. m.heap = r.m.heap /\ m.err = r.m.err /\ (m.fault = "none" \/ (m.fault = "strcmp of NULL" /\ ~Failed(r.m) /\ f.ret # "void"))
  BY <1>3, <1>4
<1>6. /\ ended.heap = ((m.heap \ data) \ name) \ Nodes(id, f)
      /\ data \cup name \subseteq m.heap => ended.fault = m.fault
      /\ ended.fault \in {m.fault, "free of a freed block"}
      /\ ended.err = m.err
  BY StubEndsHeap DEF m
<1>7. r.type_name = Null => data \cup name = {}
  OBVIOUS
<1> HIDE DEF ended, data, name
<1> QED BY <1>2, <1>5, <1>6, <1>7 DEF ended

\* A stub up to client_call
LEMMA WriteArgsHeap ==
  ASSUME NEW id, NEW f, NEW vals, NEW m, IsMemory(m)
  PROVE  LET w == WriteArgs(id, f, vals, m) IN
         /\ \A p \in w.heap :
              \/ p \in m.heap \/ p[3] \in {"args", "text"}
              \/ Failed(m) /\ (p[3] = "node" \/ EndsWith(p, "item"))
              \/ ~ReturnsEarly(f, m) /\ p \in Nodes(id, f)
         /\ w.fault \in {m.fault, "strlen of NULL"}
         /\ (\A i \in Messages(f) : vals[i] # Null) => w.fault = m.fault
<1> DEFINE args == {<<"call", id, "args">>}
           begun == Alloc(m, args)
           w == WriteArgs(id, f, vals, m)
<1>1. IsMemory(begun) /\ begun.heap = m.heap \cup args /\ begun.fault = m.fault /\ begun.err = m.err
  BY AllocIs, AllocFields
<1>2. \A p \in args : p[3] = "args"
  OBVIOUS
<1> HIDE DEF begun, args
<1>3. CASE ReturnsEarly(f, m)
  <2>1. Failed(m)
    BY <1>3 DEF ReturnsEarly
  <2> DEFINE j == CHOOSE i \in Messages(f) : \A k \in Messages(f) : i <= k
             item == IF vals[j] = Null THEN {} ELSE {Append(ArgAt(id, j), "item")}
             marshalled == MarshalMemory(CM!marshals, f.params[j], ArgAt(id, j), vals[j], begun)
             told == [Alloc(begun, item) EXCEPT !.err = "marshal"]
  <2>2. \A p \in item : EndsWith(p, "item")
    <3> HIDE DEF j
    <3>1. At(ArgAt(id, j), id, "arg")
      BY PathsAt
    <3>2. At(Append(ArgAt(id, j), "item"), id, "arg") /\ Append(ArgAt(id, j), "item")[Len(Append(ArgAt(id, j), "item"))] = "item"
      BY <3>1, PathsLonger
    <3> QED BY <3>2 DEF At, EndsWith
  <2>3. marshalled = told \/ marshalled = begun
    BY DEF MarshalMemory
  <2>4. w = marshalled \/ w = Alloc(marshalled, {Node(id, j)})
    BY <1>3 DEF WriteArgs, EarlyMemory, begun, args
  <2>5. \A p \in {Node(id, j)} : p[3] = "node"
    BY DEF Node
  <2> HIDE DEF item, j, marshalled, told, w
  <2>6. IsMemory(told) /\ told.heap = begun.heap \cup item /\ told.fault = begun.fault
    <3>1. IsMemory(Alloc(begun, item)) /\ Alloc(begun, item).heap = begun.heap \cup item /\ Alloc(begun, item).fault = begun.fault
      BY <1>1, AllocIs, AllocFields
    <3> QED BY <3>1, ErrIs, ErrFields DEF told
  <2>7. IsMemory(marshalled) /\ marshalled.heap \subseteq begun.heap \cup item /\ marshalled.fault = begun.fault
    BY <1>1, <2>3, <2>6
  <2>8. Alloc(marshalled, {Node(id, j)}).heap = marshalled.heap \cup {Node(id, j)} /\ Alloc(marshalled, {Node(id, j)}).fault = marshalled.fault
    BY <2>7, AllocFields
  <2>9. w.heap \subseteq m.heap \cup args \cup item \cup {Node(id, j)} /\ w.fault = m.fault
    BY <1>1, <2>4, <2>7, <2>8
  <2> QED BY <1>2, <2>1, <2>2, <2>5, <2>9 DEF w
<1>4. CASE ~ReturnsEarly(f, m)
  <2> DEFINE there == {i \in Messages(f) : vals[i] # Null}
             blocks == UNION {{Node(id, i), <<"call", id, "text", i>>} : i \in there}
             checked == FaultIf(there # Messages(f), begun, "strlen of NULL")
  <2>1. w = Alloc(checked, blocks)
    BY <1>4 DEF WriteArgs, TreeMemory, begun, args
  <2>2. \A p \in blocks : p[3] = "text" \/ p \in Nodes(id, f)
    BY DEF Messages, Nodes
  <2>3. there # Messages(f) => \E i \in Messages(f) : vals[i] = Null
    OBVIOUS
  <2>4. checked = IF there # Messages(f) THEN Fault(begun, "strlen of NULL") ELSE begun
    BY DEF FaultIf
  <2>5. /\ IsMemory(Fault(begun, "strlen of NULL")) /\ Fault(begun, "strlen of NULL").heap = begun.heap
        /\ Fault(begun, "strlen of NULL").fault = IF begun.fault = "none" THEN "strlen of NULL" ELSE begun.fault
    BY <1>1, FaultIs, FaultFields
  <2> HIDE DEF there, blocks, checked, w
  <2>6. /\ IsMemory(checked) /\ checked.heap = begun.heap
        /\ checked.fault # m.fault => checked.fault = "strlen of NULL" /\ there # Messages(f)
    BY <1>1, <2>4, <2>5
  <2>7. Alloc(checked, blocks).heap = checked.heap \cup blocks /\ Alloc(checked, blocks).fault = checked.fault
    BY <2>6, AllocFields
  <2>8. w.heap = m.heap \cup args \cup blocks /\ w.fault = checked.fault
    BY <1>1, <2>1, <2>6, <2>7
  <2> QED BY <1>2, <1>4, <2>2, <2>3, <2>6, <2>8 DEF w
<1> QED BY <1>3, <1>4

\* What a step of the client may do wrong: the cases of OnlyKnownFaults
ClientFaults ==
  c'.fault # c.fault =>
    CASE c'.fault = "strlen of NULL" -> NullStruct'
      [] c'.fault = "strcmp of NULL" -> NoResult
      [] c'.fault = VaList -> cpc' = "undialled" \/ OtherResult
      [] c'.fault = "free of a freed block" -> resp.kind = "value" /\ (Return("type_name") \/ Return("data"))
      [] OTHER -> FALSE

LEMMA VaListIs ==
  VaList \notin {"none", "strlen of NULL", "strcmp of NULL", "free of a freed block", "read of a NULL struct",
                 "use of a pool never made", "sscanf of NULL", "hash of NULL", "division by zero", "read past a block"}
BY DEF VaList

LEMMA OwesBegin == ASSUME CallRight, ClientOwns, NEW k \in DOMAIN Calls, Begin(k) PROVE ClientOwns' /\ ClientFaults
<1> DEFINE f == Calls[k].stub
           vals == Calls[k].vals
<1>1. /\ n' = n + 1 /\ call' = Calls[k] /\ c' = WriteArgs(n + 1, f, vals, c) /\ cpc = "idle"
      /\ IF ReturnsEarly(f, c) THEN cpc' = "returned" /\ v' = Nothing(f.ret) ELSE cpc' = "sent"
  BY DEF Begin
<1>2. IsMemory(c)
  BY DEF CallRight, Recorded
<1>3. DOMAIN vals = DOMAIN f.params
  BY CallsAssumption DEF IsCall
<1>4. call'.stub = f /\ call'.vals = vals
  BY <1>1
<1> HIDE DEF f, vals
<1>5. /\ \A p \in c'.heap :
           \/ p \in c.heap \/ p[3] \in {"args", "text"}
           \/ Failed(c) /\ (p[3] = "node" \/ EndsWith(p, "item"))
           \/ ~ReturnsEarly(f, c) /\ p \in Nodes(n + 1, f)
      /\ c'.fault # c.fault => c'.fault = "strlen of NULL" /\ \E i \in Messages(f) : vals[i] = Null
  <2> DEFINE w == WriteArgs(n + 1, f, vals, c)
  <2>1. /\ \A p \in w.heap :
              \/ p \in c.heap \/ p[3] \in {"args", "text"}
              \/ Failed(c) /\ (p[3] = "node" \/ EndsWith(p, "item"))
              \/ ~ReturnsEarly(f, c) /\ p \in Nodes(n + 1, f)
        /\ w.fault # c.fault => w.fault = "strlen of NULL" /\ \E i \in Messages(f) : vals[i] = Null
    <3>1. w.fault \in {c.fault, "strlen of NULL"}
      BY <1>2, WriteArgsHeap
    <3>3. (\A i \in Messages(f) : vals[i] # Null) => w.fault = c.fault
      BY <1>2, WriteArgsHeap
    <3>2. ASSUME NEW p \in w.heap PROVE
              \/ p \in c.heap \/ p[3] \in {"args", "text"}
              \/ Failed(c) /\ (p[3] = "node" \/ EndsWith(p, "item"))
              \/ ~ReturnsEarly(f, c) /\ p \in Nodes(n + 1, f)
      BY <1>2, WriteArgsHeap
    <3> QED BY <3>1, <3>2, <3>3
  <2> HIDE DEF w
  <2>2. c' = w
    BY <1>1 DEF w
  <2> QED BY <2>1, <2>2
<1>6. Failed(c) => Failed(c')
  <2>1. ReturnsEarly(f, c) => Failed(c')
    BY <1>1, <1>2, WriteArgsRight
  <2>2. ~ReturnsEarly(f, c) => c'.err = c.err
    BY <1>1, <1>2, WriteArgsRight
  <2> QED BY <2>1, <2>2 DEF Failed
<1>7. \A p \in c.heap \ {<<"cli">>, <<"conn">>} : ClientLoses(p)
  BY <1>1 DEF ClientOwns, Trees, Owes, Ended
<1>8. ~Owes'
  BY <1>1, <1>4 DEF Owes, Nothing
<1>9. ~ReturnsEarly(f, c) => Trees' = Nodes(n + 1, f)
  BY <1>1, <1>4 DEF Trees
<1>10. ASSUME NEW p \in c'.heap \ {<<"cli">>, <<"conn">>} PROVE ClientLoses(p)' \/ p \in Trees'
  BY <1>5, <1>6, <1>7, <1>9 DEF ClientLoses, EndsWith
<1>11. ClientOwns'
  BY <1>8, <1>10 DEF ClientOwns
<1>12. ClientFaults
  <2>1. (\E i \in Messages(f) : vals[i] = Null) => NullStruct'
    BY <1>3, <1>4 DEF NullStruct, Has, Messages, IsMessage
  <2> QED BY <1>5, <2>1, VaListIs DEF ClientFaults
<1> QED BY <1>11, <1>12

\* A stub that ends with a whole response in hand
LEMMA EndsWhole ==
  ASSUME NEW id, NEW f, NEW m, IsMemory(m), m.fault = "none", ~Failed(m), f.ret # Null,
         NEW r, r.type_name # Null, r.data # Null, r.m = Alloc(m, {TypeName(id), Data(id)})
  PROVE  LET ended == StubEnds(id, f, r)
             made == {ResAt(id)} \cup InitBlocks(CM!inits, f.ret, ResAt(id)) \cup UnmarshalBlocks(CM!unmarshals, f.ret, ResAt(id), r.data)
         IN /\ ended.fault = "none"
            /\ \A p \in ended.heap : \/ p \in m.heap
                                     \/ Right(f, r) /\ f.ret = "string" /\ p = Data(id)
                                     \/ Right(f, r) /\ IsMessage(f.ret) /\ p \in made
            /\ \A p \in ended.heap : p \notin Nodes(id, f)
            /\ Right(f, r) /\ f.ret = "string" => Data(id) \in ended.heap
            /\ Right(f, r) /\ IsMessage(f.ret) => \A p \in made : p[3] = "res" => p \in ended.heap
<1> DEFINE ended == StubEnds(id, f, r)
           made == {ResAt(id)} \cup InitBlocks(CM!inits, f.ret, ResAt(id)) \cup UnmarshalBlocks(CM!unmarshals, f.ret, ResAt(id), r.data)
           read == Alloc(m, {TypeName(id), Data(id)})
           last == ResultRead(id, f, r)
           string == Right(f, r) /\ f.ret = "string"
           struct == Right(f, r) /\ IsMessage(f.ret)
           freed == IF string THEN {TypeName(id)} ELSE {TypeName(id), Data(id)}
<1>1. IsMemory(read) /\ read.heap = m.heap \cup {TypeName(id), Data(id)} /\ read.fault = "none" /\ ~Failed(read)
  BY AllocIs, AllocFields DEF Failed
<1> HIDE DEF read
<1>3. r.m = read
  BY DEF read
<1>4. last = IF ~Right(f, r) THEN [read EXCEPT !.err = "garbled"]
             ELSE IF ~IsMessage(f.ret) THEN read ELSE Alloc(read, made)
  BY <1>1, <1>3 DEF ResultRead
<1>5. string => ~IsMessage(f.ret)
  BY NumbersNoMessages
<1> HIDE DEF made, last
<1>6. /\ [read EXCEPT !.err = "garbled"].heap = read.heap /\ [read EXCEPT !.err = "garbled"].fault = read.fault
      /\ Alloc(read, made).heap = read.heap \cup made /\ Alloc(read, made).fault = read.fault
  BY <1>1, ErrFields, AllocFields
<1>7. last.fault = "none" /\ (struct => last.heap = read.heap \cup made) /\ (~struct => last.heap = read.heap)
  BY <1>1, <1>4, <1>6
<1>8. /\ ended.heap = (last.heap \ freed) \ Nodes(id, f)
      /\ freed \subseteq last.heap => ended.fault = last.fault
  <2> DEFINE text == IF ~string /\ r.data # Null THEN {Data(id)} ELSE {}
             name == IF r.type_name # Null THEN {TypeName(id)} ELSE {}
  <2>0. IsMemory(r.m)
    BY <1>1, <1>3
  <2>1. ended.heap = ((last.heap \ text) \ name) \ Nodes(id, f)
    BY <2>0, StubEndsHeap, ZenonT(60) DEF last
  <2>3. text \cup name \subseteq last.heap => ended.fault = last.fault
    BY <2>0, StubEndsHeap DEF last
  <2>2. text \cup name = freed
    BY <1>3
  <2> HIDE DEF text, name, freed, ended
  <2> QED BY <2>1, <2>2, <2>3
<1>9. freed \subseteq last.heap
  BY <1>1, <1>7
<1>10. TypeName(id)[3] = "resp" /\ Data(id)[3] = "resp" /\ TypeName(id) # Data(id) /\ \A p \in Nodes(id, f) : p[3] = "node"
  BY DEF TypeName, Data, Nodes, Node
<1> HIDE DEF ended
<1>11. ended.fault = "none"
  BY <1>7, <1>8, <1>9
<1>12. ASSUME NEW p \in ended.heap PROVE p \notin Nodes(id, f) /\ (p \in m.heap \/ (string /\ p = Data(id)) \/ (struct /\ p \in made))
  <2>1. p \in last.heap /\ p \notin freed /\ p \notin Nodes(id, f)
    BY <1>8, <1>12
  <2> HIDE DEF freed
  <2>2. p \in m.heap \/ p \in {TypeName(id), Data(id)} \/ (struct /\ p \in made)
    BY <1>1, <1>7, <2>1
  <2>3. p \in {TypeName(id), Data(id)} => string /\ p = Data(id)
    BY <2>1 DEF freed
  <2> QED BY <2>1, <2>2, <2>3
<1>13. string => Data(id) \in ended.heap
  <2>1. Data(id) \in last.heap /\ Data(id) \notin Nodes(id, f)
    BY <1>1, <1>7, <1>10
  <2>2. string => Data(id) \notin freed
    BY <1>10
  <2> HIDE DEF freed
  <2> QED BY <1>8, <2>1, <2>2
<1>14. ASSUME struct, NEW p \in made, p[3] = "res" PROVE p \in ended.heap
  <2>1. p \in last.heap
    BY <1>7, <1>14
  <2>2. p \notin Nodes(id, f) /\ p \notin freed
    BY <1>10, <1>14
  <2> HIDE DEF freed
  <2> QED BY <1>8, <2>1, <2>2
<1> QED BY <1>11, <1>12, <1>13, <1>14 DEF made, ended

\* What read_response leaves: nothing, pointers to freed blocks, or the response
LEMMA ReadResponseIs ==
  ASSUME NEW id, NEW answer, NEW cut \in Cuts, NEW m, IsMemory(m),
         cut # "head" => answer.kind \in {"error", "nothing", "value"},
         answer.kind = "error" => answer.data # NoError
  PROVE  LET r == ReadResponse(id, answer, cut, m) IN
         \/ /\ IsMemory(r.m) /\ r.m.heap = m.heap /\ r.m.fault = m.fault /\ r.type_name = Null /\ r.data = Null
            /\ Failed(r.m) \/ answer.kind = "nothing"
         \/ /\ IsMemory(r.m) /\ r.m.heap = m.heap /\ r.m.fault = m.fault /\ r.type_name # Null
            /\ cut \in {"type_name", "data"} /\ r.m.err = "errno" /\ answer.kind = "value"
         \/ /\ cut = "whole" /\ answer.kind = "value"
            /\ r = [type_name |-> answer.type, data |-> answer.data, m |-> Alloc(m, {TypeName(id), Data(id)})]
<1> DEFINE r == ReadResponse(id, answer, cut, m)
           lost == [m EXCEPT !.err = "errno"]
           told == [m EXCEPT !.err = answer.data]
<1>1. /\ IsMemory(lost) /\ lost.heap = m.heap /\ lost.fault = m.fault /\ lost.err = "errno"
      /\ IsMemory(told) /\ told.heap = m.heap /\ told.fault = m.fault /\ told.err = answer.data
  <2>1. \A err : IsMemory([m EXCEPT !.err = err])
    BY ErrIs
  <2> QED BY <2>1, ErrFields
<1>2. Failed(lost) /\ (answer.kind = "error" => Failed(told)) /\ Junk # Null
  <2> HIDE DEF lost, told
  <2>1. Failed(lost)
    BY <1>1 DEF Failed, NoError
  <2>2. answer.kind = "error" => Failed(told)
    BY <1>1 DEF Failed
  <2> QED BY <2>1, <2>2, NullIsNoValue
<1>3. ASSUME NEW k, NEW type, NEW data, r = [type_name |-> type, data |-> data, m |-> k]
      PROVE  r.m = k /\ r.type_name = type /\ r.data = data
  <2> HIDE DEF r
  <2> QED BY <1>3
<1>4. CASE cut = "head"
  <2>1. r = [type_name |-> Null, data |-> Null, m |-> lost]
    BY <1>4 DEF ReadResponse
  <2> HIDE DEF r, lost
  <2> QED BY <1>1, <1>2, <1>3, <2>1 DEF r
<1>5. CASE cut # "head" /\ answer.kind = "error"
  <2>1. r = [type_name |-> Null, data |-> Null, m |-> told]
    BY <1>5 DEF ReadResponse
  <2> HIDE DEF r, told
  <2> QED BY <1>1, <1>2, <1>3, <1>5, <2>1 DEF r
<1>6. CASE cut # "head" /\ answer.kind = "nothing"
  <2>1. r = [type_name |-> Null, data |-> Null, m |-> m]
    BY <1>6 DEF ReadResponse
  <2> HIDE DEF r
  <2> QED BY <1>3, <1>6, <2>1 DEF r
<1>7. CASE answer.kind = "value" /\ cut \in {"type_name", "data"}
  <2>1. \E data : r = [type_name |-> Junk, data |-> data, m |-> lost]
    BY <1>7 DEF ReadResponse
  <2> HIDE DEF r, lost
  <2> QED BY <1>1, <1>2, <1>3, <1>7, <2>1 DEF r
<1>8. CASE answer.kind = "value" /\ cut = "whole"
  BY <1>8 DEF ReadResponse
<1> QED BY <1>4, <1>5, <1>6, <1>7, <1>8 DEF Cuts

\* A struct that arrived: it is in the blocks made for it, but for the texts.
LEMMA StructRead ==
  ASSUME NEW T \in DOMAIN Structs, NEW x, x # Null, WellTyped(T, x, Floats), NEW q, NEW id, At(q, id, "res"),
         T = "Book" => x.price # Null
  PROVE  LET data == Tree(SM!marshals, T, Filled(SM!marshals, T, x))
             y == Unmarshal(SM!unmarshals, T, InitValue(SM!inits, T), data)
             made == InitBlocks(SM!inits, T, q) \cup UnmarshalBlocks(SM!unmarshals, T, q, data)
         IN /\ y # Null /\ (T = "Book" => y.price # Null)
            /\ Blocks(Pointers, T, q, y) \subseteq made
            /\ \A p \in made : p \in Blocks(Pointers, T, q, y) \/ EndsWith(p, "text")
<1> DEFINE data == Tree(SM!marshals, T, Filled(SM!marshals, T, x))
           y == Sent(T, x)
           made == InitBlocks(SM!inits, T, q) \cup UnmarshalBlocks(SM!unmarshals, T, q, data)
<1>1. Null \notin Floats /\ Floats \subseteq AllScalars /\ Floats \subseteq AnyFloats
  BY NullIsNoValue DEF Floats, AllScalars, AnyFloats
<1>2. Unmarshal(SM!unmarshals, T, InitValue(SM!inits, T), data) = y
  BY <1>1, StructArrives
<1>3. WellTyped(T, x, AnyFloats)
  BY <1>1, WiderFloats
<1>4. y # Null
  <2>1. IsRead(T, y)
    BY <1>3, SentTyped DEF AnyFloats
  <2> HIDE DEF y
  <2> QED BY <2>1, StructNotNull
<1>5. /\ Blocks(Pointers, T, q, y) \subseteq made
      /\ (T = "Book" => y.price # Null) => \A p \in made : p \in Blocks(Pointers, T, q, y) \/ EndsWith(p, "text")
      /\ T = "Book" => (y.price = Null <=> x.price = Null)
  BY <1>3, ReadBlocks
<1> HIDE DEF made, y, data
<1> QED BY <1>2, <1>4, <1>5 DEF made, data

\* A response is read without a fault.
LEMMA ReturnedFault == ASSUME IsMemory(c), NEW cut PROVE ReturnedBy(cut).m.fault = c.fault
<1> DEFINE lost == [c EXCEPT !.err = "errno"]
           told == [c EXCEPT !.err = resp.data]
           read == Alloc(c, {TypeName(n), Data(n)})
           r == ReturnedBy(cut)
<1>1. lost.fault = c.fault /\ told.fault = c.fault /\ read.fault = c.fault
  BY ErrFields, AllocFields
<1> HIDE DEF lost, told, read
<1>2. \E type, data, m : m \in {c, lost, told, read} /\ r = [type_name |-> type, data |-> data, m |-> m]
  BY DEF ReturnedBy, ReadResponse, lost, told, read
<1> HIDE DEF r
<1>3. r.m \in {c, lost, told, read}
  BY <1>2
<1> QED BY <1>1, <1>3 DEF r

\* The check of the type is the end of the process.
LEMMA OwesMistyped ==
  ASSUME CallRight, NEW cut \in Cuts, Return(cut), c' # StubEnds(n, call.stub, ReturnedBy(cut))
  PROVE  ClientOwns' /\ ClientFaults
<1> DEFINE f == call.stub
           h == Services[call.method]
           r == ReturnedBy(cut)
<1>1. /\ IsMemory(c) /\ c.fault = "none" /\ cpc' = "returned" /\ UNCHANGED <<call, n>>
      /\ c' \in StubOutcomes(n, f, r) /\ v' = ResultOf(f, r)
  BY DEF CallRight, Recorded, Return, ReturnedBy
<1>2. c' = Fault(r.m, VaList) /\ ~Failed(r.m) /\ ~Right(f, r) /\ r.type_name # Null
  BY <1>1 DEF StubOutcomes, Mistyped
<1>3. /\ Follows(c, r.m)
      /\ ~Failed(r.m) => \/ h.ret # "void" /\ r.type_name = h.ret /\ r.data = ResultData(h, ran[1].res)
                         \/ h.ret = "void" /\ r.type_name = Null
  BY ReturnRead
<1> HIDE DEF r, h, f
<1>4. IsMemory(r.m)
  BY <1>3 DEF Follows
<1>5. r.m.fault = "none"
  BY <1>1, ReturnedFault DEF r
<1>6. Fault(r.m, VaList).fault = VaList
  BY <1>4, <1>5, FaultFields
<1>7. VaList # "none"
  BY VaListIs
<1>8. f.ret # h.ret
  BY <1>2, <1>3 DEF Right
<1>9. ~Owes'
  BY <1>1, <1>2 DEF Owes, Nothing, ResultOf, f
<1>10. ClientOwns'
  BY <1>1, <1>2, <1>6, <1>7, <1>9 DEF ClientOwns, Ended
<1>11. ClientFaults
  BY <1>1, <1>2, <1>6, <1>8, VaListIs DEF ClientFaults, OtherResult, f, h
<1> QED BY <1>10, <1>11

LEMMA OwesReturn ==
  ASSUME CallRight, ClientOwns, SentWhole, NEW cut \in Cuts, Return(cut)
  PROVE  ClientOwns' /\ ClientFaults
<1>0. SUFFICES ASSUME c' = StubEnds(n, call.stub, ReturnedBy(cut)) PROVE ClientOwns' /\ ClientFaults
  BY OwesMistyped
<1> DEFINE f == call.stub
           h == Services[call.method]
           r == ReturnedBy(cut)
<1>1. /\ IsMemory(c) /\ c.fault = "none" /\ cpc = "sent" /\ cpc' = "returned" /\ UNCHANGED <<call, n>>
      /\ c' = StubEnds(n, f, r) /\ v' = ResultOf(f, r) /\ Underway
  BY <1>0 DEF CallRight, Recorded, Return, ReturnedBy
<1>2. /\ Follows(c, r.m) /\ IsCall(call)
      /\ ~Failed(r.m) =>
           /\ ran # <<>> /\ ResultRight(h.ret, ran[1].res) /\ (IsMessage(h.ret) => ran[1].res # Null)
           /\ \/ h.ret # "void" /\ r.type_name = h.ret /\ r.data = ResultData(h, ran[1].res)
              \/ h.ret = "void" /\ r.type_name = Null
  BY ReturnRead
<1>3. /\ resp.kind # "none" \/ NoAnswer
      /\ cut # "whole" => NoAnswer \/ (Losing /\ resp.kind # "unsent")
      /\ NoAnswer => cut = "head"
  BY DEF Return
<1>4. f.ret \in STRING /\ f.ret # Null
  BY <1>2, NullIsNoValue DEF IsCall
<1>5. \A p \in c.heap \ {<<"cli">>, <<"conn">>} : ClientLoses(p) \/ p \in Nodes(n, f)
  BY <1>1 DEF ClientOwns, Trees, Owes, Ended
<1>6. Failed(c) => resp.kind = "unsent"
  BY <1>1 DEF Underway
<1>7. resp.kind = "unsent" => r = [type_name |-> Null, data |-> Null, m |-> c] /\ Failed(c)
  BY <1>1 DEF ReturnedBy, Underway
\* nothing of what c' holds is new, and there is nothing to free
<1>8. ASSUME (c').heap \subseteq c.heap \ Nodes(n, f), ~Owes' PROVE ClientOwns'
  <2>1. Failed(c) => Failed(c')
    <3>1. Failed(c) => Failed(r.m)
      <4> HIDE DEF r
      <4> QED BY <1>6, <1>7
    <3> QED BY <1>1, <1>2, <3>1, StubEndsRight DEF Failed
  <2>2. ASSUME NEW p \in c'.heap \ {<<"cli">>, <<"conn">>} PROVE ClientLoses(p)'
    <3>1. ClientLoses(p)
      BY <1>5, <1>8
    <3> QED BY <2>1, <3>1 DEF ClientLoses, EndsWith
  <2> QED BY <1>8, <2>2 DEF ClientOwns
<1>9. v' = Nothing(f.ret) => ~Owes'
  BY <1>1 DEF Owes, Nothing
<1> HIDE DEF r, f, h
<1>10. ASSUME IsMemory(r.m), r.m.heap = c.heap, r.m.fault = "none", Failed(r.m) \/ r.type_name = Null, r.type_name = Null => r.data = Null
       PROVE  /\ ClientOwns'
              /\ c'.fault \in {"none", "strcmp of NULL", "free of a freed block"} /\ (Failed(r.m) => c'.fault # "strcmp of NULL")
              /\ r.type_name = Null /\ c'.fault # "none" => c'.fault = "strcmp of NULL" /\ ~Failed(r.m) /\ f.ret # "void"
              /\ c'.err = r.m.err
  <2> DEFINE ended == StubEnds(n, f, r)
  <2>1. /\ ended.heap \subseteq r.m.heap \ Nodes(n, f)
        /\ r.type_name = Null /\ ended.fault # "none" => ended.fault = "strcmp of NULL" /\ ~Failed(r.m) /\ f.ret # "void"
        /\ ended.fault \in {"none", "strcmp of NULL", "free of a freed block"} /\ (Failed(r.m) => ended.fault # "strcmp of NULL")
        /\ ended.err = r.m.err
        /\ ResultOf(f, r) = Nothing(f.ret)
    BY <1>4, <1>10, EndsWithout
  <2>2. c' = ended
    BY <1>1
  <2> HIDE DEF ended
  <2>3. ClientOwns'
    BY <1>1, <1>8, <1>9, <1>10, <2>1, <2>2
  <2> QED BY <2>1, <2>2, <2>3
<1>11. CASE resp.kind = "unsent"
  <2>1. r.m = c /\ r.type_name = Null /\ r.data = Null /\ Failed(r.m)
    BY <1>7, <1>11
  <2>2. ClientOwns' /\ c'.fault = "none"
    BY <1>1, <1>10, <2>1
  <2> QED BY <1>1, <2>2 DEF ClientFaults
<1>12. CASE resp.kind # "unsent"
  <2>1. r = ReadResponse(n, resp, cut, c) /\ ~Failed(c)
    BY <1>6, <1>12 DEF ReturnedBy, r
  <2>2. cut # "head" => resp.kind \in {"error", "nothing", "value"}
    BY <1>1, <1>3, <1>12 DEF Underway, NoAnswer
  <2>3. resp.kind = "error" => resp.data # NoError
    BY <1>1 DEF Underway
  <2>4. \/ /\ IsMemory(r.m) /\ r.m.heap = c.heap /\ r.m.fault = c.fault /\ r.type_name = Null /\ r.data = Null
           /\ Failed(r.m) \/ resp.kind = "nothing"
        \/ /\ IsMemory(r.m) /\ r.m.heap = c.heap /\ r.m.fault = c.fault /\ r.type_name # Null
           /\ cut \in {"type_name", "data"} /\ r.m.err = "errno" /\ resp.kind = "value"
        \/ /\ cut = "whole" /\ resp.kind = "value"
           /\ r = [type_name |-> resp.type, data |-> resp.data, m |-> Alloc(c, {TypeName(n), Data(n)})]
    BY <1>1, <2>1, <2>2, <2>3, ReadResponseIs
  <2>5. CASE IsMemory(r.m) /\ r.m.heap = c.heap /\ r.m.fault = c.fault /\ r.type_name = Null /\ r.data = Null
    <3>1. ClientOwns' /\ (c'.fault # "none" => c'.fault = "strcmp of NULL" /\ ~Failed(r.m) /\ f.ret # "void")
      BY <1>1, <1>10, <2>5
    <3>2. ~Failed(r.m) => h.ret = "void"
      <4> SUFFICES ASSUME ~Failed(r.m) PROVE h.ret = "void"
        OBVIOUS
      <4>1. call.method \in DOMAIN Services
        BY <1>2 DEF RanRight, CallRight
      <4>2. h.ret # Null
        BY <4>1, NamesAssumption, NullIsNoValue DEF h
      <4> QED BY <1>2, <2>5, <4>2
    <3> QED BY <1>1, <3>1, <3>2, VaListIs DEF ClientFaults, NoResult, f, h
  <2>6. CASE IsMemory(r.m) /\ r.m.heap = c.heap /\ r.m.fault = c.fault /\ r.type_name # Null
             /\ cut \in {"type_name", "data"} /\ r.m.err = "errno" /\ resp.kind = "value"
    <3>1. Failed(r.m)
      BY <2>6 DEF Failed, NoError
    <3>2. ClientOwns' /\ c'.fault \in {"none", "free of a freed block"}
      BY <1>1, <1>10, <2>6, <3>1
    <3>3. Return("type_name") \/ Return("data")
      BY <2>6
    <3> QED BY <1>1, <2>6, <3>2, <3>3, VaListIs DEF ClientFaults
  <2>7. CASE /\ cut = "whole" /\ resp.kind = "value"
             /\ r = [type_name |-> resp.type, data |-> resp.data, m |-> Alloc(c, {TypeName(n), Data(n)})]
    <3> DEFINE ended == StubEnds(n, f, r)
               made == {ResAt(n)} \cup InitBlocks(CM!inits, f.ret, ResAt(n)) \cup UnmarshalBlocks(CM!unmarshals, f.ret, ResAt(n), r.data)
    <3>1. resp.data # Null /\ ran # <<>> /\ call.method \in DOMAIN Services /\ resp = Response(h.ret, ResultData(h, ran[1].res))
          /\ (h.ret = "Book" => ran[1].res.price # Null)
      BY <1>1, <2>7 DEF SentWhole, Underway, CallRight, RanRight, h
    <3>2. resp.type = h.ret /\ resp.data = ResultData(h, ran[1].res) /\ h.ret # "void"
      <4> DEFINE data == ResultData(h, ran[1].res)
      <4> HIDE DEF data
      <4>1. resp = Response(h.ret, data)
        BY <3>1 DEF data
      <4> QED BY <2>7, <4>1 DEF Response, data
    <3>3. h.ret # Null
      BY <3>1, NamesAssumption, NullIsNoValue DEF h
    <3>4. /\ ended.fault = "none"
          /\ \A p \in ended.heap : \/ p \in c.heap
                                   \/ Right(f, r) /\ f.ret = "string" /\ p = Data(n)
                                   \/ Right(f, r) /\ IsMessage(f.ret) /\ p \in made
          /\ \A p \in ended.heap : p \notin Nodes(n, f)
          /\ Right(f, r) /\ f.ret = "string" => Data(n) \in ended.heap
          /\ Right(f, r) /\ IsMessage(f.ret) => \A p \in made : p[3] = "res" => p \in ended.heap
      <4>1. r.type_name = resp.type /\ r.data = resp.data /\ r.m = Alloc(c, {TypeName(n), Data(n)})
        BY <2>7
      <4>2. r.type_name # Null /\ r.data # Null
        BY <3>1, <3>2, <3>3, <4>1
      <4> QED BY <1>1, <1>4, <2>1, <4>1, <4>2, EndsWhole
    <3>5. c' = ended
      BY <1>1
    <3> HIDE DEF ended
    <3>6. ClientFaults
      BY <1>1, <3>4, <3>5 DEF ClientFaults
    <3>7. ASSUME NEW p \in c.heap \ {<<"cli">>, <<"conn">>}, p \notin Nodes(n, f) PROVE ClientLoses(p)'
      BY <1>5, <2>1, <3>7 DEF ClientLoses, EndsWith
    <3>8. CASE ~Right(f, r) \/ f.ret = "void" \/ IsNumber(f.ret)
      <4>1. f.ret \in {"void", "string"} \/ IsNumber(f.ret) => ~IsMessage(f.ret)
        BY NumbersNoMessages DEF IsNumber
      <4>2. IsNumber(f.ret) => f.ret # "string"
        BY DEF IsNumber
      <4>3. (c').heap \subseteq c.heap \ Nodes(n, f)
        BY <3>4, <3>5, <3>8, <4>1, <4>2
      <4>4. ~Owes'
        <5>1. CASE ~Right(f, r) \/ f.ret = "void"
          <6>1. v' = Nothing(f.ret)
            BY <1>1, <5>1 DEF ResultOf
          <6> QED BY <1>9, <6>1
        <5>2. CASE IsNumber(f.ret)
          BY <1>1, <5>2 DEF Owes, f
        <5> QED BY <3>8, <5>1, <5>2
      <4>5. ClientOwns'
        BY <1>8, <4>3, <4>4
      <4> QED BY <3>6, <4>5
    <3>9. CASE Right(f, r) /\ f.ret = "string"
      <4>1. ResultBlocks' = {Data(n)} /\ ~IsMessage(f.ret)
        BY <1>1, <3>9, NumbersNoMessages DEF ResultBlocks, f
      <4>2. v' = r.data /\ r.data # Null
        BY <1>1, <2>7, <3>1, <3>9, <4>1 DEF ResultOf
      <4>3. Owes'
        BY <1>1, <3>9, <4>2 DEF Owes, IsNumber, f
      <4>4. ASSUME NEW p \in c'.heap \ {<<"cli">>, <<"conn">>} PROVE ClientLoses(p)' \/ p \in ResultBlocks'
        BY <3>4, <3>5, <3>7, <4>1
      <4>5. ResultBlocks' \subseteq c'.heap
        BY <3>4, <3>5, <3>9, <4>1
      <4>6. ClientOwns'
        BY <1>1, <3>9, <4>3, <4>4, <4>5 DEF ClientOwns, f
      <4> QED BY <3>6, <4>6
    <3>10. CASE Right(f, r) /\ IsMessage(f.ret)
      <4>1. f.ret = h.ret /\ f.ret \in DOMAIN Structs /\ f.ret \notin {"void", "string"}
        BY <2>7, <3>2, <3>10, NumbersNoMessages DEF Right, IsMessage
      <4> DEFINE T == f.ret
                 x == ran[1].res
                 data == Tree(SM!marshals, T, Filled(SM!marshals, T, x))
                 y == Unmarshal(SM!unmarshals, T, InitValue(SM!inits, T), data)
                 new == InitBlocks(SM!inits, T, ResAt(n)) \cup UnmarshalBlocks(SM!unmarshals, T, ResAt(n), data)
                 held == Blocks(Pointers, T, ResAt(n), v')
      <4>2. x # Null /\ WellTyped(T, x, Floats) /\ ~Failed(r.m)
        BY <1>2, <3>10, <4>1 DEF ResultRight, Right
      <4>3. r.data = data
        BY <2>7, <3>2, <3>10, <4>1, <4>2 DEF ResultData, ResultFilled
      <4>4. made = {ResAt(n)} \cup new
        BY <4>3, TablesSame
      <4>5. v' = y
        BY <1>1, <3>10, <4>1, <4>3, TablesSame DEF ResultOf
      <4>6. At(ResAt(n), n, "res")
        BY PathsAt
      <4>7. T = "Book" => x.price # Null
        BY <3>1, <4>1
      <4>8. /\ y # Null /\ (T = "Book" => y.price # Null)
            /\ Blocks(Pointers, T, ResAt(n), y) \subseteq new
            /\ \A p \in new : p \in Blocks(Pointers, T, ResAt(n), y) \/ EndsWith(p, "text")
        BY <4>1, <4>2, <4>6, <4>7, StructRead
      <4> HIDE DEF new, y, made, x, data
      <4>9. /\ v' # Null /\ (T = "Book" => v'.price # Null) /\ held \subseteq new
            /\ \A p \in new : p \in held \/ EndsWith(p, "text")
        BY <4>5, <4>8
      <4>10. \A p \in held : p[3] = "res"
        BY <4>6, BlocksAt DEF At
      <4> HIDE DEF held
      <4>11. ResultBlocks' = {ResAt(n)} \cup held
        BY <1>1, <4>1 DEF ResultBlocks, held, f
      <4>12. Owes'
        BY <1>1, <3>10, <4>1, <4>9 DEF Owes, IsNumber, f
      <4>13. ASSUME NEW p \in c'.heap \ {<<"cli">>, <<"conn">>} PROVE ClientLoses(p)' \/ p \in ResultBlocks'
        <5>1. (p \in c.heap /\ p \notin Nodes(n, f)) \/ p \in made
          BY <3>4, <3>5, <4>1
        <5>2. CASE p \in c.heap /\ p \notin Nodes(n, f)
          BY <3>7, <5>2
        <5>3. CASE p \in made
          <6>1. p \in ResultBlocks' \/ EndsWith(p, "text")
            BY <4>4, <4>9, <4>11, <5>3
          <6> QED BY <6>1 DEF ClientLoses, EndsWith
        <5> QED BY <5>1, <5>2, <5>3
      <4>14. ResultBlocks' \subseteq c'.heap
        <5>1. \A p \in ResultBlocks' : p \in made /\ p[3] = "res"
          BY <4>4, <4>6, <4>9, <4>10, <4>11 DEF At
        <5> QED BY <3>4, <3>5, <3>10, <5>1
      <4>15. call'.stub.ret = T
        BY <1>1 DEF f
      <4>16. ClientOwns'
        BY <4>1, <4>9, <4>12, <4>13, <4>14, <4>15 DEF ClientOwns
      <4> QED BY <3>6, <4>16
    <3>11. IsMessage(f.ret) \/ f.ret = "string" \/ f.ret = "void" \/ IsNumber(f.ret)
      BY DEF IsNumber
    <3> QED BY <3>8, <3>9, <3>10, <3>11
  <2> QED BY <2>4, <2>5, <2>6, <2>7
<1> QED BY <1>11, <1>12

\* T_delete, and free of a string
LEMMA DestroyIs ==
  ASSUME NEW T \in DOMAIN Structs, NEW p, NEW x, x # Null, T = "Book" => x.price # Null, NEW m, IsMemory(m),
         Blocks(Pointers, T, p, x) \subseteq m.heap
  PROVE  /\ Destroy(CM!destroys, T, p, x, m) = FreeAll(m, Blocks(Pointers, T, p, x))
         /\ Destroy(SM!destroys, T, p, x, m) = FreeAll(m, Blocks(Pointers, T, p, x))
<1>1. ~ReadsNull(SM!destroys, T, x)
  <2> SUFFICES ASSUME NEW f \in SM!destroys[T], IsMessage(Kind(T, f)), x[f] = Null PROVE FALSE
    BY DEF ReadsNull
  <2>1. f \in Fields(T)
    BY TablesComplete DEF Complete, Pointers
  <2>2. f = "price" /\ T = "Book"
    BY <2>1, KindsOfFields, StructKinds
  <2> QED BY <2>2
<1>2. Destroyed(SM!destroys, T, p, x) = Blocks(Pointers, T, p, x)
  BY DestroysAll DEF Destroyed
<1> QED BY <1>1, <1>2, TablesSame DEF Destroy, FaultIf

LEMMA OwesDelete == ASSUME CallRight, ClientOwns, Delete PROVE ClientOwns' /\ ClientFaults
<1> DEFINE f == call.stub
<1>1. /\ IsMemory(c) /\ c.fault = "none" /\ cpc = "returned" /\ cpc' = "idle" /\ c' = DeleteResult(n, f, v, c)
  BY DEF CallRight, Recorded, Delete
<1>2. ~Owes' /\ Trees = {}
  BY <1>1 DEF Owes, Trees
<1>3. Failed(c) <=> Failed(c')
  BY <1>1, DeleteFollows
<1>4. \A p : ClientLoses(p) => ClientLoses(p)'
  BY <1>3 DEF ClientLoses, EndsWith
<1>5. CASE ~Owes
  <2>1. c' = c
    BY <1>1, <1>5 DEF DeleteResult, Owes
  <2>2. \A p \in c'.heap \ {<<"cli">>, <<"conn">>} : ClientLoses(p)'
    BY <1>1, <1>2, <1>4, <1>5, <2>1 DEF ClientOwns, Ended
  <2> QED BY <1>2, <2>1, <2>2 DEF ClientOwns, ClientFaults
<1>6. ASSUME Owes, (c').heap = c.heap \ ResultBlocks, (c').fault = "none" PROVE ClientOwns' /\ ClientFaults
  <2>1. \A p \in c'.heap \ {<<"cli">>, <<"conn">>} : ClientLoses(p)'
    BY <1>1, <1>2, <1>4, <1>6 DEF ClientOwns, Ended
  <2> QED BY <1>1, <1>2, <1>6, <2>1 DEF ClientOwns, ClientFaults
<1>7. CASE Owes
  <2>1. v # Null /\ ~IsNumber(f.ret) /\ f.ret \in DOMAIN Structs \cup {"string"}
    BY <1>7 DEF Owes, ClientOwns
  <2>2. ResultBlocks \subseteq c.heap /\ (f.ret = "Book" => v.price # Null)
    BY <1>1, <1>7 DEF ClientOwns
  <2>3. CASE f.ret = "string"
    <3>1. c' = FreeAll(c, {Data(n)}) /\ ResultBlocks = {Data(n)}
      BY <1>1, <2>1, <2>3 DEF DeleteResult, ResultBlocks
    <3>2. c'.heap = c.heap \ ResultBlocks /\ c'.fault = "none"
      <4>1. /\ FreeAll(c, {Data(n)}).heap = c.heap \ {Data(n)}
            /\ FreeAll(c, {Data(n)}).fault = IF c.fault = "none" /\ ~({Data(n)} \subseteq c.heap) THEN "free of a freed block" ELSE c.fault
        BY <1>1, FreeAllFields
      <4> QED BY <1>1, <2>2, <3>1, <4>1
    <3> QED BY <1>6, <1>7, <3>2
  <2>4. CASE f.ret \in DOMAIN Structs
    <3> DEFINE held == Blocks(Pointers, f.ret, ResAt(n), v)
               less == FreeAll(c, held)
    <3>1. f.ret # "string"
      BY <2>4, StructKinds
    <3>2. ResultBlocks = {ResAt(n)} \cup held
      BY <3>1 DEF ResultBlocks
    <3>3. Destroy(CM!destroys, f.ret, ResAt(n), v, c) = less
      BY <1>1, <2>1, <2>2, <2>4, <3>2, DestroyIs
    <3>4. c' = FreeAll(less, {ResAt(n)})
      BY <1>1, <2>1, <3>1, <3>3 DEF DeleteResult
    <3>5. ResAt(n) \notin held
      <4>1. At(ResAt(n), n, "res")
        BY PathsAt
      <4> QED BY <4>1, BlocksAt
    <3> HIDE DEF held
    <3>6. IsMemory(less) /\ less.heap = c.heap \ held /\ less.fault = "none"
      BY <1>1, <2>2, <3>2, FreeAllIs, FreeAllFields
    <3> HIDE DEF less
    <3>7. /\ FreeAll(less, {ResAt(n)}).heap = less.heap \ {ResAt(n)}
          /\ FreeAll(less, {ResAt(n)}).fault = IF less.fault = "none" /\ ~({ResAt(n)} \subseteq less.heap) THEN "free of a freed block" ELSE less.fault
      BY <3>6, FreeAllFields, ZenonT(60)
    <3>8. {ResAt(n)} \subseteq less.heap
      BY <2>2, <3>2, <3>5, <3>6
    <3>9. c'.heap = c.heap \ ResultBlocks /\ c'.fault = "none"
      BY <3>2, <3>4, <3>6, <3>7, <3>8
    <3> QED BY <1>6, <1>7, <3>9
  <2> QED BY <2>1, <2>3, <2>4
<1> QED BY <1>5, <1>7

\* client_dial and client_destroy make and release the client itself.
LEMMA OwesOutside ==
  ASSUME ClientOwns, cpc \notin {"sent", "returned"}, cpc' \notin {"sent", "returned"}, (c').err = c.err,
         (c').heap \subseteq c.heap \cup {<<"cli">>, <<"conn">>}
  PROVE  ClientOwns'
<1>1. ~Owes /\ ~Owes' /\ Trees = {} /\ ~Ended
  BY DEF Owes, Trees, Ended
<1>2. \A p : ClientLoses(p) => ClientLoses(p)'
  BY DEF ClientLoses, EndsWith, Failed
<1>3. \A p \in c'.heap \ {<<"cli">>, <<"conn">>} : ClientLoses(p)'
  BY <1>1, <1>2 DEF ClientOwns
<1> QED BY <1>1, <1>3 DEF ClientOwns

LEMMA OwesDial ==
  ASSUME CallRight, ClientOwns, NEW addr, NEW fresh, NEW fails, client_dial(addr, fresh, fails)
  PROVE  ClientOwns' /\ ClientFaults
<1>1. IsMemory(c) /\ c.fault = "none" /\ cpc \notin {"sent", "returned"} /\ cpc' \notin {"sent", "returned"}
  BY DEF client_dial, CallRight, Recorded
<1>2. \/ c' = Alloc(c, {<<"cli">>, <<"conn">>})
      \/ /\ \E more \in {{}, {<<"conn">>}} : c' \in Addressed(addr, [c EXCEPT !.heap = (@ \cup {<<"cli">>} \cup more) \ DialBad])
         /\ cpc' = "undialled"
  BY DEF client_dial
<1>3. CASE c' = Alloc(c, {<<"cli">>, <<"conn">>})
  <2>1. c'.heap = c.heap \cup {<<"cli">>, <<"conn">>} /\ c'.fault = c.fault /\ c'.err = c.err
    BY <1>1, <1>3, AllocFields
  <2> QED BY <1>1, <2>1, OwesOutside DEF ClientFaults
<1>4. ASSUME NEW more \in {{}, {<<"conn">>}}, cpc' = "undialled",
             c' \in Addressed(addr, [c EXCEPT !.heap = (@ \cup {<<"cli">>} \cup more) \ DialBad])
      PROVE  ClientOwns' /\ ClientFaults
  <2> DEFINE w == [c EXCEPT !.heap = (@ \cup {<<"cli">>} \cup more) \ DialBad]
             heap == (c.heap \cup {<<"cli">>} \cup more) \ DialBad
  <2> HIDE DEF heap
  <2>1. w = [heap |-> heap, fault |-> c.fault, err |-> c.err]
    BY <1>1 DEF IsMemory, heap
  <2>2. c' \in {w, Fault(w, VaList)}
    BY <1>4 DEF Addressed
  <2> HIDE DEF w
  <2>3. IsMemory(w) /\ w.heap = heap /\ w.fault = c.fault /\ w.err = c.err
    BY <2>1 DEF IsMemory
  <2>4. c'.heap = heap /\ c'.fault \in {c.fault, VaList} /\ c'.err = c.err
    BY <1>1, <2>2, <2>3, FaultFields
  <2>5. heap \subseteq c.heap \cup {<<"cli">>, <<"conn">>}
    BY <1>4 DEF heap
  <2> QED BY <1>1, <1>4, <2>4, <2>5, OwesOutside, VaListIs DEF ClientFaults
<1> QED BY <1>2, <1>3, <1>4

LEMMA OwesDestroy == ASSUME CallRight, ClientOwns, client_destroy PROVE ClientOwns' /\ ClientFaults
<1>1. IsMemory(c) /\ cpc = "idle" /\ cpc' = "destroyed" /\ c' = [c EXCEPT !.heap = @ \ {<<"cli">>, <<"conn">>}]
  BY DEF client_destroy, CallRight, Recorded
<1>2. ASSUME NEW m, IsMemory(m), NEW blocks
      PROVE  [m EXCEPT !.heap = @ \ blocks].heap = m.heap \ blocks /\ [m EXCEPT !.heap = @ \ blocks].fault = m.fault
             /\ [m EXCEPT !.heap = @ \ blocks].err = m.err
  <2>1. [m EXCEPT !.heap = @ \ blocks] = [heap |-> m.heap \ blocks, fault |-> m.fault, err |-> m.err]
    BY <1>2, LessIs
  <2> DEFINE w == [m EXCEPT !.heap = @ \ blocks]
  <2> HIDE DEF w
  <2>2. w = [heap |-> m.heap \ blocks, fault |-> m.fault, err |-> m.err]
    BY <2>1 DEF w
  <2> QED BY <2>2 DEF w
<1>3. c'.heap = c.heap \ {<<"cli">>, <<"conn">>} /\ c'.fault = c.fault /\ c'.err = c.err
  BY <1>1, <1>2
<1>4. cpc \notin {"sent", "returned"} /\ cpc' \notin {"sent", "returned"}
  BY <1>1
<1> QED BY <1>3, <1>4, OwesOutside DEF ClientFaults

-----------------------------------------------------------------------------
(* The blocks of the server *)

\* The memory of a server while a handler runs: what is in held is still to be freed.
Held(m, held, st, bound) ==
  /\ IsMemory(m) /\ m.fault = "none" /\ held \subseteq m.heap
  /\ \A p \in m.heap : p[1] = "call" => ServerLoses(p) \/ InStore(p, st) \/ p \in held
  /\ Stored(st, m.heap, bound) /\ Apart(st)

LEMMA StoreAt ==
  ASSUME NEW st, NEW heap, NEW bound, Stored(st, heap, bound), NEW name \in DOMAIN st
  PROVE  \E k \in Nat : /\ st[name].at = MapAt(k) /\ k <= bound
                        /\ \A p \in BookAt(st[name]) : At(p, k, "map")
<1>1. PICK k \in Nat : st[name].at = MapAt(k) /\ k <= bound
  BY DEF Stored
<1>2. At(MapAt(k), k, "map")
  BY PathsAt
<1>3. \A p \in BookAt(st[name]) : At(p, k, "map")
  BY <1>1, <1>2, BlocksAt DEF BookAt
<1> QED BY <1>1, <1>3

LEMMA HeldMore ==
  ASSUME NEW m, NEW held, NEW st, NEW bound, Held(m, held, st, bound), NEW blocks
  PROVE  /\ Held(Alloc(m, blocks), held \cup blocks, st, bound)
         /\ (\A p \in blocks : ServerLoses(p)) => Held(Alloc(m, blocks), held, st, bound)
<1> DEFINE w == Alloc(m, blocks)
<1>1. IsMemory(m)
  BY DEF Held
<1>2. IsMemory(w) /\ w.heap = m.heap \cup blocks /\ w.fault = m.fault
  BY <1>1, AllocIs, AllocFields
<1> HIDE DEF w
<1>3. Stored(st, w.heap, bound)
  BY <1>2 DEF Held, Stored
<1> QED BY <1>2, <1>3 DEF Held, w

LEMMA HeldFree ==
  ASSUME NEW m, NEW held, NEW st, NEW bound, Held(m, held, st, bound), \A p \in held : p[3] # "map",
         NEW blocks \in SUBSET held
  PROVE  Held(FreeAll(m, blocks), held \ blocks, st, bound)
<1> DEFINE w == FreeAll(m, blocks)
<1>1. IsMemory(m) /\ m.fault = "none" /\ blocks \subseteq m.heap
  BY DEF Held
<1>2. /\ IsMemory(w) /\ w.heap = m.heap \ blocks
      /\ w.fault = IF m.fault = "none" /\ ~(blocks \subseteq m.heap) THEN "free of a freed block" ELSE m.fault
  BY <1>1, FreeAllIs, FreeAllFields
<1> HIDE DEF w
<1>3. ASSUME NEW name \in DOMAIN st PROVE BookAt(st[name]) \cap blocks = {}
  BY StoreAt DEF Held, At
<1>4. Stored(st, w.heap, bound)
  BY <1>2, <1>3 DEF Held, Stored
<1> QED BY <1>1, <1>2, <1>4 DEF Held, w

LEMMA HeldErr ==
  ASSUME NEW m, NEW held, NEW st, NEW bound, Held(m, held, st, bound), NEW err
  PROVE  Held([m EXCEPT !.err = err], held, st, bound)
<1> DEFINE w == [m EXCEPT !.err = err]
<1>1. IsMemory(m)
  BY DEF Held
<1>2. IsMemory(w) /\ w.heap = m.heap /\ w.fault = m.fault
  BY <1>1, ErrIs, ErrFields
<1> HIDE DEF w
<1> QED BY <1>2 DEF Held, w

LEMMA HeldLater ==
  ASSUME NEW m, NEW held, NEW st, NEW bound \in Int, Held(m, held, st, bound), NEW later \in Int, bound <= later
  PROVE  Held(m, held, st, later)
<1>1. Stored(st, m.heap, later)
  <2> SUFFICES ASSUME NEW name \in DOMAIN st PROVE \E k \in Nat : st[name].at = MapAt(k) /\ k <= later
    BY DEF Held, Stored
  <2>1. PICK k \in Nat : st[name].at = MapAt(k) /\ k <= bound
    BY DEF Held, Stored
  <2> QED BY <2>1
<1> QED BY <1>1 DEF Held

LEMMA BookIs ==
  ASSUME NEW entry, entry.book.price # Null
  PROVE  BookAt(entry) = {entry.at} \cup PriceBlocks(entry.at, entry.book.price)
                         \cup (IF entry.book.name = Null THEN {} ELSE {Append(entry.at, "name")})
<1> DEFINE at == entry.at
           book == entry.book
<1>1. Pointers["Book"] = {"price", "name"}
  BY TablesComplete, StructKinds DEF Complete
<1>2. Inner(Pointers, "Book", book) = {"price"}
  BY <1>1, StructKinds, NumbersNoMessages DEF Inner, IsMessage
<1>3. UNION {Parts(Pointers, Kind("Book", f), Append(at, f), book[f]) : f \in Inner(Pointers, "Book", book)}
        = Parts(Pointers, "Price", Append(at, "price"), book.price)
  BY <1>2, StructKinds
<1>4. Parts(Pointers, "Book", at, book)
        = {Append(at, "price")} \cup (IF book.name = Null THEN {} ELSE {Append(at, "name")})
  BY <1>1 DEF Parts
<1> QED BY <1>3, <1>4 DEF BookAt, Blocks, PriceBlocks

LEMMA PriceIs ==
  ASSUME NEW q, NEW price
  PROVE  Blocks(Pointers, "Price", q, price) = Parts(Pointers, "Price", q, price)
<1>1. Pointers["Price"] = {"unit"}
  BY TablesComplete, StructKinds DEF Complete
<1>2. Inner(Pointers, "Price", price) = {}
  BY <1>1, StructKinds, NumbersNoMessages DEF Inner
<1> QED BY <1>2 DEF Blocks

\* T_marshal of a result: the strings that it fills in come in blocks that are new.
LEMMA FilledBlocks ==
  ASSUME NEW T \in DOMAIN Structs, NEW x, x # Null, WellTyped(T, x, Floats), NEW q
  PROVE  LET y == Filled(SM!marshals, T, x) IN
         /\ y # Null /\ Tree(SM!marshals, T, y) # Null
         /\ Blocks(Pointers, T, q, x) \subseteq Blocks(Pointers, T, q, y)
         /\ T = "Book" => (y.price = Null <=> x.price = Null)
<1> DEFINE y == Filled(SM!marshals, T, x)
           tree == Tree(SM!marshals, T, y)
           Nested == AllScalars \cup [Fields("Price") -> AllScalars]
<1>1. Null \notin Floats /\ Floats \subseteq AllScalars
  BY NullIsNoValue DEF Floats, AllScalars
<1>2. "Price" \in DOMAIN Structs /\ \A f \in Fields("Price") : ~IsMessage(Kind("Price", f))
  BY StructKinds, NumbersNoMessages
<1>3. ASSUME NEW price, price # Null, ScalarsRight("Price", price, Floats)
      PROVE  /\ FilledFlat(SM!marshals, "Price", price) \in [Fields("Price") -> AllScalars]
             /\ TreeFlat(SM!marshals, "Price", FilledFlat(SM!marshals, "Price", price)) \in [Fields("Price") -> AllScalars]
             /\ \A g \in Fields("Price") : price[g] # Null => FilledFlat(SM!marshals, "Price", price)[g] # Null
             /\ FilledFlat(SM!marshals, "Price", price) # Null
  <2> DEFINE filled == FilledFlat(SM!marshals, "Price", price)
             flat == TreeFlat(SM!marshals, "Price", filled)
  <2>1. \A f \in Fields("Price") : f \in SM!marshals["Price"] /\ price[f] \in AllScalars
    BY <1>1, <1>2, <1>3, TablesComplete, ScalarsAll DEF Complete, ScalarsRight
  <2>2. \A f \in Fields("Price") : filled[f] = IF price[f] = Null THEN IF Kind("Price", f) = "string" THEN Blank ELSE Null ELSE price[f]
    BY <1>2, <2>1 DEF FilledFlat, FilledBy
  <2>3. filled = [f \in Fields("Price") |-> filled[f]]
    BY DEF FilledFlat, FilledBy
  <2>4. \A f \in Fields("Price") : filled[f] \in AllScalars
    BY <2>1, <2>2 DEF AllScalars, Texts
  <2>5. \A f \in Fields("Price") : flat[f] \in AllScalars
    BY <1>2, <2>1, <2>4 DEF TreeFlat, TreeBy, AllScalars, Texts, Printed
  <2>6. flat = [f \in Fields("Price") |-> flat[f]]
    BY DEF TreeFlat, TreeBy
  <2> HIDE DEF filled, flat
  <2>7. filled # Null
    BY <1>2, <2>3, <2>4, FlatNotNull
  <2> QED BY <2>2, <2>3, <2>4, <2>5, <2>6, <2>7 DEF filled, flat
<1>4. ASSUME NEW f \in Fields(T)
      PROVE  /\ y[f] \in Nested /\ tree[f] \in Nested /\ (x[f] # Null => y[f] # Null)
             /\ Kind(T, f) = "Price" => (y[f] # Null <=> x[f] # Null)
             /\ Kind(T, f) = "Price" /\ x[f] # Null =>
                  \A q1 : Parts(Pointers, "Price", q1, x[f]) \subseteq Parts(Pointers, "Price", q1, y[f])
  <2>1. f \in SM!marshals[T] /\ (IsMessage(Kind(T, f)) <=> Kind(T, f) = "Price")
    BY TablesComplete, KindsOfFields DEF Complete
  <2>2. y[f] = IF x[f] = Null THEN IF Kind(T, f) = "string" THEN Blank ELSE Null
               ELSE IF Kind(T, f) = "Price" THEN FilledFlat(SM!marshals, "Price", x[f]) ELSE x[f]
    BY <2>1 DEF Filled, FilledBy
  <2>3. tree[f] = IF y[f] = Null THEN Null
                  ELSE IF Kind(T, f) = "Price" THEN TreeFlat(SM!marshals, "Price", y[f]) ELSE Printed(Kind(T, f), y[f])
    BY <2>1 DEF Tree, TreeBy
  <2>4. CASE Kind(T, f) # "Price"
    <3>1. x[f] \in AllScalars
      BY <1>1, <2>1, <2>4, ScalarsAll DEF WellTyped, ScalarsRight
    <3>2. y[f] \in AllScalars
      BY <2>2, <2>4, <3>1 DEF AllScalars, Texts
    <3>3. tree[f] \in AllScalars
      <4>1. tree[f] = Null \/ tree[f] = y[f]
        BY <2>3, <2>4 DEF Printed
      <4>2. Null \in AllScalars
        BY DEF AllScalars
      <4> HIDE DEF tree, y
      <4> QED BY <3>2, <4>1, <4>2
    <3> QED BY <2>2, <2>4, <3>2, <3>3
  <2>5. CASE Kind(T, f) = "Price" /\ x[f] = Null
    BY <2>2, <2>3, <2>5 DEF AllScalars
  <2>6. CASE Kind(T, f) = "Price" /\ x[f] # Null
    <3> DEFINE price == x[f]
    <3>1. ScalarsRight("Price", price, Floats)
      BY <2>1, <2>6 DEF WellTyped
    <3>2. y[f] = FilledFlat(SM!marshals, "Price", price)
      BY <2>2, <2>6
    <3>3. Pointers["Price"] \subseteq Fields("Price")
      BY <1>2 DEF Pointers
    <3>4. y[f] # Null /\ \A g \in Fields("Price") : price[g] # Null => y[f][g] # Null
      BY <1>3, <2>6, <3>1, <3>2
    <3>5. tree[f] = TreeFlat(SM!marshals, "Price", y[f])
      BY <2>3, <2>6, <3>4
    <3>6. y[f] \in Nested /\ tree[f] \in Nested
      BY <1>3, <2>6, <3>1, <3>2, <3>5
    <3>7. \A q1 : Parts(Pointers, "Price", q1, x[f]) \subseteq Parts(Pointers, "Price", q1, y[f])
      BY <3>3, <3>4 DEF Parts
    <3> QED BY <2>6, <3>4, <3>6, <3>7
  <2> QED BY <2>4, <2>5, <2>6
<1>5. y = [f \in Fields(T) |-> y[f]] /\ tree = [f \in Fields(T) |-> tree[f]]
  BY DEF Filled, FilledBy, Tree, TreeBy
<1> HIDE DEF y, tree
<1>6. y \in [Fields(T) -> Nested] /\ tree \in [Fields(T) -> Nested]
  BY <1>4, <1>5
<1>7. y # Null /\ tree # Null
  BY <1>6, NullAssumption
<1>8. \A p : Parts(Pointers, T, p, x) \subseteq Parts(Pointers, T, p, y)
  BY <1>4 DEF Parts, Pointers
<1>9. ASSUME NEW f \in Inner(Pointers, T, x)
      PROVE  f \in Inner(Pointers, T, y) /\ Parts(Pointers, Kind(T, f), Append(q, f), x[f]) \subseteq Parts(Pointers, Kind(T, f), Append(q, f), y[f])
  <2>1. f \in Fields(T) /\ f \in Pointers[T] /\ IsMessage(Kind(T, f)) /\ x[f] # Null
    BY DEF Inner, Pointers
  <2>2. Kind(T, f) = "Price"
    BY <2>1, KindsOfFields
  <2> QED BY <1>4, <2>1, <2>2 DEF Inner
<1>10. Blocks(Pointers, T, q, x) \subseteq Blocks(Pointers, T, q, y)
  BY <1>8, <1>9 DEF Blocks
<1>11. T = "Book" => (y.price = Null <=> x.price = Null)
  BY <1>4, StructKinds
<1> QED BY <1>7, <1>10, <1>11 DEF y, tree

\* The blocks of the result res of the application
ResultAt(id, ret, res) ==
  IF IsNumber(ret) \/ ret = "void" \/ res = Null THEN {}
  ELSE {ResAt(id)} \cup (IF IsMessage(ret) THEN Blocks(Pointers, ret, ResAt(id), res) ELSE {})

\* Why a function of the examples is the end of the server
NullString(method, vals) == \E i \in DOMAIN Services[method].params : Services[method].params[i] = "string" /\ vals[i] = Null
Priceless(method, vals) == \E i \in DOMAIN Services[method].params : Services[method].params[i] = "Book" /\ vals[i].price = Null
Crashes(method, vals, st, what) ==
  \/ what = "strlen of NULL" /\ method \in {"toupper", "tolower", "concat"} /\ NullString(method, vals)
  \/ what = "sscanf of NULL" /\ method = "atoi" /\ NullString(method, vals)
  \/ what = "hash of NULL" /\ method \in {"getBook", "updateBookPrice"} /\ NullString(method, vals)
  \/ what = "division by zero" /\ method = "Divide" /\ vals[2] = 0
  \/ what = "read past a block" /\ method = "concat" /\ ~NullString(method, vals)
  \/ what = VaList /\ method = "getBook" /\ ~NullString(method, vals) /\ vals[1] \notin DOMAIN st
  \/ what = "read of a NULL struct" /\ Priceless(method, vals)

\* What a function of the examples comes to: a crash for one of these reasons, or a result in
\* blocks of its own, and NULL only with an error.
Owns(method, vals, held, st, id, o) ==
  LET ret == Services[method].ret IN
  /\ o.m.fault # "none" => Crashes(method, vals, st, o.m.fault)
  /\ o.m.fault = "none" /\ ~Priceless(method, vals) /\ (\A p \in held : p[3] = "arg") =>
       Held(o.m, held \cup ResultAt(id, ret, o.res), o.store, id)
  /\ ret \notin {"string", "void"} /\ o.m.fault = "none" /\ ~Failed(o.m) => o.res # Null
  /\ ret = "Book" /\ o.m.fault = "none" /\ o.res # Null => o.res.price # Null

LEMMA OutOwns ==
  ASSUME NEW id \in Nat, NEW held, NEW st, NEW m, NEW last \in Int, last < id, Held(m, held, st, last), NEW res, NEW ret,
         NEW o \in Out(res, Alloc(m, ResultAt(id, ret, res)), st)
  PROVE  o.m.fault = "none" /\ Held(o.m, held \cup ResultAt(id, ret, o.res), o.store, id) /\ o.res = res
<1>1. Held(m, held, st, id)
  BY HeldLater
<1>2. Held(Alloc(m, ResultAt(id, ret, res)), held \cup ResultAt(id, ret, res), st, id)
  BY <1>1, HeldMore
<1>3. o.res = res /\ o.m = Alloc(m, ResultAt(id, ret, res)) /\ o.store = st
  BY DEF Out
<1> QED BY <1>2, <1>3 DEF Held

LEMMA PlainOwns ==
  ASSUME NEW id \in Nat, NEW held, NEW st, NEW m, NEW last \in Int, last < id, Held(m, held, st, last), NEW res, NEW ret,
         ResultAt(id, ret, res) = {}, NEW o \in Out(res, m, st)
  PROVE  o.m.fault = "none" /\ Held(o.m, held \cup ResultAt(id, ret, o.res), o.store, id) /\ o.res = res
<1>1. Held(m, held, st, id)
  BY HeldLater
<1>2. o.res = res /\ o.m = m /\ o.store = st /\ held \cup ResultAt(id, ret, res) = held
  BY DEF Out
<1> QED BY <1>1, <1>2 DEF Held

LEMMA CrashOwns ==
  ASSUME NEW m, IsMemory(m), m.fault = "none", NEW what, what # "none", NEW st, NEW o \in Crash(m, what, st)
  PROVE  o.m.fault = what
<1>1. o.m = Fault(m, what)
  BY DEF Crash, Out
<1> QED BY <1>1, FaultFields

LEMMA MathOwns ==
  ASSUME NEW method \in {"Add", "Sub", "Multiply", "Divide"}, NEW vals, ReadRight(Services[method], vals),
         NEW id \in Nat, NEW m, NEW held, NEW st, NEW last \in Int, last < id, Held(m, held, st, last), NEW o \in App(method, vals, id, m, st)
  PROVE  Owns(method, vals, held, st, id, o)
<1>1. \A ret \in {"uint32", "int32"} : \A res : ResultAt(id, ret, res) = {}
  BY NumbersNoMessages DEF ResultAt, IsNumber
<1>2. CASE method \in {"Add", "Sub", "Multiply"}
  <2>1. Services[method].ret \in {"uint32", "int32"}
    BY <1>2, ServiceRows
  <2>2. PICK res : o \in Out(res, m, st) /\ res # Null
    <3>1. CASE method = "Add"
      <4>1. vals[1] \in Nat /\ vals[2] \in Nat
        BY <3>1, ServiceRows, NumbersNoMessages DEF ReadRight, Scalars
      <4>2. (vals[1] + vals[2]) % U32 \in Int
        BY <4>1 DEF U32
      <4> QED BY <3>1, <4>2, NullIsNoValue DEF App, Math_Add
    <3>2. CASE method = "Sub"
      <4>1. vals[1] \in Int /\ vals[2] \in Int
        BY <3>2, ServiceRows, NumbersNoMessages DEF ReadRight, Scalars
      <4>2. Wrap(vals[1] - vals[2]) \in Int
        BY <4>1 DEF U32, Wrap
      <4> QED BY <3>2, <4>2, NullIsNoValue DEF App, Math_Sub
    <3>3. CASE method = "Multiply"
      <4> DEFINE x == vals[1]
                 res == IF Junk \in {x.A, x.B} THEN Junk ELSE Wrap(x.A * x.B)
      <4>1. IsRead("TwoNum", x)
        BY <3>3, ServiceRows, StructKinds DEF ReadRight, IsMessage
      <4>2. x.A \in Int /\ x.B \in Int
        BY <4>1, StructKinds, NumbersNoMessages DEF IsRead, WellTyped, ScalarsRight, Scalars
      <4>3. Wrap(x.A * x.B) \in Int
        <5>1. x.A * x.B \in Int
          BY <4>2
        <5> HIDE DEF x
        <5> QED BY <5>1 DEF U32, Wrap
      <4>4. res # Null
        BY <4>3, NullIsNoValue
      <4>5. o \in Out(res, m, st)
        BY <3>3 DEF App, Math_Multiply
      <4> QED BY <4>4, <4>5
    <3> QED BY <1>2, <3>1, <3>2, <3>3
  <2> QED BY <1>1, <2>1, <2>2, PlainOwns DEF Owns
<1>3. CASE method = "Divide"
  <2>1. Services[method] = [params |-> <<"uint64", "uint64">>, ret |-> "Quotient"]
    BY <1>3, ServiceRows
  <2>2. vals[1] \in Nat /\ vals[2] \in Nat
    BY <2>1, NumbersNoMessages DEF ReadRight, Scalars
  <2>3. CASE vals[2] = 0
    <3>1. o \in Crash(m, "division by zero", st)
      BY <1>3, <2>3 DEF App, Math_Divide
    <3>2. o.m.fault = "division by zero"
      BY <3>1, CrashOwns DEF Held
    <3> QED BY <1>3, <2>1, <2>3, <3>2 DEF Owns, Crashes
  <2>4. CASE vals[2] # 0
    <3> DEFINE q == [Quo |-> vals[1] \div vals[2], Rem |-> vals[1] % vals[2]]
    <3>1. q.Quo \in Nat /\ q.Rem \in Nat
      BY <2>2, <2>4
    <3>2. q = [f \in Fields("Quotient") |-> q[f]]
      BY StructKinds
    <3>3. o \in Out(q, Alloc(m, {ResAt(id)}), st)
      BY <1>3, <2>4 DEF App, Math_Divide
    <3> HIDE DEF q
    <3>4. q # Null
      <4>1. \A f \in Fields("Quotient") : q[f] \in AllScalars
        BY <3>1, StructKinds DEF AllScalars
      <4> QED BY <3>2, <4>1, FlatNotNull, StructKinds
    <3>5. Blocks(Pointers, "Quotient", ResAt(id), q) = {}
      <4>1. Pointers["Quotient"] = {}
        BY StructKinds, TablesComplete DEF Complete
      <4> QED BY <4>1 DEF Blocks, Parts, Inner
    <3>6. IsMessage("Quotient") /\ ~IsNumber("Quotient")
      BY StructKinds DEF IsMessage, IsNumber
    <3>7. ResultAt(id, "Quotient", q) = {ResAt(id)}
      BY <3>4, <3>5, <3>6 DEF ResultAt
    <3> DEFINE ret == Services[method].ret
    <3>8. ret = "Quotient"
      BY <2>1
    <3> HIDE DEF ret
    <3>9. o \in Out(q, Alloc(m, ResultAt(id, ret, q)), st)
      BY <3>3, <3>7, <3>8
    <3>10. o.m.fault = "none" /\ Held(o.m, held \cup ResultAt(id, ret, o.res), o.store, id) /\ o.res = q
      BY <3>9, OutOwns
    <3> QED BY <3>4, <3>8, <3>10 DEF Owns, ret
  <2> QED BY <2>3, <2>4
<1> QED BY <1>2, <1>3

LEMMA StringsOwn ==
  ASSUME NEW method \in {"toupper", "tolower", "concat", "atoi"}, NEW vals, ReadRight(Services[method], vals),
         NEW id \in Nat, NEW m, NEW held, NEW st, NEW last \in Int, last < id, Held(m, held, st, last), NEW o \in App(method, vals, id, m, st)
  PROVE  Owns(method, vals, held, st, id, o)
<1>1. ASSUME NEW text, text # Null, o \in Out(text, Alloc(m, {ResAt(id)}), st), Services[method].ret = "string"
      PROVE  Owns(method, vals, held, st, id, o)
  <2>1. ResultAt(id, "string", text) = {ResAt(id)}
    BY <1>1, NumbersNoMessages DEF ResultAt, IsNumber
  <2>2. o \in Out(text, Alloc(m, ResultAt(id, "string", text)), st)
    BY <1>1, <2>1
  <2>3. o.m.fault = "none" /\ Held(o.m, held \cup ResultAt(id, "string", o.res), o.store, id)
    BY <2>2, OutOwns
  <2> QED BY <1>1, <2>3 DEF Owns
<1>2. ASSUME NEW what, what # "none", Crashes(method, vals, st, what), o \in Crash(m, what, st)
      PROVE  Owns(method, vals, held, st, id, o)
  <2>1. o.m.fault = what
    BY <1>2, CrashOwns DEF Held
  <2> QED BY <1>2, <2>1 DEF Owns
<1>3. Services[method].params[1] = "string" /\ 1 \in DOMAIN Services[method].params
  BY ServiceRows
<1>4. ASSUME method \in {"toupper", "tolower"}, Services[method].ret = "string", NEW map, map \in [DOMAIN map -> STRING], o \in Mapped(vals[1], map, id, m, st)
      PROVE  Owns(method, vals, held, st, id, o)
  <2>1. vals[1] # Null => vals[1] \in Texts
    BY <1>3, NumbersNoMessages DEF ReadRight, Scalars
  <2>2. CASE vals[1] = Null
    <3>1. Crashes(method, vals, st, "strlen of NULL")
      BY <1>3, <1>4, <2>2 DEF Crashes, NullString
    <3> QED BY <1>2, <1>4, <2>2, <3>1 DEF Mapped
  <2>3. CASE vals[1] # Null
    <3> DEFINE text == IF vals[1] \in DOMAIN map THEN map[vals[1]] ELSE vals[1]
    <3>1. text # Null
      BY <1>4, <2>1, <2>3, NullAssumption DEF Texts
    <3> HIDE DEF text
    <3> QED BY <1>1, <1>4, <2>3, <3>1 DEF Mapped, text
  <2> QED BY <2>2, <2>3
<1>5. CASE method \in {"toupper", "tolower"}
  <2>1. Services[method].ret = "string"
    BY <1>5, ServiceRows
  <2>2. o \in Mapped(vals[1], Upper, id, m, st) \/ o \in Mapped(vals[1], Lower, id, m, st)
    BY <1>5 DEF App, string_toupper, string_tolower
  <2> QED BY <1>4, <1>5, <2>1, <2>2, WordsAssumption
<1>6. CASE method = "concat"
  <2>1. Services[method] = [params |-> <<"string", "string">>, ret |-> "string"]
    BY <1>6, ServiceRows
  <2>2. CASE Null \in {vals[1], vals[2]}
    <3>1. o \in Crash(m, "strlen of NULL", st)
      BY <1>6, <2>2 DEF App, string_concat
    <3>2. PICK i \in {1, 2} : vals[i] = Null
      BY <2>2
    <3>3. Crashes(method, vals, st, "strlen of NULL")
      BY <1>6, <2>1, <3>2 DEF Crashes, NullString
    <3> QED BY <1>2, <3>1, <3>3
  <2>3. CASE Null \notin {vals[1], vals[2]}
    <3> DEFINE texts == {vals[1] \o vals[2] \o rest : rest \in {Blank, Trailing}} \ {Null}
               told == UNION {Out(text, Alloc(m, {ResAt(id)}), st) : text \in texts}
               ended == Crash(m, "read past a block", st)
    <3>1. o \in told \cup ended
      BY <1>6, <2>3 DEF App, string_concat
    <3>2. Null \notin texts
      OBVIOUS
    <3> HIDE DEF texts
    <3>3. o \in told => \E text \in texts : o \in Out(text, Alloc(m, {ResAt(id)}), st)
      OBVIOUS
    <3> HIDE DEF told
    <3>4. Crashes(method, vals, st, "read past a block")
      BY <1>6, <2>1, <2>3 DEF Crashes, NullString
    <3>5. CASE o \in told
      BY <1>1, <2>1, <3>2, <3>3, <3>5
    <3>6. CASE o \in ended
      BY <1>2, <3>4, <3>6
    <3> QED BY <3>1, <3>5, <3>6
  <2> QED BY <2>2, <2>3
<1>7. CASE method = "atoi"
  <2>1. Services[method].ret = "int32"
    BY <1>7, ServiceRows
  <2>2. CASE vals[1] = Null
    <3>1. o \in Crash(m, "sscanf of NULL", st)
      BY <1>7, <2>2 DEF App, string_atoi
    <3>2. Crashes(method, vals, st, "sscanf of NULL")
      BY <1>3, <1>7, <2>2 DEF Crashes, NullString
    <3> QED BY <1>2, <3>1, <3>2
  <2>3. CASE vals[1] # Null
    <3>1. PICK res : o \in Out(res, m, st) /\ res # Null
      BY <1>7, <2>3, NullIsNoValue DEF App, string_atoi
    <3>2. ResultAt(id, "int32", res) = {}
      BY NumbersNoMessages DEF ResultAt, IsNumber
    <3> QED BY <2>1, <3>1, <3>2, PlainOwns DEF Owns
  <2> QED BY <2>2, <2>3
<1> QED BY <1>5, <1>6, <1>7

LEMMA AccountCharged ==
  ASSUME NEW vals, ReadRight(Services["consume"], vals), vals[1].price # Null
  PROVE  LET price == vals[1].price
             left == IF Junk \in {price.num, vals[2].balance} THEN Junk ELSE vals[2].balance - Charged(price)
             account == [vals[2] EXCEPT !.balance = left]
         IN WellTyped("Account", account, Floats) /\ account # Null
<1> DEFINE price == vals[1].price
           left == IF Junk \in {price.num, vals[2].balance} THEN Junk ELSE vals[2].balance - Charged(price)
           account == [vals[2] EXCEPT !.balance = left]
<1>1. IsRead("Book", vals[1]) /\ IsRead("Account", vals[2])
  <2>1. IsMessage("Book") /\ IsMessage("Account")
    BY StructKinds DEF IsMessage
  <2> QED BY <2>1, ServiceRows DEF ReadRight
<1>2. price.num \in Floats
  BY <1>1, BooksTyped, PricesTyped
<1>3. /\ vals[2] = [f \in {"userName", "balance"} |-> vals[2][f]]
      /\ vals[2].balance \in Floats /\ vals[2].userName \in Texts \cup {Null}
  BY <1>1, StructKinds, NumbersNoMessages DEF IsRead, WellTyped, ScalarsRight, Scalars
<1>4. left \in Floats
  <2>1. Junk \notin {price.num, vals[2].balance} => price.num \in Int /\ vals[2].balance \in Int
    BY <1>2, <1>3 DEF Floats
  <2>2. price.num \in Int => Charged(price) \in Int
    BY DEF Charged
  <2> QED BY <2>1, <2>2 DEF Floats
<1> HIDE DEF left
<1>5. account.balance = left /\ account.userName = vals[2].userName
  BY <1>3
<1>6. account = [f \in {"userName", "balance"} |-> account[f]]
  BY <1>3
<1> HIDE DEF account
<1>7. WellTyped("Account", account, Floats)
  BY <1>3, <1>4, <1>5, StructKinds, NumbersNoMessages DEF WellTyped, ScalarsRight, Scalars
<1>8. \A f \in Fields("Account") : account[f] \in AllScalars
  BY <1>3, <1>4, <1>5, StructKinds DEF AllScalars, Floats
<1>9. account # Null
  BY <1>6, <1>8, StructKinds, FlatNotNull
<1> QED BY <1>7, <1>9 DEF account, left

\* A result that is cloned
LEMMA CloneOwns ==
  ASSUME NEW id \in Nat, NEW held, NEW st, NEW m, NEW last \in Int, last < id, Held(m, held, st, last), NEW T, IsMessage(T),
         NEW res, res # Null, NEW o \in Out(res, Clone(T, ResAt(id), res, m), st)
  PROVE  o.m.fault = "none" /\ Held(o.m, held \cup ResultAt(id, T, o.res), o.store, id) /\ o.res = res
<1>1. ~IsNumber(T) /\ T # "void"
  BY NumbersNoMessages DEF IsNumber
<1>2. Clone(T, ResAt(id), res, m) = Alloc(m, ResultAt(id, T, res))
  BY <1>1 DEF Clone, ResultAt
<1>3. o \in Out(res, Alloc(m, ResultAt(id, T, res)), st)
  BY <1>2
<1> QED BY <1>3, OutOwns

LEMMA getBookOwns ==
  ASSUME NEW vals, NEW st, StoreRight(st),
         NEW id \in Nat, NEW m, NEW held, NEW last \in Int, last < id, Held(m, held, st, last),
         NEW o \in bookMarket_getBook(vals, id, m, st)
  PROVE  Owns("getBook", vals, held, st, id, o)
<1>1. Services["getBook"] = [params |-> <<"string">>, ret |-> "Book"]
  BY ServiceRows
<1>2. CASE vals[1] = Null
  <2>1. o \in Crash(m, "hash of NULL", st)
    BY <1>2 DEF bookMarket_getBook
  <2>2. o.m.fault = "hash of NULL"
    BY <2>1, CrashOwns DEF Held
  <2>4. NullString("getBook", vals)
    BY <1>1, <1>2 DEF NullString
  <2>3. Crashes("getBook", vals, st, "hash of NULL")
    BY <2>4 DEF Crashes
  <2> QED BY <2>2, <2>3 DEF Owns
<1>5. CASE vals[1] # Null /\ vals[1] \notin DOMAIN st /\ o \in Crash(m, VaList, st)
  <2>1. o.m.fault = VaList /\ VaList # "none"
    BY <1>5, CrashOwns, VaListIs DEF Held
  <2>3. ~NullString("getBook", vals)
    BY <1>1, <1>5 DEF NullString
  <2>2. Crashes("getBook", vals, st, VaList)
    BY <1>5, <2>3 DEF Crashes
  <2> QED BY <2>1, <2>2 DEF Owns
<1>3. CASE vals[1] # Null /\ vals[1] \notin DOMAIN st /\ o \in Out(Null, [m EXCEPT !.err = "garbled"], st)
  <2>1. o \in Out(Null, [m EXCEPT !.err = "garbled"], st)
    BY <1>3
  <2> DEFINE w == [m EXCEPT !.err = "garbled"]
  <2>2. Held(w, held, st, last) /\ w.err = "garbled"
    BY HeldErr, ErrFields DEF Held
  <2> HIDE DEF w
  <2>3. ResultAt(id, "Book", Null) = {}
    BY DEF ResultAt
  <2>4. Held(o.m, held \cup ResultAt(id, "Book", o.res), o.store, id) /\ o.res = Null
    BY <2>1, <2>2, <2>3, PlainOwns DEF w
  <2>5. o.m = w
    BY <2>1 DEF Out, w
  <2>6. Failed(o.m) /\ o.m.fault = "none"
    BY <2>2, <2>5 DEF Failed, NoError, Held
  <2> QED BY <1>1, <2>4, <2>6 DEF Owns
<1>4. CASE vals[1] # Null /\ vals[1] \in DOMAIN st
  <2> DEFINE book == st[vals[1]].book
  <2>1. o \in Out(book, Clone("Book", ResAt(id), book, m), st)
    BY <1>4 DEF bookMarket_getBook
  <2>2. book.price # Null
    BY <1>4 DEF Held, Stored
  <2>3. IsRead("Book", book)
    BY <1>4 DEF StoreRight
  <2> HIDE DEF book
  <2>4. book # Null /\ IsMessage("Book")
    BY <2>3, StructNotNull, StructKinds DEF IsMessage
  <2>5. o.m.fault = "none" /\ Held(o.m, held \cup ResultAt(id, "Book", o.res), o.store, id) /\ o.res = book
    BY <2>1, <2>4, CloneOwns
  <2> QED BY <1>1, <2>2, <2>4, <2>5 DEF Owns
<1>6. vals[1] # Null /\ vals[1] \notin DOMAIN st =>
        o \in Out(Null, [m EXCEPT !.err = "garbled"], st) \/ o \in Crash(m, VaList, st)
  <2> SUFFICES ASSUME vals[1] # Null, vals[1] \notin DOMAIN st
               PROVE  o \in Out(Null, [m EXCEPT !.err = "garbled"], st) \/ o \in Crash(m, VaList, st)
    OBVIOUS
  <2>1. PICK e \in errorf(m) : o \in Out(Null, e, st)
    BY DEF bookMarket_getBook
  <2> QED BY <2>1 DEF errorf, Crash
<1> QED BY <1>2, <1>3, <1>4, <1>5, <1>6

LEMMA consumeOwns ==
  ASSUME NEW vals, ReadRight(Services["consume"], vals), NEW st,
         NEW id \in Nat, NEW m, NEW held, NEW last \in Int, last < id, Held(m, held, st, last),
         NEW o \in bookMarket_consume(vals, id, m, st)
  PROVE  Owns("consume", vals, held, st, id, o)
<1> DEFINE price == vals[1].price
           left == IF Junk \in {price.num, vals[2].balance} THEN Junk ELSE vals[2].balance - Charged(price)
           account == [vals[2] EXCEPT !.balance = left]
<1>1. CASE price = Null
  <2>1. o \in Crash(m, "read of a NULL struct", st)
    BY <1>1 DEF bookMarket_consume
  <2>2. o.m.fault = "read of a NULL struct"
    BY <2>1, CrashOwns DEF Held
  <2>3. Crashes("consume", vals, st, "read of a NULL struct")
    BY <1>1, ServiceRows DEF Crashes, Priceless
  <2> QED BY <2>2, <2>3 DEF Owns
<1>2. CASE price # Null
  <2>1. account # Null
    BY <1>2, AccountCharged
  <2>2. o \in Out(account, Clone("Account", ResAt(id), account, m), st)
    BY <1>2 DEF bookMarket_consume
  <2> HIDE DEF account
  <2>3. IsMessage("Account") /\ Services["consume"].ret = "Account"
    BY StructKinds, ServiceRows DEF IsMessage
  <2>4. o.m.fault = "none" /\ Held(o.m, held \cup ResultAt(id, "Account", o.res), o.store, id) /\ o.res = account
    BY <2>1, <2>2, <2>3, CloneOwns, SMTT(30)
  <2> QED BY <2>1, <2>3, <2>4 DEF Owns
<1> QED BY <1>1, <1>2

\* A book is put in book_map: what remains of the one that it replaces is its name.
LEMMA PutHolds ==
  ASSUME NEW m, NEW held, NEW st, NEW last \in Int, Held(m, held, st, last), NEW id \in Int, last <= id,
         NEW w, IsMemory(w), w.fault = "none", held \subseteq w.heap,
         NEW newer, NEW name, DOMAIN newer = DOMAIN st \cup {name}, \A x \in DOMAIN st : x # name => newer[x] = st[x],
         BookAt(newer[name]) \subseteq w.heap, newer[name].book.price # Null,
         \E k \in Nat : newer[name].at = MapAt(k) /\ k <= id,
         \A x \in DOMAIN st : x # name => st[x].at # newer[name].at,
         \A p \in w.heap : p \in m.heap \/ p \in BookAt(newer[name]),
         \A p \in m.heap : p \in w.heap \/ (name \in DOMAIN st /\ p \in BookAt(st[name])),
         name \in DOMAIN st => \A p \in BookAt(st[name]) : p \in w.heap => p \in BookAt(newer[name]) \/ ServerLoses(p)
  PROVE  Held(w, held, newer, id)
<1>1. ASSUME NEW x \in DOMAIN st, NEW y \in DOMAIN st, x # y PROVE BookAt(st[x]) \cap BookAt(st[y]) = {}
  <2>1. PICK k \in Nat : st[x].at = MapAt(k) /\ \A p \in BookAt(st[x]) : At(p, k, "map")
    BY StoreAt DEF Held
  <2>2. PICK j \in Nat : st[y].at = MapAt(j) /\ \A p \in BookAt(st[y]) : At(p, j, "map")
    BY StoreAt DEF Held
  <2>3. k # j
    BY <1>1, <2>1, <2>2 DEF Held, Apart
  <2> QED BY <2>1, <2>2, <2>3 DEF At
<1>2. Stored(newer, w.heap, id)
  <2> SUFFICES ASSUME NEW x \in DOMAIN newer
               PROVE  /\ BookAt(newer[x]) \subseteq w.heap /\ newer[x].book.price # Null
                      /\ \E k \in Nat : newer[x].at = MapAt(k) /\ k <= id
    BY DEF Stored
  <2>1. CASE x # name
    <3>1. x \in DOMAIN st /\ newer[x] = st[x]
      BY <2>1
    <3>2. BookAt(st[x]) \subseteq m.heap /\ st[x].book.price # Null
      BY <3>1 DEF Held, Stored
    <3>3. PICK k \in Nat : st[x].at = MapAt(k) /\ k <= last
      BY <3>1 DEF Held, Stored
    <3>4. BookAt(st[x]) \subseteq w.heap
      BY <1>1, <2>1, <3>1, <3>2
    <3>5. k <= id
      BY <3>3
    <3> QED BY <3>1, <3>2, <3>3, <3>4, <3>5
  <2> QED BY <2>1
<1>3. Apart(newer)
  BY DEF Held, Apart
<1>4. ASSUME NEW p \in w.heap, p[1] = "call" PROVE ServerLoses(p) \/ InStore(p, newer) \/ p \in held
  <2>1. CASE p \in BookAt(newer[name])
    BY <2>1 DEF InStore
  <2>2. CASE p \notin BookAt(newer[name])
    <3>1. ServerLoses(p) \/ InStore(p, st) \/ p \in held
      BY <1>4, <2>2 DEF Held
    <3>2. ASSUME NEW x \in DOMAIN st, p \in BookAt(st[x]) PROVE ServerLoses(p) \/ InStore(p, newer)
      <4>1. CASE x = name
        BY <2>2, <3>2, <4>1
      <4>2. CASE x # name
        BY <3>2, <4>2 DEF InStore
      <4> QED BY <4>1, <4>2
    <3> QED BY <3>1, <3>2 DEF InStore
  <2> QED BY <2>1, <2>2
<1> QED BY <1>2, <1>3, <1>4 DEF Held

LEMMA PriceApart ==
  ASSUME NEW at, NEW k, At(at, k, "map"), NEW price
  PROVE  /\ at \notin PriceBlocks(at, price) /\ Append(at, "name") \notin PriceBlocks(at, price)
         /\ EndsWith(Append(at, "name"), "name") /\ At(Append(at, "name"), k, "map")
<1>1. Len(at) \in Nat
  BY DEF At, IsPath
<1> DEFINE q == Append(at, "price")
           r == Append(at, "name")
<1>2. At(q, k, "map") /\ Len(q) = Len(at) + 1 /\ q[Len(q)] = "price"
  BY PathsLonger
<1>3. At(r, k, "map") /\ Len(r) = Len(at) + 1 /\ r[Len(r)] = "name"
  BY PathsLonger
<1> HIDE DEF q, r
<1>4. ASSUME NEW p \in Parts(Pointers, "Price", q, price) PROVE Len(p) = Len(at) + 2
  <2>1. PICK f : p = Append(q, f)
    BY DEF Parts
  <2>2. Len(p) = Len(q) + 1
    BY <1>2, <2>1, PathsLonger
  <2> QED BY <1>1, <1>2, <2>2
<1>5. PriceBlocks(at, price) = {q} \cup Parts(Pointers, "Price", q, price)
  BY DEF PriceBlocks, q
<1>6. EndsWith(r, "name")
  BY <1>3 DEF EndsWith, At
<1>7. at # q /\ r # q
  BY <1>1, <1>2, <1>3
<1>8. ASSUME NEW p \in Parts(Pointers, "Price", q, price) PROVE p # at /\ p # r
  <2>1. Len(p) = Len(at) + 2
    BY <1>4
  <2> QED BY <1>1, <1>3, <2>1
<1>9. at \notin PriceBlocks(at, price) /\ r \notin PriceBlocks(at, price)
  BY <1>5, <1>7, <1>8
<1> QED BY <1>3, <1>6, <1>9 DEF r

LEMMA shelveOwns ==
  ASSUME NEW vals, ReadRight(Services["shelve"], vals), NEW st,
         NEW id \in Nat, NEW m, NEW held, NEW last \in Int, last < id, Held(m, held, st, last),
         NEW o \in bookMarket_shelve(vals, id, m, st)
  PROVE  Owns("shelve", vals, held, st, id, o)
<1> DEFINE name == vals[1].name
           entry == [at |-> MapAt(id), book |-> vals[1]]
           newer == Put(st, name, entry)
           cloned == Clone("Book", MapAt(id), vals[1], m)
           gone == IF name \in DOMAIN st THEN {st[name].at} \cup PriceBlocks(st[name].at, st[name].book.price) ELSE {}
           w == IF name \in DOMAIN st THEN Forget(st[name].at, st[name].book, cloned) ELSE cloned
<1>1. o.m = w /\ o.store = newer /\ o.res = Null
  BY DEF bookMarket_shelve, Out
<1>2. DOMAIN newer = DOMAIN st \cup {name} /\ newer[name] = entry /\ \A x \in DOMAIN st : x # name => newer[x] = st[x]
  BY DEF Put
<1>3. entry.at = MapAt(id) /\ entry.book = vals[1]
  OBVIOUS
<1> HIDE DEF newer, entry, name
<1>4. cloned = Alloc(m, BookAt(entry))
  <2>1. IsRead("Book", vals[1])
    BY ServiceRows, StructKinds DEF ReadRight, IsMessage
  <2>2. vals[1] # Null
    BY <2>1, StructNotNull, StructKinds
  <2> QED BY <1>3, <2>2 DEF Clone, BookAt
<1>5. \A p \in BookAt(entry) : At(p, id, "map")
  <2>1. At(MapAt(id), id, "map")
    BY PathsAt
  <2> QED BY <1>3, <2>1, BlocksAt DEF BookAt
<1> HIDE DEF cloned
<1>6. IsMemory(cloned) /\ cloned.heap = m.heap \cup BookAt(entry) /\ cloned.fault = "none"
  BY <1>4, AllocIs, AllocFields DEF Held
<1>7. ASSUME NEW x \in DOMAIN st
      PROVE  /\ BookAt(st[x]) \subseteq m.heap /\ st[x].book.price # Null /\ st[x].at # MapAt(id)
             /\ \E k \in Nat : k # id /\ At(st[x].at, k, "map") /\ \A p \in BookAt(st[x]) : At(p, k, "map")
  <2>1. BookAt(st[x]) \subseteq m.heap /\ st[x].book.price # Null
    BY DEF Held, Stored
  <2>2. PICK k \in Nat : st[x].at = MapAt(k) /\ k <= last /\ \A p \in BookAt(st[x]) : At(p, k, "map")
    BY StoreAt DEF Held
  <2>3. k # id
    BY <2>2
  <2>4. At(MapAt(k), k, "map") /\ At(MapAt(id), id, "map")
    BY PathsAt
  <2>5. MapAt(k) # MapAt(id)
    BY <2>3, <2>4 DEF At
  <2> QED BY <2>1, <2>2, <2>3, <2>4, <2>5
<1>8. name \in DOMAIN st => gone \subseteq BookAt(st[name]) /\ \A p \in BookAt(st[name]) : p \in gone \/ ServerLoses(p)
  <2> SUFFICES ASSUME name \in DOMAIN st
               PROVE  gone \subseteq BookAt(st[name]) /\ \A p \in BookAt(st[name]) : p \in gone \/ ServerLoses(p)
    OBVIOUS
  <2>1. BookAt(st[name]) = gone \cup (IF st[name].book.name = Null THEN {} ELSE {Append(st[name].at, "name")})
    BY <1>7, BookIs
  <2>2. ServerLoses(Append(st[name].at, "name"))
    <3>1. PICK k : At(st[name].at, k, "map")
      BY <1>7
    <3>2. EndsWith(Append(st[name].at, "name"), "name") /\ At(Append(st[name].at, "name"), k, "map")
      BY <3>1, PriceApart
    <3> QED BY <3>2 DEF ServerLoses, At
  <2> HIDE DEF gone
  <2> QED BY <2>1, <2>2
<1>9. IsMemory(w) /\ w.heap = cloned.heap \ gone /\ w.fault = "none"
  <2>1. CASE name \in DOMAIN st
    <3>1. w = FreeAll(cloned, gone)
      BY <1>7, <2>1 DEF Forget
    <3>2. gone \subseteq cloned.heap
      BY <1>6, <1>7, <1>8, <2>1
    <3> HIDE DEF w, gone
    <3>3. /\ FreeAll(cloned, gone).heap = cloned.heap \ gone
          /\ FreeAll(cloned, gone).fault = IF cloned.fault = "none" /\ ~(gone \subseteq cloned.heap) THEN "free of a freed block" ELSE cloned.fault
      BY <1>6, FreeAllFields
    <3> QED BY <1>6, <3>1, <3>2, <3>3, FreeAllIs
  <2>2. CASE name \notin DOMAIN st
    BY <1>6, <2>2
  <2> QED BY <2>1, <2>2
<1>10. name \notin DOMAIN st => gone = {}
  OBVIOUS
<1> HIDE DEF w, gone
<1>11. \A p \in gone : At(p, p[2], "map") /\ p[2] # id
  BY <1>7, <1>8, <1>10 DEF At
<1>12. BookAt(entry) \subseteq w.heap /\ ((\A p \in held : p[3] = "arg") => held \subseteq w.heap)
  BY <1>5, <1>6, <1>9, <1>11 DEF At, Held
<1>13. ASSUME vals[1].price # Null, \A p \in held : p[3] = "arg" PROVE Held(w, held, newer, id)
  <2>1. BookAt(newer[name]) \subseteq w.heap /\ newer[name].book.price # Null
    BY <1>2, <1>3, <1>12, <1>13
  <2>2. newer[name].at = MapAt(id) /\ id <= id
    BY <1>2, <1>3
  <2>3. \A x \in DOMAIN st : x # name => st[x].at # newer[name].at
    BY <1>7, <2>2
  <2>4. \A p \in w.heap : p \in m.heap \/ p \in BookAt(newer[name])
    BY <1>2, <1>6, <1>9
  <2>5. \A p \in m.heap : p \in w.heap \/ (name \in DOMAIN st /\ p \in BookAt(st[name]))
    BY <1>6, <1>8, <1>9, <1>10
  <2>6. name \in DOMAIN st => \A p \in BookAt(st[name]) : p \in w.heap => p \in BookAt(newer[name]) \/ ServerLoses(p)
    BY <1>8, <1>9
  <2> QED BY <1>2, <1>9, <1>12, <1>13, <2>1, <2>2, <2>3, <2>4, <2>5, <2>6, PutHolds
<1>14. ResultAt(id, "void", Null) = {} /\ Services["shelve"] = [params |-> <<"Book">>, ret |-> "void"]
  BY ServiceRows DEF ResultAt
<1>16. ~Priceless("shelve", vals) => vals[1].price # Null
  BY <1>14 DEF Priceless
<1>15. Services["shelve"].ret = "void"
  BY <1>14
<1>17. o.m.fault = "none" /\ held \cup ResultAt(id, Services["shelve"].ret, o.res) = held
  BY <1>1, <1>9, <1>14
<1>18. ~Priceless("shelve", vals) /\ (\A p \in held : p[3] = "arg") => Held(o.m, held, o.store, id)
  BY <1>1, <1>13, <1>16
<1> QED BY <1>15, <1>17, <1>18 DEF Owns

LEMMA updateBookPriceOwns ==
  ASSUME NEW vals, ReadRight(Services["updateBookPrice"], vals), NEW st, StoreRight(st),
         NEW id \in Nat, NEW m, NEW held, NEW last \in Int, last < id, Held(m, held, st, last),
         NEW o \in bookMarket_updateBookPrice(vals, id, m, st)
  PROVE  Owns("updateBookPrice", vals, held, st, id, o)
<1>1. Services["updateBookPrice"] = [params |-> <<"string", "Price">>, ret |-> "void"]
  BY ServiceRows
<1>2. ResultAt(id, "void", Null) = {}
  BY DEF ResultAt
<1>3. CASE vals[1] = Null
  <2>1. o \in Crash(m, "hash of NULL", st)
    BY <1>3 DEF bookMarket_updateBookPrice
  <2>2. o.m.fault = "hash of NULL"
    BY <2>1, CrashOwns DEF Held
  <2>3. Crashes("updateBookPrice", vals, st, "hash of NULL")
    BY <1>1, <1>3 DEF Crashes, NullString
  <2> QED BY <2>2, <2>3 DEF Owns
<1>4. CASE vals[1] # Null /\ vals[1] \notin DOMAIN st
  <2>1. o \in Out(Null, m, st)
    BY <1>4 DEF bookMarket_updateBookPrice
  <2>2. o.m.fault = "none" /\ Held(o.m, held \cup ResultAt(id, "void", o.res), o.store, id) /\ o.res = Null
    BY <1>2, <2>1, PlainOwns
  <2> QED BY <1>1, <2>2 DEF Owns
<1>5. CASE vals[1] # Null /\ vals[1] \in DOMAIN st
  <2> DEFINE name == vals[1]
             at == st[name].at
             old == st[name].book
             gone == PriceBlocks(at, old.price)
             new == PriceBlocks(at, vals[2])
             less == FreeAll(m, gone)
             w == Clone("Price", Append(at, "price"), vals[2], less)
             newer == [st EXCEPT ![name].book.price = vals[2]]
  <2>1. BookAt(st[name]) \subseteq m.heap /\ old.price # Null
    BY <1>5 DEF Held, Stored
  <2>2. o.m = w /\ o.store = newer /\ o.res = Null
    BY <1>5, <2>1 DEF bookMarket_updateBookPrice, Out
  <2>3. vals[2] # Null
    <3>1. IsRead("Price", vals[2])
      BY ServiceRows, StructKinds DEF ReadRight, IsMessage
    <3> QED BY <3>1, StructNotNull, StructKinds
  <2>4. st[name] = [at |-> at, book |-> old] /\ DOMAIN old = {"price", "name"}
    BY <1>5, BooksTyped DEF StoreRight
  <2>5. DOMAIN newer = DOMAIN st /\ \A x \in DOMAIN st : x # name => newer[x] = st[x]
    OBVIOUS
  <2>6. newer[name].at = at /\ newer[name].book = [old EXCEPT !.price = vals[2]]
    <3>1. newer[name] = [st[name] EXCEPT !.book = [old EXCEPT !.price = vals[2]]]
      BY <1>5
    <3>2. ASSUME NEW book PROVE [st[name] EXCEPT !.book = book].at = at /\ [st[name] EXCEPT !.book = book].book = book
      <4> HIDE DEF at, old
      <4> QED BY <2>4
    <3> HIDE DEF at, newer
    <3> QED BY <3>1, <3>2
  <2>7. newer[name].book.price = vals[2] /\ newer[name].book.name = old.name
    BY <2>4, <2>6
  <2>8. PICK k \in Nat : at = MapAt(k) /\ k <= last /\ \A p \in BookAt(st[name]) : At(p, k, "map")
    BY <1>5, StoreAt DEF Held
  <2>9. BookAt(st[name]) = {at} \cup gone \cup (IF old.name = Null THEN {} ELSE {Append(at, "name")})
    BY <2>1, BookIs
  <2>10. BookAt(newer[name]) = {at} \cup new \cup (IF old.name = Null THEN {} ELSE {Append(at, "name")})
    <3> HIDE DEF newer
    <3> QED BY <2>3, <2>6, <2>7, BookIs
  <2>11. IsMemory(less) /\ less.heap = m.heap \ gone /\ less.fault = "none"
    <3>1. gone \subseteq m.heap /\ IsMemory(m) /\ m.fault = "none"
      BY <2>1, <2>9 DEF Held
    <3> HIDE DEF gone
    <3>2. /\ FreeAll(m, gone).heap = m.heap \ gone
          /\ FreeAll(m, gone).fault = IF m.fault = "none" /\ ~(gone \subseteq m.heap) THEN "free of a freed block" ELSE m.fault
      BY <3>1, FreeAllFields
    <3> QED BY <3>1, <3>2, FreeAllIs
  <2>12. w = Alloc(less, new)
    BY <2>3, PriceIs DEF Clone, PriceBlocks
  <2> HIDE DEF less
  <2>13. IsMemory(w) /\ w.heap = (m.heap \ gone) \cup new /\ w.fault = "none"
    BY <2>11, <2>12, AllocIs, AllocFields
  <2>14. at \notin gone /\ Append(at, "name") \notin gone
    <3>1. At(at, k, "map")
      BY <2>8, PathsAt
    <3> QED BY <3>1, PriceApart
  <2> HIDE DEF w, newer, gone, new, old
  <2>15. ASSUME \A p \in held : p[3] = "arg" PROVE Held(w, held, newer, id)
    <3>1. held \subseteq w.heap
      <4>1. \A p \in gone : p[3] = "map"
        BY <2>8, <2>9 DEF At
      <4> QED BY <2>13, <2>15, <4>1 DEF Held
    <3>2. BookAt(newer[name]) \subseteq w.heap /\ newer[name].book.price # Null
      BY <2>1, <2>3, <2>7, <2>9, <2>10, <2>13, <2>14
    <3>3. \E j \in Nat : newer[name].at = MapAt(j) /\ j <= id
      <4>1. k <= id
        BY <2>8
      <4> QED BY <2>6, <2>8, <4>1
    <3>4. \A x \in DOMAIN st : x # name => st[x].at # newer[name].at
      BY <1>5, <2>6 DEF Held, Apart
    <3>5. \A p \in w.heap : p \in m.heap \/ p \in BookAt(newer[name])
      BY <2>10, <2>13
    <3>6. \A p \in m.heap : p \in w.heap \/ (name \in DOMAIN st /\ p \in BookAt(st[name]))
      BY <1>5, <2>9, <2>13
    <3>7. name \in DOMAIN st => \A p \in BookAt(st[name]) : p \in w.heap => p \in BookAt(newer[name]) \/ ServerLoses(p)
      BY <2>9, <2>10, <2>13
    <3>8. DOMAIN newer = DOMAIN st \cup {name} /\ last <= id
      BY <1>5, <2>5
    <3> HIDE DEF name, at
    <3>9. id \in Int /\ (\A x \in DOMAIN st : x # name => newer[x] = st[x]) /\ IsMemory(w) /\ w.fault = "none"
      BY <2>5, <2>13
    <3> QED BY <3>9, <3>1, <3>2, <3>3, <3>4, <3>5, <3>6, <3>7, <3>8, PutHolds, Z3
  <2>16. held \cup {} = held /\ Services["updateBookPrice"].ret = "void"
    BY <1>1
  <2> QED BY <1>2, <2>2, <2>13, <2>15, <2>16 DEF Owns
<1> QED BY <1>3, <1>4, <1>5

LEMMA AppOwns ==
  ASSUME NEW method \in DOMAIN Services, NEW vals, ReadRight(Services[method], vals),
         NEW st, StoreRight(st), NEW id \in Nat, NEW m, NEW held, NEW last \in Int, last < id, Held(m, held, st, last),
         NEW o \in App(method, vals, id, m, st)
  PROVE  Owns(method, vals, held, st, id, o)
<1>1. method \in {"getBook", "consume", "updateBookPrice", "shelve", "Add", "Sub", "Multiply", "Divide", "toupper", "tolower", "concat", "atoi"}
  BY ServiceRows
<1>2. CASE method \in {"Add", "Sub", "Multiply", "Divide"}
  BY <1>2, MathOwns
<1>3. CASE method \in {"toupper", "tolower", "concat", "atoi"}
  BY <1>3, StringsOwn
<1>4. CASE method = "getBook"
  <2>1. o \in bookMarket_getBook(vals, id, m, st)
    BY <1>4 DEF App
  <2> QED BY <1>4, <2>1, getBookOwns
<1>5. CASE method = "consume"
  <2>1. o \in bookMarket_consume(vals, id, m, st)
    BY <1>5 DEF App
  <2> QED BY <1>5, <2>1, consumeOwns
<1>6. CASE method = "updateBookPrice"
  <2>1. o \in bookMarket_updateBookPrice(vals, id, m, st)
    BY <1>6 DEF App
  <2> QED BY <1>6, <2>1, updateBookPriceOwns
<1>7. CASE method = "shelve"
  <2>1. o \in bookMarket_shelve(vals, id, m, st)
    BY <1>7 DEF App
  <2> QED BY <1>7, <2>1, shelveOwns
<1> QED BY <1>1, <1>2, <1>3, <1>4, <1>5, <1>6, <1>7

\* What any application of a call comes to, called with vals, held being kept for it
OutcomeOwned(h, vals, held, o) ==
  /\ o.m.fault # "none" => call.app = "example" /\ Crashes(call.method, vals, store, o.m.fault)
  /\ o.m.fault = "none" /\ ~Priceless(call.method, vals) /\ (\A p \in held : p[3] = "arg") =>
       Held(o.m, held \cup ResultAt(n, h.ret, o.res), o.store, n)
  /\ h.ret \notin {"string", "void"} /\ o.m.fault = "none" /\ ~Failed(o.m) => o.res # Null \/ NullResult
  /\ h.ret = "Book" /\ o.m.fault = "none" /\ o.res # Null => o.res.price # Null \/ call.app = "NULL members"
LEMMA OutcomesOwn ==
  ASSUME IsCall(call), call.method \in DOMAIN Services, n \in Nat, StoreRight(store), NEW h, h = Services[call.method],
         NEW vals, ReadRight(h, vals),
         NEW m, NEW held, NEW last \in Int, last < n, Held(m, held, store, last),
         NEW o \in Outcomes(h, vals, m)
  PROVE  OutcomeOwned(h, vals, held, o)
<1>1. ResultAt(n, h.ret, Null) = {}
  BY DEF ResultAt
<1>2. CASE call.app = "example"
  <2>1. o \in App(call.method, vals, n, m, store)
    BY <1>2 DEF Outcomes
  <2>2. Owns(call.method, vals, held, store, n, o)
    BY <2>1, AppOwns
  <2> QED BY <1>2, <2>2 DEF Owns, OutcomeOwned
<1>3. CASE call.app = "refuses"
  <2> DEFINE w == [m EXCEPT !.err = "refused"]
  <2>1. Held(w, held, store, last) /\ w.err = "refused"
    BY HeldErr, ErrFields DEF Held
  <2>2. o \in Out(Null, w, store)
    BY <1>3 DEF Outcomes
  <2> HIDE DEF w
  <2>3. o.m.fault = "none" /\ Held(o.m, held \cup ResultAt(n, h.ret, o.res), o.store, n) /\ o.res = Null
    <3>1. Held(w, held, store, n)
      BY <2>1, HeldLater
    <3>2. o.m = w /\ o.res = Null /\ o.store = store
      BY <2>2 DEF Out
    <3>3. held \cup ResultAt(n, h.ret, Null) = held
      BY <1>1
    <3> QED BY <3>1, <3>2, <3>3 DEF Held
  <2>4. o.m = w
    BY <2>2 DEF Out
  <2>5. Failed(o.m)
    BY <2>1, <2>4 DEF Failed, NoError
  <2> QED BY <2>3, <2>5 DEF OutcomeOwned
<1>4. CASE call.app = "returns NULL"
  <2>1. o \in Out(Null, m, store)
    BY <1>4 DEF Outcomes
  <2>2. o.m.fault = "none" /\ Held(o.m, held \cup ResultAt(n, h.ret, o.res), o.store, n) /\ o.res = Null
    <3>1. Held(m, held, store, n)
      BY HeldLater
    <3>2. o.m = m /\ o.res = Null /\ o.store = store
      BY <2>1 DEF Out
    <3>3. held \cup ResultAt(n, h.ret, Null) = held
      BY <1>1
    <3> QED BY <3>1, <3>2, <3>3 DEF Held
  <2>3. ~IsNumber(h.ret)
    BY <1>4 DEF IsCall
  <2>4. h.ret \notin {"string", "void"} => NullResult
    BY <1>4, <2>3 DEF IsNumber, NullResult
  <2> QED BY <2>2, <2>4 DEF OutcomeOwned
<1>5. CASE call.app = "NULL members"
  <2> DEFINE T == h.ret
             res == [f \in Fields(T) |-> IF IsNumber(Kind(T, f)) THEN 0 ELSE Null]
  <2>1. IsMessage(T) /\ T \in DOMAIN Structs
    BY <1>5 DEF IsCall, IsMessage
  <2>2. res # Null
    <3>1. \A f \in Fields(T) : res[f] \in AllScalars
      BY DEF AllScalars
    <3>2. res = [f \in Fields(T) |-> res[f]]
      OBVIOUS
    <3> HIDE DEF res
    <3> QED BY <2>1, <3>1, <3>2, FlatNotNull
  <2>3. Blocks(Pointers, T, ResAt(n), res) = {}
    <3>1. \A f \in Pointers[T] : res[f] = Null
      BY <2>1 DEF Pointers
    <3> HIDE DEF res
    <3> QED BY <3>1 DEF Blocks, Parts, Inner
  <2>4. o \in Out(res, Alloc(m, {ResAt(n)}), store)
    BY <1>5 DEF Outcomes
  <2> HIDE DEF res, T
  <2>5. ~IsNumber(T) /\ T # "void"
    BY <2>1, NumbersNoMessages DEF IsNumber
  <2>6. ResultAt(n, T, res) = {ResAt(n)}
    BY <2>1, <2>2, <2>3, <2>5 DEF ResultAt
  <2>7. o \in Out(res, Alloc(m, ResultAt(n, T, res)), store)
    BY <2>4, <2>6
  <2>8. o.m.fault = "none" /\ Held(o.m, held \cup ResultAt(n, T, o.res), o.store, n) /\ o.res = res
    <3>1. Held(m, held, store, n)
      BY HeldLater
    <3>2. Held(Alloc(m, ResultAt(n, T, res)), held \cup ResultAt(n, T, res), store, n)
      BY <3>1, HeldMore
    <3>3. o.m = Alloc(m, ResultAt(n, T, res)) /\ o.res = res /\ o.store = store
      BY <2>7 DEF Out
    <3> QED BY <3>2, <3>3 DEF Held
  <2> QED BY <1>5, <2>2, <2>8 DEF T, OutcomeOwned
<1> QED BY <1>2, <1>3, <1>4, <1>5 DEF IsCall

\* The blocks of the arguments, and those that T_unmarshal makes besides
Kept(h, vals) == UNION {Blocks(Pointers, h.params[i], ArgAt(n, i), vals[i]) : i \in Structured(h)}

LEMMA ArgsOwned ==
  ASSUME Requested, NEW h \in {Services[method] : method \in DOMAIN Services}, Accepts(h, wire), NEW vals, vals = ReadArgs(h, wire)
  PROVE  /\ Kept(h, vals) \subseteq ArgBlocks(n, h, wire)
         /\ \A p \in Kept(h, vals) : p[3] = "arg"
         /\ Kept(h, vals) = UNION {Destroyed(SM!destroys, h.params[i], ArgAt(n, i), vals[i]) : i \in Structured(h)}
         /\ \/ /\ \A i \in Structured(h) : ~ReadsNull(SM!destroys, h.params[i], vals[i])
               /\ \A i \in DOMAIN h.params : h.params[i] = "Book" => vals[i].price # Null
               /\ \A p \in ArgBlocks(n, h, wire) : p \in Kept(h, vals) \/ ServerLoses(p)
            \/ /\ \E i \in Structured(h) : ReadsNull(SM!destroys, h.params[i], vals[i])
               /\ NoPrice
<1> DEFINE params == call.stub.params
           ArgMade(i) == InitBlocks(SM!inits, h.params[i], ArgAt(n, i))
                      \cup UnmarshalBlocks(SM!unmarshals, h.params[i], ArgAt(n, i), wire[i].data)
<1>1. /\ h.params = params /\ ReadRight(h, vals)
      /\ \A i \in DOMAIN call.vals : vals[i] = Arrived(params[i], call.vals[i])
  BY AcceptedTypes, ArgsRead
<1>2. DOMAIN call.vals = DOMAIN params
  BY DEF Requested, IsCall
<1> HIDE DEF params
<1>3. ASSUME NEW i \in Structured(h)
      PROVE  LET T == h.params[i]
                 B == Blocks(Pointers, T, ArgAt(n, i), vals[i]) IN
             /\ B \subseteq ArgMade(i) /\ \A p \in B : p[3] = "arg"
             /\ Destroyed(SM!destroys, T, ArgAt(n, i), vals[i]) = B
             /\ ReadsNull(SM!destroys, T, vals[i]) => T = "Book" /\ vals[i].price = Null
             /\ T = "Book" /\ vals[i].price = Null => ReadsNull(SM!destroys, T, vals[i]) /\ NoPrice
             /\ ~ReadsNull(SM!destroys, T, vals[i]) => \A p \in ArgMade(i) : p \in B \/ ServerLoses(p)
  <2> DEFINE T == h.params[i]
             x == call.vals[i]
             q == ArgAt(n, i)
             tree == Tree(SM!marshals, T, Filled(SM!marshals, T, x))
             y == Sent(T, x)
  <2>1. i \in DOMAIN params /\ IsMessage(T) /\ T = params[i]
    BY <1>1 DEF Structured
  <2>2. T \in DOMAIN Structs /\ x # Null
    BY <1>2, <2>1 DEF Requested, NullStruct, Has, IsMessage, params
  <2>3. WellTyped(T, x, AnyFloats)
    <3>1. IsArg(T, x)
      BY <1>2, <2>1 DEF Requested, IsCall, params
    <3>2. WellTyped(T, x, Int \cup {Nan})
      BY <2>1, <2>2, <3>1 DEF IsArg
    <3>3. Int \cup {Nan} \subseteq AnyFloats
      BY DEF AnyFloats
    <3> HIDE DEF T, x
    <3> QED BY <2>2, <3>2, <3>3, WiderFloats
  <2>4. vals[i] = y
    BY <1>1, <1>2, <2>1 DEF Arrived
  <2>5. wire[i].data = tree
    BY <1>1, <2>1, <2>2, TablesSame DEF Requested, ArgsOf, ArgOf, params
  <2>6. At(q, n, "arg")
    BY PathsAt
  <2>7. y # Null
    <3>1. IsRead(T, y)
      BY <1>1, <2>1, <2>4 DEF ReadRight
    <3> HIDE DEF T, y
    <3> QED BY <2>2, <3>1, StructNotNull
  <2> DEFINE made == InitBlocks(SM!inits, T, q) \cup UnmarshalBlocks(SM!unmarshals, T, q, tree)
             B == Blocks(Pointers, T, q, y)
  <2>8. ArgMade(i) = made
    BY <2>5
  <2>9. /\ B \subseteq made /\ (T = "Book" => (y.price = Null <=> x.price = Null))
        /\ (T = "Book" => y.price # Null) => \A p \in made : p \in B \/ EndsWith(p, "text")
    <3> HIDE DEF T, x, q
    <3> QED BY <2>2, <2>3, <2>6, ReadBlocks
  <2>10. \A p \in B : p[3] = "arg"
    <3> HIDE DEF T, q, y
    <3> QED BY <2>6, BlocksAt DEF At
  <2>11. Destroyed(SM!destroys, T, q, y) = B
    BY <2>2, <2>7, DestroysAll DEF Destroyed
  <2>12. ReadsNull(SM!destroys, T, y) <=> (T = "Book" /\ y.price = Null)
    <3> HIDE DEF y, T, x, q
    <3>1. ASSUME NEW f \in SM!destroys[T], IsMessage(Kind(T, f)) PROVE f = "price" /\ T = "Book"
      <4>1. f \in Fields(T)
        BY <2>2, TablesComplete DEF Complete, Pointers
      <4> QED BY <2>2, <3>1, <4>1, KindsOfFields, StructKinds
    <3>2. SM!destroys["Book"] = {"price", "name"} /\ SM!destroys["Price"] = {"unit"} /\ Kind("Book", "price") = "Price" /\ IsMessage("Price")
      BY TablesComplete, StructKinds DEF Complete, IsMessage
    <3> QED BY <2>7, <3>1, <3>2 DEF ReadsNull
  <2>13. T = "Book" /\ y.price = Null => NoPrice
    BY <1>2, <2>1, <2>2, <2>9 DEF NoPrice, Has, params
  <2> HIDE DEF ArgMade, T, q, y, B, made, tree, x
  <2> QED BY <2>4, <2>8, <2>9, <2>10, <2>11, <2>12, <2>13 DEF ServerLoses, B, T, q
<1>4. ArgBlocks(n, h, wire) = UNION {ArgMade(i) : i \in Structured(h)}
  BY DEF ArgBlocks
<1> HIDE DEF ArgMade
<1>5. Kept(h, vals) \subseteq ArgBlocks(n, h, wire) /\ \A p \in Kept(h, vals) : p[3] = "arg"
  BY <1>3, <1>4 DEF Kept
<1>6. Kept(h, vals) = UNION {Destroyed(SM!destroys, h.params[i], ArgAt(n, i), vals[i]) : i \in Structured(h)}
  BY <1>3 DEF Kept
<1>7. CASE \E i \in Structured(h) : ReadsNull(SM!destroys, h.params[i], vals[i])
  <2>1. NoPrice
    BY <1>3, <1>7
  <2> QED BY <1>5, <1>6, <1>7, <2>1
<1>8. CASE \A i \in Structured(h) : ~ReadsNull(SM!destroys, h.params[i], vals[i])
  <2>1. ASSUME NEW i \in DOMAIN h.params, h.params[i] = "Book" PROVE vals[i].price # Null
    <3>1. i \in Structured(h)
      BY <2>1, StructKinds DEF Structured, IsMessage
    <3> QED BY <1>3, <1>8, <2>1, <3>1
  <2>2. \A p \in ArgBlocks(n, h, wire) : p \in Kept(h, vals) \/ ServerLoses(p)
    BY <1>3, <1>4, <1>8 DEF Kept
  <2> QED BY <1>5, <1>6, <1>8, <2>1, <2>2
<1> QED BY <1>7, <1>8

LEMMA HeldDrop ==
  ASSUME NEW m, NEW held, NEW st, NEW bound, Held(m, held, st, bound), NEW less \in SUBSET held,
         \A p \in held : p \in less \/ ServerLoses(p)
  PROVE  Held(m, less, st, bound)
BY DEF Held

\* T_marshal and build_resp, of a result that there is
LEMMA WriteOwns ==
  ASSUME NEW h, NEW res, NEW m, NEW args, NEW st, NEW bound, Held(m, args \cup ResultAt(n, h.ret, res), st, bound),
         ResultRight(h.ret, res), IsMessage(h.ret) => Failed(m) \/ res # Null
  PROVE  LET w == WriteResult(n, h, res, m) IN
         /\ Held(w.m, args \cup ResultAt(n, h.ret, w.res) \cup (IF Failed(m) THEN {} ELSE ResponseBlocks(n)), st, bound)
         /\ h.ret = "Book" /\ w.res # Null => res # Null /\ (w.res.price = Null <=> res.price = Null)
         /\ ~Failed(m) /\ IsMessage(h.ret) => ResultData(h, res) # Null
<1> DEFINE w == WriteResult(n, h, res, m)
           held == args \cup ResultAt(n, h.ret, res)
<1>1. CASE Failed(m)
  <2>1. w = [resp |-> ErrorResponse(m.err), res |-> res, m |-> m]
    BY <1>1 DEF WriteResult
  <2>2. w.res = res /\ w.m = m
    BY <2>1
  <2> QED BY <1>1, <2>2
<1>2. CASE ~Failed(m) /\ ~IsMessage(h.ret)
  <2>1. w.res = res /\ w.m = Alloc(m, ResponseBlocks(n))
    BY <1>2 DEF WriteResult, ResultMemory, ResultFilled
  <2>2. Held(w.m, held \cup ResponseBlocks(n), st, bound)
    BY <2>1, HeldMore
  <2> QED BY <1>2, <2>1, <2>2, StructKinds DEF IsMessage
<1>3. CASE ~Failed(m) /\ IsMessage(h.ret)
  <2> DEFINE T == h.ret
             y == Filled(SM!marshals, T, res)
             more == Blocks(Pointers, T, ResAt(n), y) \ Blocks(Pointers, T, ResAt(n), res)
             text == <<"call", n, "text">>
             v1 == Alloc(m, {text} \cup more)
  <2>1. T \in DOMAIN Structs /\ res # Null /\ WellTyped(T, res, Floats)
    BY <1>3 DEF ResultRight, IsMessage
  <2>2. /\ y # Null /\ Tree(SM!marshals, T, y) # Null
        /\ Blocks(Pointers, T, ResAt(n), res) \subseteq Blocks(Pointers, T, ResAt(n), y)
        /\ T = "Book" => (y.price = Null <=> res.price = Null)
    <3> HIDE DEF T
    <3> QED BY <2>1, FilledBlocks
  <2>3. ResultFilled(h, res) = y /\ ResultData(h, res) = Tree(SM!marshals, T, y)
    BY <1>3, <2>1 DEF ResultFilled, ResultData
  <2>4. ResultMemory(n, h, res, m) = v1
    BY <1>3, <2>1, <2>3 DEF ResultMemory
  <2>5. w.res = y /\ w.m = Alloc(v1, ResponseBlocks(n))
    BY <1>3, <2>3, <2>4 DEF WriteResult
  <2>6. Held(v1, held \cup ({text} \cup more), st, bound)
    BY HeldMore
  <2> HIDE DEF v1
  <2>7. held \cup more = args \cup ResultAt(n, T, y)
    <3>1. ~IsNumber(T) /\ T # "void"
      BY <1>3, NumbersNoMessages DEF IsNumber
    <3> QED BY <1>3, <2>1, <2>2, <3>1 DEF ResultAt
  <2>8. ServerLoses(text)
    BY DEF ServerLoses
  <2> HIDE DEF text, more, held, y, T
  <2>9. Held(v1, held \cup more, st, bound)
    BY <2>6, <2>8, HeldDrop
  <2>10. Held(Alloc(v1, ResponseBlocks(n)), (held \cup more) \cup ResponseBlocks(n), st, bound)
    BY <2>9, HeldMore
  <2>11. Held(w.m, args \cup ResultAt(n, h.ret, w.res) \cup ResponseBlocks(n), st, bound)
    BY <2>5, <2>7, <2>10 DEF T
  <2> QED BY <1>3, <2>1, <2>2, <2>3, <2>5, <2>11 DEF T
<1> QED BY <1>1, <1>2, <1>3

\* end: frees the arguments and the result.
LEMMA CleanOwns ==
  ASSUME NEW h, NEW vals, NEW res, NEW m, NEW args, NEW rest, NEW st, NEW bound,
         Held(m, args \cup ResultAt(n, h.ret, res) \cup rest, st, bound),
         args = UNION {Destroyed(SM!destroys, h.params[i], ArgAt(n, i), vals[i]) : i \in Structured(h)},
         \A i \in Structured(h) : ~ReadsNull(SM!destroys, h.params[i], vals[i]),
         \A p \in args : p[3] = "arg", \A p \in rest : p[3] = "resp",
         h.ret = "Book" /\ res # Null => res.price # Null
  PROVE  Held(CleanUp(n, h, vals, res, m), rest, st, bound)
<1> DEFINE R == ResultAt(n, h.ret, res)
           less == FreeAll(m, args)
           clean == CleanUp(n, h, vals, res, m)
<1>1. \A p \in R : p[3] = "res"
  <2>1. At(ResAt(n), n, "res")
    BY PathsAt
  <2>2. \A p \in Blocks(Pointers, h.ret, ResAt(n), res) : p[3] = "res"
    BY <2>1, BlocksAt DEF At
  <2> QED BY <2>1, <2>2 DEF ResultAt, At
<1>2. clean = IF IsNumber(h.ret) \/ h.ret = "void" \/ res = Null THEN less
              ELSE FreeAll(IF IsMessage(h.ret) THEN Destroy(SM!destroys, h.ret, ResAt(n), res, less) ELSE less, {ResAt(n)})
  BY DEF CleanUp, FaultIf
<1> HIDE DEF R, clean
<1>3. Held(less, R \cup rest, st, bound)
  <2>1. Held(less, (args \cup R \cup rest) \ args, st, bound)
    BY <1>1, HeldFree DEF R
  <2>2. (args \cup R \cup rest) \ args = R \cup rest
    BY <1>1
  <2> QED BY <2>1, <2>2
<1> HIDE DEF less
<1>4. CASE IsNumber(h.ret) \/ h.ret = "void" \/ res = Null
  <2>1. R \cup rest = rest
    BY <1>4 DEF R, ResultAt
  <2> QED BY <1>2, <1>3, <1>4, <2>1 DEF clean
<1>5. CASE ~(IsNumber(h.ret) \/ h.ret = "void" \/ res = Null) /\ ~IsMessage(h.ret)
  <2>1. R = {ResAt(n)} /\ clean = FreeAll(less, R)
    BY <1>2, <1>5 DEF R, ResultAt
  <2>2. Held(FreeAll(less, R), (R \cup rest) \ R, st, bound)
    BY <1>1, <1>3, HeldFree
  <2>3. (R \cup rest) \ R = rest
    BY <1>1
  <2> QED BY <2>1, <2>2, <2>3 DEF clean
<1>6. CASE ~(IsNumber(h.ret) \/ h.ret = "void" \/ res = Null) /\ IsMessage(h.ret)
  <2> DEFINE T == h.ret
             B == Blocks(Pointers, T, ResAt(n), res)
             once == FreeAll(less, B)
  <2>1. R = {ResAt(n)} \cup B
    BY <1>6 DEF R, ResultAt
  <2>2. B \subseteq less.heap /\ IsMemory(less)
    BY <1>3, <2>1 DEF Held
  <2>3. Destroy(SM!destroys, T, ResAt(n), res, less) = once
    <3>1. T \in DOMAIN Structs /\ res # Null /\ (T = "Book" => res.price # Null)
      BY <1>6 DEF IsMessage
    <3> HIDE DEF T
    <3> QED BY <2>2, <3>1, DestroyIs
  <2>4. clean = FreeAll(once, {ResAt(n)})
    BY <1>2, <1>6, <2>3
  <2>5. ResAt(n) \notin B
    BY PathsAt, BlocksAt
  <2> HIDE DEF B
  <2>6. Held(once, (R \cup rest) \ B, st, bound)
    BY <1>1, <1>3, <2>1, HeldFree
  <2>7. ResAt(n) \in (R \cup rest) \ B /\ \A p \in (R \cup rest) \ B : p[3] # "map"
    BY <1>1, <2>1, <2>5
  <2> HIDE DEF once
  <2>8. Held(FreeAll(once, {ResAt(n)}), ((R \cup rest) \ B) \ {ResAt(n)}, st, bound)
    BY <2>6, <2>7, HeldFree
  <2>9. ((R \cup rest) \ B) \ {ResAt(n)} = rest
    BY <1>1, <2>1
  <2> QED BY <2>4, <2>8, <2>9 DEF clean
<1> QED BY <1>4, <1>5, <1>6

LEMMA SendOwns ==
  ASSUME NEW answer, NEW m, NEW rest, NEW st, NEW bound, Held(m, rest, st, bound),
         rest = IF answer.kind = "error" THEN {} ELSE ResponseBlocks(n)
  PROVE  Held(SendResponse(n, answer, m), {}, st, bound)
<1>1. CASE answer.kind = "error"
  BY <1>1, HeldErr DEF SendResponse
<1>2. CASE answer.kind # "error"
  <2>1. \A p \in rest : p[3] # "map"
    BY <1>2 DEF ResponseBlocks
  <2>2. Held(FreeAll(m, rest), rest \ rest, st, bound)
    BY <2>1, HeldFree
  <2>3. rest \ rest = {}
    OBVIOUS
  <2> QED BY <1>2, <2>2, <2>3 DEF SendResponse
<1> QED BY <1>1, <1>2

\* What is left of a handler when the application has returned
LEMMA FinishOwns ==
  ASSUME NEW h, NEW vals, NEW out, NEW args,
         args = UNION {Destroyed(SM!destroys, h.params[i], ArgAt(n, i), vals[i]) : i \in Structured(h)},
         \A i \in Structured(h) : ~ReadsNull(SM!destroys, h.params[i], vals[i]), \A p \in args : p[3] = "arg",
         Held(out.m, args \cup ResultAt(n, h.ret, out.res), out.store, n), ResultRight(h.ret, out.res),
         IsMessage(h.ret) => Failed(out.m) \/ out.res # Null, h.ret = "Book" /\ out.res # Null => out.res.price # Null
  PROVE  LET o == Finish(n, h, vals, out) IN
         /\ Held(o.m, {}, out.store, n)
         /\ o.resp.kind = "value" => /\ ~Failed(out.m) /\ h.ret # "void" /\ o.resp.data = ResultData(h, out.res)
                                     /\ IsMessage(h.ret) => ResultData(h, out.res) # Null
<1> DEFINE o == Finish(n, h, vals, out)
           w == WriteResult(n, h, out.res, out.m)
           rest == IF Failed(out.m) THEN {} ELSE ResponseBlocks(n)
           clean == CleanUp(n, h, vals, w.res, w.m)
<1>1. o.resp = w.resp /\ o.m = SendResponse(n, w.resp, clean)
  BY DEF Finish
<1> HIDE DEF o, rest, clean
<1>2. /\ Held(w.m, args \cup ResultAt(n, h.ret, w.res) \cup (IF Failed(out.m) THEN {} ELSE ResponseBlocks(n)), out.store, n)
      /\ Failed(out.m) => w.resp.kind = "error"
      /\ ~Failed(out.m) => w.resp = Response(h.ret, ResultData(h, out.res))
      /\ h.ret = "Book" /\ w.res # Null => out.res # Null /\ (w.res.price = Null <=> out.res.price = Null)
      /\ ~Failed(out.m) /\ IsMessage(h.ret) => ResultData(h, out.res) # Null
  <2>1. Held(w.m, args \cup ResultAt(n, h.ret, w.res) \cup (IF Failed(out.m) THEN {} ELSE ResponseBlocks(n)), out.store, n)
    BY WriteOwns
  <2>2. Follows(out.m, out.m)
    BY FollowsItself DEF Held
  <2>3. Failed(out.m) => w.resp = ErrorResponse(out.m.err)
    BY <2>2, ResultFollows
  <2>6. ~Failed(out.m) => w.resp = Response(h.ret, ResultData(h, out.res))
    BY <2>2, ResultFollows
  <2>7. Failed(out.m) => w.resp.kind = "error"
    BY <2>3 DEF ErrorResponse
  <2>4. h.ret = "Book" /\ w.res # Null => out.res # Null /\ (w.res.price = Null <=> out.res.price = Null)
    BY WriteOwns
  <2>5. ~Failed(out.m) /\ IsMessage(h.ret) => ResultData(h, out.res) # Null
    BY WriteOwns
  <2> QED BY <2>1, <2>4, <2>5, <2>6, <2>7
<1> HIDE DEF w
<1>3. ~Failed(out.m) =>
         /\ w.resp.kind = IF h.ret = "void" THEN "nothing" ELSE "value"
         /\ w.resp.data = ResultData(h, out.res)
  BY <1>2 DEF Response
<1>4. \A p \in rest : p[3] = "resp"
  BY DEF rest, ResponseBlocks
<1>5. rest = IF w.resp.kind = "error" THEN {} ELSE ResponseBlocks(n)
  BY <1>2, <1>3 DEF rest
<1>6. h.ret = "Book" /\ w.res # Null => w.res.price # Null
  BY <1>2
<1>7. Held(clean, rest, out.store, n)
  <2>1. Held(w.m, args \cup ResultAt(n, h.ret, w.res) \cup rest, out.store, n)
    BY <1>2 DEF rest
  <2> QED BY <1>4, <1>6, <2>1, CleanOwns DEF clean
<1>8. Held(SendResponse(n, w.resp, clean), {}, out.store, n)
  BY <1>5, <1>7, SendOwns
<1>9. o.resp.kind = "value" => ~Failed(out.m) /\ h.ret # "void" /\ o.resp.data = ResultData(h, out.res)
  BY <1>1, <1>2, <1>3
<1> QED BY <1>1, <1>2, <1>8, <1>9 DEF o

\* end: reads the struct of an argument, or the price of a result, that is NULL.
LEMMA CleanFaults ==
  ASSUME NEW h, NEW vals, NEW res, NEW m, IsMemory(m), m.fault = "none",
         \/ \E i \in Structured(h) : ReadsNull(SM!destroys, h.params[i], vals[i])
         \/ /\ \A i \in Structured(h) : ~ReadsNull(SM!destroys, h.params[i], vals[i])
            /\ UNION {Destroyed(SM!destroys, h.params[i], ArgAt(n, i), vals[i]) : i \in Structured(h)} \subseteq m.heap
            /\ h.ret = "Book" /\ res # Null /\ res.price = Null
  PROVE  CleanUp(n, h, vals, res, m).fault = ReadOfNull
<1> DEFINE what == ReadOfNull
           args == UNION {Destroyed(SM!destroys, h.params[i], ArgAt(n, i), vals[i]) : i \in Structured(h)}
           null == \E i \in Structured(h) : ReadsNull(SM!destroys, h.params[i], vals[i])
           begun == FaultIf(null, m, what)
           less == FreeAll(begun, args)
           last == IF IsMessage(h.ret) THEN Destroy(SM!destroys, h.ret, ResAt(n), res, less) ELSE less
           clean == CleanUp(n, h, vals, res, m)
<1>w. what # "none"
  BY NamedFaults
<1>1. clean = IF IsNumber(h.ret) \/ h.ret = "void" \/ res = Null THEN less ELSE FreeAll(last, {ResAt(n)})
  BY DEF CleanUp, ReadOfNull
<1>2. IsMemory(begun) /\ (null => begun.fault = what) /\ (~null => begun = m)
  <2> HIDE DEF null
  <2>1. CASE null
    <3>1. begun = Fault(m, what)
      BY <2>1 DEF FaultIf
    <3> HIDE DEF what, begun
    <3>2. IsMemory(begun) /\ begun.fault = IF m.fault = "none" THEN what ELSE m.fault
      BY <3>1, FaultIs, FaultFields, ZenonT(60)
    <3> QED BY <2>1, <3>2
  <2>2. CASE ~null
    BY <2>2 DEF FaultIf
  <2> QED BY <2>1, <2>2
<1>a. null \/ (~null /\ args \subseteq m.heap /\ h.ret = "Book" /\ res # Null /\ res.price = Null)
  OBVIOUS
<1> HIDE DEF null, begun, args, clean, what
<1>3. IsMemory(less) /\ (null => less.fault = what) /\ (~null => less.fault = "none")
  <2>1. IsMemory(less) /\ less.fault = IF begun.fault = "none" /\ ~(args \subseteq begun.heap) THEN "free of a freed block" ELSE begun.fault
    BY <1>2, FreeAllIs, FreeAllFields
  <2> HIDE DEF less
  <2> QED BY <1>a, <1>w, <1>2, <2>1
<1>4. Follows(less, less)
  BY <1>3, FollowsItself
<1>5. Follows(less, Destroy(SM!destroys, h.ret, ResAt(n), res, less))
  <2>1. OfCalls(Destroyed(SM!destroys, h.ret, ResAt(n), res))
    BY CallPaths, BlocksOfCalls
  <2> HIDE DEF less
  <2> QED BY <1>4, <2>1, FollowsFault, FollowsFree DEF Destroy
<1>6. Follows(less, last)
  BY <1>4, <1>5
<1>7. CASE null
  <2> HIDE DEF less, last
  <2>1. less.fault = what
    BY <1>3, <1>7
  <2>2. last.fault = what /\ IsMemory(last)
    BY <1>w, <1>6, <2>1 DEF Follows
  <2>3. FreeAll(last, {ResAt(n)}).fault = what
    BY <1>w, <2>2, FreeAllFields
  <2> QED BY <1>1, <2>1, <2>3 DEF clean, what
<1>8. CASE ~null
  <2>1. IsMessage(h.ret) /\ ~IsNumber(h.ret) /\ h.ret # "void"
    BY <1>a, <1>8, StructKinds, NumbersNoMessages DEF IsMessage, IsNumber
  <2>2. ReadsNull(SM!destroys, "Book", res)
    <3>1. "price" \in SM!destroys["Book"] /\ SM!destroys["Price"] # {} /\ Kind("Book", "price") = "Price" /\ IsMessage("Price")
      BY StructKinds DEF SM!destroys, SM!Book_destroy, SM!Price_destroy, IsMessage
    <3> QED BY <1>a, <1>8, <3>1 DEF ReadsNull
  <2> HIDE DEF less
  <2> DEFINE faulty == Fault(less, what)
             blocks == Destroyed(SM!destroys, "Book", ResAt(n), res)
  <2>3. last = FreeAll(faulty, blocks)
    <3>1. last = Destroy(SM!destroys, "Book", ResAt(n), res, less)
      BY <1>a, <1>8, <2>1
    <3> HIDE DEF last, less
    <3> QED BY <2>2, <3>1 DEF Destroy, FaultIf, what, ReadOfNull
  <2>4. IsMemory(faulty) /\ faulty.fault = IF less.fault = "none" THEN what ELSE less.fault
    BY <1>3, FaultIs, FaultFields
  <2>7. faulty.fault = what
    BY <1>3, <1>8, <2>4
  <2> HIDE DEF faulty, blocks, last
  <2>5. IsMemory(last) /\ last.fault = what
    BY <1>w, <2>3, <2>4, <2>7, FreeAllIs, FreeAllFields
  <2>6. FreeAll(last, {ResAt(n)}).fault = what
    BY <1>w, <2>5, FreeAllFields
  <2> QED BY <1>1, <1>a, <1>8, <2>1, <2>6 DEF clean, what
<1> QED BY <1>7, <1>8

LEMMA FinishFollows ==
  ASSUME NEW h, NEW vals, NEW out, IsMemory(out.m)
  PROVE  LET w == WriteResult(n, h, out.res, out.m) IN
         Follows(out.m, Finish(n, h, vals, out).m) /\ Follows(w.m, CleanUp(n, h, vals, w.res, w.m))
         /\ Follows(CleanUp(n, h, vals, w.res, w.m), Finish(n, h, vals, out).m)
<1> DEFINE w == WriteResult(n, h, out.res, out.m)
           clean == CleanUp(n, h, vals, w.res, w.m)
<1>1. Finish(n, h, vals, out).m = SendResponse(n, w.resp, clean)
  BY DEF Finish
<1>2. Follows(out.m, w.m)
  BY FollowsItself, ResultFollows
<1> HIDE DEF w
<1>3. Follows(out.m, clean) /\ Follows(w.m, clean)
  <2>1. Follows(w.m, w.m)
    BY <1>2, FollowsItself DEF Follows
  <2> QED BY <1>2, <2>1, CleanUpFollows
<1> HIDE DEF clean
<1>4. Follows(out.m, SendResponse(n, w.resp, clean)) /\ Follows(clean, SendResponse(n, w.resp, clean))
  <2>1. Follows(clean, clean)
    BY <1>3, FollowsItself DEF Follows
  <2> QED BY <1>3, <2>1, SendFollows
<1> QED BY <1>1, <1>3, <1>4 DEF w, clean

\* The text of a result that there is
LEMMA ResultFaultless ==
  ASSUME NEW id, NEW h, NEW res, NEW m, IsMemory(m), Failed(m) \/ ~IsMessage(h.ret) \/ res # Null
  PROVE  WriteResult(id, h, res, m).m.fault = m.fault /\ m.heap \subseteq WriteResult(id, h, res, m).m.heap
<1> DEFINE blocks == {<<"call", id, "text">>} \cup (Blocks(Pointers, h.ret, ResAt(id), ResultFilled(h, res))
                                                     \ Blocks(Pointers, h.ret, ResAt(id), res))
           w == ResultMemory(id, h, res, m)
<1>1. CASE Failed(m)
  <2>1. WriteResult(id, h, res, m).m = m
    BY <1>1 DEF WriteResult
  <2> QED BY <2>1
<1>2. CASE ~Failed(m)
  <2>1. WriteResult(id, h, res, m).m = Alloc(w, ResponseBlocks(id))
    BY <1>2 DEF WriteResult
  <2>2. w = m \/ w = Alloc(m, blocks)
    BY <1>2 DEF ResultMemory
  <2> HIDE DEF w, blocks
  <2>3. IsMemory(w) /\ w.fault = m.fault /\ m.heap \subseteq w.heap
    BY <2>2, AllocIs, AllocFields
  <2>4. Alloc(w, ResponseBlocks(id)).fault = w.fault /\ w.heap \subseteq Alloc(w, ResponseBlocks(id)).heap
    BY <2>3, AllocFields
  <2> QED BY <2>1, <2>3, <2>4
<1> QED BY <1>1, <1>2

\* What the application did is what ends the handler, or its result, or a struct among its
\* arguments, or in its result.
LEMMA FinishFaults ==
  ASSUME NEW h, NEW vals, NEW out, IsMemory(out.m), ResultRight(h.ret, out.res)
  PROVE  LET fault == Finish(n, h, vals, out).m.fault
             unread == IsMessage(h.ret) /\ ~Failed(out.m) /\ out.res = Null
             null == \E i \in Structured(h) : ReadsNull(SM!destroys, h.params[i], vals[i])
             args == UNION {Destroyed(SM!destroys, h.params[i], ArgAt(n, i), vals[i]) : i \in Structured(h)}
         IN /\ out.m.fault # "none" => fault = out.m.fault
            /\ out.m.fault = "none" /\ unread => fault = StrlenOfNull
            /\ out.m.fault = "none" /\ ~unread /\ null => fault = ReadOfNull
            /\ out.m.fault = "none" /\ ~null /\ args \subseteq out.m.heap /\ h.ret = "Book" /\ out.res # Null /\ out.res.price = Null
                 => fault = ReadOfNull
<1> DEFINE w == WriteResult(n, h, out.res, out.m)
           clean == CleanUp(n, h, vals, w.res, w.m)
           o == Finish(n, h, vals, out)
           unread == IsMessage(h.ret) /\ ~Failed(out.m) /\ out.res = Null
           null == \E i \in Structured(h) : ReadsNull(SM!destroys, h.params[i], vals[i])
           args == UNION {Destroyed(SM!destroys, h.params[i], ArgAt(n, i), vals[i]) : i \in Structured(h)}
           strlen == StrlenOfNull
           what == ReadOfNull
<1>s. strlen # "none" /\ what # "none"
  BY NamedFaults
<1>1. Follows(out.m, o.m) /\ Follows(w.m, clean) /\ Follows(clean, o.m)
  BY FinishFollows
<1>2. Follows(out.m, w.m) /\ IsMemory(w.m)
  BY FollowsItself, ResultFollows DEF Follows
<1>3. out.m.fault # "none" => o.m.fault = out.m.fault
  BY <1>1 DEF Follows
<1>4. ASSUME out.m.fault = "none", unread PROVE o.m.fault = strlen
  <2>1. w.m.fault = strlen
    <3>1. w.m.fault = IF out.m.fault = "none" THEN strlen ELSE out.m.fault
      BY <1>4, ResultFaults
    <3> HIDE DEF w, strlen
    <3> QED BY <1>4, <3>1
  <2> HIDE DEF w, clean, o, strlen
  <2> QED BY <1>1, <1>s, <2>1 DEF Follows
<1>5. out.m.fault = "none" /\ ~unread => w.m.fault = "none" /\ out.m.heap \subseteq w.m.heap
  BY ResultFaultless
<1>6. ASSUME out.m.fault = "none", ~unread, null PROVE o.m.fault = what
  <2>1. clean.fault = what
    <3>1. w.m.fault = "none"
      BY <1>5, <1>6
    <3> HIDE DEF w, unread
    <3> QED BY <1>2, <1>6, <3>1, CleanFaults
  <2> HIDE DEF w, clean, o, what
  <2> QED BY <1>1, <1>s, <2>1 DEF Follows
<1>7. ASSUME out.m.fault = "none", ~null, args \subseteq out.m.heap, h.ret = "Book", out.res # Null, out.res.price = Null
      PROVE  o.m.fault = what
  <2>1. w.res # Null /\ w.res.price = Null
    <3>1. CASE Failed(out.m)
      <4>1. w.res = out.res
        BY <3>1 DEF WriteResult
      <4> QED BY <1>7, <4>1
    <3>2. CASE ~Failed(out.m)
      <4> DEFINE y == Filled(SM!marshals, "Book", out.res)
      <4>1. "Book" \in DOMAIN Structs /\ WellTyped("Book", out.res, Floats)
        BY <1>7, StructKinds DEF ResultRight, IsMessage
      <4>2. w.res = y
        BY <1>7, <3>2, <4>1 DEF WriteResult, ResultFilled, IsMessage
      <4> HIDE DEF w
      <4>3. y # Null /\ (y.price = Null <=> out.res.price = Null)
        <5> DEFINE T == "Book"
        <5>1. T \in DOMAIN Structs /\ WellTyped(T, out.res, Floats) /\ T = "Book" /\ y = Filled(SM!marshals, T, out.res)
          BY <4>1
        <5> HIDE DEF T, y
        <5> QED BY <1>7, <5>1, FilledBlocks
      <4> QED BY <1>7, <4>2, <4>3
    <3> QED BY <3>1, <3>2
  <2>2. w.m.fault = "none" /\ args \subseteq w.m.heap
    <3>1. ~unread
      BY <1>7
    <3> HIDE DEF w, unread, args
    <3> QED BY <1>5, <1>7, <3>1
  <2>3. clean.fault = what
    <3>1. /\ \A i \in Structured(h) : ~ReadsNull(SM!destroys, h.params[i], vals[i])
          /\ UNION {Destroyed(SM!destroys, h.params[i], ArgAt(n, i), vals[i]) : i \in Structured(h)} \subseteq w.m.heap
          /\ h.ret = "Book" /\ w.res # Null /\ w.res.price = Null /\ w.m.fault = "none"
      <4> HIDE DEF w
      <4> QED BY <1>7, <2>1, <2>2
    <3> HIDE DEF w
    <3> QED BY <1>2, <3>1, CleanFaults
  <2> HIDE DEF w, clean, o, what
  <2> QED BY <1>1, <1>s, <2>3 DEF Follows
<1> HIDE DEF w, clean, o, unread, null, args, strlen, what
<1>8. /\ out.m.fault # "none" => o.m.fault = out.m.fault
      /\ out.m.fault = "none" /\ unread => o.m.fault = strlen
      /\ out.m.fault = "none" /\ ~unread /\ null => o.m.fault = what
      /\ out.m.fault = "none" /\ ~null /\ args \subseteq out.m.heap /\ h.ret = "Book" /\ out.res # Null /\ out.res.price = Null
           => o.m.fault = what
  BY <1>3, <1>4, <1>6, <1>7
<1> QED BY <1>8 DEF o, unread, null, args, strlen, what

\* Why an application of the examples crashes, told by the arguments of the call
LEMMA CrashKnown ==
  ASSUME Requested, call.method \in DOMAIN Services, NEW h, h = Services[call.method], h.params = call.stub.params, NEW vals,
         \A i \in DOMAIN call.vals : vals[i] = Arrived(call.stub.params[i], call.vals[i]),
         Priceless(call.method, vals) => NoPrice, call.app = "example",
         NEW what, Crashes(call.method, vals, store, what)
  PROVE  CallFault(what)
<1> DEFINE Strlen == what = "strlen of NULL" /\ call.method \in {"toupper", "tolower", "concat"} /\ NullString(call.method, vals)
           Sscanf == what = "sscanf of NULL" /\ call.method = "atoi" /\ NullString(call.method, vals)
           Hash == what = "hash of NULL" /\ call.method \in {"getBook", "updateBookPrice"} /\ NullString(call.method, vals)
           Division == what = "division by zero" /\ call.method = "Divide" /\ vals[2] = 0
           Past == what = "read past a block" /\ call.method = "concat" /\ ~NullString(call.method, vals)
           Garbled == what = VaList /\ call.method = "getBook" /\ ~NullString(call.method, vals) /\ vals[1] \notin DOMAIN store
           Unread == what = "read of a NULL struct" /\ Priceless(call.method, vals)
<1>1. DOMAIN call.vals = DOMAIN h.params
  BY DEF Requested, IsCall
<1>2. ASSUME NEW i \in DOMAIN h.params, h.params[i] = "string"
      PROVE  (vals[i] = Null <=> call.vals[i] \in {Null, Blank}) /\ (vals[i] # Null => vals[i] = call.vals[i])
  <2>1. vals[i] = IF call.vals[i] \in {Null, Blank} THEN Null ELSE call.vals[i]
    BY <1>1, <1>2, NumbersNoMessages DEF Arrived
  <2> QED BY <2>1
<1>3. NullString(call.method, vals) <=> EmptyString
  BY <1>1, <1>2 DEF NullString, EmptyString, Has
<1>4. CASE Strlen
  BY <1>3, <1>4, Zenon DEF CallFault, Example
<1>5. CASE Sscanf
  BY <1>3, <1>5, Zenon DEF CallFault, Example
<1>6. CASE Hash
  BY <1>3, <1>6, Zenon DEF CallFault, Example
<1>7. CASE Division
  <2>1. call.method = "Divide" /\ vals[2] = 0
    BY <1>7
  <2>2. 2 \in DOMAIN h.params /\ h.params[2] = "uint64"
    BY <2>1, ServiceRows
  <2>3. call.vals[2] = 0
    BY <1>1, <2>1, <2>2, NumbersNoMessages DEF Arrived
  <2> QED BY <1>7, <2>3, Zenon DEF CallFault, Example
<1>8. CASE Past
  BY <1>3, <1>8, Zenon DEF CallFault, Example
<1>9. CASE Garbled
  <2>1. 1 \in DOMAIN h.params /\ h.params[1] = "string"
    BY <1>9, ServiceRows
  <2>2. vals[1] = call.vals[1]
    BY <1>2, <1>9, <2>1 DEF NullString
  <2> QED BY <1>9, <2>2, Zenon DEF CallFault, Example
<1>10. CASE Unread
  BY <1>10, Zenon DEF CallFault
<1>11. Strlen \/ Sscanf \/ Hash \/ Division \/ Past \/ Garbled \/ Unread
  BY DEF Crashes
<1> HIDE DEF Strlen, Sscanf, Hash, Division, Past, Garbled, Unread
<1> QED BY <1>4, <1>5, <1>6, <1>7, <1>8, <1>9, <1>10, <1>11

\* A request whose arguments are of the types of the function passes the checks.
LEMMA RightAccepted ==
  ASSUME Requested, NEW h \in {Services[method] : method \in DOMAIN Services}, h.params = call.stub.params
  PROVE  Accepts(h, wire)
<1>1. call.stub.params \in Seq(STRING)
  BY DEF Requested, IsCall
<1>2. wire = [i \in DOMAIN call.stub.params |-> ArgOf(call.stub.params[i], call.vals[i])]
  BY DEF Requested, ArgsOf
<1>3. Len(wire) = Len(h.params) /\ DOMAIN wire = DOMAIN call.stub.params
  BY <1>1, <1>2
<1>4. ASSUME NEW i \in DOMAIN wire
      PROVE  wire[i].type = h.params[i] /\ wire[i].size = Size(h.params[i])
  <2>1. wire[i] = ArgOf(h.params[i], call.vals[i])
    BY <1>2, <1>3
  <2> QED BY <2>1 DEF ArgOf, Size
<1> QED BY <1>3, <1>4 DEF Accepts

\* A handler frees what it made, but for what it is known to lose, and leaves book_map whole.
LEMMA HandledOwns ==
  ASSUME Requested, call.method \in DOMAIN Services, n \in Nat, StoreRight(store),
         NEW last \in Int, last < n, Held(s, {}, store, last), NEW o \in Handled(Services[call.method])
  PROVE  /\ o.m.fault = "none" => Held(o.m, {}, o.store, n)
         /\ o.m.fault = "none" /\ o.resp.kind = "value" =>
              /\ o.resp.data # Null
              /\ Services[call.method].ret = "Book" => o.ran[1].res.price # Null
         /\ o.m.fault # "none" => CallFault(o.m.fault)
<1> DEFINE h == Services[call.method]
           m == Alloc(s, RequestBlocks(n, wire))
           vals == ReadArgs(h, wire)
           blocks == ArgBlocks(n, h, wire)
           begun == Alloc(m, blocks)
           args == Kept(h, vals)
<1>1. Held(m, {}, store, last)
  <2>1. \A p \in RequestBlocks(n, wire) : ServerLoses(p)
    BY DEF RequestBlocks, ServerLoses
  <2> QED BY <2>1, HeldMore
<1>2. CASE ~Accepts(h, wire)
  <2>1. o \in Refuse(store, m)
    BY <1>2 DEF Handled
  <2>2. OtherParams
    BY <1>2, RightAccepted DEF OtherParams
  <2> HIDE DEF m
  <2>3. IsMemory(m) /\ m.fault = "none"
    BY <1>1 DEF Held
  <2>4. PICK e \in errorf(m) : o.m = [e EXCEPT !.err = NoError] /\ o.store = store /\ o.resp.kind = "error"
    BY <2>1, SMTT(30) DEF Refuse, ErrorResponse
  <2>5. CASE e = [m EXCEPT !.err = "garbled"]
    <3>1. Held(e, {}, store, n)
      <4>1. Held(m, {}, store, n)
        BY <1>1, HeldLater
      <4> QED BY <2>5, <4>1, HeldErr
    <3>2. Held([e EXCEPT !.err = NoError], {}, store, n)
      BY <3>1, HeldErr
    <3>3. Held(o.m, {}, o.store, n) /\ o.m.fault = "none"
      BY <2>4, <3>2 DEF Held
    <3> QED BY <2>4, <3>3
  <2>6. CASE e = Fault(m, VaList)
    <3>1. IsMemory(e) /\ e.fault = VaList
      BY <2>3, <2>6, FaultIs, FaultFields
    <3>2. o.m.fault = VaList
      BY <2>4, <3>1, ErrFields
    <3>3. CallFault(VaList)
      BY <2>2, Zenon DEF CallFault
    <3> QED BY <3>2, <3>3, VaListIs
  <2> QED BY <2>4, <2>5, <2>6 DEF errorf
<1>3. CASE Accepts(h, wire)
  <2>1. PICK out \in Outcomes(h, vals, begun) : o = Finish(n, h, vals, out)
    BY <1>3 DEF Handled
  <2>2. h.params = call.stub.params /\ ReadRight(h, vals) /\ \A i \in DOMAIN call.vals : vals[i] = Arrived(call.stub.params[i], call.vals[i])
    BY <1>3, AcceptedTypes, ArgsRead
  <2>3. h \in {Services[method] : method \in DOMAIN Services}
    OBVIOUS
  <2>h. h = Services[call.method] /\ vals = ReadArgs(h, wire) /\ blocks = ArgBlocks(n, h, wire) /\ begun = Alloc(m, blocks)
        /\ args = Kept(h, vals)
    OBVIOUS
  <2> HIDE DEF h, m, vals, blocks, begun, args
  <2>4. /\ args \subseteq blocks /\ \A p \in args : p[3] = "arg"
        /\ args = UNION {Destroyed(SM!destroys, h.params[i], ArgAt(n, i), vals[i]) : i \in Structured(h)}
        /\ \/ /\ \A i \in Structured(h) : ~ReadsNull(SM!destroys, h.params[i], vals[i])
              /\ \A i \in DOMAIN h.params : h.params[i] = "Book" => vals[i].price # Null
              /\ \A p \in blocks : p \in args \/ ServerLoses(p)
           \/ /\ \E i \in Structured(h) : ReadsNull(SM!destroys, h.params[i], vals[i])
              /\ NoPrice
    BY <1>3, <2>3, <2>h, ArgsOwned
  <2>5. Held(begun, {} \cup blocks, store, last)
    BY <1>1, <2>h, HeldMore
  <2>6. OutcomeRight(h.ret, begun, out)
    BY <2>2, <2>5, <2>h, OutcomesRight DEF Requested, Held
  <2>7. IsMemory(out.m) /\ ResultRight(h.ret, out.res)
    BY <2>6 DEF OutcomeRight, Follows
  <2>8. o.ran[1].res = out.res /\ o.store = out.store
    BY <2>1 DEF Finish
  <2>p. Priceless(call.method, vals) => NoPrice
    BY <2>4, <2>h DEF Priceless
  <2>q. IsCall(call) /\ h = Services[call.method] /\ ReadRight(h, vals)
    BY <2>2, <2>h DEF Requested
  <2> DEFINE unread == IsMessage(h.ret) /\ ~Failed(out.m) /\ out.res = Null
               null == \E i \in Structured(h) : ReadsNull(SM!destroys, h.params[i], vals[i])
  <2>9. /\ out.m.fault # "none" => o.m.fault = out.m.fault
        /\ out.m.fault = "none" /\ unread => o.m.fault = StrlenOfNull
        /\ out.m.fault = "none" /\ ~unread /\ null => o.m.fault = ReadOfNull
        /\ out.m.fault = "none" /\ ~null /\ args \subseteq out.m.heap /\ h.ret = "Book" /\ out.res # Null /\ out.res.price = Null
             => o.m.fault = ReadOfNull
    BY <2>1, <2>4, <2>7, FinishFaults
  <2>11. OutcomeOwned(h, vals, {} \cup blocks, out)
    BY <2>5, <2>q, OutcomesOwn
  <2> HIDE DEF unread, null
  <2>12. ASSUME out.m.fault # "none" PROVE o.m.fault # "none" /\ CallFault(o.m.fault)
    <3>1. call.app = "example" /\ Crashes(call.method, vals, store, out.m.fault)
      BY <2>11, <2>12 DEF OutcomeOwned
    <3>2. CallFault(out.m.fault)
      BY <2>2, <2>h, <2>p, <3>1, CrashKnown
    <3> QED BY <2>9, <2>12, <3>2
  <2>13. NullResult => CallFault(StrlenOfNull)
    BY Zenon DEF CallFault, StrlenOfNull
  <2>14. NoPrice => CallFault(ReadOfNull)
    BY Zenon DEF CallFault, ReadOfNull
  <2>15. ASSUME out.m.fault = "none", unread PROVE o.m.fault # "none" /\ CallFault(o.m.fault)
    <3>1. h.ret \notin {"string", "void"} /\ ~Failed(out.m) /\ out.res = Null
      BY <2>15, NumbersNoMessages DEF unread
    <3>2. NullResult
      BY <2>11, <2>15, <3>1 DEF OutcomeOwned
    <3> QED BY <2>9, <2>13, <2>15, <3>2, NamedFaults
  <2>16. ASSUME out.m.fault = "none", ~unread, null PROVE o.m.fault # "none" /\ CallFault(o.m.fault)
    <3>1. NoPrice
      BY <2>4, <2>16 DEF null
    <3> QED BY <2>9, <2>14, <2>16, <3>1, NamedFaults
  <2>10. CASE out.m.fault = "none" /\ ~unread /\ ~null
    <3>1. Held(begun, args, store, last)
      BY <2>4, <2>5, <2>10, HeldDrop DEF null
    <3>2. \A i \in DOMAIN h.params : h.params[i] = "Book" => vals[i].price # Null
      BY <2>4, <2>10 DEF null
    <3>3. /\ Held(out.m, args \cup ResultAt(n, h.ret, out.res), out.store, n)
          /\ h.ret \notin {"string", "void"} /\ ~Failed(out.m) => out.res # Null \/ NullResult
          /\ h.ret = "Book" /\ out.res # Null => out.res.price # Null \/ call.app = "NULL members"
      <4>1. OutcomeOwned(h, vals, args, out)
        BY <2>q, <3>1, OutcomesOwn
      <4>2. ~Priceless(call.method, vals)
        BY <2>h, <3>2 DEF Priceless
      <4> QED BY <2>4, <2>10, <4>1, <4>2 DEF OutcomeOwned
    <3>4. \A i \in Structured(h) : ~ReadsNull(SM!destroys, h.params[i], vals[i])
      BY <2>10 DEF null
    <3>5. IsMessage(h.ret) => Failed(out.m) \/ out.res # Null
      BY <2>10 DEF unread
    <3>6. CASE h.ret = "Book" /\ out.res # Null /\ out.res.price = Null
      <4>1. args \subseteq out.m.heap
        BY <3>3 DEF Held
      <4>2. o.m.fault = ReadOfNull
        BY <2>9, <2>10, <3>6, <4>1
      <4>3. NoPrice
        BY <2>h, <3>3, <3>6 DEF NoPrice
      <4> QED BY <2>14, <4>2, <4>3, NamedFaults
    <3>7. CASE h.ret = "Book" /\ out.res # Null => out.res.price # Null
      <4>1. /\ Held(o.m, {}, out.store, n)
            /\ o.resp.kind = "value" => /\ ~Failed(out.m) /\ h.ret # "void" /\ o.resp.data = ResultData(h, out.res)
                                        /\ IsMessage(h.ret) => ResultData(h, out.res) # Null
        BY <2>1, <2>4, <2>7, <3>3, <3>4, <3>5, <3>7, FinishOwns
      <4>2. o.m.fault = "none"
        BY <4>1 DEF Held
      <4>3. ASSUME o.resp.kind = "value" PROVE o.resp.data # Null
        <5>1. CASE IsMessage(h.ret)
          BY <4>1, <4>3, <5>1
        <5>2. CASE ~IsMessage(h.ret) /\ h.ret = "string"
          BY <4>1, <4>3, <5>2, NullIsNoValue DEF ResultData
        <5>3. CASE ~IsMessage(h.ret) /\ h.ret # "string"
          <6>1. out.res # Null
            BY <3>3, <3>7, <4>1, <4>3, <5>3 DEF NullResult, h
          <6> QED BY <4>1, <4>3, <5>3, <6>1 DEF ResultData
        <5> QED BY <5>1, <5>2, <5>3
      <4>4. ASSUME o.resp.kind = "value", h.ret = "Book" PROVE out.res.price # Null
        <5>1. IsMessage("Book")
          BY StructKinds DEF IsMessage
        <5>2. out.res # Null
          BY <3>5, <4>1, <4>4, <5>1
        <5> QED BY <3>7, <4>4, <5>2
      <4>5. Held(o.m, {}, o.store, n)
        BY <2>8, <4>1
      <4>6. ASSUME o.resp.kind = "value", Services[call.method].ret = "Book" PROVE o.ran[1].res.price # Null
        BY <2>8, <2>h, <4>4, <4>6
      <4> QED BY <4>2, <4>3, <4>5, <4>6
    <3> QED BY <3>6, <3>7
  <2> QED BY <2>10, <2>12, <2>15, <2>16
<1> HIDE DEF h
<1> QED BY <1>2, <1>3

\* OnlyKnownFaults, of the server
ServerFaults ==
  s'.fault # s.fault =>
    \/ s'.fault = "use of a pool never made" /\ svr.pool = Junk /\ spc' = "destroyed"
    \/ s'.fault = VaList /\ spc' = "stopped" /\ serr' = "garbled"
    \/ wire # Null /\ CallFault(s'.fault)

\* What leaves book_map and the blocks of calls alone
LEMMA OwnsKept ==
  ASSUME ServerOwns, store' = store, (s').fault = s.fault, \A p : p[1] = "call" => (p \in (s').heap <=> p \in s.heap),
         Latest \in Int, Latest' \in Int, Latest <= Latest'
  PROVE  ServerOwns' /\ ServerFaults
<1> SUFFICES ASSUME s'.fault = "none" PROVE ServerOwns'
  BY DEF ServerOwns, ServerFaults
<1>1. Stored(store, s.heap, Latest) /\ Apart(store) /\ \A p \in s.heap : p[1] = "call" => ServerLoses(p) \/ InStore(p, store)
  BY DEF ServerOwns
<1>2. ASSUME NEW name \in DOMAIN store
      PROVE  /\ BookAt(store[name]) \subseteq s'.heap /\ store[name].book.price # Null
             /\ \E k \in Nat : store[name].at = MapAt(k) /\ k <= Latest'
  <2>1. PICK k \in Nat : /\ store[name].at = MapAt(k) /\ k <= Latest
                         /\ \A p \in BookAt(store[name]) : At(p, k, "map")
    BY <1>1, StoreAt
  <2>2. BookAt(store[name]) \subseteq s.heap /\ store[name].book.price # Null
    BY <1>1 DEF Stored
  <2>3. BookAt(store[name]) \subseteq s'.heap
    BY <2>1, <2>2 DEF At
  <2>4. k <= Latest'
    BY <2>1
  <2> QED BY <2>1, <2>2, <2>3, <2>4
<1>3. Stored(store, s'.heap, Latest')
  BY <1>2 DEF Stored
<1>4. \A p \in s'.heap : p[1] = "call" => ServerLoses(p) \/ InStore(p, store)
  BY <1>1
<1> QED BY <1>1, <1>3, <1>4 DEF ServerOwns, Stored, Apart, InStore, Latest

LEMMA OwnsServe == ASSUME CallRight, ServerOwns, Serve PROVE ServerOwns' /\ SentWhole' /\ ServerFaults
<1>1. Recorded /\ Requested /\ cpc = "sent" /\ s.fault = "none" /\ n \in Nat /\ IsMemory(s)
  BY DEF CallRight, Recorded, Sending, Serve, ServerGone
<1>2. wire # Null /\ wire' = Null /\ n' = n /\ call' = call
  BY DEF Serve, client
<1>3. Latest = n - 1 /\ Latest' = n
  BY <1>1, <1>2 DEF Latest
<1>4. CASE call.method \notin DOMAIN svr.services
  <2>1. resp' = [kind |-> "closed"] /\ s' = [s EXCEPT !.heap = @ \ {<<"conn">>}] /\ UNCHANGED <<store, ran>>
    BY <1>4 DEF Serve
  <2>2. s' = [heap |-> s.heap \ {<<"conn">>}, fault |-> s.fault, err |-> s.err]
    BY <1>1, <2>1, LessIs
  <2>3. s'.fault = s.fault /\ s'.heap = s.heap \ {<<"conn">>}
    BY <2>2
  <2>4. \A p : p[1] = "call" => (p \in s'.heap <=> p \in s.heap)
    BY <2>3
  <2>5. Latest \in Int /\ Latest' \in Int /\ Latest <= Latest'
    BY <1>1, <1>3
  <2>6. ServerOwns' /\ ServerFaults
    BY <2>1, <2>3, <2>4, <2>5, OwnsKept
  <2>7. resp'.kind = "closed"
    BY <2>1
  <2> QED BY <2>6, <2>7 DEF SentWhole
<1>5. CASE call.method \in DOMAIN svr.services
  <2>1. svr.services = Services /\ call.method \in DOMAIN Services
    BY <1>1, <1>5 DEF Recorded
  <2>2. PICK o \in Handled(Services[call.method]) :
          /\ s' = o.m /\ store' = o.store /\ ran' = o.ran
          /\ resp' = IF o.m.fault # "none" THEN [kind |-> "closed"] ELSE o.resp
    BY <1>5, <2>1 DEF Serve
  <2>3. Answered(Services[call.method], o)
    BY <1>1, <2>1, HandledRight DEF Recorded
  <2>4. Held(s, {}, store, Latest) /\ Latest \in Int /\ Latest < n
    BY <1>1, <1>3 DEF Held, ServerOwns
  <2>5. /\ o.m.fault = "none" => Held(o.m, {}, o.store, n)
        /\ o.m.fault = "none" /\ o.resp.kind = "value" =>
             /\ o.resp.data # Null
             /\ Services[call.method].ret = "Book" => o.ran[1].res.price # Null
        /\ o.m.fault # "none" => CallFault(o.m.fault)
    BY <1>1, <2>1, <2>4, HandledOwns DEF Recorded
  <2>6. ServerOwns'
    <3>1. o.m.fault = "none" =>
            /\ \A p \in o.m.heap : p[1] = "call" => ServerLoses(p) \/ InStore(p, o.store)
            /\ Stored(o.store, o.m.heap, n) /\ Apart(o.store)
      BY <2>5 DEF Held
    <3> QED BY <1>3, <2>2, <3>1 DEF ServerOwns, Stored, Apart, InStore, Latest
  <2>7. SentWhole'
    <3>1. o.m.fault # "none" => resp'.kind = "closed"
      BY <2>2
    <3>2. o.m.fault = "none" => resp' = o.resp
      BY <2>2
    <3> QED BY <1>2, <2>2, <2>5, <3>1, <3>2 DEF SentWhole
  <2>8. ServerFaults
    <3>1. s'.fault # s.fault => CallFault(s'.fault)
      BY <1>1, <2>2, <2>5
    <3> QED BY <1>2, <3>1 DEF ServerFaults
  <2> QED BY <2>6, <2>7, <2>8
<1> QED BY <1>4, <1>5

LEMMA CallBlocksKept ==
  ASSUME NEW m, IsMemory(m), NEW blocks, \A p \in blocks : p[1] # "call"
  PROVE  /\ Alloc(m, blocks).fault = m.fault /\ \A p : p[1] = "call" => (p \in Alloc(m, blocks).heap <=> p \in m.heap)
         /\ [m EXCEPT !.heap = @ \ blocks].fault = m.fault
         /\ \A p : p[1] = "call" => (p \in [m EXCEPT !.heap = @ \ blocks].heap <=> p \in m.heap)
<1> DEFINE less == [m EXCEPT !.heap = @ \ blocks]
<1>1. less = [heap |-> m.heap \ blocks, fault |-> m.fault, err |-> m.err]
  BY LessIs
<1>2. Alloc(m, blocks).heap = m.heap \cup blocks /\ Alloc(m, blocks).fault = m.fault
  BY AllocFields
<1> HIDE DEF less
<1>3. less.fault = m.fault /\ less.heap = m.heap \ blocks
  BY <1>1
<1>4. less.fault = m.fault /\ \A p : p[1] = "call" => (p \in less.heap <=> p \in m.heap)
  BY <1>3
<1> QED BY <1>2, <1>4 DEF less

LEMMA CallBlocksStay ==
  ASSUME NEW m, IsMemory(m), NEW w, NEW blocks, \A p \in blocks : p[1] # "call",
         w = m \/ w = Alloc(m, blocks) \/ w = [m EXCEPT !.heap = @ \ blocks]
  PROVE  w.fault = m.fault /\ \A p : p[1] = "call" => (p \in w.heap <=> p \in m.heap)
<1> DEFINE more == Alloc(m, blocks)
           less == [m EXCEPT !.heap = @ \ blocks]
<1>1. more.fault = m.fault /\ \A p : p[1] = "call" => (p \in more.heap <=> p \in m.heap)
  BY CallBlocksKept
<1>2. less.fault = m.fault /\ \A p : p[1] = "call" => (p \in less.heap <=> p \in m.heap)
  BY CallBlocksKept
<1>3. w \in {m, more, less}
  OBVIOUS
<1> HIDE DEF more, less
<1> QED BY <1>1, <1>2, <1>3

\* What the server's main does leaves the blocks of calls alone.
LEMMA OwnsMain ==
  ASSUME Recorded, ServerOwns,
         server_create \/ server_register \/ (\E addr \in Addresses, fresh \in BOOLEAN, fails \in Fails : server_listen(addr, fresh, fails))
         \/ EpollFails \/ server_destroy \/ ServerExit \/ UNCHANGED vars
  PROVE  ServerOwns' /\ ServerFaults
<1>1. store' = store /\ n' = n /\ wire' = wire /\ IsMemory(s) /\ n \in Nat
  BY DEF Recorded, server_create, server_register, server_listen, EpollFails, server_destroy, ServerExit, client, vars, server
<1>2. Latest \in Int /\ Latest' \in Int /\ Latest <= Latest'
  BY <1>1 DEF Latest
<1>3. CASE \/ s' = s
           \/ \E blocks : (\A p \in blocks : p[1] # "call") /\ (s' = Alloc(s, blocks) \/ s' = [s EXCEPT !.heap = @ \ blocks])
  <2>1. s'.fault = s.fault /\ \A p : p[1] = "call" => (p \in s'.heap <=> p \in s.heap)
    <3>1. CASE s' = s
      BY <3>1
    <3>2. ASSUME NEW blocks, \A p \in blocks : p[1] # "call", s' = Alloc(s, blocks) \/ s' = [s EXCEPT !.heap = @ \ blocks]
          PROVE  s'.fault = s.fault /\ \A p : p[1] = "call" => (p \in s'.heap <=> p \in s.heap)
      BY <1>1, <3>2, CallBlocksStay
    <3> QED BY <1>3, <3>1, <3>2
  <2> QED BY <1>1, <1>2, <2>1, OwnsKept
<1>4. ASSUME NEW what, what # "none", s.fault = "none", s' = Fault(s, what) PROVE ServerOwns' /\ s'.fault = what
  <2>1. s'.fault = what
    BY <1>1, <1>4, FaultFields
  <2> QED BY <1>4, <2>1 DEF ServerOwns
<1>9. CASE server_destroy /\ svr.pool = Junk
  <2>1. s.fault = "none" /\ s' = Fault(s, "use of a pool never made") /\ spc' = "destroyed"
    BY <1>9 DEF server_destroy
  <2>2. ServerOwns' /\ s'.fault = "use of a pool never made"
    BY <1>4, <2>1
  <2> QED BY <1>9, <2>1, <2>2 DEF ServerFaults
<1>10. ASSUME s.fault = "none", s' = Fault(s, VaList), spc' = "stopped", serr' = "garbled" PROVE ServerOwns' /\ ServerFaults
  <2>1. ServerOwns' /\ s'.fault = VaList
    BY <1>4, <1>10, VaListIs
  <2> QED BY <1>10, <2>1 DEF ServerFaults
<1>5. CASE server_create
  <2>1. s' = Alloc(s, {<<"svr">>, <<"services">>}) /\ \A p \in {<<"svr">>, <<"services">>} : p[1] # "call"
    BY <1>5 DEF server_create
  <2> QED BY <1>3, <2>1
<1>6. ASSUME NEW addr \in Addresses, NEW fresh \in BOOLEAN, NEW fails \in Fails, server_listen(addr, fresh, fails)
      PROVE  ServerOwns' /\ ServerFaults
  <2>1. \/ s' = s \/ s' = Alloc(s, Made(listens + 1, fails))
        \/ s.fault = "none" /\ s' = Fault(s, VaList) /\ spc' = "stopped" /\ serr' = "garbled"
    <3>1. CASE s' \in Addressed(addr, s) /\ s' # s
      <4>1. addr = "no ip" /\ s' = Fault(s, VaList)
        BY <3>1 DEF Addressed
      <4> QED BY <1>6, <4>1 DEF server_listen, AddressError, NoError, init
    <3>2. CASE ~(s' \in Addressed(addr, s) /\ s' # s)
      BY <1>6, <3>2 DEF server_listen, init
    <3> QED BY <3>1, <3>2
  <2>2. \A p \in Made(listens + 1, fails) : p[1] # "call"
    BY DEF Made
  <2> QED BY <1>3, <1>10, <2>1, <2>2
<1>7. CASE server_destroy /\ svr.pool # Junk
  <2>1. s' = [s EXCEPT !.heap = @ \ Closed]
    BY <1>7 DEF server_destroy
  <2>2. \A p \in Closed : p[1] # "call"
    BY DEF Closed
  <2> QED BY <1>3, <2>1, <2>2
<1>8. CASE server_register \/ ServerExit \/ UNCHANGED vars
  BY <1>3, <1>8 DEF server_register, ServerExit, vars, server
<1>11. CASE EpollFails
  BY <1>3, <1>10, <1>11 DEF EpollFails
<1> QED BY <1>5, <1>6, <1>7, <1>8, <1>9, <1>11

\* Nor does what a client does, other than by a request.
LEMMA OwnsClient ==
  ASSUME CallRight, ServerOwns,
         (\E addr, fresh, fails : client_dial(addr, fresh, fails)) \/ (\E k \in DOMAIN Calls : Begin(k))
         \/ (\E cut \in Cuts : Return(cut)) \/ Delete \/ client_destroy
  PROVE  ServerOwns' /\ SentWhole' /\ ServerFaults
<1>1. store' = store /\ IsMemory(s) /\ n \in Nat
  BY DEF CallRight, Recorded, client_dial, Begin, Return, Delete, client_destroy, server
<1>2. \/ wire' = wire /\ n' = n
      \/ wire' = Null /\ n' = n
      \/ wire = Null /\ n' = n + 1
  BY DEF CallRight, Sending, client_dial, Begin, Return, Delete, client_destroy
<1>3. Latest \in Int /\ Latest' \in Int /\ Latest <= Latest'
  BY <1>1, <1>2 DEF Latest
<1>4. s'.fault = s.fault /\ \A p : p[1] = "call" => (p \in s'.heap <=> p \in s.heap)
  <2>1. s' = s \/ s' = Alloc(s, {<<"conn">>}) \/ s' = [s EXCEPT !.heap = @ \ {<<"conn">>}]
    BY DEF client_dial, Begin, Return, Delete, client_destroy, server
  <2>2. \A p \in {<<"conn">>} : p[1] # "call"
    OBVIOUS
  <2> QED BY <1>1, <2>1, <2>2, CallBlocksStay
<1>5. SentWhole'
  <2>1. cpc' = "sent" => resp' = Empty \/ resp' = [kind |-> "unsent"]
    BY DEF client_dial, Begin, Return, Delete, client_destroy
  <2>2. Empty.kind = "none" /\ [kind |-> "unsent"].kind = "unsent"
    BY DEF Empty
  <2>3. cpc' = "sent" => resp'.kind # "value"
    BY <2>1, <2>2
  <2> QED BY <2>3 DEF SentWhole
<1> QED BY <1>1, <1>3, <1>4, <1>5, OwnsKept

-----------------------------------------------------------------------------
(* Memory *)

LEMMA MemoryInit == Init => MemoryRight
<1> SUFFICES ASSUME Init PROVE MemoryRight
  OBVIOUS
<1>1. c.heap = {} /\ s.heap = {} /\ cpc = "start" /\ store = <<>>
  BY DEF Init, Memory
<1>2. ClientOwns
  BY <1>1 DEF ClientOwns, Owes
<1>3. ServerOwns
  BY <1>1 DEF ServerOwns, Stored, Apart
<1>4. SentWhole
  BY <1>1 DEF SentWhole
<1> QED BY <1>2, <1>3, <1>4 DEF MemoryRight

\* What the server does leaves the memory of the client alone.
LEMMA OwesUnseen == ASSUME ClientOwns, UNCHANGED client PROVE ClientOwns' /\ ClientFaults
<1>1. c' = c /\ cpc' = cpc /\ call' = call /\ n' = n /\ v' = v
  BY DEF client
<1>2. /\ Trees' = Trees /\ ResultBlocks' = ResultBlocks /\ (Owes' <=> Owes) /\ (Ended' <=> Ended)
      /\ \A p : ClientLoses(p)' <=> ClientLoses(p)
  BY <1>1 DEF Trees, ResultBlocks, Owes, Ended, ClientLoses, EndsWith, Failed
<1> QED BY <1>1, <1>2 DEF ClientOwns, ClientFaults

LEMMA MemoryNext == CallRight /\ MemoryRight /\ [Next]_vars => MemoryRight' /\ ClientFaults /\ ServerFaults
<1> SUFFICES ASSUME CallRight, MemoryRight, [Next]_vars PROVE MemoryRight' /\ ClientFaults /\ ServerFaults
  OBVIOUS
<1>r. Recorded /\ ClientOwns /\ ServerOwns /\ SentWhole
  BY DEF CallRight, MemoryRight
<1>1. ASSUME \/ server_create \/ server_register \/ EpollFails \/ server_destroy \/ ServerExit \/ UNCHANGED vars
             \/ \E addr \in Addresses, fresh \in BOOLEAN, fails \in Fails : server_listen(addr, fresh, fails)
      PROVE  MemoryRight' /\ ClientFaults /\ ServerFaults
  <2>1. ServerOwns' /\ ServerFaults
    BY <1>r, <1>1, OwnsMain
  <2>2. UNCHANGED <<client, resp, ran>>
    BY <1>1 DEF server_create, server_register, server_listen, EpollFails, server_destroy, ServerExit, vars
  <2>3. ClientOwns' /\ ClientFaults
    BY <1>r, <2>2, OwesUnseen
  <2>4. SentWhole'
    BY <1>r, <2>2 DEF SentWhole, client
  <2> QED BY <2>1, <2>3, <2>4 DEF MemoryRight
<1>2. CASE Serve
  <2>1. ServerOwns' /\ SentWhole' /\ ServerFaults
    BY <1>r, <1>2, OwnsServe
  <2>2. ClientOwns' /\ ClientFaults
    BY <1>r, <1>2, OwesUnseen DEF Serve
  <2> QED BY <2>1, <2>2 DEF MemoryRight
<1>3. ASSUME NEW addr, NEW fresh, NEW fails, client_dial(addr, fresh, fails) PROVE MemoryRight' /\ ClientFaults /\ ServerFaults
  BY <1>r, <1>3, OwesDial, OwnsClient DEF MemoryRight
<1>4. ASSUME NEW k \in DOMAIN Calls, Begin(k) PROVE MemoryRight' /\ ClientFaults /\ ServerFaults
  BY <1>r, <1>4, OwesBegin, OwnsClient DEF MemoryRight
<1>5. ASSUME NEW cut \in Cuts, Return(cut) PROVE MemoryRight' /\ ClientFaults /\ ServerFaults
  BY <1>r, <1>5, OwesReturn, OwnsClient DEF MemoryRight
<1>6. CASE Delete
  BY <1>r, <1>6, OwesDelete, OwnsClient DEF MemoryRight
<1>7. CASE client_destroy
  BY <1>r, <1>7, OwesDestroy, OwnsClient DEF MemoryRight
<1> QED BY <1>1, <1>2, <1>3, <1>4, <1>5, <1>6, <1>7 DEF Next

\* The invariant of memory: every block of the client is a known loss, a tree of the call in
\* progress or the result the caller has yet to free, every block of the server a known loss
\* or one of book_map, and the blocks of book_map are there, no two books sharing one.
THEOREM MemoryIsRight == Spec => []MemoryRight
BY CallsRight, MemoryInit, MemoryNext, PTL DEF Spec

\* Stubs, handlers and the applications of the examples free what they allocate, but for what
\* they are known to lose, and book_map refers to allocated blocks of its own.
THEOREM MemoryAlwaysOwned == Spec => []MemoryOwned
<1>1. MemoryRight => OnlyKnownLeaks
  <2> SUFFICES ASSUME MemoryRight PROVE OnlyKnownLeaks
    OBVIOUS
  <2>1. cpc = "idle" => \A p \in c.heap \ {<<"cli">>, <<"conn">>} : ClientLoses(p)
    BY DEF MemoryRight, ClientOwns, Trees, Owes, Ended
  <2>2. ASSUME NEW p, InStore(p, store) PROVE \E name \in DOMAIN store : p \in OfMap(name)
    BY <2>2 DEF InStore, BookAt, OfMap
  <2> QED BY <2>1, <2>2 DEF OnlyKnownLeaks, MemoryRight, ServerOwns
<1>2. MemoryRight => StoreOwned
  <2> SUFFICES ASSUME MemoryRight, s.fault = "none"
               PROVE  /\ \A name \in DOMAIN store : OfMap(name) \subseteq s.heap
                      /\ \A x, y \in DOMAIN store : x # y => OfMap(x) \cap OfMap(y) = {}
    BY DEF StoreOwned
  <2>1. Stored(store, s.heap, Latest) /\ Apart(store)
    BY DEF MemoryRight, ServerOwns
  <2>2. \A name \in DOMAIN store : OfMap(name) = BookAt(store[name])
    BY DEF BookAt, OfMap
  <2>3. ASSUME NEW x \in DOMAIN store, NEW y \in DOMAIN store, x # y PROVE OfMap(x) \cap OfMap(y) = {}
    <3>1. PICK k \in Nat : store[x].at = MapAt(k) /\ \A p \in BookAt(store[x]) : At(p, k, "map")
      BY <2>1, StoreAt
    <3>2. PICK l \in Nat : store[y].at = MapAt(l) /\ \A p \in BookAt(store[y]) : At(p, l, "map")
      BY <2>1, StoreAt
    <3>3. k # l
      BY <2>1, <2>3, <3>1, <3>2 DEF Apart
    <3> QED BY <2>2, <3>1, <3>2, <3>3 DEF At
  <2> QED BY <2>1, <2>2, <2>3 DEF Stored
<1> QED BY <1>1, <1>2, MemoryIsRight, PTL DEF MemoryOwned

\* Neither process does anything that C leaves undefined (no block is freed twice, none is
\* used that is not allocated, no NULL is read), but in the cases that are known.
THEOREM FaultsKnown == Spec => OnlyKnownFaults
<1>1. CallRight /\ MemoryRight /\ [Next]_vars => [ServerFaults /\ ClientFaults]_vars
  BY MemoryNext
<1> QED BY <1>1, CallsRight, MemoryIsRight, PTL DEF Spec, OnlyKnownFaults, ServerFaults, ClientFaults
=============================================================================
