--------------------------- MODULE ServerMessages ---------------------------
(***************************************************************************)
(* The generated code of the servers in examples/: which fields of its     *)
(* message each function handles, T_unmarshal in the order of the code,    *)
(* and the types that the handlers check for.                              *)
(***************************************************************************)
EXTENDS Sequences

-----------------------------------------------------------------------------
(* Messages: the fields that T_init, T_destroy, T_marshal and T_unmarshal handle *)

Account_init == {"userName"}
Account_destroy == {"userName"}
Account_marshal == {"userName", "balance"}
Account_unmarshal == <<"userName", "balance">>

Book_init == {"price", "name"}
\* Mutant of Book_destroy: the name is forgotten.
Book_destroyPrice == {"price"}
Book_destroy == {"price", "name"}
Book_marshal == {"price", "name"}
Book_unmarshal == <<"price", "name">>

Price_init == {"unit"}
Price_destroy == {"unit"}
Price_marshal == {"unit", "num"}
Price_unmarshal == <<"unit", "num">>

Quotient_init == {}
Quotient_destroy == {}
Quotient_marshal == {"Quo", "Rem"}
Quotient_unmarshal == <<"Quo", "Rem">>

TwoNum_init == {}
TwoNum_destroy == {}
TwoNum_marshal == {"A", "B"}
\* Mutant of TwoNum_unmarshal: the second field is not read.
TwoNum_unmarshalOne == <<"A">>
TwoNum_unmarshal == <<"A", "B">>

inits == [Account |-> Account_init, Book |-> Book_init, Price |-> Price_init,
          Quotient |-> Quotient_init, TwoNum |-> TwoNum_init]
destroys == [Account |-> Account_destroy, Book |-> Book_destroy, Price |-> Price_destroy,
             Quotient |-> Quotient_destroy, TwoNum |-> TwoNum_destroy]
marshals == [Account |-> Account_marshal, Book |-> Book_marshal, Price |-> Price_marshal,
             Quotient |-> Quotient_marshal, TwoNum |-> TwoNum_marshal]
unmarshals == [Account |-> Account_unmarshal, Book |-> Book_unmarshal, Price |-> Price_unmarshal,
               Quotient |-> Quotient_unmarshal, TwoNum |-> TwoNum_unmarshal]

-----------------------------------------------------------------------------
(* Handlers: the types each checks its arguments for, and that of its result *)

bookMarket_getBook_handler         == [params |-> <<"string">>, ret |-> "Book"]
bookMarket_consume_handler         == [params |-> <<"Book", "Account">>, ret |-> "Account"]
bookMarket_updateBookPrice_handler == [params |-> <<"string", "Price">>, ret |-> "void"]
bookMarket_shelve_handler          == [params |-> <<"Book">>, ret |-> "void"]
Math_Add_handler                   == [params |-> <<"uint32", "uint32">>, ret |-> "uint32"]
Math_Sub_handler                   == [params |-> <<"int32", "int32">>, ret |-> "int32"]
Math_Multiply_handler              == [params |-> <<"TwoNum">>, ret |-> "int32"]
Math_Divide_handler                == [params |-> <<"uint64", "uint64">>, ret |-> "Quotient"]
string_toupper_handler             == [params |-> <<"string">>, ret |-> "string"]
string_tolower_handler             == [params |-> <<"string">>, ret |-> "string"]
string_concat_handler              == [params |-> <<"string", "string">>, ret |-> "string"]
string_atoi_handler                == [params |-> <<"string">>, ret |-> "int32"]

register_bookMarket_service == [getBook |-> bookMarket_getBook_handler, consume |-> bookMarket_consume_handler,
    updateBookPrice |-> bookMarket_updateBookPrice_handler, shelve |-> bookMarket_shelve_handler]
register_Math_service == [Add |-> Math_Add_handler, Sub |-> Math_Sub_handler,
    Multiply |-> Math_Multiply_handler, Divide |-> Math_Divide_handler]
register_string_service == [toupper |-> string_toupper_handler, tolower |-> string_tolower_handler,
    concat |-> string_concat_handler, atoi |-> string_atoi_handler]
=============================================================================
