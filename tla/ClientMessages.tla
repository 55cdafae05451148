--------------------------- MODULE ClientMessages ---------------------------
(***************************************************************************)
(* The generated code of the clients in examples/: which fields of its     *)
(* message each function handles, T_unmarshal in the order of the code,    *)
(* and the types that the stubs name.                                      *)
(***************************************************************************)
EXTENDS Sequences

-----------------------------------------------------------------------------
(* Messages: the fields that T_init, T_destroy, T_marshal and T_unmarshal handle *)

Account_init == {"userName"}
Account_destroy == {"userName"}
Account_marshal == {"userName", "balance"}
Account_unmarshal == <<"userName", "balance">>

Book_init == {"price", "name"}
Book_destroy == {"price", "name"}
Book_marshal == {"price", "name"}
Book_unmarshal == <<"price", "name">>

Price_init == {"unit"}
Price_destroy == {"unit"}
Price_marshal == {"unit", "num"}
Price_unmarshal == <<"unit", "num">>

Quotient_init == {}
Quotient_destroy == {}
Quotient_marshal == {"Quo", "Rem"}
Quotient_unmarshal == <<"Quo", "Rem">>

TwoNum_init == {}
TwoNum_destroy == {}
TwoNum_marshal == {"A", "B"}
TwoNum_unmarshal == <<"A", "B">>

inits == [Account |-> Account_init, Book |-> Book_init, Price |-> Price_init,
          Quotient |-> Quotient_init, TwoNum |-> TwoNum_init]
destroys == [Account |-> Account_destroy, Book |-> Book_destroy, Price |-> Price_destroy,
             Quotient |-> Quotient_destroy, TwoNum |-> TwoNum_destroy]
marshals == [Account |-> Account_marshal, Book |-> Book_marshal, Price |-> Price_marshal,
             Quotient |-> Quotient_marshal, TwoNum |-> TwoNum_marshal]
unmarshals == [Account |-> Account_unmarshal, Book |-> Book_unmarshal, Price |-> Price_unmarshal,
               Quotient |-> Quotient_unmarshal, TwoNum |-> TwoNum_unmarshal]

-----------------------------------------------------------------------------
(* Methods: the types a stub names its arguments with, and that of the result *)

bookMarket_getBook         == [params |-> <<"string">>, ret |-> "Book"]
bookMarket_consume         == [params |-> <<"Book", "Account">>, ret |-> "Account"]
bookMarket_updateBookPrice == [params |-> <<"string", "Price">>, ret |-> "void"]
bookMarket_shelve          == [params |-> <<"Book">>, ret |-> "void"]
Math_Add                   == [params |-> <<"uint32", "uint32">>, ret |-> "uint32"]
Math_Sub                   == [params |-> <<"int32", "int32">>, ret |-> "int32"]
Math_Multiply              == [params |-> <<"TwoNum">>, ret |-> "int32"]
Math_Divide                == [params |-> <<"uint64", "uint64">>, ret |-> "Quotient"]
string_toupper             == [params |-> <<"string">>, ret |-> "string"]
string_tolower             == [params |-> <<"string">>, ret |-> "string"]
string_concat              == [params |-> <<"string", "string">>, ret |-> "string"]
string_atoi                == [params |-> <<"string">>, ret |-> "int32"]

methods == [getBook |-> bookMarket_getBook, consume |-> bookMarket_consume,
            updateBookPrice |-> bookMarket_updateBookPrice, shelve |-> bookMarket_shelve,
            Add |-> Math_Add, Sub |-> Math_Sub, Multiply |-> Math_Multiply, Divide |-> Math_Divide,
            toupper |-> string_toupper, tolower |-> string_tolower,
            concat |-> string_concat, atoi |-> string_atoi]
=============================================================================
