----------------------------- MODULE MCSession -----------------------------
(* Session on small instances: the calls of the examples' clients, and calls at the edges. *)
EXTENDS Session

Price(unit, num) == [unit |-> unit, num |-> num]
Book(name, price) == [name |-> name, price |-> price]
Account(name, balance) == [userName |-> name, balance |-> balance]

Run(method, vals) == [method |-> method, stub |-> CM!methods[method], vals |-> vals, app |-> "example"]

\* what the clients of the examples do
PlainCalls ==
    <<Run("Add", <<9, 8>>), Run("Sub", <<2, 3>>), Run("Multiply", <<[A |-> 2, B |-> 3]>>), Run("Divide", <<3, 2>>),
     Run("toupper", <<"x">>), Run("tolower", <<"X">>), Run("concat", <<"x", "7">>), Run("atoi", <<"7">>),
     Run("shelve", <<Book("b", Price("yuan", 20))>>), Run("getBook", <<"b">>),
     Run("consume", <<Book("b", Price("yuan", 20)), Account("jack", 100)>>),
     Run("updateBookPrice", <<"b", Price(Null, 25)>>)>>

\* structs and strings that are NULL or empty, numbers at their limits
EdgeCalls ==
    <<Run("shelve", <<Book("b", Null)>>), Run("shelve", <<Null>>), Run("getBook", <<"">>), Run("atoi", <<Null>>),
     Run("shelve", <<Book(Null, Price(Null, 0))>>), Run("shelve", <<Book("b", Price("yuan", Nan))>>),
     Run("updateBookPrice", <<"b", Null>>), Run("Divide", <<20, 1>>), Run("Divide", <<1, 0>>),
     Run("consume", <<Book("b", Price("dime", 20)), Account(Null, Nan)>>)>>

\* an application that does something else than the examples
OtherCalls ==
    <<[Run("getBook", <<"b">>) EXCEPT !.app = "refuses"], [Run("getBook", <<"b">>) EXCEPT !.app = "returns NULL"],
     [Run("getBook", <<"b">>) EXCEPT !.app = "NULL members"],
     [Run("consume", <<Book("b", Price("cent", 20)), Account("jack", 9)>>) EXCEPT !.app = "NULL members"],
     [Run("toupper", <<"x">>) EXCEPT !.app = "returns NULL"], [Run("Add", <<1, 1>>) EXCEPT !.app = "refuses"]>>

\* a client made from another version of the interface
OldCalls ==
    <<[Run("Add", <<1, 2>>) EXCEPT !.stub = [params |-> <<"int32", "int32">>, ret |-> "int32"]],
     [Run("Divide", <<1>>) EXCEPT !.stub = [params |-> <<"uint64">>, ret |-> "Quotient"]],
     [Run("getBook", <<"b">>) EXCEPT !.stub = [params |-> <<"string">>, ret |-> "Price"]],
     [Run("updateBookPrice", <<"b", Price("yuan", 1)>>) EXCEPT !.stub.ret = "int32"],
     [Run("shelve", <<Book("b", Price("yuan", 1))>>) EXCEPT !.stub = [params |-> <<"Price">>, ret |-> "void"], !.vals = <<Price("yuan", 1)>>],
     [Run("getBook", <<"b">>) EXCEPT !.stub.ret = "void", !.app = "returns NULL"],
     [Run("toupper", <<"x">>) EXCEPT !.method = "trim"]>>

AllCalls == PlainCalls \o EdgeCalls \o OtherCalls \o OldCalls
MemberCalls == <<[Run("getBook", <<"b">>) EXCEPT !.app = "NULL members"]>> \o PlainCalls
=============================================================================
