------------------------------ MODULE MCCJson ------------------------------
(* CJsonUse on small trees: four arrays or objects, or fewer with numbers and strings in them. *)
EXTENDS CJsonUse

Kind(type, value) == [type |-> type, value |-> value]
Lists == {Kind("array", Null), Kind("object", Null)}
AllKinds == Lists \cup {Kind("number", "7"), Kind("number", "nan"), Kind("string", "\\"),
                        Kind("string", " \n\"" \o Control)}

\* texts the printer does not write
OtherTexts == {"\"\\u0061\"", "\"\\ud83d\\uDE00\"", "\"\\ude00\"", "\"\\ud83d\\u0061\"", "\"\\ud83d\"", "\"\\u00zz1\"",
               Bom \o "[1]", Bom \o "1", " 1 ", "[1,]", "{\"a\" :1, \"a\": 2}", "-", "[[[0]]]", "-1-",
               "1e999", "[-1E+999,1]", "0e9", "-0.50", "-.5e-07", "1e-999", "12.e3", "007", "1e", "1e+", "-.",
               Repeat("0", NumberSize + 1)}

\* bytes that change what a text means
WrongBytes == {"\"", ",", "\\", "]", "1"}

Sym == Permutations(Items)
=============================================================================
