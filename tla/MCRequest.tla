----------------------------- MODULE MCRequest -----------------------------
(* Request on small instances. *)
EXTENDS Request

Msg(line, args) == [line |-> line, ok |-> TRUE, known |-> TRUE, args |-> args, fits |-> TRUE]

\* lines and data that just fit into a buffer of 4 bytes and some that fill it in part
Fitting == {Msg(2, <<>>), Msg(4, <<1>>), Msg(2, <<0, 2>>), Msg(1, <<4>>)}

\* a malformed line, an unknown service, a line longer than the buffer, and such data
Unfit == {[Msg(2, <<>>) EXCEPT !.ok = FALSE], [Msg(2, <<1>>) EXCEPT !.known = FALSE],
          Msg(5, <<>>), Msg(2, <<5>>)}

\* requests whose responses go past the write buffer
Large == {[Msg(2, <<>>) EXCEPT !.fits = FALSE], [Msg(2, <<2>>) EXCEPT !.fits = FALSE]}

PairStreams == {<<m, n>> : m \in Fitting, n \in Fitting}
MixedStreams == {<<m, n>> : m \in Fitting, n \in Unfit} \cup {<<m, n>> : m \in Unfit, n \in Fitting}
                   \cup PairStreams \cup {<<m, n>> : m \in Fitting, n \in Large}
                   \cup {<<m, n>> : m \in Large, n \in Fitting}
OnlyRight == {TRUE}
AnyMagic == BOOLEAN
=============================================================================
