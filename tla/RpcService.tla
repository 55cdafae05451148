----------------------------- MODULE RpcService -----------------------------
(***************************************************************************)
(* What a client that is shared by threads promises to them: its calls are *)
(* numbered, the server handles them in this order, none twice and none    *)
(* left out, and each returns what the handler answered to it, or fails. A *)
(* call that has failed is not handled any more. Connections, buffers and  *)
(* locks are not mentioned: Client refines this module.                    *)
(***************************************************************************)
EXTENDS Naturals, Sequences

CONSTANTS
  Requests,        \* what can be called
  AnswerTo(_, _),  \* what the handler answers to the call of a number and a request
  Refusing(_),     \* whether it answers with an error instead
  None, Failed     \* no result yet, and that of a call that has failed

VARIABLES
  calls,           \* the requests, that of number s at s + 1
  handled,         \* the numbers of those the server has handled
  results

vars == <<calls, handled, results>>

Init ==
    /\ calls = <<>>
    /\ handled = <<>>
    /\ results = <<>>

Call(r) ==
    /\ calls' = Append(calls, r)
    /\ results' = Append(results, None)
    /\ UNCHANGED handled

\* the next one, while its caller waits
Handle(s) ==
    /\ s = Len(handled)
    /\ results[s + 1] = None
    /\ handled' = Append(handled, s)
    /\ UNCHANGED <<calls, results>>

Return(s) ==
    /\ results[s + 1] = None
    /\ \E k \in DOMAIN handled : handled[k] = s
    /\ ~Refusing(calls[s + 1])
    /\ results' = [results EXCEPT ![s + 1] = AnswerTo(s, calls[s + 1])]
    /\ UNCHANGED <<calls, handled>>

Fail(s) ==
    /\ results[s + 1] = None
    /\ results' = [results EXCEPT ![s + 1] = Failed]
    /\ UNCHANGED <<calls, handled>>

Next ==
    \/ \E r \in Requests : Call(r)
    \/ \E s \in 0 .. Len(calls) - 1 : Handle(s) \/ Return(s) \/ Fail(s)

Spec == Init /\ [][Next]_vars
=============================================================================
