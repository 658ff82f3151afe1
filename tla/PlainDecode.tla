---------------------------- MODULE PlainDecode -----------------------------
(***************************************************************************)
(* What generation promises a client, with or without speculation: the     *)
(* tokens it gets are the ones the target model chooses, in their order,   *)
(* at most Budget of them, and the sampler has seen just these tokens.     *)
(***************************************************************************)
EXTENDS Naturals, Sequences

CONSTANT Budget       \* n_predict

VARIABLES
    truth,  \* what the target model generates for the prompt
    out,    \* the tokens that were given to process_token
    seen,   \* the tokens the sampler has accepted
    done    \* the final response was sent

plainVars == <<truth, out, seen, done>>

Start == done = FALSE /\ out = SubSeq(truth, 1, 1) /\ seen = out

(* A round of the server yields some more tokens, the last one of them may *)
(* end the generation.                                                     *)
Emit ==
    /\ ~ done
    /\ \E n \in Len(out) + 1..Budget : out' = SubSeq(truth, 1, n)
    /\ \/ done' = FALSE /\ seen' = out' /\ Len(out') < Budget
       \/ done' = TRUE /\ seen' = <<>>
    /\ UNCHANGED truth

Plain     == Start /\ [][Emit]_plainVars
FairPlain == Plain /\ WF_plainVars(Emit)
=============================================================================
