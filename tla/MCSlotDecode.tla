---------------------------- MODULE MCSlotDecode ----------------------------
EXTENDS SlotDecode

(* Requests over the tokens a and b and the media chunk m.                 *)
Ask(p, n) == [type |-> "completion", prompt |-> p, parent |-> 0, n_predict |-> n, n_keep |-> 0, n_discard |-> 0,
              cache_prompt |-> TRUE, lastPooling |-> FALSE]
Embed(p) == [Ask(p, 0) EXCEPT !.type = "embedding"]
Child(r) == [r EXCEPT !.parent = 1]

Base == [NSlots |-> 2, NBatch |-> 3, NUBatch |-> 3, NCtx |-> 6, CtxShift |-> FALSE, AddBos |-> TRUE, ContBatching |-> TRUE,
         KvUnified |-> TRUE, CanBeFull |-> TRUE, CanFail |-> TRUE, Requests |-> <<>>]

(* Prompts with a common prefix, one with a media chunk, an embedding.     *)
Mixed == [Base EXCEPT !.Requests = <<Ask(<<"a", "b", "a">>, 2), Ask(<<"a", "m", "b">>, 1), Embed(<<"a", "b">>)>>]
(* A prompt that is longer than the context, one that fills it.            *)
Bounds == [Base EXCEPT !.NBatch = 2, !.NUBatch = 2, !.NCtx = 5, !.CanFail = FALSE,
    !.Requests = <<Ask(<<"a", "a", "b", "a">>, 3), Ask(<<"a", "a", "b">>, 3), Ask(<<"a", "a", "b", "a", "b">>, 1)>>]
(* Generation beyond the context, by shifting it.                          *)
Shifting == [Base EXCEPT !.CtxShift = TRUE, !.AddBos = FALSE, !.KvUnified = FALSE, !.CanBeFull = FALSE, !.CanFail = FALSE, !.NCtx = 5,
    !.Requests = <<Ask(<<"a", "b">>, 5), [Ask(<<"b", "b">>, 5) EXCEPT !.n_keep = -1, !.n_discard = 1]>>]
(* A parent and a child that answer one prompt, and another request.       *)
Siblings == [Base EXCEPT !.NSlots = 3, !.NBatch = 4, !.NUBatch = 4, !.ContBatching = FALSE, !.KvUnified = FALSE, !.CanBeFull = FALSE,
    !.Requests = <<Ask(<<"a", "b", "a">>, 2), Child(Ask(<<"a", "b", "a">>, 2)), Ask(<<>>, 1)>>]
(* Inputs that cannot be split and do not fit in one batch together.       *)
Embeddings == [Base EXCEPT !.CanBeFull = FALSE, !.Requests = <<Embed(<<"a", "b">>), Embed(<<"b", "a">>), Ask(<<"a">>, 1)>>]
(* A family whose parent runs into a full cache; one with an empty prompt. *)
FullFamily  == [Siblings EXCEPT !.ContBatching = TRUE, !.CanBeFull = TRUE, !.CanFail = FALSE]
EmptyFamily == [Base EXCEPT !.CanBeFull = FALSE, !.CanFail = FALSE,
    !.Requests = <<Ask(<<>>, 2), Child(Ask(<<>>, 2)), Ask(<<"a", "b">>, 2)>>]

AllSetups == {Mixed, Bounds, Shifting, Siblings, Embeddings}

(* The theorems about the memory of the slots speak of these setups, and   *)
(* not of FullFamily, where it is not true.                                *)
ASSUME SetupsSupported == (\A s \in AllSetups : Supported(s)) /\ ~ Supported(FullFamily)
=============================================================================
