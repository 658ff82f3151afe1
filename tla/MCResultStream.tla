--------------------------- MODULE MCResultStream ---------------------------
EXTENDS ResultStream

Base == [format |-> "chat", stream |-> TRUE, NTasks |-> 1, parts |-> 4, progress |-> FALSE, usage |-> FALSE, mixed |-> FALSE,
         split |-> FALSE, late |-> FALSE, faults |-> {}]

(* Each format on its own, with everything that may break a stream off.    *)
Alone == {[Base EXCEPT !.format = f, !.progress = p, !.usage = ~ p, !.faults = {"error", "throw", "leave"}] :
            f \in {"plain", "text", "asr", "chat", "resp", "anthropic"}, p \in BOOLEAN}
(* Texts that parse into anything at any time.                             *)
Free == {[Base EXCEPT !.format = f, !.mixed = TRUE, !.split = TRUE, !.parts = 3, !.late = TRUE] : f \in {"chat", "resp", "anthropic"}}
        \cup {[Base EXCEPT !.format = "resp", !.mixed = TRUE]}
(* Two choices in one stream, and whole answers.                           *)
Two  == {[Base EXCEPT !.format = f, !.NTasks = 2, !.parts = 2, !.faults = {"error"}] :
            f \in {"plain", "text", "chat", "resp"}}
Rest == {[Base EXCEPT !.format = f, !.stream = FALSE, !.NTasks = 2, !.faults = {"error", "leave"}] : f \in {"plain", "chat", "resp", "anthropic"}}
AllSetups == Alone \cup Free \cup Two \cup Rest
=============================================================================
