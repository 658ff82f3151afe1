--------------------------- MODULE MCPromptCache ---------------------------
EXTENDS PromptCache

Ask(p, s, l) == [prompt |-> p, slot |-> s, lora |-> l, cache |-> TRUE]

(* Two conversations that share a first token, one of them long, and a     *)
(* request that must not use the cache.                                    *)
Talks == {Ask(<<"a", "b", "b">>, 0, Default), Ask(<<"a", "c", "c", "c">>, 0, Default),
          Ask(<<"a", "b">>, 0, Default), [Ask(<<"c">>, 0, Default) EXCEPT !.cache = FALSE]}
Chat == {Ask(<<"a", "b">>, 0, Default), Ask(<<"a", "c", "c">>, 0, Default), Ask(<<"c">>, 0, Default)}
Pinned == {Ask(<<"a", "b", "b">>, 1, Default), Ask(<<"c", "c">>, 1, Default), Ask(<<"c", "b">>, 0, Default)}

(* The plain adapter l, the aLoRA v with the invocation <<"i", "j">>.      *)
Adapters == [l |-> <<>>, v |-> <<"i", "j">>]
WithV    == {"v"}
Named == {Ask(<<"a", "b", "i", "j">>, 0, x) : x \in {{}, {"l"}, {"v"}}} \cup {Ask(<<"a", "b", "b">>, 0, {})}
NotInvoked == {Ask(<<"a", "b", "i", "j">>, 0, {"v"}), Ask(<<"a", "b", "c">>, 0, {"v"})}
Swapped == {Ask(<<"a", "b", "c">>, 0, {"l"}), Ask(<<"a", "b", "c">>, 0, {}), Ask(<<"c">>, 0, {})}
Unnamed == {Ask(<<"a", "b">>, 0, {"l"}), Ask(<<"a", "b">>, 0, Default)}
AtStart == {Ask(<<"i", "j", "a">>, 0, {}), Ask(<<"i", "j", "a">>, 0, {"v"})}
Twice   == {Ask(<<"i", "j", "j">>, 0, {"v"})}

Base == [NSlots |-> 2, Requests |-> {}, Global0 |-> {}, Globals |-> {{}}, Similarity |-> 10, CacheOn |-> TRUE, Limit0 |-> 0,
         CacheIdle |-> FALSE, Unified |-> FALSE, HasDraft |-> FALSE, Files |-> {}, Faults |-> {}, MaxLen |-> 4]

(* A small cache of which the entries are lost and cannot be loaded.       *)
Limited   == [Base EXCEPT !.Requests = Talks \ {Ask(<<"a", "b">>, 0, Default)}, !.Limit0 = 6, !.Faults = {"alloc", "main"}]
Idling    == [Base EXCEPT !.MaxLen = 3, !.Requests = Chat, !.CacheIdle = TRUE, !.Unified = TRUE]
Displaced == [Base EXCEPT !.MaxLen = 3, !.Requests = Pinned, !.Similarity = 50]
Filed     == [Base EXCEPT !.NSlots = 1, !.MaxLen = 3, !.Requests = Chat \ {Ask(<<"c">>, 0, Default)}, !.Globals = {{}, {"l"}}, !.Limit0 = 4, !.Files = {"f"}]
Lora      == [Base EXCEPT !.MaxLen = 5, !.Requests = Named, !.CacheOn = FALSE, !.Unified = TRUE, !.Faults = {"launch"}]
AllSetups == {Limited, Idling, Displaced, Filed, Lora}

(* Where what the code says of itself does not hold.                       *)
Alone       == [Base EXCEPT !.NSlots = 1, !.CacheOn = FALSE]
Busied      == {[Base EXCEPT !.Requests = Pinned]}                                     \* RunningKeepsPrompt
Emptied     == {[Base EXCEPT !.Requests = Talks, !.HasDraft = TRUE, !.Faults = {"draft"}]}  \* NoMissingCells
SwappedIn   == {[Alone EXCEPT !.Requests = Swapped, !.Similarity = 0, !.CacheOn = TRUE]}    \* AdapterOfRequest
ServerLora  == {[Alone EXCEPT !.Requests = Unnamed, !.Globals = {{}, {"l"}}]}           \* AdapterOfRequest
InvokedAt0  == {[Alone EXCEPT !.Requests = AtStart]}                                    \* AdapterOfRequest
Generated   == {[Alone EXCEPT !.MaxLen = 5, !.Requests = NotInvoked]}                                 \* AdapterOfRequest
Overlapping == {[Alone EXCEPT !.Requests = Twice]}                                      \* InvocationFound
Refused     == {[Alone EXCEPT !.MaxLen = 5, !.Requests = Named, !.Unified = TRUE, !.Faults = {"launch"}]} \* CellsPurgeable
=============================================================================
