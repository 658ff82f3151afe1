---------------------------- MODULE ResultStream ----------------------------
(* The answer of one request on its way to the client: handle_completions_ *)
(* impl of server-context.cpp with the results of server-task.cpp.  The    *)
(* slots send, for each task of the request, a begin marker or progress    *)
(* reports, a part per token and one final result or an error; the reader  *)
(* hands them on in any interleaving of the tasks.  task_result_state      *)
(* parses the text received so far into a chat message, what is new in the *)
(* message (the diffs) is turned into the events of the format that the    *)
(* client speaks, and the content provider of the HTTP server fetches them.*)
(*                                                                         *)
(* A text is its length.  A message has reasoning, text and calls of       *)
(* tools, of which only the length of the arguments is kept; ids and names *)
(* of calls are their indexes, and a call never lacks its name.            *)
EXTENDS Integers, SequencesExt, Filters

CONSTANTS
    Setups,   \* the requests that are looked at
    MaxLen,   \* bound: length of a reasoning, a text or the arguments
    MaxCalls, \* bound: number of tool calls
    MaxIdle   \* bound: progress reports of a task, pings

VARIABLES
    setup,    \* the request and the server, see below
    slot,     \* slot[t]: what was sent for task t, [sent, n_gen, reports]
    state,    \* state[t]: the task_result_state, [msg, thinking, text, created]
    received, \* number of final results (received_count of the reader)
    results,  \* without streaming: the final results by index
    http,     \* [phase, why, data, pings] of the response
    out       \* the events written to the client

resultVars == <<setup, slot, state, received, results, http, out>>

Format   == setup.format    \* "plain", "text", "asr", "chat", "resp" or "anthropic" (res_type)
Stream   == setup.stream    \* stream
NTasks   == setup.NTasks    \* prompts times n
MaxParts == setup.parts     \* bound: tokens that are sampled for a task
Progress == setup.progress  \* return_progress
Usage    == setup.usage     \* stream_options.include_usage
Mixed    == setup.mixed     \* reasoning and text may follow tool calls
Split    == setup.split     \* the first token may leave a character incomplete
Late     == setup.late      \* the end of the text shows more of the message
Faults   == setup.faults    \* of "error" (decoding fails), "throw" (the parser does), "leave" (the client does)

Tasks == 1..NTasks

ASSUME ResultAssumption ==
    /\ MaxLen \in Nat /\ MaxCalls \in Nat /\ MaxIdle \in Nat
    /\ \A s \in Setups :
        /\ s.format \in {"plain", "text", "asr", "chat", "resp", "anthropic"}
        /\ {s.stream, s.progress, s.usage, s.mixed, s.split, s.late} \subseteq BOOLEAN
        /\ s.late => s.format \in {"chat", "resp", "anthropic"}  \* the other formats send the text as it is
        /\ s.NTasks \in Nat \ {0} /\ s.parts \in Nat

-----------------------------------------------------------------------------
(* Messages and what is new in them.                                       *)

Messages == [reasoning : 0..MaxLen, text : 0..MaxLen,
             calls : UNION {[1..k -> 0..MaxLen] : k \in 0..MaxCalls}]
NoMessage == [reasoning |-> 0, text |-> 0, calls |-> <<>>]

(* What the parser may find in the text when a token is added to it.       *)
Grown(m) ==
    LET inChat == Format \in {"chat", "resp", "anthropic"}
        last   == Len(m.calls)
    IN  {n \in {m} \cup (IF inChat /\ (Mixed \/ m.text + last = 0)
                           THEN {[m EXCEPT !.reasoning = @ + 1]} ELSE {})
                   \cup (IF Mixed \/ last = 0 THEN {[m EXCEPT !.text = @ + 1]} ELSE {})
                   \cup (IF inChat THEN {[m EXCEPT !.calls = Append(@, k)] : k \in 0..1} ELSE {})
                   \cup (IF last > 0 THEN {[m EXCEPT !.calls[last] = @ + 1]} ELSE {}) : n \in Messages}

(* common_chat_msg_diff::compute_diffs: first the reasoning, then the      *)
(* text, then the calls.  call is the tool_call_index counted from 1, 0 if *)
(* there is none; named tells that the diff has the name of the call.      *)
Diff(reasoning, text, call, named, args) ==
    [reasoning |-> reasoning, text |-> text, call |-> call, named |-> named, args |-> args]
Diffs(m, n) ==
    LET args(i) == IF i \in DOMAIN m.calls THEN n.calls[i] - m.calls[i] ELSE n.calls[i]
        all == <<Diff(n.reasoning - m.reasoning, 0, 0, FALSE, 0), Diff(0, n.text - m.text, 0, FALSE, 0)>>
               \o [i \in DOMAIN n.calls |-> Diff(0, 0, i, i \notin DOMAIN m.calls, args(i))]
    IN  Drop(all, {d \in ToSet(all) : ~ d.named /\ d.reasoning + d.text + d.args <= 0})

-----------------------------------------------------------------------------
(* The events.  at is the part of the message that an event is about,      *)
(* index the number of a content block.                                    *)

Whole     == <<"message", 0>>
Reasoning == <<"reasoning", 0>>
Text      == <<"text", 0>>
Call(i)   == <<"call", i>>

Event(t, name, at, n, index) == [task |-> t, event |-> name, at |-> at, n |-> n, index |-> index]
About(t, name)     == Event(t, name, Whole, 0, 0)
Item(t, name, at)  == Event(t, name, at, 0, 0)
Delta(t, at, n)    == Event(t, "delta", at, n, 0)
If(c, s)           == IF c THEN s ELSE <<>>
Each(s, Op(_))     == FlattenSeq([i \in DOMAIN s |-> Op(s[i])])

(* The parts of a message in the order in which an answer lists them.      *)
PartsOf(m) == If(m.reasoning > 0, <<Reasoning>>) \o If(m.text > 0, <<Text>>) \o [i \in DOMAIN m.calls |-> Call(i)]
LengthIn(m, at) == CASE at = Reasoning -> m.reasoning [] at = Text -> m.text [] OTHER -> m.calls[at[2]]

(* completion_probabilities, timings and the like are left out.            *)
PlainPart(t, added)  == <<Delta(t, Text, added)>>
PlainFinal(t)        == <<About(t, "finish")>>
TextPart(t, added)   == <<Delta(t, Text, added)>>
TextFinal(t)         == <<About(t, "finish")>>
AsrPart(t, added)    == <<Delta(t, Text, added)>>
AsrFinal(t)          == <<About(t, "finish")>>

\* A plausible bug in ChatDelta.
ChatDeltaEither(t, d) ==
    If(d.reasoning > 0, <<Delta(t, Reasoning, d.reasoning)>>)
    \o If(d.text > 0, <<Delta(t, Text, d.text)>>)
    \o (IF d.named THEN <<Item(t, "opened", Call(d.call))>> ELSE If(d.args > 0, <<Delta(t, Call(d.call), d.args)>>))

(* A diff of a chat completion chunk names a call when it is new.          *)
ChatDelta(t, d) ==
    If(d.reasoning > 0, <<Delta(t, Reasoning, d.reasoning)>>)
    \o If(d.text > 0, <<Delta(t, Text, d.text)>>)
    \o If(d.named, <<Item(t, "opened", Call(d.call))>>)
    \o If(d.args > 0, <<Delta(t, Call(d.call), d.args)>>)

ChatPart(t, first, diffs) ==
    If(first, <<About(t, "begin")>>) \o Each(diffs, LAMBDA d : ChatDelta(t, d))

ChatFinal(t, diffs) ==
    Each(diffs, LAMBDA d : ChatDelta(t, d)) \o <<About(t, "finish")>> \o If(Usage, <<About(t, "usage")>>)

(* Responses: items that are added, filled and done.  st is the state      *)
(* before the part.                                                        *)
RespDelta(t, st, d) ==
    If(d.reasoning > 0, If(~ st.thinking, <<Item(t, "opened", Reasoning)>>) \o <<Delta(t, Reasoning, d.reasoning)>>)
    \o If(d.text > 0, If(~ st.text, <<Item(t, "opened", Text), Item(t, "part", Text)>>) \o <<Delta(t, Text, d.text)>>)
    \o If(d.named, <<Item(t, "opened", Call(d.call))>>)
    \o If(d.args > 0, <<Delta(t, Call(d.call), d.args)>>)

RespPart(t, st, reports, diffs) ==
    (IF ~ st.created THEN <<About(t, "begin"), About(t, "in_progress")>>
                     ELSE If(reports, <<About(t, "in_progress")>>))
    \o Each(diffs, LAMBDA d : RespDelta(t, st, d))

RespFinal(t, m) ==
    If(m.reasoning > 0, <<Item(t, "closed", Reasoning)>>)
    \o If(m.text > 0, <<Item(t, "text_done", Text), Item(t, "part_done", Text), Item(t, "closed", Text)>>)
    \o [i \in DOMAIN m.calls |-> Item(t, "closed", Call(i))]
    \o <<About(t, "finish")>>

(* Anthropic: blocks with numbers.  Reasoning is block 0, text follows it, *)
(* calls follow both, as far as there are such blocks; thinking and text   *)
(* tell which blocks have been started, withText whether text counts.      *)
TextIndex(m)              == IF m.reasoning > 0 THEN 1 ELSE 0
CallIndex(m, withText, i) == TextIndex(m) + (IF withText THEN 1 ELSE 0) + i - 1

AnthropicDelta(t, m, thinking, text, withText, always, d) ==
    LET block(name, at, n) == Event(t, name, at, n, CASE at = Reasoning -> 0
                                                      [] at = Text      -> TextIndex(m)
                                                      [] OTHER          -> CallIndex(m, withText, at[2]))
    IN  If(d.reasoning > 0, If(~ thinking, <<block("opened", Reasoning, 0)>>) \o <<block("delta", Reasoning, d.reasoning)>>)
        \o If(d.text > 0, If(~ text, <<block("opened", Text, 0)>>) \o <<block("delta", Text, d.text)>>)
        \o If(d.call > 0, If(d.named \/ always, <<block("opened", Call(d.call), 0)>>)
                          \o If(d.args > 0, <<block("delta", Call(d.call), d.args)>>))

AnthropicPart(t, st, m, first, diffs) ==
    LET started == st.text \/ \E i \in DOMAIN diffs : diffs[i].text > 0
    IN  If(first, <<About(t, "begin")>>)
        \o Each(diffs, LAMBDA d : AnthropicDelta(t, m, st.thinking, st.text, started, FALSE, d))

AnthropicFinal(t, m, diffs) ==
    Each(diffs, LAMBDA d : AnthropicDelta(t, m, FALSE, FALSE, m.text > 0, TRUE, d))
    \o If(m.reasoning > 0, <<Event(t, "signature", Reasoning, 0, 0)>>)
    \o [i \in DOMAIN PartsOf(m) |-> Event(t, "closed", PartsOf(m)[i], 0, i - 1)]
    \o <<About(t, "delta_usage"), About(t, "finish")>>

-----------------------------------------------------------------------------
\* Plausible bugs in Updated.
UpdatedCreatedNot(st, m, first) ==
    [st EXCEPT !.msg = m, !.thinking = @ \/ m.reasoning > st.msg.reasoning, !.text = @ \/ m.text > st.msg.text]
UpdatedThinkingOnly(st, m, first) ==
    [st EXCEPT !.msg = m, !.thinking = @ \/ m.reasoning > st.msg.reasoning, !.created = @ \/ first]

(* update(): the state of the task takes in what a result brings.          *)

Updated(st, m, first) ==
    LET diffs == Diffs(st.msg, m)
    IN  [msg      |-> m,
         thinking |-> st.thinking \/ \E i \in DOMAIN diffs : diffs[i].reasoning > 0,
         text     |-> st.text \/ \E i \in DOMAIN diffs : diffs[i].text > 0,
         created  |-> st.created \/ (Format = "resp" /\ first)]

(* to_json() of a part; reports tells a progress report, which has no text *)
(* and, while the prompt is processed, n_gen = 0.                          *)
PartJson(t, m, reports, n_gen) ==
    LET st    == state[t]
        diffs == Diffs(st.msg, m)
        added == m.text - st.msg.text
    IN  CASE Format = "plain" -> PlainPart(t, added)
          [] Format = "text"  -> TextPart(t, added)
          [] Format = "asr"   -> AsrPart(t, added)
          [] Format = "chat"  -> ChatPart(t, n_gen = 1 \/ reports, diffs)
          [] Format = "resp"  -> RespPart(t, st, reports, diffs)
          [] OTHER            -> AnthropicPart(t, st, m, n_gen = 1, diffs)

FinalJson(t, m) ==
    LET diffs == Diffs(state[t].msg, m)
    IN  CASE Format = "plain" -> PlainFinal(t)
          [] Format = "text"  -> TextFinal(t)
          [] Format = "asr"   -> AsrFinal(t)
          [] Format = "chat"  -> ChatFinal(t, diffs)
          [] Format = "resp"  -> RespFinal(t, m)
          [] OTHER            -> AnthropicFinal(t, m, diffs)

(* The JSON of a final result that is not streamed: a choice with fields,  *)
(* a list of items or a list of blocks, in the order of the parts.         *)
Listed(m)             == [i \in DOMAIN PartsOf(m) |-> <<PartsOf(m)[i], LengthIn(m, PartsOf(m)[i])>>]
PlainAnswer(t, m)     == [task |-> t, content |-> m.text]
ChatAnswer(t, m)      == [task |-> t, message |-> Listed(m)]
RespAnswer(t, m)      == [task |-> t, output |-> Listed(m)]
AnthropicAnswer(t, m) == [task |-> t, blocks |-> Listed(m)]
Answer(t, m) ==
    CASE Format = "chat"      -> ChatAnswer(t, m)
      [] Format = "resp"      -> RespAnswer(t, m)
      [] Format = "anthropic" -> AnthropicAnswer(t, m)
      [] OTHER                -> PlainAnswer(t, m)

-----------------------------------------------------------------------------
(* The handler.  phase "whole" waits for all results, "first" for the      *)
(* first one, "flush" has the first chunk to write, "stream" more to come. *)

Close(why, events) ==
    /\ http' = [http EXCEPT !.phase = "closed", !.why = why]
    /\ out' = out \o events

Failed == About(0, "error")

(* wait_for_all(): results[index] of each task, or the first error.        *)
Store(json) ==
    IF json.kind = "error" THEN Close("status", <<>>) /\ UNCHANGED results
    ELSE /\ results' = [results EXCEPT ![json.events[1].task] = json.events]
         /\ UNCHANGED <<http, out>>

(* The first result decides on the status: an error is answered with its   *)
(* code and no stream, the begin marker with the headers alone.            *)
Start(json) ==
    IF json.kind = "error" THEN Close("status", <<>>)
    ELSE /\ http' = [http EXCEPT !.phase = IF json.events = <<>> THEN "stream" ELSE "flush", !.data = json.events]
         /\ UNCHANGED out

(* Formatting null fails for "resp", which looks up its "event".           *)
Write(json) ==
    CASE json.kind = "error"                     -> Close("error", <<Failed>>)
      [] json.kind = "null" /\ Format = "resp"   -> Close("error", <<Failed>>)
      [] json.kind = "null" /\ Format # "resp"   -> out' = Append(out, About(0, "null")) /\ UNCHANGED http
      [] OTHER                                   -> out' = out \o json.events /\ UNCHANGED http

(* What happens to a result in each phase.                                 *)
Handle(json) ==
    \/ http.phase = "whole" /\ Store(json)
    \/ http.phase = "first" /\ Start(json) /\ UNCHANGED results
    \/ http.phase = "stream" /\ Write(json) /\ UNCHANGED results

-----------------------------------------------------------------------------
(* What a slot sends, and what the reader's next() takes of it: an error,  *)
(* or the JSON of a result, which is null for the begin marker.            *)

Json(kind, events) == [kind |-> kind, events |-> events]
\* A plausible bug in HasNext.
HasNextOfOne == received < 1

HasNext == received < NTasks
Sent(t, how, n, k) == slot' = [slot EXCEPT ![t] = [sent |-> how, n_gen |-> n, reports |-> @.reports + k]]

Begin(t) ==
    /\ Stream /\ ~ Progress /\ slot[t].sent = "nothing"
    /\ Sent(t, "some", 0, 0)
    /\ Handle(Json("null", <<>>))
    /\ UNCHANGED <<state, received>>

Report(t) ==
    /\ Stream /\ Progress /\ slot[t].sent # "ended" /\ slot[t].n_gen = 0 /\ slot[t].reports < MaxIdle
    /\ Sent(t, "some", 0, 1)
    /\ Handle(Json("events", PartJson(t, state[t].msg, TRUE, 0)))
    /\ state' = [state EXCEPT ![t] = Updated(@, @.msg, TRUE)]
    /\ UNCHANGED received

(* A token that leaves a character incomplete sends no part.               *)
Part(t) ==
    /\ Stream /\ slot[t].sent = "some"
    /\ \E n \in {1} \cup (IF Split /\ slot[t].n_gen = 0 THEN {2} ELSE {}), m \in Grown(state[t].msg) :
        LET n_gen == slot[t].n_gen + n
        IN  /\ n_gen <= MaxParts
            /\ Sent(t, "some", n_gen, 0)
            /\ Handle(Json("events", PartJson(t, m, FALSE, n_gen)))
            /\ state' = [state EXCEPT ![t] = Updated(@, m, n_gen = 1)]
    /\ UNCHANGED received

(* The final result: while it streams, what was not in the parts, otherwise *)
(* the whole message.                                                      *)
Final(t) ==
    /\ slot[t].sent # "ended" /\ (Stream => slot[t].n_gen > 0)
    /\ \E m \in IF ~ Stream THEN Messages ELSE IF Late THEN Grown(state[t].msg) ELSE {state[t].msg} :
        /\ Handle(Json("final", IF Stream THEN FinalJson(t, m) ELSE <<Answer(t, m)>>))
        /\ state' = [state EXCEPT ![t].msg = m]
    /\ Sent(t, "ended", slot[t].n_gen, 0)
    /\ received' = received + 1

Error(t) ==
    /\ "error" \in Faults /\ slot[t].sent # "ended"
    /\ Sent(t, "ended", slot[t].n_gen, 0)
    /\ Handle(Json("error", <<>>))
    /\ UNCHANGED <<state, received>>

Receive ==
    \E t \in Tasks : Begin(t) \/ Report(t) \/ Part(t) \/ Final(t) \/ Error(t)

-----------------------------------------------------------------------------
CollectResult == http.phase = "whole" /\ HasNext /\ Receive /\ UNCHANGED setup

ReplyWhole ==
    /\ http.phase = "whole" /\ ~ HasNext
    /\ Close("done", FlattenSeq([t \in Tasks |-> results[t]]))
    /\ UNCHANGED <<setup, slot, state, received, results>>

FirstResult == http.phase = "first" /\ Receive /\ UNCHANGED setup

FlushFirst ==
    /\ http.phase = "flush"
    /\ http' = [http EXCEPT !.phase = "stream", !.data = <<>>]
    /\ out' = out \o http.data
    /\ UNCHANGED <<setup, slot, state, received, results>>

NextResult == http.phase = "stream" /\ HasNext /\ Receive /\ UNCHANGED setup

(* update() throws when the parser finds less than before.                 *)
UpdateThrows ==
    /\ http.phase = "stream" /\ HasNext /\ "throw" \in Faults
    /\ \E t \in Tasks : slot[t].sent = "some" /\ Sent(t, "ended", slot[t].n_gen, 0)
    /\ Close("error", <<Failed>>)
    /\ UNCHANGED <<setup, state, received, results>>

(* Nothing came for sse_ping_interval seconds.                             *)
Ping ==
    /\ http.phase = "stream" /\ HasNext /\ http.pings < MaxIdle
    /\ http' = [http EXCEPT !.pings = @ + 1]
    /\ out' = Append(out, About(0, "ping"))
    /\ UNCHANGED <<setup, slot, state, received, results>>

EndStream ==
    /\ http.phase = "stream" /\ ~ HasNext
    /\ Close("done", If(Format \notin {"plain", "resp", "anthropic"}, <<About(0, "[DONE]")>>))
    /\ UNCHANGED <<setup, slot, state, received, results>>

(* should_stop() of the handler and of the content provider.               *)
ClientLeaves ==
    /\ "leave" \in Faults /\ http.phase # "closed"
    /\ Close("left", <<>>)
    /\ UNCHANGED <<setup, slot, state, received, results>>

ResultInit ==
    /\ setup \in Setups
    /\ slot = [t \in Tasks |-> [sent |-> "nothing", n_gen |-> 0, reports |-> 0]]
    /\ state = [t \in Tasks |-> [msg |-> NoMessage, thinking |-> FALSE, text |-> FALSE, created |-> FALSE]]
    /\ received = 0 /\ results = [t \in Tasks |-> <<>>] /\ out = <<>>
    /\ http = [phase |-> IF Stream THEN "first" ELSE "whole", why |-> "", data |-> <<>>, pings |-> 0]

ResultNext == CollectResult \/ ReplyWhole \/ FirstResult \/ FlushFirst \/ NextResult \/ UpdateThrows \/ Ping \/ EndStream \/ ClientLeaves

ResultSpec == ResultInit /\ [][ResultNext]_resultVars

-----------------------------------------------------------------------------
ResultTypeOK ==
    /\ slot \in [Tasks -> [sent : {"nothing", "some", "ended"}, n_gen : 0..MaxParts, reports : 0..MaxIdle]]
    /\ state \in [Tasks -> [msg : Messages, thinking : BOOLEAN, text : BOOLEAN, created : BOOLEAN]]
    /\ received \in 0..NTasks
    /\ http.phase \in {"whole", "first", "flush", "stream", "closed"}
    /\ http.phase = "flush" => http.data # <<>>

Blocks      == Format \in {"resp", "anthropic"}
Whose(e)    == IF Format = "anthropic" THEN <<e.task, "block", e.index>> ELSE <<e.task, e.at[1], e.at[2]>>
Earlier(i, name) == \E j \in 1..i - 1 : out[j].event = name /\ out[j].task = out[i].task /\ Whose(out[j]) = Whose(out[i])
Finished(t) == \E i \in DOMAIN out : out[i].task = t /\ out[i].event = "finish"
Sum(q, t, at) ==
    LET sum[i \in 0..Len(q)] ==
            IF i = 0 THEN 0
            ELSE IF q[i].task = t /\ q[i].event = "delta" /\ q[i].at = at THEN sum[i - 1] + q[i].n ELSE sum[i - 1]
    IN  sum[Len(q)]

(* What a task streams begins with the event that opens its message, sent  *)
(* once ("response.created", "message_start"; a chat repeats the role with *)
(* each progress report), if its first token sends a part.                 *)
OpenedFirst ==
    Stream /\ ~ Split /\ Format \in {"chat", "resp", "anthropic"} =>
        \A i \in DOMAIN out : out[i].task \in Tasks =>
            /\ \E j \in 1..i : out[j].event = "begin" /\ out[j].task = out[i].task
            /\ Blocks /\ out[i].event = "begin" => \A j \in 1..i - 1 : out[j].event = "begin" => out[j].task # out[i].task

(* Items and content blocks are opened once, filled while they are open,   *)
(* and all closed, once, when the message is finished - if the parser      *)
(* finds nothing at the end and, as numbers of blocks depend on it,        *)
(* reasoning, text and calls in this order.                                *)
BlocksPaired ==
    Stream /\ Blocks /\ ~ Late /\ (Format = "anthropic" => ~ Mixed) =>
        \A i \in DOMAIN out :
            /\ out[i].event = "opened" => ~ Earlier(i, "opened")
            /\ out[i].event \in {"delta", "closed"} =>
                /\ ~ Earlier(i, "closed")
                /\ \E j \in 1..i - 1 : out[j].event = "opened" /\ out[j].task = out[i].task
                                       /\ Whose(out[j]) = Whose(out[i]) /\ out[j].at = out[i].at
            /\ out[i].event = "opened" /\ Finished(out[i].task) =>
                \E j \in i + 1..Len(out) : out[j].event = "closed" /\ Whose(out[j]) = Whose(out[i])

(* Who puts the deltas together has the message that a client without      *)
(* streaming is given.  Responses show nothing that comes with the end.    *)
StreamTellsMessage ==
    \A t \in Tasks : Stream /\ Finished(t) /\ (Format = "resp" => ~ Late) =>
        LET m == state[t].msg
        IN  \A at \in {Reasoning, Text} \cup {Call(i) : i \in 1..MaxCalls} :
                Sum(out, t, at) = IF at \in ToSet(PartsOf(m)) THEN LengthIn(m, at) ELSE 0

(* A stream has one end and nothing follows it: [DONE] or the end of the   *)
(* last message when all tasks are finished, or an error.  An error that   *)
(* comes first is no stream, and a whole answer lists the tasks by index.  *)
EndsOnce ==
    /\ \A i \in DOMAIN out : Stream /\ out[i].event \in {"error", "[DONE]"} => i = Len(out) /\ http.phase = "closed"
    /\ Stream /\ http.why = "done" => \A t \in Tasks : Finished(t)
    /\ Stream /\ http.why = "done" /\ Format \notin {"plain", "resp", "anthropic"} => Last(out).event = "[DONE]"
    /\ http.why = "error" => Last(out) = Failed
    /\ http.why = "status" => out = <<>>
    /\ ~ Stream /\ http.why = "done" => [i \in DOMAIN out |-> out[i].task] = [t \in Tasks |-> t]

(* Of every answer, streamed or not.                                       *)
AnswerInv == ResultTypeOK /\ EndsOnce
=============================================================================
