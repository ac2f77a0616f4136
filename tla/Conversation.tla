---------------------------- MODULE Conversation ----------------------------
(***************************************************************************)
(* The conversation of one run: what AgentDecisionLoop._loop appends to    *)
(* context.messages, what ContextWindowManager.maybe_compact cuts away, and*)
(* what the LLM adapters (engine/llm/*.py) make of it on the wire.         *)
(*                                                                         *)
(* A text is its author, a tool result is the number of its call.  Tokens  *)
(* are not counted: compaction may happen before any LLM call.             *)
(***************************************************************************)
EXTENDS Naturals, SequencesExt

CONSTANTS
    MaxSteps,       \* max_steps of the loop
    CallsPerStep        \* bound: tool calls of one response

MIN_MESSAGES_TO_KEEP == 4

ASSUME ConversationAssumption == MaxSteps \in Nat /\ CallsPerStep \in Nat

VARIABLES
    messages,       \* context.messages
    asked,          \* calls of the last response that are not executed yet
    answered,       \* results of the calls of the last response, oldest first
    numbered,       \* calls made so far: the LLM numbers them
    stepCount,      \* context.step_count
    pc              \* the next await of the loop

conversationVars == <<messages, asked, answered, numbered, stepCount, pc>>

-----------------------------------------------------------------------------
UserText == [role |-> "user", call |-> 0]
AssistantText == [role |-> "assistant", call |-> 0]
ToolResult(n) == [role |-> "tool", call |-> n]

\* _build_initial_messages: memories and task in one message.
ConversationInit ==
    /\ messages = <<UserText>>
    /\ asked = <<>> /\ answered = <<>> /\ numbered = 0
    /\ stepCount = 0
    /\ pc = "head"

\* Mutant: the last three messages are kept.
CompactedToThree(msgs) ==
    LET split == IF Len(msgs) > 3 THEN Len(msgs) - 3 ELSE 1
    IN  <<UserText>> \o SubSeq(msgs, split + 1, Len(msgs))

\* _compact: a summary takes the place of all but the last four messages, and
\* of one message at least.
Compacted(msgs) ==
    LET split == IF Len(msgs) > MIN_MESSAGES_TO_KEEP
                 THEN Len(msgs) - MIN_MESSAGES_TO_KEEP ELSE 1
    IN  <<UserText>> \o SubSeq(msgs, split + 1, Len(msgs))

\* A step begins: the context is compacted where it is too long.
LoopHead ==
    /\ pc = "head" /\ stepCount < MaxSteps
    /\ stepCount' = stepCount + 1
    /\ messages' \in {messages, Compacted(messages)}
    /\ pc' = "think"
    /\ UNCHANGED <<asked, answered, numbered>>

\* The adapters keep the tool calls of a response in its order.
ToolCalls(n) == [i \in 1..n |-> numbered + i]

\* complete returns a text, empty or not, and n tool calls.
Think(n) ==
    /\ pc = "think"
    /\ messages' = Append(messages, AssistantText)
    /\ asked' = ToolCalls(n)
    /\ numbered' = numbered + n
    /\ answered' = <<>>
    /\ pc' = IF n = 0 THEN "done" ELSE "act"
    /\ UNCHANGED stepCount

\* Mutant: the calls are executed last one first.
ActLastFirst ==
    /\ pc = "act"
    /\ messages' = Append(messages, ToolResult(Last(asked)))
    /\ answered' = Append(answered, Last(asked))
    /\ asked' = Front(asked)
    /\ pc' = IF Len(asked) = 1 THEN "head" ELSE "act"
    /\ UNCHANGED <<numbered, stepCount>>

\* One call is executed: its result, an error too, is appended.
Act ==
    /\ pc = "act"
    /\ messages' = Append(messages, ToolResult(Head(asked)))
    /\ answered' = Append(answered, Head(asked))
    /\ asked' = Tail(asked)
    /\ pc' = IF Len(asked) = 1 THEN "head" ELSE "act"
    /\ UNCHANGED <<numbered, stepCount>>

MaxStepsReached ==
    /\ pc = "head" /\ stepCount = MaxSteps
    /\ pc' = "done"
    /\ UNCHANGED <<messages, asked, answered, numbered, stepCount>>

\* An await raises (budget check, compaction, LLM, ledger), or the budget is spent.
GiveUp ==
    /\ pc \in {"head", "think"}
    /\ pc' = "done"
    /\ UNCHANGED <<messages, asked, answered, numbered, stepCount>>

ConversationNext ==
    \/ LoopHead \/ Act \/ MaxStepsReached \/ GiveUp
    \/ \E n \in 0..CallsPerStep : Think(n)

ConversationSpec == ConversationInit /\ [][ConversationNext]_conversationVars

-----------------------------------------------------------------------------
\* What the providers get.  A wire message has a role and content blocks, each
\* a text (0) or the result of a call.
Blocks(m) == <<m.call>>

\* Mutant: results join only a message that holds results.
JoinResults(wire, m) ==
    IF m.role = "tool" /\ wire # <<>> /\ Last(wire).role = "user" /\ Last(Last(wire).content) # 0
    THEN ReplaceAt(wire, Len(wire), [Last(wire) EXCEPT !.content = @ \o Blocks(m)])
    ELSE Append(wire, [role |-> IF m.role = "tool" THEN "user" ELSE m.role, content |-> Blocks(m)])

\* AnthropicAdapter._normalize_messages, one message: a tool result becomes a
\* block of the user message before it, or a user message of its own.
Join(wire, m) ==
    IF m.role = "tool" /\ wire # <<>> /\ Last(wire).role = "user"
    THEN ReplaceAt(wire, Len(wire), [Last(wire) EXCEPT !.content = @ \o Blocks(m)])
    ELSE Append(wire, [role |-> IF m.role = "tool" THEN "user" ELSE m.role, content |-> Blocks(m)])

AnthropicWire == FoldLeft(Join, <<>>, messages)

\* OpenAIAdapter._normalize_messages, after the system prompt.
OpenAIWire ==
    <<[role |-> "system", content |-> <<0>>]>> \o
    [i \in DOMAIN messages |-> [role |-> messages[i].role, content |-> Blocks(messages[i])]]

-----------------------------------------------------------------------------
\* Type invariant: calls are executed in the order in which the LLM asked for
\* them, and a conversation starts with the user.
ConversationTypeOK ==
    /\ messages \in Seq([role : {"user", "assistant", "tool"}, call : Nat])
    /\ messages # <<>> /\ messages[1].role = "user"
    /\ numbered \in 0..(MaxSteps * CallsPerStep)
    /\ stepCount \in 0..MaxSteps
    /\ pc \in {"head", "think", "act", "done"}
    /\ answered \o asked = [i \in 1..(Len(answered) + Len(asked)) |->
                               numbered - Len(answered) - Len(asked) + i]

\* Every request to Anthropic has user and assistant messages in turn, the user
\* first and last, wherever compaction has cut the conversation: also between a
\* tool call and its results (anthropic.py:219).
WireAlternates ==
    pc = "think" =>
        LET wire == AnthropicWire
        IN  /\ \A i \in DOMAIN wire : wire[i].role = IF i % 2 = 1 THEN "user" ELSE "assistant"
            /\ Last(wire).role = "user"

\* The results that no request has carried yet are the end of the next one, in the
\* order of their tool calls, unless the LLM asked for more calls than compaction
\* keeps: then the last four of them are.  That is their place; whether a provider
\* takes results whose calls are not in the conversation is another matter.
NewResultsEndRequest ==
    pc = "think" =>
        LET k == IF Len(answered) > MIN_MESSAGES_TO_KEEP THEN MIN_MESSAGES_TO_KEEP ELSE Len(answered)
            new == SubSeq(answered, Len(answered) - k + 1, Len(answered))
            blocks == Last(AnthropicWire).content
        IN  /\ SubSeq(blocks, Len(blocks) - k + 1, Len(blocks)) = new
            /\ \A i \in 1..k : OpenAIWire[Len(OpenAIWire) - k + i] =
                                   [role |-> "tool", content |-> <<new[i]>>]
=============================================================================
