---------------------------- MODULE ContextWindow ----------------------------
(***************************************************************************)
(* The context manager (pkg/agent/context.go): the messages that go to the *)
(* model, their token count kept beside them, and the strategies that trim *)
(* them.  Every operation holds the manager's mutex.                       *)
(***************************************************************************)
EXTENDS Naturals, SequencesExt

CONSTANTS
  Sizes,       (* token counts of messages; 0 for an empty text              *)
  Limits,      (* values of maxTokens that TrimContext is called with        *)
  WindowSize,  (* of the sliding window                                      *)
  MaxMessages, (* bound: messages in the context                             *)
  MaxSaved     (* bound: messages in a saved context                         *)

(* An estimate is never negative, and neither is a limit or a window.         *)
ASSUME SizesAssumption == Sizes \subseteq Nat /\ Limits \subseteq Nat /\ WindowSize \in Nat

VARIABLES
  strategy,       (* of the advanced manager; "preserve_key" is the base's   *)
  messages,       (* the messages: their tokens and IsKeyContext             *)
  currentTokens,  (* the count kept beside them                              *)
  saved           (* a context as ToJSON has written it, or none             *)

contextVars == <<strategy, messages, currentTokens, saved>>

Strategies == {"preserve_key", "sliding_window", "summary", "preserve_recent"}
Message    == [tokens : Sizes, key : BOOLEAN]
NoJSON     == [messages |-> <<>>, currentTokens |-> 0]

Total(s) ==
  LET sum[n \in 0..Len(s)] == IF n = 0 THEN 0 ELSE sum[n - 1] + s[n].tokens
  IN  sum[Len(s)]

(* The messages that are key context, or those that are not, in their order.  *)
Marked(s, mark) ==
  LET kept[n \in 0..Len(s)] ==
        IF n = 0 THEN <<>>
        ELSE IF s[n].key = mark THEN Append(kept[n - 1], s[n]) ELSE kept[n - 1]
  IN  kept[Len(s)]

KeyContext(s) == Marked(s, TRUE)
Rest(s)       == Marked(s, FALSE)

ContextInit ==
  /\ strategy \in Strategies /\ messages = <<>> /\ currentTokens = 0 /\ saved = NoJSON

-----------------------------------------------------------------------------
(* AddMessage, AddAssistantWithToolCalls and AddToolResult differ in what     *)
(* their tokens are estimated from.                                           *)
AddMessage ==
  /\ Len(messages) < MaxMessages
  /\ \E t \in Sizes : /\ messages' = Append(messages, [tokens |-> t, key |-> FALSE])
                      /\ currentTokens' = currentTokens + t
  /\ UNCHANGED <<strategy, saved>>

MarkKeyContext ==
  /\ \E i \in DOMAIN messages : messages' = [messages EXCEPT ![i].key = TRUE]
  /\ UNCHANGED <<strategy, currentTokens, saved>>

ResetContext ==
  /\ messages' = <<>> /\ currentTokens' = 0 /\ UNCHANGED <<strategy, saved>>

(* The longest end of s that has at most max tokens.                          *)
Recent(s, max) ==
  LET fits == {n \in 0..Len(s) : Total(SubSeq(s, n + 1, Len(s))) <= max}
  IN  SubSeq(s, (CHOOSE n \in fits : \A m \in fits : n <= m) + 1, Len(s))

TrimPreserveRecent(max) ==
  messages' = Recent(messages, max) /\ currentTokens' = Total(Recent(messages, max))

(* The oldest messages that are not key context go until enough tokens are    *)
(* gone; those that are left come before the key messages.  If that is not    *)
(* enough the oldest key messages go too.                                     *)
TrimBase(max) ==
  LET rest    == Rest(messages)
      enough  == {n \in 0..Len(rest) :
                    n = Len(rest) \/ Total(SubSeq(rest, 1, n)) >= currentTokens - max}
      removed == CHOOSE n \in enough : \A m \in enough : n <= m
      merged  == SubSeq(rest, removed + 1, Len(rest)) \o KeyContext(messages)
      left    == currentTokens - Total(SubSeq(rest, 1, removed))
  IN  IF left > max
      THEN messages' = Recent(merged, max) /\ currentTokens' = Total(Recent(merged, max))
      ELSE messages' = merged /\ currentTokens' = left

(* The older half becomes one key message; an error of the service changes    *)
(* nothing.  A summary quotes up to a hundred bytes of every tool result, so  *)
(* it may be of any size.                                                     *)
TrimWithSummary ==
  LET half == Len(messages) \div 2
  IN  \/ \E t \in Sizes \ {0} :
           /\ messages' = <<[tokens |-> t, key |-> TRUE]>> \o SubSeq(messages, half + 1, Len(messages))
           /\ currentTokens' = currentTokens - Total(SubSeq(messages, 1, half)) + t
      \/ UNCHANGED <<messages, currentTokens>>

(* Mutant. *)
TrimWindowUncounted ==
  /\ messages' = SubSeq(messages, Len(messages) - WindowSize + 1, Len(messages))
  /\ UNCHANGED currentTokens

TrimSlidingWindow ==
  LET start == Len(messages) - WindowSize
  IN  /\ messages' = SubSeq(messages, start + 1, Len(messages))
      /\ currentTokens' = currentTokens - Total(SubSeq(messages, 1, start))

(* The sliding window looks at the number of messages only.  Without a        *)
(* summary service the summary strategy is the base's.                        *)
TrimContext ==
  \E max \in Limits :
    /\ \/ strategy = "sliding_window" /\ Len(messages) > WindowSize /\ TrimSlidingWindow
       \/ strategy = "preserve_recent" /\ currentTokens > max /\ TrimPreserveRecent(max)
       \/ strategy = "summary" /\ currentTokens > max /\ TrimWithSummary
       \/ strategy \in {"summary", "preserve_key"} /\ currentTokens > max /\ TrimBase(max)
    /\ UNCHANGED <<strategy, saved>>

(* A context is saved with its count; the names of tools and the links        *)
(* between calls and results are not written.                                 *)
ToJSON ==
  /\ Len(messages) <= MaxSaved
  /\ saved' = [messages |-> messages, currentTokens |-> currentTokens]
  /\ UNCHANGED <<strategy, messages, currentTokens>>

FromJSON ==
  /\ messages' = saved.messages /\ currentTokens' = saved.currentTokens
  /\ UNCHANGED <<strategy, saved>>

ContextNext ==
  AddMessage \/ MarkKeyContext \/ ResetContext \/ TrimContext \/ ToJSON \/ FromJSON

ContextSpec == ContextInit /\ [][ContextNext]_contextVars

-----------------------------------------------------------------------------
(* The messages are messages, and the count kept beside them is theirs after  *)
(* any sequence of additions, trims of any strategy, resets and restores      *)
(* (context.go:62, 196, 233, 412, 457, 629).                                  *)
TokensAddUp ==
  messages \in Seq(Message) /\ currentTokens = Total(messages)

(* A trim that has to make room leaves no more than the limit, and gives up   *)
(* key context only when nothing else is left (context.go:152-234).           *)
TrimKeepsKeyContext ==
  [][\A max \in Limits : strategy = "preserve_key" /\ currentTokens > max /\ TrimBase(max) =>
       /\ currentTokens' <= max
       /\ Len(KeyContext(messages')) < Len(KeyContext(messages)) => Rest(messages') = <<>>]_contextVars
=============================================================================
