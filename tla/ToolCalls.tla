------------------------------ MODULE ToolCalls ------------------------------
(***************************************************************************)
(* What becomes of the tool calls in one answer of the model: the provider *)
(* (pkg/llm) decodes them, the parser (pkg/agent/parser.go) makes them     *)
(* calls of the agent loop, the loop gives ids to those without one        *)
(* (loop.go:265-280, 303-315), and the provider encodes the calls and their *)
(* results in the next request.  Also the parser by itself, on a function  *)
(* call with any name and text.                                            *)
(***************************************************************************)
EXTENDS Naturals, SequencesExt

CONSTANTS
  K8sNames,    (* names with the prefix k8s_ or tool_                        *)
  OtherNames,  (* other names the model may write                            *)
  GivenIds,    (* ids the model gives its calls                              *)
  MadeIds,     (* ids generateToolCallID may make: 16 bits of the clock       *)
  MaxAnswer    (* bound: calls in one answer                                 *)

VARIABLES
  provider,  (* "openai", "claude", "ollama"; or "none": the parser alone    *)
  answer,    (* the model's calls                                            *)
  response,  (* CompletionResponse: the ToolCalls and the FunctionCall       *)
  parsed,    (* the calls the loop makes                                     *)
  body,      (* the next request's: calls of the assistant and results       *)
  reached    (* how far the answer has come                                  *)

toolCallVars == <<provider, answer, response, parsed, body, reached>>

(* A name or an id that is not set.                                           *)
Unset == ""

CallNames == K8sNames \cup OtherNames

(* A text is an object of JSON, white space, empty or anything else.  Inside  *)
(* there may be an object with a name, a call written as tool_call: name(...) *)
(* and phrases like "restart deployment web" that a tool's pattern matches.   *)
OneOrNone == {<<>>} \cup {<<n>> : n \in CallNames}
Texts     == [form : {"object", "blank", "empty", "other"}, named : OneOrNone,
              written : OneOrNone, phrases : SUBSET K8sNames]

Plain(form) == [form |-> form, named |-> <<>>, written |-> <<>>, phrases |-> {}]
ModelCalls  == [name : CallNames, id : GivenIds \cup {Unset},
                text : {Plain("object"), Plain("other"), Plain("empty")}]
Functions   == {f \in [name : CallNames \cup {Unset}, text : Texts] :
                  f.text.form \in {"blank", "empty"} => f.text = Plain(f.text.form)}

NoFunction == [name |-> Unset, text |-> Plain("empty")]
NoResponse == [calls |-> <<>>, function |-> NoFunction]
Call(name, id, args) == [name |-> name, id |-> id, args |-> args]

ToolCallsInit ==
  /\ response = NoResponse /\ parsed = <<>> /\ body = [calls |-> <<>>, answers |-> <<>>]
  /\ \/ /\ provider \in {"openai", "claude", "ollama"} /\ reached = "asked"
        /\ answer \in UNION {[1..n -> ModelCalls] : n \in 0..MaxAnswer}
     \/ provider = "none" /\ reached = "decoded" /\ answer = <<>>

-----------------------------------------------------------------------------
(* Complete of the providers.  OpenAI's keeps every call, and its first as a  *)
(* function call besides; Claude's keeps the last, without its id; Ollama's   *)
(* none.                                                                      *)
Function(call) == [name |-> call.name, text |-> call.text]

OpenAIResponse(calls) == [calls |-> calls, function |-> Function(calls[1])]
ClaudeResponse(calls) == [calls |-> <<>>, function |-> Function(Last(calls))]

Decode ==
  /\ reached = "asked" /\ reached' = "decoded"
  /\ response' = CASE answer = <<>> \/ provider = "ollama" -> NoResponse
                   [] answer # <<>> /\ provider = "openai" -> OpenAIResponse(answer)
                   [] answer # <<>> /\ provider = "claude" -> ClaudeResponse(answer)
  /\ UNCHANGED <<provider, answer, parsed, body>>

(* A text that is not an object leaves a call without arguments.              *)
ParseArguments(text) ==
  CASE text.form = "object"             -> "as given"
    [] text.form \in {"blank", "empty"} -> "empty"
    [] OTHER                            -> "none"

(* Mutant: a call with a text that is not JSON is left out.                   *)
ParseReadable(tcs) ==
  LET read == SelectSeq(tcs, LAMBDA tc : tc.text.form # "other")
  IN  [i \in DOMAIN read |-> Call(read[i].name, read[i].id, ParseArguments(read[i].text))]

ParseToolCalls(tcs) ==
  [i \in DOMAIN tcs |-> Call(tcs[i].name, tcs[i].id, ParseArguments(tcs[i].text))]

ParseStructured(f) ==
  IF f.name = Unset \/ f.text.form = "empty" THEN <<>> ELSE <<Call(f.name, Unset, ParseArguments(f.text))>>

(* An embedded object is the call's arguments as a whole, the name included.  *)
ParseFromContent(text) ==
  [i \in DOMAIN text.named |-> Call(text.named[i], Unset, "with its name")]
    \o [i \in DOMAIN text.written |-> Call(text.written[i], Unset, "strings")]

(* The patterns are tried in the order of a map: any phrase may come first.   *)
FallbackParse(f) ==
  IF f.name \in K8sNames
  THEN {<<Call(f.name, Unset, ParseArguments(f.text))>>}
  ELSE IF f.text.phrases = {} THEN {<<>>}
  ELSE {<<Call(n, Unset, "strings")>> : n \in f.text.phrases}

ParseFunction(f) ==
  IF ParseStructured(f) # <<>> THEN {ParseStructured(f)}
  ELSE IF ParseFromContent(f.text) # <<>> THEN {ParseFromContent(f.text)}
  ELSE FallbackParse(f)

Parse ==
  /\ reached = "decoded" /\ provider # "none" /\ reached' = "parsed"
  /\ parsed' \in IF response.calls # <<>> THEN {ParseToolCalls(response.calls)}
                 ELSE IF response.function = NoFunction THEN {<<>>}
                 ELSE ParseFunction(response.function)
  /\ UNCHANGED <<provider, answer, response, body>>

ParseAlone ==
  /\ reached = "decoded" /\ provider = "none" /\ reached' = "over"
  /\ \E f \in Functions : /\ response' = [NoResponse EXCEPT !.function = f]
                          /\ parsed' \in ParseFunction(f)
  /\ UNCHANGED <<provider, answer, body>>

(* Ids for the calls that have none, made one after the other by the clock.   *)
GenerateIds ==
  /\ reached = "parsed" /\ reached' = IF parsed = <<>> THEN "over" ELSE "recorded"
  /\ \E ids \in [DOMAIN parsed -> MadeIds] :
       parsed' = [i \in DOMAIN parsed |->
                    [parsed[i] EXCEPT !.id = IF @ = Unset THEN ids[i] ELSE @]]
  /\ UNCHANGED <<provider, answer, response, body>>

(* The calls are recorded and run in order, each giving a result with its id  *)
(* (AgentLoop).  Only OpenAI's requests carry calls and the ids of results.   *)
OpenAIBody == [calls |-> parsed, answers |-> [i \in DOMAIN parsed |-> parsed[i].id]]
TextsOnly  == [calls |-> <<>>, answers |-> [i \in DOMAIN parsed |-> Unset]]

BuildRequestBody ==
  /\ reached = "recorded" /\ reached' = "over"
  /\ body' = IF provider = "openai" THEN OpenAIBody ELSE TextsOnly
  /\ UNCHANGED <<provider, answer, response, parsed>>

ToolCallsNext == Decode \/ Parse \/ ParseAlone \/ GenerateIds \/ BuildRequestBody
ToolCallsSpec == ToolCallsInit /\ [][ToolCallsNext]_toolCallVars

-----------------------------------------------------------------------------
(* The loop makes the model's calls and no others: from OpenAI all of them in *)
(* order, with their ids in the next request and a result for each; from the  *)
(* others at most one.  A text that is not JSON costs a call its arguments,   *)
(* but neither the call itself nor its name, and nothing the text mentions is *)
(* called in its place (parser.go:55-102, 166-189; openai.go:86-101, 255-279).*)
CallsAreTheModels ==
  reached = "over" =>
    /\ provider = "openai" =>
         /\ Len(body.calls) = Len(answer) /\ Len(body.answers) = Len(answer)
         /\ \A i \in DOMAIN answer :
              /\ body.calls[i].name = answer[i].name /\ body.answers[i] = body.calls[i].id
              /\ answer[i].id # Unset => body.answers[i] = answer[i].id
              /\ body.calls[i].args = "as given" => answer[i].text.form = "object"
    /\ provider \in {"claude", "ollama"} =>
         Len(parsed) <= 1 /\ \A i \in DOMAIN parsed : \E m \in ToSet(answer) : m.name = parsed[i].name
    /\ provider = "none" /\ response.function.name # Unset =>
         \A i \in DOMAIN parsed : parsed[i].name = response.function.name
=============================================================================
