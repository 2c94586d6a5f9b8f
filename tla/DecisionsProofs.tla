--------------------------- MODULE DecisionsProofs ---------------------------
(***************************************************************************)
(* The parts of the agent that decide, for every set of tools, resources,  *)
(* calls and providers: nothing but a read is executed unasked; what goes  *)
(* back to the model is what it called; a run that repeats its tools is    *)
(* warned, however many share the record; calls that are executed at once, *)
(* in batches or sorted by dependency give the results of just those       *)
(* calls, the reads before the changes; and a request asks the providers   *)
(* of one configuration, the better ones first.                            *)
(***************************************************************************)
EXTENDS SecurityGateway, ToolCalls, DeadLoop, ParallelExecutor, Router,
        FiniteSetTheorems, SequenceTheorems, WellFoundedInduction, TLAPS

(* ---- Finite sets and sequences.                                          *)

(* Finite sets: one element less, one to be picked, three of them, two.       *)
LEMMA FewerElements ==
  ASSUME NEW S, IsFiniteSet(S), NEW a \in S
  PROVE  /\ IsFiniteSet(S \ {a}) /\ Cardinality(S) \in Nat
         /\ Cardinality(S \ {a}) = Cardinality(S) - 1
BY FS_RemoveElement, FS_CardinalityType

LEMMA SomeElement ==
  ASSUME NEW S, IsFiniteSet(S), Cardinality(S) # 0
  PROVE  \E a : a \in S
BY FS_EmptySet

LEMMA ThreeElements ==
  ASSUME NEW S, IsFiniteSet(S), Cardinality(S) >= 3
  PROVE  \E a, b, c \in S : a # b /\ b # c /\ a # c
<1>1. Cardinality(S) \in Nat
  BY FS_CardinalityType
<1>2. PICK a : a \in S
  BY <1>1, SomeElement
<1> DEFINE T == S \ {a}
<1>3. IsFiniteSet(T) /\ Cardinality(T) \in Nat /\ Cardinality(T) >= 2
  BY <1>1, <1>2, FewerElements
<1>4. PICK b : b \in T
  BY <1>3, SomeElement
<1> DEFINE U == T \ {b}
<1>5. IsFiniteSet(U) /\ Cardinality(U) # 0
  <2> HIDE DEF T
  <2> QED BY <1>3, <1>4, FewerElements
<1>6. PICK c : c \in U
  BY <1>5, SomeElement
<1> QED BY <1>2, <1>4, <1>6

LEMMA PairInside ==
  ASSUME NEW S, IsFiniteSet(S), NEW a \in S, NEW b \in S, a # b
  PROVE  Cardinality(S) >= 2
<1> DEFINE T == S \ {a}
<1>1. IsFiniteSet(T) /\ Cardinality(S) \in Nat /\ Cardinality(T) = Cardinality(S) - 1 /\ b \in T
  BY FewerElements
<1>2. Cardinality(T) # 0 /\ Cardinality(T) \in Nat
  <2> HIDE DEF T
  <2>1. T # {}
    BY <1>1
  <2> QED BY <1>1, <2>1, FS_EmptySet, FS_CardinalityType
<1> QED BY <1>1, <1>2

LEMMA PlacesAreFinite ==
  ASSUME NEW h, Len(h) \in Nat, NEW S, S \subseteq 1..Len(h)
  PROVE  IsFiniteSet(S)
<1>1. IsFiniteSet(1..Len(h))
  BY FS_Interval
<1> QED BY <1>1, FS_Subset

(* A function on 1..n is a sequence.                                          *)
LEMMA IsSeq ==
  ASSUME NEW S, NEW n \in Nat, NEW s \in [1..n -> S]
  PROVE  s \in Seq(S) /\ Len(s) = n
<1>1. s \in Seq(S)
  BY SeqDef
<1>2. 1..Len(s) = 1..n /\ Len(s) \in Nat
  BY <1>1, LenProperties
<1> QED BY <1>1, <1>2

LEMMA OneElement ==
  ASSUME NEW S, NEW e \in S
  PROVE  <<e>> \in Seq(S) /\ Len(<<e>>) = 1 /\ <<e>>[1] = e
OBVIOUS

-----------------------------------------------------------------------------
(* ---- The security gateway.                                               *)

(* A call that got through was judged by the scores of its request; where the *)
(* evaluation is past, it is the one EvaluateRisk gives.                      *)
Judged ==
  stage # "asked" => evaluation = Adapted(EvaluateRisk)

Passed ==
  stage \in {"confirming", "executed"} => IsAllowed(evaluation)

Asked ==
  stage = "executed" => confirmed \/ ~RequiresConfirmation(evaluation)

GatewayInv == GatewayTypeOK /\ Judged /\ Passed /\ Asked

-----------------------------------------------------------------------------
(* The scores are natural numbers, and a sum of scores gives a level.         *)
LEMMA ScoresAreNat ==
  /\ ToolRisk \in Nat /\ EnvironmentRisk \in Nat /\ ResourceRisk \in Nat
  /\ ResourceRisk >= 10
  /\ request.tool \notin Reads => ToolRisk >= 20
<1>1. ToolRisk \in Nat /\ (request.tool \notin Reads => ToolRisk >= 20)
  BY DEF ToolRisk, Reads
<1>2. EnvironmentRisk \in Nat
  BY DEF EnvironmentRisk
<1>3. ResourceRisk \in Nat /\ ResourceRisk >= 10
  BY DEF ResourceRisk
<1> QED BY <1>1, <1>2, <1>3

LEMMA LevelsOfScores ==
  ASSUME NEW score \in Nat
  PROVE  /\ ScoreToRiskLevel(score) \in 0..4
         /\ score >= 30 => ScoreToRiskLevel(score) >= 2
BY DEF ScoreToRiskLevel

(* A tool that is no read scores 20 at least, every resource 10: together the *)
(* level from which the user is asked.                                        *)
LEMMA MutationsScore ==
  ASSUME request.tool \notin Reads
  PROVE  RequiresConfirmation(Adapted(EvaluateRisk))
<1> DEFINE score == ToolRisk + EnvironmentRisk + ResourceRisk
<1>1. score \in Nat /\ score >= 30
  BY ScoresAreNat
<1>2. ScoreToRiskLevel(score) >= 2
  BY <1>1, LevelsOfScores
<1>3. Adapted(EvaluateRisk).level = ScoreToRiskLevel(score)
  BY DEF Adapted, EvaluateRisk
<1> QED BY <1>2, <1>3 DEF RequiresConfirmation

LEMMA EvaluationsHaveTypes ==
  Adapted(EvaluateRisk) \in [level : 0..4, blocked : BOOLEAN, double : BOOLEAN]
<1>1. ToolRisk + EnvironmentRisk + ResourceRisk \in Nat
  BY ScoresAreNat
<1>2. ScoreToRiskLevel(ToolRisk + EnvironmentRisk + ResourceRisk) \in 0..4
  BY <1>1, LevelsOfScores
<1> QED BY <1>2 DEF Adapted, EvaluateRisk

-----------------------------------------------------------------------------
LEMMA GatewayStarts == GatewayInit => GatewayInv
<1> SUFFICES ASSUME GatewayInit PROVE GatewayInv
  OBVIOUS
<1>1. request \in Requests /\ stage = "asked" /\ confirmed = FALSE
      /\ evaluation = [level |-> 0, blocked |-> FALSE, double |-> FALSE]
  BY DEF GatewayInit
<1>2. evaluation \in [level : 0..4, blocked : BOOLEAN, double : BOOLEAN]
  <2>1. 0 \in 0..4
    OBVIOUS
  <2> QED BY <1>1, <2>1, Zenon
<1>3. GatewayTypeOK
  BY <1>1, <1>2 DEF GatewayTypeOK
<1> QED BY <1>1, <1>3 DEF GatewayInv, Judged, Passed, Asked

(* The request never changes, so what EvaluateRisk gives stays the same.      *)
LEMMA SameRequest ==
  ASSUME request' = request
  PROVE  Adapted(EvaluateRisk)' = Adapted(EvaluateRisk)
BY DEF Adapted, EvaluateRisk, ToolRisk, EnvironmentRisk, ResourceRisk,
       ScoreToRiskLevel, ProductionBlock, NamespaceBlock, ClusterBlock, Reads

LEMMA GatewaySteps == GatewayInv /\ [GatewayNext]_gatewayVars => GatewayInv'
<1> SUFFICES ASSUME GatewayInv, [GatewayNext]_gatewayVars PROVE GatewayInv'
  OBVIOUS
<1> USE DEF GatewayInv
<1>1. CASE Evaluate
  <2>1. request' = request /\ confirmed' = confirmed /\ stage' = "evaluated"
        /\ evaluation' = Adapted(EvaluateRisk)
    BY <1>1 DEF Evaluate
  <2>2. Adapted(EvaluateRisk)' = evaluation'
    BY <2>1, SameRequest
  <2>3. GatewayTypeOK'
    BY <2>1, EvaluationsHaveTypes DEF GatewayTypeOK
  <2> QED BY <2>1, <2>2, <2>3 DEF Judged, Passed, Asked
<1>2. CASE Decide
  <2>1. request' = request /\ confirmed' = confirmed /\ evaluation' = evaluation
        /\ stage = "evaluated"
    BY <1>2 DEF Decide
  <2>2. /\ stage' \in {"refused", "confirming", "executed"}
        /\ stage' # "refused" => IsAllowed(evaluation)
        /\ stage' = "executed" => ~RequiresConfirmation(evaluation)
    BY <1>2 DEF Decide
  <2>3. Judged'
    BY <2>1, SameRequest DEF Judged
  <2>4. IsAllowed(evaluation)' = IsAllowed(evaluation)
    BY <2>1 DEF IsAllowed
  <2>5. Passed' /\ Asked'
    BY <2>1, <2>2, <2>4 DEF Passed, Asked, RequiresConfirmation
  <2>6. GatewayTypeOK'
    BY <2>1, <2>2 DEF GatewayTypeOK
  <2> QED BY <2>3, <2>5, <2>6
<1>3. CASE Confirm
  <2>1. request' = request /\ evaluation' = evaluation /\ stage = "confirming"
        /\ confirmed' \in BOOLEAN /\ stage' \in {"executed", "refused"}
        /\ (stage' = "executed" => confirmed')
    BY <1>3 DEF Confirm
  <2>2. Judged'
    BY <2>1, SameRequest DEF Judged
  <2>3. IsAllowed(evaluation)' = IsAllowed(evaluation)
    BY <2>1 DEF IsAllowed
  <2>4. Passed' /\ Asked'
    BY <2>1, <2>3 DEF Passed, Asked
  <2>5. GatewayTypeOK'
    BY <2>1 DEF GatewayTypeOK
  <2> QED BY <2>2, <2>4, <2>5
<1>4. CASE UNCHANGED gatewayVars
  <2>1. request' = request /\ evaluation' = evaluation /\ confirmed' = confirmed /\ stage' = stage
    BY <1>4 DEF gatewayVars
  <2>2. Judged'
    BY <2>1, SameRequest DEF Judged
  <2>3. IsAllowed(evaluation)' = IsAllowed(evaluation)
    BY <2>1 DEF IsAllowed
  <2> QED BY <2>1, <2>2, <2>3 DEF GatewayTypeOK, Passed, Asked, RequiresConfirmation
<1> QED BY <1>1, <1>2, <1>3, <1>4 DEF GatewayNext

(* An executed call that is no read was asked about, since its evaluation is  *)
(* its request's; one of L3 or L4 got past IsAllowed.                         *)
LEMMA ExecutedIsAsked == GatewayInv => MutationsAreAsked
<1> SUFFICES ASSUME GatewayInv, stage = "executed"
             PROVE  /\ request.tool \notin Reads => confirmed
                    /\ evaluation.level >= 3 =>
                         request.window /\ request.environment # "production"
  BY DEF MutationsAreAsked
<1>1. evaluation = Adapted(EvaluateRisk) /\ IsAllowed(evaluation)
      /\ (confirmed \/ ~RequiresConfirmation(evaluation))
  BY DEF GatewayInv, Judged, Passed, Asked
<1>2. request.tool \notin Reads => confirmed
  BY <1>1, MutationsScore
<1>3. evaluation.level >= 3 => request.window /\ request.environment # "production"
  BY <1>1 DEF IsAllowed
<1> QED BY <1>2, <1>3

-----------------------------------------------------------------------------
LEMMA GatewayInvariant == GatewaySpec => []GatewayInv
BY GatewayStarts, GatewaySteps, PTL DEF GatewaySpec

(* Levels are 0 to 4 and the call is in one of the loop's stages.             *)
THEOREM GatewayTypeCorrect == GatewaySpec => []GatewayTypeOK
<1>1. GatewayInv => GatewayTypeOK
  BY DEF GatewayInv
<1> QED BY <1>1, GatewayInvariant, PTL

(* Whatever tool, resource, environment and context a call has, it is not     *)
(* executed unasked unless it is a read.                                      *)
THEOREM MutationsAreAskedHolds == GatewaySpec => []MutationsAreAsked
BY GatewayInvariant, ExecutedIsAsked, PTL

-----------------------------------------------------------------------------
(* ---- Tool calls on their way.                                            *)

(* What the parser makes of a call.                                           *)
Parsed == [name : CallNames, id : GivenIds \cup MadeIds \cup {Unset},
           args : {"as given", "empty", "none", "with its name", "strings"}]

(* OpenAI's calls are parsed one by one; an id is only made where none was.   *)
AllParsed ==
  /\ Len(parsed) = Len(answer)
  /\ \A i \in 1..Len(answer) :
       /\ parsed[i].name = answer[i].name
       /\ answer[i].id # Unset => parsed[i].id = answer[i].id
       /\ parsed[i].args = "as given" => answer[i].text.form = "object"

(* Claude's last call at most, Ollama's never.                                *)
OneParsed ==
  /\ Len(parsed) <= 1
  /\ \A i \in 1..Len(parsed) : \E j \in 1..Len(answer) : answer[j].name = parsed[i].name

AloneParsed ==
  response.function.name # Unset => \A i \in 1..Len(parsed) : parsed[i].name = response.function.name

Decoded ==
  /\ provider = "openai" => response = (IF answer = <<>> THEN NoResponse ELSE OpenAIResponse(answer))
  /\ provider = "claude" => response = (IF answer = <<>> THEN NoResponse ELSE ClaudeResponse(answer))
  /\ provider = "ollama" => response = NoResponse

AnswerTypeOK ==
  /\ provider \in {"openai", "claude", "ollama", "none"}
  /\ reached \in {"asked", "decoded", "parsed", "recorded", "over"}
  /\ answer \in Seq(ModelCalls) /\ parsed \in Seq(Parsed)

(* What is known at each stage of an answer's way.                            *)
AnswerInv ==
  /\ AnswerTypeOK
  /\ provider = "none" => reached \in {"decoded", "over"}
  /\ reached = "decoded" => Decoded
  /\ reached \in {"parsed", "recorded", "over"} =>
       /\ provider = "openai" => AllParsed
       /\ provider \in {"claude", "ollama"} => OneParsed
       /\ provider = "none" => AloneParsed
  /\ reached # "over" => body = [calls |-> <<>>, answers |-> <<>>]
  /\ reached = "over" /\ provider = "openai" => body = OpenAIBody

-----------------------------------------------------------------------------

LEMMA CallFields ==
  ASSUME NEW n, NEW i, NEW a
  PROVE  Call(n, i, a).name = n /\ Call(n, i, a).id = i /\ Call(n, i, a).args = a
BY DEF Call

LEMMA CallIsParsed ==
  ASSUME NEW n \in CallNames, NEW t
  PROVE  /\ \A i \in GivenIds \cup {Unset} : Call(n, i, ParseArguments(t)) \in Parsed
         /\ Call(n, Unset, "with its name") \in Parsed /\ Call(n, Unset, "strings") \in Parsed
BY DEF Call, Parsed, ParseArguments

LEMMA PlainFields ==
  ASSUME NEW form
  PROVE  /\ Plain(form).named = <<>> /\ Plain(form).written = <<>> /\ Plain(form).phrases = {}
         /\ Plain(form).form = form
BY DEF Plain

LEMMA ArgumentsAsGiven ==
  ASSUME NEW t, ParseArguments(t) = "as given"
  PROVE  t.form = "object"
BY DEF ParseArguments

(* A text with nothing inside.                                                *)
LEMMA NothingInside ==
  ASSUME NEW text, text.named = <<>>, text.written = <<>>
  PROVE  ParseFromContent(text) = <<>>
<1>1. [i \in DOMAIN text.named |-> Call(text.named[i], Unset, "with its name")] = <<>>
  OBVIOUS
<1>2. [i \in DOMAIN text.written |-> Call(text.written[i], Unset, "strings")] = <<>>
  OBVIOUS
<1> QED BY <1>1, <1>2 DEF ParseFromContent

(* The parser names a call after its function, or after what is in the text.  *)
LEMMA FunctionIsNamed ==
  ASSUME NEW f, NEW s \in ParseFunction(f), f.text.named = <<>>, f.text.written = <<>>, f.text.phrases = {}
  PROVE  s = <<>> \/ \E a : s = <<Call(f.name, Unset, a)>>
<1>1. CASE ParseStructured(f) # <<>>
  BY <1>1 DEF ParseFunction, ParseStructured
<1>2. CASE ParseStructured(f) = <<>>
  <2>1. s \in FallbackParse(f)
    BY <1>2, NothingInside DEF ParseFunction
  <2> QED BY <2>1 DEF FallbackParse
<1> QED BY <1>1, <1>2

LEMMA ContentIsParsed ==
  ASSUME NEW text \in Texts
  PROVE  ParseFromContent(text) \in Seq(Parsed)
<1>1. text.named \in Seq(CallNames) /\ text.written \in Seq(CallNames)
  <2>1. \A n \in CallNames : <<n>> \in Seq(CallNames)
    BY OneElement
  <2>2. <<>> \in Seq(CallNames)
    BY EmptySeq
  <2> QED BY <2>1, <2>2 DEF Texts, OneOrNone
<1>2. [i \in DOMAIN text.named |-> Call(text.named[i], Unset, "with its name")] \in Seq(Parsed)
  <2>1. \A i \in 1..Len(text.named) : Call(text.named[i], Unset, "with its name") \in Parsed
    BY <1>1, ElementOfSeq, CallIsParsed
  <2>2. Len(text.named) \in Nat /\ DOMAIN text.named = 1..Len(text.named)
    BY <1>1, LenProperties
  <2>3. [i \in DOMAIN text.named |-> Call(text.named[i], Unset, "with its name")] \in [1..Len(text.named) -> Parsed]
    BY <2>1, <2>2
  <2> QED BY <2>2, <2>3, IsSeq
<1>3. [i \in DOMAIN text.written |-> Call(text.written[i], Unset, "strings")] \in Seq(Parsed)
  <2>1. \A i \in 1..Len(text.written) : Call(text.written[i], Unset, "strings") \in Parsed
    BY <1>1, ElementOfSeq, CallIsParsed
  <2>2. Len(text.written) \in Nat /\ DOMAIN text.written = 1..Len(text.written)
    BY <1>1, LenProperties
  <2>3. [i \in DOMAIN text.written |-> Call(text.written[i], Unset, "strings")] \in [1..Len(text.written) -> Parsed]
    BY <2>1, <2>2
  <2> QED BY <2>2, <2>3, IsSeq
<1> QED BY <1>2, <1>3, ConcatProperties DEF ParseFromContent

LEMMA FunctionIsParsed ==
  ASSUME NEW f, f.text \in Texts, f.name \in CallNames \cup {Unset}, NEW s \in ParseFunction(f)
  PROVE  s \in Seq(Parsed)
<1>1. CASE ParseStructured(f) # <<>>
  <2>1. s = <<Call(f.name, Unset, ParseArguments(f.text))>> /\ f.name \in CallNames
    BY <1>1 DEF ParseFunction, ParseStructured
  <2> QED BY <2>1, CallIsParsed, OneElement
<1>2. CASE ParseStructured(f) = <<>> /\ ParseFromContent(f.text) # <<>>
  <2>1. s = ParseFromContent(f.text)
    BY <1>2 DEF ParseFunction
  <2> QED BY <2>1, ContentIsParsed
<1>3. CASE ParseStructured(f) = <<>> /\ ParseFromContent(f.text) = <<>>
  <2>1. s \in FallbackParse(f)
    BY <1>3 DEF ParseFunction
  <2>2. K8sNames \subseteq CallNames /\ f.text.phrases \subseteq K8sNames
    BY DEF CallNames, Texts
  <2>3. CASE f.name \in K8sNames
    BY <2>1, <2>2, <2>3, CallIsParsed, OneElement DEF FallbackParse
  <2>4. CASE f.name \notin K8sNames
    <3>1. s = <<>> \/ \E n \in f.text.phrases : s = <<Call(n, Unset, "strings")>>
      BY <2>1, <2>4 DEF FallbackParse
    <3>2. \A n \in f.text.phrases : <<Call(n, Unset, "strings")>> \in Seq(Parsed)
      BY <2>2, CallIsParsed, OneElement
    <3> QED BY <3>1, <3>2, EmptySeq
  <2> QED BY <2>3, <2>4
<1> QED BY <1>1, <1>2, <1>3

(* A model's text is a plain one.                                             *)
LEMMA ModelTexts ==
  ASSUME NEW c \in ModelCalls
  PROVE  /\ c.name \in CallNames /\ c.id \in GivenIds \cup {Unset} /\ c.text \in Texts
         /\ c.text.named = <<>> /\ c.text.written = <<>> /\ c.text.phrases = {}
<1>1. PICK form \in {"object", "other", "empty"} : c.text = Plain(form)
  BY DEF ModelCalls
<1>2. Plain(form) \in Texts
  BY DEF Plain, Texts, OneOrNone
<1> QED BY <1>1, <1>2, PlainFields DEF ModelCalls

-----------------------------------------------------------------------------
LEMMA AnswerStarts == ToolCallsInit => AnswerInv
<1> SUFFICES ASSUME ToolCallsInit PROVE AnswerInv
  OBVIOUS
<1>1. answer \in Seq(ModelCalls)
  <2>1. CASE answer = <<>>
    BY <2>1, EmptySeq
  <2>2. CASE answer # <<>>
    <3>1. \E n \in 0..MaxAnswer : answer \in [1..n -> ModelCalls]
      BY <2>2 DEF ToolCallsInit
    <3> QED BY <3>1, IsSeq
  <2> QED BY <2>1, <2>2
<1>2. parsed \in Seq(Parsed)
  BY EmptySeq DEF ToolCallsInit
<1> QED BY <1>1, <1>2 DEF ToolCallsInit, AnswerInv, AnswerTypeOK, Decoded

LEMMA DecodeKeeps ==
  ASSUME AnswerInv, Decode
  PROVE  AnswerInv'
<1>1. provider # "none" /\ Decoded'
  BY DEF AnswerInv, AnswerTypeOK, Decode, Decoded
<1> QED BY <1>1 DEF AnswerInv, AnswerTypeOK, Decode

LEMMA ParseKeeps ==
  ASSUME AnswerInv, Parse
  PROVE  AnswerInv'
<1>1. /\ Decoded /\ provider \in {"openai", "claude", "ollama"} /\ answer \in Seq(ModelCalls)
      /\ answer' = answer /\ provider' = provider /\ reached' = "parsed" /\ body' = body
      /\ NoResponse.calls = <<>> /\ NoResponse.function = NoFunction
  BY DEF AnswerInv, AnswerTypeOK, Parse, NoResponse
<1>5. ASSUME parsed' \in Seq(Parsed), provider = "openai" => AllParsed', provider # "openai" => OneParsed'
      PROVE  AnswerInv'
  <2>1. AnswerTypeOK' /\ body' = [calls |-> <<>>, answers |-> <<>>]
    BY <1>1, <1>5 DEF AnswerInv, AnswerTypeOK, Parse
  <2> QED BY <1>1, <1>5, <2>1 DEF AnswerInv
<1>2. CASE answer = <<>> \/ provider = "ollama"
  <2>1. response = NoResponse
    BY <1>1, <1>2 DEF Decoded
  <2>2. parsed' = <<>>
    BY <1>1, <2>1 DEF Parse
  <2>3. parsed' \in Seq(Parsed) /\ Len(parsed') = 0
    BY <2>2, EmptySeq
  <2>4. (provider = "openai" => AllParsed') /\ OneParsed'
    <3>1. OneParsed'
      BY <2>3 DEF OneParsed
    <3>2. provider = "openai" => Len(answer) = 0
      BY <1>2, EmptySeq
    <3>3. ASSUME provider = "openai" PROVE AllParsed'
      <4>1. Len(answer') = 0 /\ 1..Len(answer') = {}
        BY <1>1, <3>2, <3>3
      <4> QED BY <2>3, <4>1 DEF AllParsed
    <3> QED BY <3>1, <3>3
  <2> QED BY <1>1, <1>5, <2>3, <2>4
<1>3. CASE answer # <<>> /\ provider = "openai"
  <2>1. response.calls = answer
    BY <1>1, <1>3 DEF Decoded, OpenAIResponse
  <2>2. parsed' = ParseToolCalls(answer)
    BY <1>1, <1>3, <2>1 DEF Parse
  <2>3. ASSUME NEW i \in 1..Len(answer)
        PROVE  /\ parsed'[i] = Call(answer[i].name, answer[i].id, ParseArguments(answer[i].text))
               /\ answer[i] \in ModelCalls
    BY <1>1, <2>2, LenProperties, ElementOfSeq DEF ParseToolCalls
  <2>4. parsed' \in Seq(Parsed) /\ Len(parsed') = Len(answer)
    <3>1. ASSUME NEW i \in 1..Len(answer) PROVE parsed'[i] \in Parsed
      <4>1. answer[i].name \in CallNames /\ answer[i].id \in GivenIds \cup {Unset}
        BY <2>3, ModelTexts
      <4> QED BY <2>3, <4>1, CallIsParsed
    <3>2. parsed' \in [1..Len(answer) -> Parsed] /\ Len(answer) \in Nat
      BY <1>1, <2>2, <3>1, LenProperties DEF ParseToolCalls
    <3> QED BY <3>2, IsSeq
  <2>5. ASSUME NEW i \in 1..Len(answer)
        PROVE  parsed'[i].args = "as given" => answer[i].text.form = "object"
    <3>1. parsed'[i].args = ParseArguments(answer[i].text)
      BY <2>3, CallFields
    <3> QED BY <3>1, ArgumentsAsGiven
  <2>6. AllParsed'
    <3>1. \A i \in 1..Len(answer) : parsed'[i].name = answer[i].name /\ parsed'[i].id = answer[i].id
      BY <2>3, CallFields
    <3> QED BY <1>1, <3>1, <2>4, <2>5 DEF AllParsed
  <2> QED BY <1>1, <1>3, <1>5, <2>4, <2>6
<1>4. CASE answer # <<>> /\ provider = "claude"
  <2>1. response.calls = <<>> /\ response.function = Function(Last(answer))
    BY <1>1, <1>4 DEF Decoded, ClaudeResponse
  <2> DEFINE last == answer[Len(answer)]
  <2>2. Len(answer) \in 1..Len(answer) /\ Last(answer) = last /\ last \in ModelCalls
    BY <1>1, <1>4 DEF Last
  <2>3. Function(last).name = last.name /\ Function(last).text = last.text
    BY DEF Function
  <2> HIDE DEF last
  <2>4. parsed' = <<>> \/ parsed' \in ParseFunction(Function(last))
    BY <1>1, <2>1, <2>2 DEF Parse
  <2>5. last.name \in CallNames \cup {Unset} /\ last.text \in Texts
        /\ last.text.named = <<>> /\ last.text.written = <<>> /\ last.text.phrases = {}
    BY <2>2, ModelTexts
  <2>6. parsed' = <<>> \/ \E a : parsed' = <<Call(last.name, Unset, a)>>
    BY <2>3, <2>4, <2>5, FunctionIsNamed
  <2>7. parsed' \in Seq(Parsed)
    BY <2>3, <2>4, <2>5, FunctionIsParsed, EmptySeq
  <2>8. \A i \in 1..Len(parsed') : parsed'[i].name = last.name
    BY <2>6, CallFields
  <2>9. Len(parsed') <= 1
    BY <2>6
  <2>10. OneParsed'
    BY <1>1, <2>2, <2>8, <2>9 DEF OneParsed, last
  <2> QED BY <1>1, <1>4, <1>5, <2>7, <2>10
<1> QED BY <1>1, <1>2, <1>3, <1>4

(* A function call given to the parser alone has a text with nothing inside   *)
(* where the text is empty.                                                   *)
LEMMA ParseAloneKeeps ==
  ASSUME AnswerInv, ParseAlone
  PROVE  AnswerInv'
<1>1. PICK f \in Functions : response' = [NoResponse EXCEPT !.function = f] /\ parsed' \in ParseFunction(f)
  BY DEF ParseAlone
<1>2. response'.function = f
  BY <1>1 DEF NoResponse
<1>3. f.name \in CallNames \cup {Unset} /\ f.text \in Texts
      /\ (f.text.form = "empty" => f.text = Plain("empty"))
  BY DEF Functions
<1>4. parsed' \in Seq(Parsed)
  BY <1>1, <1>3, FunctionIsParsed
<1>5. AloneParsed'
  <2> SUFFICES ASSUME f.name # Unset PROVE \A i \in 1..Len(parsed') : parsed'[i].name = f.name
    BY <1>2 DEF AloneParsed
  <2>1. CASE f.text.form = "empty"
    BY <1>1, <1>3, <2>1, PlainFields, FunctionIsNamed, CallFields
  <2>2. CASE f.text.form # "empty"
    <3>1. parsed' = <<Call(f.name, Unset, ParseArguments(f.text))>>
      BY <1>1, <2>2 DEF ParseFunction, ParseStructured
    <3> QED BY <3>1, CallFields
  <2> QED BY <2>1, <2>2
<1> QED BY <1>4, <1>5 DEF AnswerInv, AnswerTypeOK, ParseAlone

LEMMA GenerateIdsKeeps ==
  ASSUME AnswerInv, GenerateIds
  PROVE  AnswerInv'
<1>1. PICK ids \in [DOMAIN parsed -> MadeIds] :
        parsed' = [i \in DOMAIN parsed |-> [parsed[i] EXCEPT !.id = IF @ = Unset THEN ids[i] ELSE @]]
  BY DEF GenerateIds
<1>2. parsed \in Seq(Parsed) /\ answer' = answer /\ provider' = provider /\ body' = body /\ response' = response
      /\ provider \in {"openai", "claude", "ollama"} /\ reached = "parsed" /\ reached' \in {"recorded", "over"}
      /\ (reached' = "over" => parsed = <<>>)
  BY DEF GenerateIds, AnswerInv, AnswerTypeOK
<1>3. ASSUME NEW i \in 1..Len(parsed)
      PROVE  /\ parsed'[i] \in Parsed /\ parsed'[i].name = parsed[i].name /\ parsed'[i].args = parsed[i].args
             /\ parsed[i].id # Unset => parsed'[i].id = parsed[i].id
  <2>1. parsed'[i] = [parsed[i] EXCEPT !.id = IF parsed[i].id = Unset THEN ids[i] ELSE parsed[i].id]
    BY <1>1, <1>2
  <2>2. parsed[i] \in Parsed /\ ids[i] \in MadeIds
    BY <1>2
  <2> QED BY <2>1, <2>2 DEF Parsed
<1>4. parsed' \in Seq(Parsed) /\ Len(parsed') = Len(parsed)
  <2>1. DOMAIN parsed = 1..Len(parsed) /\ Len(parsed) \in Nat
    BY <1>2, LenProperties
  <2>2. parsed' \in [1..Len(parsed) -> Parsed]
    BY <1>1, <1>3, <2>1
  <2> QED BY <2>1, <2>2, IsSeq
<1>5. (AllParsed => AllParsed') /\ (OneParsed => OneParsed')
  BY <1>2, <1>3, <1>4 DEF AllParsed, OneParsed
<1>6. reached' = "over" => body' = OpenAIBody'
  <2> SUFFICES ASSUME reached' = "over" PROVE body' = OpenAIBody'
    OBVIOUS
  <2>1. parsed = <<>> /\ parsed' = <<>>
    BY <1>2, <1>4, EmptySeq
  <2>2. body = [calls |-> <<>>, answers |-> <<>>]
    BY <1>2 DEF AnswerInv
  <2> QED BY <1>2, <2>1, <2>2 DEF OpenAIBody
<1> QED BY <1>2, <1>4, <1>5, <1>6 DEF AnswerInv, AnswerTypeOK

LEMMA BuildKeeps ==
  ASSUME AnswerInv, BuildRequestBody
  PROVE  AnswerInv'
<1>1. (AllParsed => AllParsed') /\ (OneParsed => OneParsed') /\ OpenAIBody' = OpenAIBody
  BY DEF BuildRequestBody, AllParsed, OneParsed, OpenAIBody
<1> QED BY <1>1 DEF AnswerInv, AnswerTypeOK, BuildRequestBody

LEMMA AnswerInvKept == AnswerInv /\ [ToolCallsNext]_toolCallVars => AnswerInv'
<1>1. AnswerInv /\ UNCHANGED toolCallVars => AnswerInv'
  BY DEF toolCallVars, AnswerInv, AnswerTypeOK, Decoded, AllParsed, OneParsed, AloneParsed, OpenAIBody
<1> QED BY <1>1, DecodeKeeps, ParseKeeps, ParseAloneKeeps, GenerateIdsKeeps, BuildKeeps DEF ToolCallsNext

LEMMA AnswerInvSays == AnswerInv => CallsAreTheModels
<1> SUFFICES ASSUME AnswerInv, reached = "over" PROVE CallsAreTheModels
  BY DEF CallsAreTheModels
<1>1. answer \in Seq(ModelCalls) /\ parsed \in Seq(Parsed)
      /\ DOMAIN answer = 1..Len(answer) /\ DOMAIN parsed = 1..Len(parsed)
  BY DEF AnswerInv, AnswerTypeOK
<1>2. ASSUME provider = "openai"
      PROVE  /\ Len(body.calls) = Len(answer) /\ Len(body.answers) = Len(answer)
             /\ \A i \in DOMAIN answer :
                  /\ body.calls[i].name = answer[i].name /\ body.answers[i] = body.calls[i].id
                  /\ answer[i].id # Unset => body.answers[i] = answer[i].id
                  /\ body.calls[i].args = "as given" => answer[i].text.form = "object"
  <2>1. AllParsed /\ body.calls = parsed /\ body.answers = [i \in DOMAIN parsed |-> parsed[i].id]
    BY <1>2 DEF AnswerInv, OpenAIBody
  <2>2. /\ DOMAIN body.answers = 1..Len(parsed) /\ Len(parsed) \in Nat
        /\ \A i \in 1..Len(parsed) : body.answers[i] = parsed[i].id
    BY <1>1, <2>1, LenProperties
  <2>3. Len(body.answers) = Len(parsed)
    BY <2>2, <2>1
  <2> QED BY <1>1, <2>1, <2>2, <2>3 DEF AllParsed
<1>3. ASSUME provider \in {"claude", "ollama"}
      PROVE  Len(parsed) <= 1 /\ \A i \in DOMAIN parsed : \E m \in ToSet(answer) : m.name = parsed[i].name
  <2>1. OneParsed
    BY <1>3 DEF AnswerInv
  <2> QED BY <1>1, <2>1 DEF OneParsed, ToSet
<1>4. ASSUME provider = "none", response.function.name # Unset
      PROVE  \A i \in DOMAIN parsed : parsed[i].name = response.function.name
  BY <1>1, <1>4 DEF AnswerInv, AloneParsed
<1> QED BY <1>2, <1>3, <1>4 DEF CallsAreTheModels

(* Whatever answer comes from whatever provider, no call is added, none is    *)
(* renamed, and the results OpenAI gets stand under the ids it gave           *)
(* (router.go:139-196, parser.go:35-66, executor.go:226-283).                 *)
THEOREM CallsAreTheModelsHolds == ToolCallsSpec => []CallsAreTheModels
<1>1. ToolCallsSpec => []AnswerInv
  BY AnswerStarts, AnswerInvKept, PTL DEF ToolCallsSpec
<1> QED BY <1>1, AnswerInvSays, PTL

-----------------------------------------------------------------------------
(* ---- The dead-loop detection.                                            *)

(* The places in the record of what a run has recorded itself.                *)
IsPlaces(f, s, h) ==
  /\ f \in [1..Len(s) -> 1..Len(h)] /\ \A i, j \in 1..Len(s) : f[i] = f[j] => i = j
  /\ \A i \in 1..Len(s) : h[f[i]] = s[i]

OwnAreRecorded == \A r \in Runs : \E f : IsPlaces(f, mine[r], history)

RecordInv ==
  history \in Seq(ToolSets) /\ mine \in [Runs -> Seq(ToolSets)] /\ OwnAreRecorded

(* Three places of the same tools, in any order: two of them are behind the   *)
(* first.                                                                     *)
LEMMA FirstOfThree ==
  ASSUME NEW h \in Seq(ToolSets), NEW p \in 1..Len(h), NEW q \in 1..Len(h), NEW t \in 1..Len(h),
         p < q, p < t, q # t, h[p] # NoTools, h[q] = h[p], h[t] = h[p]
  PROVE  AnalyzeToolPatterns(h) /\ Len(h) >= 3
<1>1. Len(h) \in Nat /\ p \in 1..Len(h) - 2 /\ Len(h) >= 3
  BY LenProperties
<1> DEFINE later == {j \in p + 1..Len(h) : h[j] = h[p]}
<1>2. IsFiniteSet(later) /\ q \in later /\ t \in later
  <2>1. later \subseteq 1..Len(h) /\ q \in later /\ t \in later
    BY <1>1
  <2> HIDE DEF later
  <2> QED BY <1>1, <2>1, PlacesAreFinite
<1>3. Cardinality(later) >= 2
  BY <1>2, PairInside
<1> QED BY <1>1, <1>3 DEF AnalyzeToolPatterns

LEMMA RepeatedIsFound ==
  ASSUME NEW h \in Seq(ToolSets), NEW s \in Seq(ToolSets), NEW f, IsPlaces(f, s, h), Repeated(s)
  PROVE  DetectDeadLoop(h)
<1>1. PICK tools \in ToolSets \ {NoTools} : Cardinality({i \in DOMAIN s : s[i] = tools}) >= 3
  BY DEF Repeated
<1>2. DOMAIN s = 1..Len(s) /\ Len(s) \in Nat /\ Len(h) \in Nat
  BY LenProperties
<1>3. IsFiniteSet({i \in DOMAIN s : s[i] = tools})
  <2>1. {i \in DOMAIN s : s[i] = tools} \subseteq 1..Len(s)
    BY <1>2
  <2> QED BY <1>2, <2>1, PlacesAreFinite
<1>4. PICK a, b, c \in {i \in DOMAIN s : s[i] = tools} : a # b /\ b # c /\ a # c
  BY <1>1, <1>3, ThreeElements
<1>5. /\ f[a] \in 1..Len(h) /\ f[b] \in 1..Len(h) /\ f[c] \in 1..Len(h)
      /\ f[a] # f[b] /\ f[b] # f[c] /\ f[a] # f[c]
      /\ h[f[a]] = tools /\ h[f[b]] = tools /\ h[f[c]] = tools
  BY <1>2, <1>4 DEF IsPlaces
<1>6. CASE f[a] < f[b] /\ f[a] < f[c]
  BY <1>1, <1>5, <1>6, FirstOfThree DEF DetectDeadLoop
<1>7. CASE f[b] < f[a] /\ f[b] < f[c]
  BY <1>1, <1>5, <1>7, FirstOfThree DEF DetectDeadLoop
<1>8. CASE f[c] < f[a] /\ f[c] < f[b]
  BY <1>1, <1>5, <1>8, FirstOfThree DEF DetectDeadLoop
<1> QED BY <1>5, <1>6, <1>7, <1>8

LEMMA FoundIsRepeated ==
  ASSUME NEW h \in Seq(ToolSets), AnalyzeToolPatterns(h)
  PROVE  Repeated(h)
<1>1. PICK i \in 1..Len(h) - 2 :
        h[i] # NoTools /\ Cardinality({j \in i + 1..Len(h) : h[j] = h[i]}) >= 2
  BY DEF AnalyzeToolPatterns
<1>2. Len(h) \in Nat /\ DOMAIN h = 1..Len(h) /\ i \in 1..Len(h) /\ h[i] \in ToolSets \ {NoTools}
  BY <1>1, LenProperties, ElementOfSeq
<1> DEFINE later == {j \in i + 1..Len(h) : h[j] = h[i]}
           all   == {j \in DOMAIN h : h[j] = h[i]}
<1>3. IsFiniteSet(later) /\ IsFiniteSet(all) /\ later \cup {i} \subseteq all /\ i \notin later
  <2>1. later \subseteq 1..Len(h) /\ all \subseteq 1..Len(h) /\ later \cup {i} \subseteq all /\ i \notin later
    BY <1>1, <1>2
  <2> HIDE DEF later, all
  <2> QED BY <1>2, <2>1, PlacesAreFinite
<1>4. Cardinality(later \cup {i}) = Cardinality(later) + 1 /\ Cardinality(later \cup {i}) <= Cardinality(all)
  BY <1>3, FS_AddElement, FS_Subset
<1>5. Cardinality(all) >= 3
  BY <1>1, <1>3, <1>4, FS_CardinalityType
<1> QED BY <1>2, <1>5 DEF Repeated

-----------------------------------------------------------------------------
LEMMA NothingRecorded ==
  ASSUME NEW h
  PROVE  \E f : IsPlaces(f, <<>>, h)
<1>1. Len(<<>>) = 0 /\ 1..0 = {}
  OBVIOUS
<1>2. [i \in 1..0 |-> i] \in [1..0 -> 1..Len(h)]
  BY <1>1
<1> QED BY <1>1, <1>2 DEF IsPlaces

LEMMA RecordStarts == DeadLoopInit => RecordInv
BY EmptySeq, NothingRecorded DEF DeadLoopInit, RecordInv, OwnAreRecorded

(* One more iteration is recorded: by this run, or by another.                *)
LEMMA PlacesGrow ==
  ASSUME NEW s \in Seq(ToolSets), NEW h \in Seq(ToolSets), NEW e \in ToolSets, NEW f, IsPlaces(f, s, h)
  PROVE  /\ IsPlaces(f, s, Append(h, e))
         /\ \E g : IsPlaces(g, Append(s, e), Append(h, e))
<1>1. /\ Len(s) \in Nat /\ Len(h) \in Nat
      /\ Len(Append(s, e)) = Len(s) + 1 /\ Len(Append(h, e)) = Len(h) + 1
      /\ \A i \in 1..Len(s) : Append(s, e)[i] = s[i]
      /\ \A i \in 1..Len(h) : Append(h, e)[i] = h[i]
      /\ Append(s, e)[Len(s) + 1] = e /\ Append(h, e)[Len(h) + 1] = e
  BY LenProperties
<1>2. IsPlaces(f, s, Append(h, e))
  BY <1>1 DEF IsPlaces
<1> DEFINE g == [i \in 1..Len(s) + 1 |-> IF i = Len(s) + 1 THEN Len(h) + 1 ELSE f[i]]
<1>3. \A i \in 1..Len(s) : f[i] \in 1..Len(h)
  BY DEF IsPlaces
<1>4. g \in [1..Len(s) + 1 -> 1..Len(h) + 1]
  BY <1>1, <1>3
<1>5. ASSUME NEW i \in 1..Len(s) + 1, NEW j \in 1..Len(s) + 1, g[i] = g[j] PROVE i = j
  <2>1. \A k, m \in 1..Len(s) : f[k] = f[m] => k = m
    BY DEF IsPlaces
  <2>2. CASE i = Len(s) + 1 \/ j = Len(s) + 1
    BY <1>1, <1>3, <1>5, <2>2
  <2>3. CASE i # Len(s) + 1 /\ j # Len(s) + 1
    <3>1. g[i] = f[i] /\ g[j] = f[j] /\ i \in 1..Len(s) /\ j \in 1..Len(s)
      BY <1>1, <2>3
    <3> QED BY <1>5, <2>1, <3>1
  <2> QED BY <2>2, <2>3
<1>6. \A i \in 1..Len(s) + 1 : Append(h, e)[g[i]] = Append(s, e)[i]
  BY <1>1, <1>3 DEF IsPlaces
<1>7. IsPlaces(g, Append(s, e), Append(h, e))
  BY <1>1, <1>4, <1>5, <1>6 DEF IsPlaces
<1> QED BY <1>2, <1>7

LEMMA RecordInvKept == RecordInv /\ [DeadLoopNext]_deadLoopVars => RecordInv'
<1> SUFFICES ASSUME RecordInv, [DeadLoopNext]_deadLoopVars PROVE RecordInv'
  OBVIOUS
<1>1. CASE UNCHANGED deadLoopVars
  BY <1>1 DEF deadLoopVars, RecordInv, OwnAreRecorded
<1>2. ASSUME NEW r \in Runs, RecordIteration(r) PROVE RecordInv'
  <2>1. PICK e \in ToolSets : history' = Append(history, e) /\ mine' = [mine EXCEPT ![r] = Append(@, e)]
    BY <1>2 DEF RecordIteration
  <2>2. history' \in Seq(ToolSets) /\ mine' \in [Runs -> Seq(ToolSets)]
    BY <2>1 DEF RecordInv
  <2>3. ASSUME NEW u \in Runs PROVE \E f : IsPlaces(f, mine'[u], history')
    <3>1. PICK f : IsPlaces(f, mine[u], history)
      BY DEF RecordInv, OwnAreRecorded
    <3>2. mine'[u] = IF u = r THEN Append(mine[u], e) ELSE mine[u]
      BY <2>1 DEF RecordInv
    <3> QED BY <2>1, <3>1, <3>2, PlacesGrow DEF RecordInv
  <2> QED BY <2>2, <2>3 DEF RecordInv, OwnAreRecorded
<1>3. ASSUME NEW r \in Runs, CountUp(r) PROVE RecordInv'
  BY <1>3 DEF CountUp, RecordInv, OwnAreRecorded
<1>4. ASSUME NEW r \in Runs, NextRun(r) PROVE RecordInv'
  <2>1. history' = history /\ mine' = [mine EXCEPT ![r] = <<>>] /\ mine' \in [Runs -> Seq(ToolSets)]
    BY <1>4, EmptySeq DEF NextRun, RecordInv
  <2>2. ASSUME NEW u \in Runs PROVE \E f : IsPlaces(f, mine'[u], history')
    <3>1. mine'[u] = IF u = r THEN <<>> ELSE mine[u]
      BY <2>1 DEF RecordInv
    <3> QED BY <2>1, <3>1, NothingRecorded DEF RecordInv, OwnAreRecorded
  <2> QED BY <2>1, <2>2 DEF RecordInv, OwnAreRecorded
<1> QED BY <1>1, <1>2, <1>3, <1>4 DEF DeadLoopNext

CheckIsRight ==
  \A r \in Runs : r \in checking /\ r \notin checking' /\ Due(r) =>
       /\ Repeated(mine[r]) => r \in warned'
       /\ r \in warned' => Repeated(history) \/ DetectNoProgress(history)

LEMMA ChecksAreRight == RecordInv /\ [DeadLoopNext]_deadLoopVars => CheckIsRight
<1> SUFFICES ASSUME RecordInv, [DeadLoopNext]_deadLoopVars,
                    NEW r \in Runs, r \in checking, r \notin checking', Due(r)
             PROVE  /\ Repeated(mine[r]) => r \in warned'
                    /\ r \in warned' => Repeated(history) \/ DetectNoProgress(history)
  BY DEF CheckIsRight
<1>1. CountUp(r)
  BY DEF DeadLoopNext, deadLoopVars, RecordIteration, CountUp, NextRun
<1>2. warned' = IF DetectDeadLoop(history) THEN warned \cup {r} ELSE warned \ {r}
  BY <1>1 DEF CountUp
<1>3. history \in Seq(ToolSets) /\ mine[r] \in Seq(ToolSets) /\ \E f : IsPlaces(f, mine[r], history)
  BY DEF RecordInv, OwnAreRecorded
<1>4. Repeated(mine[r]) => DetectDeadLoop(history)
  BY <1>3, RepeatedIsFound
<1>5. DetectDeadLoop(history) => Repeated(history) \/ DetectNoProgress(history)
  BY <1>3, FoundIsRepeated DEF DetectDeadLoop
<1> QED BY <1>2, <1>4, <1>5

(* However many runs share the record of a timeout manager, one that has      *)
(* called the same tools three times is warned at its next check, and none is *)
(* warned without a repetition or a record that makes no progress             *)
(* (timeout.go:365-431).                                                      *)
THEOREM StuckIsWarnedHolds == DeadLoopSpec => StuckIsWarned
<1>1. DeadLoopSpec => []RecordInv
  BY RecordStarts, RecordInvKept, PTL DEF DeadLoopSpec
<1>2. RecordInv /\ [DeadLoopNext]_deadLoopVars => [CheckIsRight]_deadLoopVars
  BY ChecksAreRight
<1> QED BY <1>1, <1>2, PTL DEF DeadLoopSpec, StuckIsWarned, CheckIsRight

-----------------------------------------------------------------------------
(* ---- The parallel executor.                                              *)

(* The tools that wait for nothing, before the sort has begun.                *)
Waitless == Roots(Degrees)

Visited == {calls[order[i]].name : i \in DOMAIN order}
Queued  == {queue[k] : k \in DOMAIN queue}

(* The calls a tool waits for that have not been visited.                     *)
WaitsFor(name) == {j \in DependsOn(calls[LastOf(name)]) : calls[j].name \notin Visited}

CallsOK ==
  /\ calls \in Seq(Calls) /\ execution \in {"parallel", "sequential", "batch", "dependent"}
  /\ phase \in {"plan", "sort", "run", "done"} /\ ended \in BOOLEAN
  /\ degree \in [ToolNames -> Int] /\ queue \in Seq(Names) /\ order \in Seq(DOMAIN calls)

(* What waits for nothing is visited first, since it is queued first.         *)
RootsFirst ==
  /\ \A r \in Waitless : r \in Visited \/ \E k \in DOMAIN queue : queue[k] = r
  /\ \A i \in DOMAIN order : calls[order[i]].name \notin Waitless =>
       \A r \in Waitless : \E b \in DOMAIN order : b < i /\ calls[order[b]].name = r
  /\ \A k \in DOMAIN queue : queue[k] \notin Waitless =>
       \A r \in Waitless : r \in Visited \/ \E b \in DOMAIN queue : b < k /\ queue[b] = r

(* A tool that is neither visited nor queued waits for one that is not        *)
(* visited: its degree is positive, and no larger than what it waits for.     *)
NoneIsLost ==
  \A n \in Names \ (Visited \cup Queued) :
    degree[n] > 0 /\ degree[n] <= Cardinality(WaitsFor(n))

SortInv ==
  /\ phase = "plan" => order = <<>> /\ queue = <<>>
  /\ phase = "sort" => execution = "dependent"
  /\ phase \in {"run", "done"} => queue = <<>>
  /\ phase # "plan" /\ execution # "dependent" => order = [i \in DOMAIN calls |-> i]
  /\ phase # "plan" /\ execution = "dependent" =>
       /\ \A i \in DOMAIN order : order[i] = LastOf(calls[order[i]].name)
       /\ RootsFirst /\ NoneIsLost

(* A batch is the next calls in the order; those that have ended are in their *)
(* slots.                                                                     *)
BatchInv ==
  /\ results \in Seq(DOMAIN calls) /\ slots \in Seq(Nat) /\ running \subseteq Nat
  /\ Len(results) + Len(slots) <= Len(order) /\ Len(slots) <= Size
  /\ \A i \in 1..Len(results) : results[i] = order[i]
  /\ \A i \in running : i - Len(results) \in 1..Len(slots)
  /\ \A k \in 1..Len(slots) : Len(results) + k \in running \/ slots[k] = order[Len(results) + k]
  /\ phase \in {"plan", "sort"} => results = <<>> /\ slots = <<>>
  /\ phase = "done" => slots = <<>>
  /\ phase = "done" /\ ~ended => Len(results) = Len(order)

ParallelInv == CallsOK /\ SortInv /\ BatchInv

-----------------------------------------------------------------------------
(* Of the places up to n that are in a set, one is the last.                  *)
LEMMA GreatestPlace ==
  ASSUME NEW n \in Nat, NEW T \in SUBSET (1..n), T # {}
  PROVE  Max(T) \in T /\ \A k \in T : k <= Max(T)
<1> DEFINE D == {n - k : k \in T}
<1>1. D \in SUBSET Nat /\ D # {}
  <2>1. \A k \in T : n - k \in Nat
    OBVIOUS
  <2> QED BY <2>1
<1> DEFINE Less == OpToRel(<, Nat)
<1>2. PICK d \in D : \A e \in D : d <= e
  <2> HIDE DEF D
  <2>1. PICK d \in D : \A e \in D : <<e, d>> \notin Less
    BY <1>1, NatLessThanWellFounded, WFMin
  <2>2. \A e \in D : ~(e < d)
    BY <1>1, <2>1 DEF OpToRel
  <2> QED BY <1>1, <2>2
<1>3. PICK m \in T : d = n - m
  BY <1>2
<1>4. \A k \in T : m >= k
  <2>1. \A k \in T : d <= n - k
    BY <1>2
  <2> QED BY <1>3, <2>1
<1>5. \E x \in T : \A y \in T : x >= y
  BY <1>4
<1> QED BY <1>5 DEF Max

(* A minimum of two numbers is one of them, and no larger than either.        *)
LEMMA LeastOfTwo ==
  ASSUME NEW a \in Int, NEW b \in Int
  PROVE  Min({a, b}) \in {a, b} /\ Min({a, b}) <= a /\ Min({a, b}) <= b
<1>1. \E x \in {a, b} : \A y \in {a, b} : x =< y
  <2>1. CASE a <= b
    BY <2>1
  <2>2. CASE b <= a
    BY <2>2
  <2> QED BY <2>1, <2>2
<1> QED BY <1>1 DEF Min

(* A sequence that lists a set once lists all of it.                          *)
LEMMA ListsAll ==
  ASSUME NEW S, IsFiniteSet(S), NEW q \in SetToSeqs(S)
  PROVE  q \in Seq(S) /\ \A e \in S : \E k \in 1..Len(q) : q[k] = e
<1> DEFINE n == Cardinality(S)
<1>1. n \in Nat /\ q \in [1..n -> S] /\ \A i, j \in 1..n : i # j => q[i] # q[j]
  BY FS_CardinalityType DEF SetToSeqs
<1>2. q \in Seq(S) /\ Len(q) = n
  BY <1>1, IsSeq
<1>3. IsFiniteSet(1..n) /\ Cardinality(1..n) = n
  BY <1>1, FS_Interval
<1>4. q \in Injection(1..n, S)
  BY <1>1 DEF Injection, IsInjective
<1>5. q \in Surjection(1..n, S)
  BY <1>3, <1>4, FS_Injection
<1> QED BY <1>2, <1>5 DEF Surjection

-----------------------------------------------------------------------------
(* The calls are finitely many, and so are their names.                       *)
LEMMA CallsAre ==
  ASSUME CallsOK
  PROVE  /\ Len(calls) \in Nat /\ DOMAIN calls = 1..Len(calls) /\ IsFiniteSet(DOMAIN calls)
         /\ Names \subseteq ToolNames /\ IsFiniteSet(Names)
         /\ \A i \in DOMAIN calls : calls[i].name \in Names
         /\ \A S \in SUBSET (DOMAIN calls) : IsFiniteSet(S) /\ Cardinality(S) \in Nat
<1>1. Len(calls) \in Nat /\ DOMAIN calls = 1..Len(calls)
  BY DEF CallsOK
<1>2. \A i \in DOMAIN calls : calls[i].name \in ToolNames
  <2>1. \A i \in DOMAIN calls : calls[i] \in Calls
    BY <1>1, ElementOfSeq DEF CallsOK
  <2> QED BY <2>1 DEF Calls
<1>3. IsFiniteSet(DOMAIN calls)
  BY <1>1, FS_Interval
<1>4. IsFiniteSet(Names)
  <2> DEFINE f == [i \in DOMAIN calls |-> calls[i].name]
  <2>1. f \in Surjection(DOMAIN calls, Names)
    BY DEF Surjection, Names
  <2> HIDE DEF f
  <2> QED BY <1>3, <2>1, FS_Surjection
<1>5. \A S \in SUBSET (DOMAIN calls) : IsFiniteSet(S) /\ Cardinality(S) \in Nat
  BY <1>3, FS_Subset, FS_CardinalityType
<1> QED BY <1>1, <1>2, <1>3, <1>4, <1>5 DEF Names

(* A name that is called has a last call.                                     *)
LEMMA LastIs ==
  ASSUME CallsOK, NEW n \in Names
  PROVE  LastOf(n) \in DOMAIN calls /\ calls[LastOf(n)].name = n
<1> DEFINE T == {i \in DOMAIN calls : calls[i].name = n}
<1>1. T \in SUBSET (1..Len(calls)) /\ T # {} /\ Len(calls) \in Nat
  BY CallsAre DEF Names
<1>2. Max(T) \in T
  <2> HIDE DEF T
  <2> QED BY <1>1, GreatestPlace
<1> QED BY <1>2 DEF LastOf

(* The degrees before the sort; 0 is for what waits for nothing.              *)
LEMMA DegreesAre ==
  ASSUME CallsOK
  PROVE  /\ Degrees \in [ToolNames -> Int]
         /\ \A n \in Names :
              /\ Degrees[n] = Cardinality(DependsOn(calls[LastOf(n)])) /\ Degrees[n] \in Nat
              /\ n \in Waitless <=> DependsOn(calls[LastOf(n)]) = {}
<1>1. \A c : DependsOn(c) \in SUBSET (DOMAIN calls)
  BY DEF DependsOn
<1>2. \A c : Cardinality(DependsOn(c)) \in Nat /\ IsFiniteSet(DependsOn(c))
  BY <1>1, CallsAre
<1>3. \A n \in Names : n \in ToolNames
  BY CallsAre
<1>4. \A c : Cardinality(DependsOn(c)) = 0 <=> DependsOn(c) = {}
  BY <1>2, FS_EmptySet
<1> QED BY <1>2, <1>3, <1>4 DEF Degrees, Waitless, Roots

(* What others wait for waits for nothing, and what waits is not that.        *)
LEMMA AwaitedIsWaitless ==
  ASSUME CallsOK, NEW c, NEW j \in DOMAIN calls, HasDependency(c, calls[j])
  PROVE  calls[j].name \in Waitless /\ c.name # calls[j].name
<1> DEFINE n == calls[j].name
<1>1. n \in Looks \cup {"k8s_events"} /\ c.name \in Changes \cup {"k8s_logs"}
  BY DEF HasDependency
<1>2. \A d, e : d.name = n => ~HasDependency(d, e)
  BY <1>1 DEF HasDependency, Looks, Changes
<1>3. n \in Names /\ calls[LastOf(n)].name = n
  BY CallsAre, LastIs
<1>4. DependsOn(calls[LastOf(n)]) = {}
  BY <1>2, <1>3 DEF DependsOn
<1>5. n # c.name
  BY <1>1 DEF Looks, Changes
<1> HIDE DEF n
<1> QED BY <1>3, <1>4, <1>5, DegreesAre DEF n

LEMMA WaitingIsNotWaitless ==
  ASSUME CallsOK, NEW n \in Names, NEW j \in DOMAIN calls, HasDependency(calls[LastOf(n)], calls[j])
  PROVE  n \notin Waitless
<1>1. calls[j].name # calls[LastOf(n)].name
  BY AwaitedIsWaitless
<1>2. j \in DependsOn(calls[LastOf(n)])
  BY <1>1 DEF DependsOn
<1> QED BY <1>2, DegreesAre

(* The edges into a tool are no fewer than what its last call waits for.      *)
LEMMA EnoughEdges ==
  ASSUME CallsOK, NEW n \in Names, NEW name,
         NEW S, S = {j \in DependsOn(calls[LastOf(n)]) : calls[j].name = name}
  PROVE  /\ IsFiniteSet(S) /\ Cardinality(S) \in Nat
         /\ Edges(name, n) \in Nat /\ Cardinality(S) <= Edges(name, n)
<1> DEFINE E == {e \in (DOMAIN calls) \X (DOMAIN calls) :
                   /\ calls[e[1]].name = n /\ calls[e[2]].name = name
                   /\ e[2] \in DependsOn(calls[e[1]])}
           f == [j \in S |-> <<LastOf(n), j>>]
<1>1. S \in SUBSET (DOMAIN calls) /\ LastOf(n) \in DOMAIN calls /\ calls[LastOf(n)].name = n
  BY LastIs DEF DependsOn
<1>2. IsFiniteSet((DOMAIN calls) \X (DOMAIN calls))
  BY CallsAre, FS_Product
<1>3. E \in SUBSET ((DOMAIN calls) \X (DOMAIN calls))
  OBVIOUS
<1>4. f \in [S -> E]
  BY <1>1
<1>5. f \in Injection(S, E)
  BY <1>4 DEF Injection, IsInjective
<1> HIDE DEF f
<1>6. Edges(name, n) = Cardinality(E)
  BY DEF Edges
<1> HIDE DEF E
<1>7. IsFiniteSet(E) /\ Cardinality(E) \in Nat
  BY <1>2, <1>3, FS_Subset, FS_CardinalityType
<1>8. IsFiniteSet(S) /\ Cardinality(S) <= Cardinality(E)
  BY <1>5, <1>7, FS_Injection
<1> QED BY <1>6, <1>7, <1>8, FS_CardinalityType

(* While the calls stay, so does all that is made of them.                    *)
LEMMA SameCalls ==
  ASSUME calls' = calls
  PROVE  /\ Names' = Names /\ Waitless' = Waitless /\ Degrees' = Degrees
         /\ \A n : LastOf(n)' = LastOf(n)
         /\ \A c : DependsOn(c)' = DependsOn(c)
<1>1. Names' = Names /\ Degrees' = Degrees
  BY DEF Names, Degrees, DependsOn, LastOf
<1>2. \A n : LastOf(n)' = LastOf(n)
  BY DEF LastOf
<1>3. \A c : DependsOn(c)' = DependsOn(c)
  BY DEF DependsOn
<1> QED BY <1>1, <1>2, <1>3 DEF Waitless, Roots

(* Edges are counted.                                                         *)
LEMMA EdgesAreNat ==
  ASSUME CallsOK, NEW name, NEW n
  PROVE  Edges(name, n) \in Nat
<1> DEFINE P == (DOMAIN calls) \X (DOMAIN calls)
           E == {e \in P : /\ calls[e[1]].name = n /\ calls[e[2]].name = name
                           /\ e[2] \in DependsOn(calls[e[1]])}
<1>1. IsFiniteSet(P)
  BY CallsAre, FS_Product
<1>2. E \in SUBSET P
  OBVIOUS
<1>3. Edges(name, n) = Cardinality(E)
  BY DEF Edges
<1> HIDE DEF P, E
<1> QED BY <1>1, <1>2, <1>3, FS_Subset, FS_CardinalityType

-----------------------------------------------------------------------------
LEMMA ParallelStarts == ParallelInit => ParallelInv
<1> SUFFICES ASSUME ParallelInit PROVE ParallelInv
  OBVIOUS
<1>1. calls \in Seq(Calls)
  <2>1. PICK n \in 1..MaxCalls : calls \in [1..n -> Calls]
    BY DEF ParallelInit
  <2>2. n \in Nat
    BY <2>1
  <2> QED BY <2>1, <2>2, IsSeq
<1>2. CallsOK
  <2>1. degree \in [ToolNames -> Int] /\ ended \in BOOLEAN
        /\ execution \in {"parallel", "sequential", "batch", "dependent"}
    <3>1. degree = [n \in ToolNames |-> 0] /\ ended = FALSE
          /\ execution \in {"parallel", "sequential", "batch", "dependent"}
      BY DEF ParallelInit
    <3>2. degree \in [ToolNames -> Int]
      BY <3>1
    <3>3. ended \in BOOLEAN
      BY <3>1, Zenon
    <3> QED BY <3>1, <3>2, <3>3
  <2>2. phase = "plan" /\ queue = <<>> /\ order = <<>>
    BY DEF ParallelInit
  <2> QED BY <1>1, <2>1, <2>2, EmptySeq DEF CallsOK
<1>3. order = <<>> /\ queue = <<>> /\ results = <<>> /\ slots = <<>> /\ running = {} /\ phase = "plan"
  BY DEF ParallelInit
<1>4. SortInv
  BY <1>3 DEF SortInv
<1>5. Size \in Nat
  BY MaxParallelAssumption DEF Size
<1>6. BatchInv
  BY <1>3, <1>5, EmptySeq DEF BatchInv
<1> QED BY <1>2, <1>4, <1>6 DEF ParallelInv

(* Before the calls run there is no batch.                                    *)
LEMMA NoBatchYet ==
  ASSUME ParallelInv, phase \in {"plan", "sort"}, phase' \in {"sort", "run"},
         order' \in Seq(DOMAIN calls), calls' = calls,
         UNCHANGED <<running, slots, results, execution>>
  PROVE  BatchInv'
<1>1. results = <<>> /\ slots = <<>>
  BY DEF ParallelInv, BatchInv
<1>2. Len(order') \in Nat /\ Size' \in Nat /\ running = {}
  <2>1. \A i \in running : i - Len(results) \in 1..Len(slots)
    BY DEF ParallelInv, BatchInv
  <2>2. running = {}
    BY <1>1, <2>1
  <2> QED BY <2>2, LenProperties, MaxParallelAssumption DEF Size
<1> QED BY <1>1, <1>2, EmptySeq DEF BatchInv

LEMMA PlanKeeps ==
  ASSUME ParallelInv, Plan
  PROVE  ParallelInv'
<1>1. /\ CallsOK /\ phase = "plan" /\ order = <<>> /\ calls' = calls /\ execution' = execution
      /\ ended' = ended
  BY DEF ParallelInv, SortInv, Plan
<1>2. CASE execution = "dependent"
  <2>1. /\ degree' = Degrees /\ queue' \in SetToSeqs(Waitless) /\ phase' = "sort" /\ order' = <<>>
    BY <1>1, <1>2 DEF Plan, Waitless
  <2>2. Waitless \subseteq Names /\ IsFiniteSet(Waitless)
    <3>1. Waitless \subseteq Names
      BY DEF Waitless, Roots
    <3> QED BY <1>1, <3>1, CallsAre, FS_Subset
  <2>3. queue' \in Seq(Waitless) /\ \A e \in Waitless : \E k \in 1..Len(queue') : queue'[k] = e
    BY <2>1, <2>2, ListsAll
  <2>4. CallsOK'
    <3>1. queue' \in Seq(Names) /\ Names' = Names
      BY <1>1, <2>2, <2>3, SameCalls
    <3> QED BY <1>1, <2>1, <3>1, DegreesAre, EmptySeq DEF CallsOK
  <2>5. Visited' = {} /\ DOMAIN order' = {} /\ DOMAIN queue' = 1..Len(queue')
    BY <2>1, <2>3 DEF Visited
  <2>6. RootsFirst'
    <3>1. \A k \in DOMAIN queue' : queue'[k] \in Waitless
      BY <2>3, <2>5, ElementOfSeq
    <3>2. Waitless' = Waitless
      BY <1>1, SameCalls
    <3> QED BY <2>3, <2>5, <3>1, <3>2 DEF RootsFirst
  <2>7. NoneIsLost'
    <3> SUFFICES ASSUME NEW n \in Names', n \notin Queued'
                 PROVE  degree'[n] > 0 /\ degree'[n] <= Cardinality(WaitsFor(n)')
      BY DEF NoneIsLost
    <3>1. n \in Names /\ n \notin Waitless
      BY <1>1, <2>3, <2>5, SameCalls DEF Queued
    <3>2. WaitsFor(n)' = DependsOn(calls[LastOf(n)])
      BY <1>1, <2>5, SameCalls DEF WaitsFor
    <3>3. DependsOn(calls[LastOf(n)]) # {} /\ DependsOn(calls[LastOf(n)]) \subseteq DOMAIN calls
      BY <1>1, <3>1, DegreesAre DEF DependsOn
    <3>4. Cardinality(DependsOn(calls[LastOf(n)])) \in Nat \ {0}
      BY <1>1, <3>3, CallsAre, FS_EmptySet
    <3> QED BY <1>1, <2>1, <3>1, <3>2, <3>4, DegreesAre
  <2>8. SortInv'
    BY <1>1, <1>2, <2>1, <2>5, <2>6, <2>7 DEF SortInv
  <2>9. BatchInv'
    BY <1>1, <2>1, EmptySeq, NoBatchYet DEF Plan
  <2> QED BY <2>4, <2>8, <2>9 DEF ParallelInv
<1>3. CASE execution # "dependent"
  <2>1. /\ order' = [i \in DOMAIN calls |-> i] /\ phase' = "run"
        /\ degree' = degree /\ queue' = queue
    BY <1>1, <1>3 DEF Plan
  <2>2. order' \in Seq(DOMAIN calls)
    <3>1. Len(calls) \in Nat /\ order' \in [1..Len(calls) -> DOMAIN calls]
      BY <1>1, <2>1, CallsAre
    <3> QED BY <3>1, IsSeq
  <2>3. CallsOK'
    BY <1>1, <2>1, <2>2, SameCalls DEF CallsOK
  <2>4. queue = <<>>
    BY <1>1 DEF ParallelInv, SortInv
  <2>5. SortInv'
    BY <1>1, <1>3, <2>1, <2>4 DEF SortInv
  <2>6. BatchInv'
    BY <1>1, <2>1, <2>2, NoBatchYet DEF Plan
  <2> QED BY <2>3, <2>5, <2>6 DEF ParallelInv
<1> QED BY <1>2, <1>3

(* One turn of the loop: what comes to the queue is all of ready.             *)
Turn(current, ready, q) ==
  /\ phase = "sort" /\ queue # <<>> /\ current = queue[1] /\ current \in Names
  /\ ready = {n \in Names : degree[n] > 0 /\ degree[n] <= Edges(current, n)}
  /\ q \in Seq(ready) /\ \A n \in ready : \E k \in 1..Len(q) : q[k] = n
  /\ Len(queue) \in Nat \ {0} /\ Len(q) \in Nat /\ queue' \in Seq(Names)
  /\ Len(queue') = Len(queue) - 1 + Len(q)
  /\ \A k \in 1..Len(queue) - 1 : queue'[k] = queue[k + 1]
  /\ \A k \in Len(queue)..Len(queue') : queue'[k] \in ready
  /\ \A k \in 1..Len(q) : queue'[Len(queue) - 1 + k] = q[k]
  /\ order' = Append(order, LastOf(current)) /\ order' \in Seq(DOMAIN calls)
  /\ Len(order) \in Nat /\ Len(order') = Len(order) + 1
  /\ \A i \in 1..Len(order) : order'[i] = order[i]
  /\ order'[Len(order) + 1] = LastOf(current)
  /\ calls[LastOf(current)].name = current
  /\ Visited' = Visited \cup {current}
  /\ calls' = calls /\ phase' = phase /\ execution' = execution /\ ended' = ended
  /\ \A n \in Names : degree'[n] = degree[n] - Edges(current, n)
  /\ degree' \in [ToolNames -> Int]
  /\ execution = "dependent" /\ SortInv /\ CallsOK

(* What a turn does, place by place.                                          *)
LEMMA TurnIs ==
  ASSUME ParallelInv, Visit
  PROVE  \E current, ready, q : Turn(current, ready, q)
<1> DEFINE current == Head(queue)
           ready   == {n \in Names : degree[n] > 0 /\ degree[n] <= Edges(current, n)}
<1>1. /\ phase = "sort" /\ queue # <<>> /\ order' = Append(order, LastOf(current))
      /\ degree' = [n \in ToolNames |-> degree[n] - Edges(current, n)]
      /\ calls' = calls /\ phase' = phase /\ execution' = execution /\ ended' = ended
  BY DEF Visit
<1>2. PICK q \in SetToSeqs(ready) : queue' = Tail(queue) \o q
  BY DEF Visit
<1>3. /\ CallsOK /\ SortInv /\ execution = "dependent" /\ queue \in Seq(Names) /\ order \in Seq(DOMAIN calls)
      /\ degree \in [ToolNames -> Int]
  BY <1>1 DEF ParallelInv, SortInv, CallsOK
<1>4. Len(queue) \in Nat \ {0} /\ current = queue[1] /\ current \in Names
  <2>1. Len(queue) \in Nat \ {0}
    BY <1>1, <1>3
  <2>2. queue[1] \in Names
    BY <1>3, <2>1
  <2> QED BY <1>1, <1>3, <2>1, <2>2
<1>5. ready \subseteq Names /\ IsFiniteSet(ready)
  <2>1. ready \subseteq Names
    OBVIOUS
  <2> HIDE DEF ready
  <2> QED BY <1>3, <2>1, CallsAre, FS_Subset
<1>6. \A n : Edges(current, n) \in Nat
  BY <1>3, EdgesAreNat
<1>7. degree' \in [ToolNames -> Int] /\ \A n \in Names : degree'[n] = degree[n] - Edges(current, n)
  <2>1. \A n \in ToolNames : degree[n] - Edges(current, n) \in Int
    BY <1>3, <1>6
  <2>2. Names \subseteq ToolNames
    BY <1>3, CallsAre
  <2> HIDE DEF current
  <2> QED BY <1>1, <2>1, <2>2
<1>8. q \in Seq(ready) /\ (\A n \in ready : \E k \in 1..Len(q) : q[k] = n) /\ Len(q) \in Nat
  <2> HIDE DEF ready
  <2> QED BY <1>2, <1>5, ListsAll, LenProperties
<1>9. /\ queue' \in Seq(Names) /\ Len(queue') = Len(queue) - 1 + Len(q)
      /\ \A k \in 1..Len(queue) - 1 : queue'[k] = queue[k + 1]
      /\ \A k \in Len(queue)..Len(queue') : queue'[k] = q[k - (Len(queue) - 1)]
  <2> DEFINE tail == Tail(queue)
  <2>1. tail \in Seq(Names) /\ Len(tail) = Len(queue) - 1
        /\ \A k \in 1..Len(queue) - 1 : tail[k] = queue[k + 1]
    BY <1>1, <1>3, <1>4
  <2>2. q \in Seq(Names)
    <3> HIDE DEF ready
    <3> QED BY <1>5, <1>8
  <2> HIDE DEF tail
  <2>3. queue' = tail \o q
    BY <1>2 DEF tail
  <2>4. /\ queue' \in Seq(Names) /\ Len(queue') = Len(tail) + Len(q)
        /\ \A k \in 1..Len(tail) + Len(q) :
             queue'[k] = IF k <= Len(tail) THEN tail[k] ELSE q[k - Len(tail)]
    BY <2>1, <2>2, <2>3, ConcatProperties
  <2>5. ASSUME NEW k \in 1..Len(queue) - 1 PROVE queue'[k] = queue[k + 1]
    <3>1. k \in 1..Len(tail) + Len(q) /\ k <= Len(tail)
      BY <1>4, <1>8, <2>1
    <3> QED BY <2>1, <2>4, <3>1
  <2>6. ASSUME NEW k \in Len(queue)..Len(queue') PROVE queue'[k] = q[k - (Len(queue) - 1)]
    <3>1. k \in 1..Len(tail) + Len(q) /\ ~(k <= Len(tail))
      BY <1>4, <1>8, <2>1, <2>4
    <3> QED BY <2>1, <2>4, <3>1
  <2> QED BY <2>1, <2>4, <2>5, <2>6
<1>10. \A k \in Len(queue)..Len(queue') : queue'[k] \in ready
  <2>1. \A k \in Len(queue)..Len(queue') : k - (Len(queue) - 1) \in 1..Len(q)
    BY <1>4, <1>8, <1>9
  <2> HIDE DEF ready
  <2> QED BY <1>8, <1>9, <2>1, ElementOfSeq
<1>11. \A k \in 1..Len(q) : queue'[Len(queue) - 1 + k] = q[k]
  <2>1. \A k \in 1..Len(q) : Len(queue) - 1 + k \in Len(queue)..Len(queue')
                             /\ Len(queue) - 1 + k - (Len(queue) - 1) = k
    BY <1>4, <1>8, <1>9
  <2> QED BY <1>9, <2>1
<1>12. LastOf(current) \in DOMAIN calls /\ calls[LastOf(current)].name = current
  BY <1>3, <1>4, LastIs
<1>13. /\ order' \in Seq(DOMAIN calls) /\ Len(order) \in Nat /\ Len(order') = Len(order) + 1
       /\ \A i \in 1..Len(order) : order'[i] = order[i]
       /\ order'[Len(order) + 1] = LastOf(current)
  <2> HIDE DEF current
  <2> QED BY <1>1, <1>3, <1>12, LenProperties
<1>14. Visited' = Visited \cup {current}
  <2> HIDE DEF current
  <2>1. DOMAIN order' = 1..Len(order) + 1 /\ DOMAIN order = 1..Len(order)
    BY <1>3, <1>13
  <2>2. DOMAIN order' = DOMAIN order \cup {Len(order) + 1}
    BY <1>13, <2>1
  <2> QED BY <1>1, <1>12, <1>13, <2>1, <2>2 DEF Visited
<1> HIDE DEF current
<1>15. Turn(current, ready, q)
  BY <1>1, <1>3, <1>4, <1>7, <1>8, <1>9, <1>10, <1>11, <1>12, <1>13, <1>14 DEF Turn
<1> QED BY <1>15

(* What was queued behind the first stays queued, one place nearer.           *)
LEMMA QueueMoves ==
  ASSUME NEW current, NEW ready, NEW q, Turn(current, ready, q), NEW k \in DOMAIN queue
  PROVE  \/ k = 1 /\ queue[k] = current
         \/ k - 1 \in DOMAIN queue' /\ queue'[k - 1] = queue[k] /\ k - 1 < Len(queue)
<1>1. DOMAIN queue = 1..Len(queue) /\ DOMAIN queue' = 1..Len(queue')
  BY DEF Turn, CallsOK
<1>2. CASE k = 1
  BY <1>2 DEF Turn
<1>3. CASE k # 1
  <2>1. k - 1 \in 1..Len(queue) - 1 /\ k - 1 \in 1..Len(queue') /\ k - 1 < Len(queue)
    <3>1. Len(queue) \in Nat \ {0} /\ Len(q) \in Nat /\ Len(queue') = Len(queue) - 1 + Len(q)
      BY DEF Turn
    <3> QED BY <1>1, <1>3, <3>1
  <2>2. queue'[k - 1] = queue[k - 1 + 1]
    BY <2>1 DEF Turn
  <2>3. k - 1 + 1 = k
    BY <1>1
  <2> QED BY <1>1, <2>1, <2>2, <2>3
<1> QED BY <1>2, <1>3

(* A turn keeps the two invariants of the sort.                               *)
LEMMA RootsStayFirst ==
  ASSUME NEW current, NEW ready, NEW q, Turn(current, ready, q)
  PROVE  RootsFirst'
<1>1. RootsFirst /\ Waitless' = Waitless /\ Visited' = Visited \cup {current} /\ calls' = calls
  BY SameCalls DEF Turn, SortInv
<1>2. /\ DOMAIN queue = 1..Len(queue) /\ DOMAIN queue' = 1..Len(queue')
      /\ DOMAIN order = 1..Len(order) /\ DOMAIN order' = 1..Len(order) + 1
      /\ Len(queue) \in Nat \ {0} /\ Len(order) \in Nat /\ Len(queue') \in Nat
  BY DEF Turn, CallsOK
<1>3. ASSUME NEW r \in Waitless
      PROVE  r \in Visited' \/ \E k \in DOMAIN queue' : queue'[k] = r /\ k < Len(queue)
  <2>1. CASE r \in Visited
    BY <1>1, <2>1
  <2>2. ASSUME NEW k \in DOMAIN queue, queue[k] = r
        PROVE  r \in Visited' \/ \E b \in DOMAIN queue' : queue'[b] = r /\ b < Len(queue)
    BY <1>1, <2>2, QueueMoves
  <2> QED BY <1>1, <2>1, <2>2 DEF RootsFirst
<1>4. ASSUME NEW i \in DOMAIN order', calls[order'[i]].name \notin Waitless, NEW r \in Waitless
      PROVE  \E b \in DOMAIN order' : b < i /\ calls[order'[b]].name = r
  <2>1. CASE i \in 1..Len(order)
    <3>1. order'[i] = order[i]
      BY <2>1 DEF Turn
    <3>2. PICK b \in DOMAIN order : b < i /\ calls[order[b]].name = r
      BY <1>1, <1>2, <1>4, <2>1, <3>1 DEF RootsFirst
    <3>3. order'[b] = order[b] /\ b \in DOMAIN order'
      BY <1>2, <3>2 DEF Turn
    <3> QED BY <3>2, <3>3
  <2>2. CASE i = Len(order) + 1
    <3>1. calls[order'[i]].name = current /\ current = queue[1]
      BY <2>2 DEF Turn
    <3>2. 1 \in DOMAIN queue /\ \A b \in DOMAIN queue : ~(b < 1)
      BY <1>2
    <3>3. r \in Visited
      BY <1>1, <1>4, <3>1, <3>2 DEF RootsFirst
    <3>4. PICK b \in DOMAIN order : calls[order[b]].name = r
      BY <3>3 DEF Visited
    <3>5. order'[b] = order[b] /\ b \in DOMAIN order' /\ b < i
      BY <1>2, <2>2, <3>4 DEF Turn
    <3> QED BY <3>4, <3>5
  <2> QED BY <1>2, <2>1, <2>2
<1>5. ASSUME NEW k \in DOMAIN queue', queue'[k] \notin Waitless, NEW r \in Waitless
      PROVE  r \in Visited' \/ \E b \in DOMAIN queue' : b < k /\ queue'[b] = r
  <2>1. CASE k \in 1..Len(queue) - 1
    <3>1. queue'[k] = queue[k + 1] /\ k + 1 \in DOMAIN queue
      BY <1>2, <2>1 DEF Turn
    <3>2. CASE r \in Visited
      BY <1>1, <3>2
    <3>3. ASSUME NEW b \in DOMAIN queue, b < k + 1, queue[b] = r
          PROVE  r \in Visited' \/ \E c \in DOMAIN queue' : c < k /\ queue'[c] = r
      <4>1. b - 1 < k
        BY <1>2, <2>1, <3>3
      <4> QED BY <1>1, <3>3, <4>1, QueueMoves
    <3> QED BY <1>1, <1>5, <3>1, <3>2, <3>3 DEF RootsFirst
  <2>2. CASE k \in Len(queue)..Len(queue')
    BY <1>2, <1>3, <2>2
  <2> QED BY <1>2, <2>1, <2>2
<1>6. \A r \in Waitless : r \in Visited' \/ \E k \in DOMAIN queue' : queue'[k] = r
  BY <1>3
<1> QED BY <1>1, <1>4, <1>5, <1>6 DEF RootsFirst

LEMMA NoneGetsLost ==
  ASSUME NEW current, NEW ready, NEW q, Turn(current, ready, q)
  PROVE  NoneIsLost'
<1>1. /\ NoneIsLost /\ Visited' = Visited \cup {current} /\ calls' = calls /\ CallsOK /\ Names' = Names
      /\ degree' \in [ToolNames -> Int] /\ degree \in [ToolNames -> Int]
  BY SameCalls DEF Turn, SortInv, CallsOK
<1> SUFFICES ASSUME NEW n \in Names, n \notin Visited', n \notin Queued'
             PROVE  degree'[n] > 0 /\ degree'[n] <= Cardinality(WaitsFor(n)')
  BY <1>1 DEF NoneIsLost
<1>2. n \notin Visited /\ n # current
  BY <1>1
<1>3. n \notin Queued
  <2> SUFFICES ASSUME NEW k \in DOMAIN queue, queue[k] = n PROVE FALSE
    BY DEF Queued
  <2> QED BY <1>2, QueueMoves DEF Queued
<1>4. n \notin ready
  <2> SUFFICES ASSUME n \in ready PROVE FALSE
    OBVIOUS
  <2>1. PICK k \in 1..Len(q) : q[k] = n
    BY DEF Turn
  <2>2. queue'[Len(queue) - 1 + k] = n
    BY <2>1 DEF Turn
  <2>4. Len(queue) \in Nat \ {0} /\ Len(q) \in Nat /\ Len(queue') = Len(queue) - 1 + Len(q)
    BY DEF Turn
  <2>5. Len(queue) - 1 + k \in 1..Len(queue')
    BY <2>1, <2>4
  <2>3. DOMAIN queue' = 1..Len(queue')
    BY DEF Turn
  <2> QED BY <2>2, <2>3, <2>5 DEF Queued
<1>5. degree[n] > 0 /\ degree[n] <= Cardinality(WaitsFor(n))
  BY <1>1, <1>2, <1>3 DEF NoneIsLost
<1>6. degree'[n] = degree[n] - Edges(current, n) /\ degree[n] \in Int /\ Edges(current, n) \in Nat
  BY <1>1, CallsAre, EdgesAreNat DEF Turn
<1>7. degree[n] > Edges(current, n)
  BY <1>4, <1>5, <1>6 DEF Turn
<1> DEFINE S == {j \in DependsOn(calls[LastOf(n)]) : calls[j].name = current}
           before == WaitsFor(n)
           after  == {j \in DependsOn(calls[LastOf(n)]) : calls[j].name \notin Visited'}
<1>8. WaitsFor(n)' = after
  BY <1>1, SameCalls DEF WaitsFor
<1>9. before \subseteq after \cup S /\ after \in SUBSET (DOMAIN calls) /\ S \in SUBSET (DOMAIN calls)
  BY <1>1 DEF WaitsFor, DependsOn
<1>10. Cardinality(S) <= Edges(current, n)
  BY <1>1, EnoughEdges
<1> HIDE DEF S, before, after
<1>11. IsFiniteSet(S) /\ IsFiniteSet(after) /\ Cardinality(S) \in Nat /\ Cardinality(after) \in Nat
  BY <1>1, <1>9, CallsAre
<1>12. IsFiniteSet(after \cup S) /\ Cardinality(after \cup S) <= Cardinality(after) + Cardinality(S)
  <2>1. IsFiniteSet(after \cap S)
    <3>1. after \cap S \in SUBSET S
      OBVIOUS
    <3> QED BY <1>11, <3>1, FS_Subset
  <2>2. IsFiniteSet(after \cup S)
        /\ Cardinality(after \cup S) = Cardinality(after) + Cardinality(S) - Cardinality(after \cap S)
    BY <1>11, FS_Union
  <2>3. Cardinality(after \cap S) \in Nat
    BY <2>1, FS_CardinalityType
  <2> QED BY <1>11, <2>2, <2>3
<1>13. Cardinality(before) <= Cardinality(after \cup S) /\ Cardinality(before) \in Nat
       /\ Cardinality(after \cup S) \in Nat
  BY <1>9, <1>12, FS_Subset, FS_CardinalityType
<1>14. degree[n] <= Cardinality(before)
  BY <1>5 DEF before
<1> QED BY <1>6, <1>7, <1>8, <1>10, <1>11, <1>12, <1>13, <1>14

LEMMA VisitKeeps ==
  ASSUME ParallelInv, Visit
  PROVE  ParallelInv'
<1>1. PICK current, ready, q : Turn(current, ready, q)
  BY TurnIs
<1>2. CallsOK'
  BY <1>1, SameCalls DEF Turn, CallsOK
<1>3. RootsFirst' /\ NoneIsLost'
  BY <1>1, RootsStayFirst, NoneGetsLost
<1>4. ASSUME NEW i \in DOMAIN order' PROVE order'[i] = LastOf(calls[order'[i]].name)
  <2>1. /\ DOMAIN order' = 1..Len(order) + 1 /\ DOMAIN order = 1..Len(order) /\ Len(order) \in Nat
        /\ \A k \in DOMAIN order : order[k] = LastOf(calls[order[k]].name)
    BY <1>1 DEF Turn, SortInv, CallsOK
  <2>2. CASE i \in 1..Len(order)
    BY <1>1, <2>1, <2>2 DEF Turn
  <2>3. CASE i = Len(order) + 1
    BY <1>1, <2>3 DEF Turn
  <2> QED BY <2>1, <2>2, <2>3
<1>5. /\ calls' = calls /\ phase' = "sort" /\ execution' = "dependent"
  BY <1>1 DEF Turn
<1>6. \A i \in DOMAIN order' : order'[i] = (LastOf(calls[order[i]].name))'
  BY <1>4, <1>5 DEF LastOf
<1>7. SortInv'
  BY <1>3, <1>5, <1>6 DEF SortInv
<1>8. BatchInv'
  BY <1>1, <1>5, NoBatchYet DEF Turn, Visit
<1> QED BY <1>2, <1>7, <1>8 DEF ParallelInv

-----------------------------------------------------------------------------
(* A step that leaves the calls and the sort alone.                           *)
LEMMA SortStays ==
  ASSUME CallsOK, SortInv, UNCHANGED <<calls, execution, degree, queue, order>>,
         phase' \in {"run", "done"} \/ phase' = phase, phase # "plan" \/ phase' = phase,
         phase' \in {"run", "done"} => queue = <<>>, ended' \in BOOLEAN
  PROVE  CallsOK' /\ SortInv'
<1>1. CallsOK'
  BY SameCalls DEF CallsOK
<1>2. Waitless' = Waitless /\ Names' = Names /\ Visited' = Visited /\ Queued' = Queued
      /\ (\A n : LastOf(n)' = LastOf(n)) /\ (\A n : WaitsFor(n)' = WaitsFor(n))
  <2>1. Visited' = Visited /\ Queued' = Queued
    BY DEF Visited, Queued
  <2>2. \A n : WaitsFor(n)' = WaitsFor(n)
    BY <2>1 DEF WaitsFor, DependsOn, LastOf
  <2> QED BY <2>1, <2>2, SameCalls
<1>3. (RootsFirst => RootsFirst') /\ (NoneIsLost => NoneIsLost')
  BY <1>2 DEF RootsFirst, NoneIsLost
<1>4. phase = "sort" /\ phase' = "run" => execution = "dependent"
  BY DEF SortInv
<1>5. phase' \in {"run", "done"} => phase # "plan"
  OBVIOUS
<1>6. (\A i \in DOMAIN order : order[i] = LastOf(calls[order[i]].name)) =>
        (\A i \in DOMAIN order : order[i] = LastOf(calls[order[i]].name))'
  BY <1>2 DEF LastOf
<1> QED BY <1>1, <1>3, <1>5, <1>6 DEF SortInv, CallsOK

LEMMA SortedKeeps ==
  ASSUME ParallelInv, Sorted
  PROVE  ParallelInv'
<1>1. CallsOK' /\ SortInv'
  BY SortStays DEF Sorted, ParallelInv, CallsOK
<1>2. BatchInv'
  BY NoBatchYet DEF Sorted, ParallelInv, CallsOK
<1> QED BY <1>1, <1>2 DEF ParallelInv

(* Sequences and their lengths.                                               *)
LEMMA LengthsAre ==
  ASSUME ParallelInv
  PROVE  /\ Len(results) \in Nat /\ Len(slots) \in Nat /\ Len(order) \in Nat /\ Size \in Nat \ {0}
         /\ results \in Seq(DOMAIN calls) /\ order \in Seq(DOMAIN calls) /\ slots \in Seq(Nat)
         /\ DOMAIN results = 1..Len(results) /\ DOMAIN order = 1..Len(order) /\ DOMAIN slots = 1..Len(slots)
         /\ DOMAIN calls \subseteq Nat
<1>1. results \in Seq(DOMAIN calls) /\ order \in Seq(DOMAIN calls) /\ slots \in Seq(Nat)
  BY DEF ParallelInv, BatchInv, CallsOK
<1>2. DOMAIN calls \subseteq Nat
  BY CallsAre DEF ParallelInv
<1>3. Size \in Nat \ {0}
  BY MaxParallelAssumption DEF Size
<1> QED BY <1>1, <1>2, <1>3, LenProperties

LEMMA NumbersAre ==
  ASSUME ParallelInv
  PROVE  /\ Len(results) \in Nat /\ Len(slots) \in Nat /\ Len(order) \in Nat
         /\ Len(results) + Len(slots) <= Len(order)
BY LengthsAre DEF ParallelInv, BatchInv

LEMMA StartBatchKeeps ==
  ASSUME ParallelInv, StartBatch
  PROVE  ParallelInv'
<1> DEFINE n == Min({Size, Len(order) - Len(results)})
<1>1. /\ phase = "run" /\ slots = <<>> /\ slots' = [i \in 1..n |-> 0]
      /\ running' = {Len(results) + i : i \in 1..n}
      /\ UNCHANGED <<calls, execution, phase, degree, queue, order, results, ended>>
  BY DEF StartBatch
<1>2. CallsOK' /\ SortInv'
  BY <1>1, SortStays DEF ParallelInv, CallsOK, SortInv
<1>3. Len(slots) = 0 /\ Len(results) <= Len(order)
  BY <1>1, LengthsAre DEF ParallelInv, BatchInv
<1>4. n \in Nat /\ n <= Size /\ n <= Len(order) - Len(results)
  <2> DEFINE a == Size
             b == Len(order) - Len(results)
  <2>1. a \in Nat /\ b \in Nat
    BY <1>3, LengthsAre
  <2> HIDE DEF a, b
  <2>2. Min({a, b}) \in Nat /\ Min({a, b}) <= a /\ Min({a, b}) <= b
    BY <2>1, LeastOfTwo
  <2> QED BY <2>2 DEF a, b
<1> HIDE DEF n
<1>5. slots' \in Seq(Nat) /\ Len(slots') = n
  <2>1. slots' \in [1..n -> Nat]
    BY <1>1
  <2> QED BY <1>4, <2>1, IsSeq
<1>6. running' \subseteq Nat /\ \A k \in 1..n : Len(results) + k \in running'
  <2>1. Len(results) \in Nat
    BY NumbersAre
  <2>2. \A k \in 1..n : Len(results) + k \in Nat
    BY <1>4, <2>1
  <2> QED BY <1>1, <2>2
<1>7. \A i \in running' : i - Len(results) \in 1..n
  BY <1>1, <1>4, LengthsAre
<1>8. Size' = Size
  BY <1>1 DEF Size
<1>9. BatchInv'
  <2>1. Len(results) + n <= Len(order)
    BY <1>4, LengthsAre
  <2>2. results \in Seq(DOMAIN calls) /\ \A i \in 1..Len(results) : results[i] = order[i]
    BY DEF ParallelInv, BatchInv
  <2> QED BY <1>1, <1>4, <1>5, <1>6, <1>7, <1>8, <2>1, <2>2 DEF BatchInv
<1> QED BY <1>2, <1>9 DEF ParallelInv

LEMMA ExecuteSingleKeeps ==
  ASSUME ParallelInv, NEW i, ExecuteSingle(i)
  PROVE  ParallelInv'
<1> DEFINE k == i - Len(results)
<1>1. /\ i \in running /\ running' = running \ {i} /\ slots' = [slots EXCEPT ![k] = order[i]]
      /\ UNCHANGED <<calls, execution, phase, degree, queue, order, results, ended>>
  BY DEF ExecuteSingle, InSlot
<1>2. CallsOK' /\ SortInv'
  BY <1>1, SortStays DEF ParallelInv, CallsOK, SortInv
<1>3. BatchInv
  BY DEF ParallelInv
<1>4. k \in 1..Len(slots) /\ i \in Nat /\ Len(results) + k = i
  <2>1. k \in 1..Len(slots) /\ i \in Nat
    BY <1>1, <1>3 DEF BatchInv
  <2> QED BY <2>1, NumbersAre
<1>5. i \in 1..Len(order) /\ order[i] \in Nat
  <2>1. i \in 1..Len(order)
    <3> HIDE DEF k
    <3> QED BY <1>4, NumbersAre
  <2> QED BY <2>1, ElementOfSeq, LengthsAre
<1> HIDE DEF k
<1>6. /\ slots' \in Seq(Nat) /\ Len(slots') = Len(slots) /\ slots' # <<>> /\ slots # <<>>
      /\ \A j \in 1..Len(slots) : slots'[j] = IF j = k THEN order[i] ELSE slots[j]
  <2>1. slots' \in [1..Len(slots) -> Nat] /\ \A j \in 1..Len(slots) : slots'[j] = IF j = k THEN order[i] ELSE slots[j]
    <3>1. DOMAIN slots = 1..Len(slots) /\ \A j \in 1..Len(slots) : slots[j] \in Nat
      BY LengthsAre, ElementOfSeq
    <3>2. slots = [j \in 1..Len(slots) |-> slots[j]]
      BY <3>1, LengthsAre
    <3>3. slots' = [j \in 1..Len(slots) |-> IF j = k THEN order[i] ELSE slots[j]]
      BY <1>1, <3>1, <3>2, Zenon
    <3> QED BY <1>5, <3>1, <3>3
  <2>2. slots' \in Seq(Nat) /\ Len(slots') = Len(slots)
    BY <2>1, IsSeq, LengthsAre
  <2>3. Len(slots) # 0
    BY <1>4, LengthsAre
  <2> QED BY <2>1, <2>2, <2>3, EmptySeq
<1>7. \A j \in 1..Len(slots) : Len(results) + j \in running' \/ slots'[j] = order[Len(results) + j]
  <2> SUFFICES ASSUME NEW j \in 1..Len(slots)
               PROVE  Len(results) + j \in running' \/ slots'[j] = order[Len(results) + j]
    OBVIOUS
  <2>1. CASE j = k
    BY <1>4, <1>6, <2>1
  <2>2. CASE j # k
    <3>1. Len(results) + j # i
      BY <1>4, <2>2, LengthsAre
    <3> QED BY <1>1, <1>3, <1>6, <2>2, <3>1 DEF BatchInv
  <2> QED BY <2>1, <2>2
<1>8. Size' = Size
  BY <1>1 DEF Size
<1>9. BatchInv'
  BY <1>1, <1>3, <1>6, <1>7, <1>8 DEF BatchInv
<1> QED BY <1>2, <1>9 DEF ParallelInv

LEMMA EndBatchKeeps ==
  ASSUME ParallelInv, EndBatch
  PROVE  ParallelInv'
<1>1. /\ phase = "run" /\ slots # <<>> /\ running = {} /\ results' = results \o slots /\ slots' = <<>>
      /\ phase' = IF ended \/ Len(results') = Len(order) THEN "done" ELSE "run"
      /\ UNCHANGED <<calls, execution, degree, queue, order, running, ended>>
  BY DEF EndBatch
<1>2. CallsOK' /\ SortInv'
  BY <1>1, SortStays DEF ParallelInv, CallsOK, SortInv
<1>3. BatchInv
  BY DEF ParallelInv
<1>4. \A j \in 1..Len(slots) : slots[j] = order[Len(results) + j] /\ slots[j] \in DOMAIN calls
  <2> SUFFICES ASSUME NEW j \in 1..Len(slots) PROVE slots[j] = order[Len(results) + j] /\ slots[j] \in DOMAIN calls
    OBVIOUS
  <2>1. slots[j] = order[Len(results) + j]
    BY <1>1, <1>3 DEF BatchInv
  <2>2. Len(results) + j \in 1..Len(order)
    BY NumbersAre
  <2> QED BY <2>1, <2>2, LengthsAre, ElementOfSeq
<1>5. slots \in Seq(DOMAIN calls)
  <2>1. slots \in [1..Len(slots) -> DOMAIN calls]
    BY <1>4, LengthsAre
  <2> QED BY <2>1, IsSeq, LengthsAre
<1>6. /\ results' \in Seq(DOMAIN calls) /\ Len(results') = Len(results) + Len(slots)
      /\ \A j \in 1..Len(results) + Len(slots) :
           results'[j] = IF j <= Len(results) THEN results[j] ELSE slots[j - Len(results)]
  BY <1>1, <1>5, ConcatProperties, LengthsAre
<1>7. \A j \in 1..Len(results') : results'[j] = order[j]
  <2> SUFFICES ASSUME NEW j \in 1..Len(results') PROVE results'[j] = order[j]
    OBVIOUS
  <2>1. CASE j <= Len(results)
    <3>1. j \in 1..Len(results) /\ j \in 1..Len(results) + Len(slots)
      BY <1>6, <2>1, NumbersAre
    <3>2. results'[j] = results[j]
      BY <1>6, <2>1, <3>1
    <3> QED BY <1>3, <3>1, <3>2 DEF BatchInv
  <2>2. CASE ~(j <= Len(results))
    <3>1. j - Len(results) \in 1..Len(slots) /\ Len(results) + (j - Len(results)) = j
      BY <1>6, <2>2, LengthsAre
    <3> QED BY <1>4, <1>6, <2>2, <3>1
  <2> QED BY <2>1, <2>2
<1>8. Size' = Size /\ Len(slots') = 0 /\ slots' \in Seq(Nat)
  BY <1>1, EmptySeq DEF Size
<1>9. Len(results') <= Len(order) /\ Len(results') \in Nat
  BY <1>6, NumbersAre
<1>10. BatchInv'
  <2>1. phase' = "done" /\ ~ended' => Len(results') = Len(order')
    BY <1>1
  <2>2. Len(results') + Len(slots') <= Len(order') /\ Len(slots') <= Size'
    <3>1. Size' \in Nat /\ Len(slots') = 0
      BY <1>8, LengthsAre
    <3>2. order' = order
      BY <1>1
    <3> QED BY <1>9, <3>1, <3>2, NumbersAre
  <2>3. running' = {} /\ 1..Len(slots') = {} /\ phase' \in {"run", "done"} /\ order' = order /\ calls' = calls
    BY <1>1, <1>8
  <2> QED BY <1>1, <1>6, <1>7, <1>8, <2>1, <2>2, <2>3 DEF BatchInv
<1> QED BY <1>2, <1>10 DEF ParallelInv

LEMMA ContextEndsKeeps ==
  ASSUME ParallelInv, ContextEnds
  PROVE  ParallelInv'
<1>1. /\ phase # "done" /\ ended' = TRUE
      /\ UNCHANGED <<calls, execution, phase, degree, queue, order, running, slots, results>>
  BY DEF ContextEnds
<1>2. ended' \in BOOLEAN
  BY <1>1, Zenon
<1>3. CallsOK' /\ SortInv'
  BY <1>1, <1>2, SortStays DEF ParallelInv, SortInv
<1>4. BatchInv'
  BY <1>1 DEF ParallelInv, BatchInv, Size
<1> QED BY <1>3, <1>4 DEF ParallelInv

LEMMA ParallelInvKept == ParallelInv /\ [ParallelNext]_parallelVars => ParallelInv'
<1> SUFFICES ASSUME ParallelInv, [ParallelNext]_parallelVars PROVE ParallelInv'
  OBVIOUS
<1>1. CASE UNCHANGED parallelVars
  <2>1. CallsOK' /\ SortInv'
    BY <1>1, SortStays DEF parallelVars, ParallelInv, CallsOK, SortInv
  <2>2. BatchInv'
    BY <1>1 DEF parallelVars, ParallelInv, BatchInv, Size
  <2> QED BY <2>1, <2>2 DEF ParallelInv
<1>2. CASE Plan
  BY <1>2, PlanKeeps
<1>3. CASE Visit
  BY <1>3, VisitKeeps
<1>4. CASE Sorted
  BY <1>4, SortedKeeps
<1>5. CASE StartBatch
  BY <1>5, StartBatchKeeps
<1>6. CASE EndBatch
  BY <1>6, EndBatchKeeps
<1>7. CASE ContextEnds
  BY <1>7, ContextEndsKeeps
<1>8. ASSUME NEW i \in 1..MaxCalls, ExecuteSingle(i) PROVE ParallelInv'
  BY <1>8, ExecuteSingleKeeps
<1> QED BY <1>1, <1>2, <1>3, <1>4, <1>5, <1>6, <1>7, <1>8 DEF ParallelNext

-----------------------------------------------------------------------------
(* What is sorted is everything: the first tool that were lost would wait for *)
(* one that waits for nothing, and those are all visited.                     *)
LEMMA AllAreVisited ==
  ASSUME ParallelInv, phase \in {"run", "done"}, execution = "dependent"
  PROVE  Visited = Names
<1>1. CallsOK /\ RootsFirst /\ NoneIsLost /\ queue = <<>>
  BY DEF ParallelInv, SortInv
<1>2. Queued = {} /\ Waitless \subseteq Visited
  <2>1. DOMAIN queue = {}
    BY <1>1
  <2> QED BY <1>1, <2>1 DEF Queued, RootsFirst
<1>3. Visited \subseteq Names
  <2>1. \A i \in DOMAIN order : order[i] \in DOMAIN calls
    BY LengthsAre, ElementOfSeq
  <2> QED BY <1>1, <2>1, CallsAre DEF Visited
<1>4. ASSUME NEW n \in Names, n \notin Visited PROVE FALSE
  <2>1. WaitsFor(n) = {}
    <3> SUFFICES ASSUME NEW j \in DependsOn(calls[LastOf(n)]) PROVE calls[j].name \in Visited
      BY DEF WaitsFor
    <3>1. j \in DOMAIN calls /\ HasDependency(calls[LastOf(n)], calls[j])
      BY DEF DependsOn
    <3> QED BY <1>1, <1>2, <3>1, AwaitedIsWaitless
  <2>2. Cardinality(WaitsFor(n)) = 0
    BY <2>1, FS_EmptySet
  <2>3. degree[n] > 0 /\ degree[n] <= 0 /\ degree[n] \in Int
    BY <1>1, <1>2, <1>4, <2>2, CallsAre DEF NoneIsLost, CallsOK
  <2> QED BY <2>3
<1> QED BY <1>3, <1>4

LEMMA ResultsInOrder ==
  ASSUME ParallelInv
  PROVE  ResultsAreTheCalls
<1>1. Len(results) <= Len(order) /\ \A i \in 1..Len(results) : results[i] = order[i]
  BY LengthsAre DEF ParallelInv, BatchInv
<1>2. results = SubSeq(order, 1, Len(results))
  <2> DEFINE first == SubSeq(order, 1, Len(results))
  <2>1. \A i \in 1..Len(results) : order[i] \in DOMAIN calls
    BY <1>1, LengthsAre, ElementOfSeq
  <2>2. /\ first \in Seq(DOMAIN calls)
        /\ Len(first) = IF 1 <= Len(results) THEN Len(results) - 1 + 1 ELSE 0
        /\ \A i \in 1..Len(results) - 1 + 1 : first[i] = order[1 + i - 1]
    BY <2>1, LengthsAre, SubSeqProperties
  <2> HIDE DEF first
  <2>3. Len(first) = Len(results)
    BY <2>2, LengthsAre
  <2>4. ASSUME NEW i \in 1..Len(results) PROVE first[i] = results[i]
    <3>1. i \in 1..Len(results) - 1 + 1 /\ 1 + i - 1 = i
      BY LengthsAre
    <3> QED BY <1>1, <2>2, <3>1
  <2>5. results = first
    BY <2>2, <2>3, <2>4, LengthsAre, SeqEqual
  <2> QED BY <2>5 DEF first
<1>3. ASSUME phase = "done", ~ended
      PROVE  /\ {calls[results[i]].name : i \in DOMAIN results} = Names
             /\ execution # "dependent" \/ Distinct => ToSet(results) = DOMAIN calls
  <2>1. Len(results) = Len(order) /\ DOMAIN results = DOMAIN order
    BY <1>3, LengthsAre DEF ParallelInv, BatchInv
  <2>2. \A i \in DOMAIN order : results[i] = order[i] /\ order[i] \in DOMAIN calls
    BY <1>1, <2>1, LengthsAre, ElementOfSeq
  <2>3. {calls[results[i]].name : i \in DOMAIN results} = Visited
    BY <2>1, <2>2 DEF Visited
  <2>4. CASE execution = "dependent"
    <3>1. Visited = Names
      BY <1>3, <2>4, AllAreVisited
    <3>2. ASSUME Distinct PROVE ToSet(results) = DOMAIN calls
      <4>1. ASSUME NEW j \in DOMAIN calls PROVE \E i \in DOMAIN results : results[i] = j
        <5>1. PICK i \in DOMAIN order : calls[order[i]].name = calls[j].name
          BY <3>1 DEF Visited, Names
        <5>2. order[i] = j
          BY <2>2, <3>2, <5>1 DEF Distinct
        <5> QED BY <2>1, <2>2, <5>2
      <4> QED BY <2>1, <2>2, <4>1 DEF ToSet
    <3> QED BY <2>3, <2>4, <3>1, <3>2
  <2>5. CASE execution # "dependent"
    <3>1. order = [i \in DOMAIN calls |-> i]
      BY <1>3, <2>5 DEF ParallelInv, SortInv
    <3>2. DOMAIN order = DOMAIN calls /\ \A i \in DOMAIN calls : results[i] = i
      BY <2>2, <3>1
    <3>3. Visited = Names
      BY <3>1 DEF Visited, Names
    <3>4. ToSet(results) = DOMAIN calls
      BY <2>1, <3>2 DEF ToSet
    <3> QED BY <2>3, <3>3, <3>4
  <2> QED BY <2>4, <2>5
<1> QED BY <1>2, <1>3 DEF ResultsAreTheCalls

(* A call that runs has all of Waitless before it in the order, and all that  *)
(* is before it has its result.                                               *)
LEMMA ReadsBeforeChanges ==
  ASSUME ParallelInv
  PROVE  DependenciesFirst
<1> SUFFICES ASSUME execution = "dependent", NEW i \in running, NEW j \in DOMAIN calls,
                    HasDependency(calls[order[i]], calls[j]), j = LastOf(calls[j].name)
             PROVE  j \in ToSet(results)
  BY DEF DependenciesFirst
<1>1. BatchInv /\ SortInv /\ CallsOK
  BY DEF ParallelInv
<1>2. Size = 1
  BY DEF Size
<1>3. i = Len(results) + 1 /\ i \in DOMAIN order
  <2>1. i \in Nat /\ i - Len(results) \in 1..Len(slots) /\ Len(slots) <= 1
        /\ Len(results) + Len(slots) <= Len(order)
    BY <1>1, <1>2 DEF BatchInv
  <2> QED BY <2>1, LengthsAre
<1>4. phase # "plan"
  <2>1. slots # <<>>
    BY <1>1 DEF BatchInv
  <2> QED BY <1>1, <2>1 DEF BatchInv
<1>5. order[i] = LastOf(calls[order[i]].name) /\ RootsFirst
  BY <1>1, <1>3, <1>4 DEF SortInv
<1>6. order[i] \in DOMAIN calls
  BY <1>3, LengthsAre, ElementOfSeq
<1>7. calls[order[i]].name \in Names
  BY <1>1, <1>6, CallsAre
<1>8. calls[order[i]].name \notin Waitless
  BY <1>1, <1>5, <1>7, WaitingIsNotWaitless
<1>9. calls[j].name \in Waitless
  BY <1>1, AwaitedIsWaitless
<1>10. PICK b \in DOMAIN order : b < i /\ calls[order[b]].name = calls[j].name
  BY <1>3, <1>5, <1>8, <1>9 DEF RootsFirst
<1>11. b \in DOMAIN results /\ results[b] = order[b]
  <2>1. b \in 1..Len(results)
    BY <1>3, <1>10, LengthsAre
  <2>2. results[b] = order[b]
    BY <1>1, <2>1 DEF BatchInv
  <2>3. DOMAIN results = 1..Len(results)
    BY LengthsAre
  <2> QED BY <2>1, <2>2, <2>3
<1>12. order[b] = j
  <2>1. order[b] = LastOf(calls[order[b]].name)
    BY <1>1, <1>4 DEF SortInv
  <2> QED BY <1>10, <2>1
<1> QED BY <1>11, <1>12 DEF ToSet

LEMMA ParallelInvariant == ParallelSpec => []ParallelInv
BY ParallelStarts, ParallelInvKept, PTL DEF ParallelSpec

(* By whatever strategy, however many calls run at once and in whatever order *)
(* they end, the results are those of the calls in their order, and nothing   *)
(* is left out while the context lives: the sort loses no tool, since its     *)
(* counts of edges never fall short of what the last call of a name waits for *)
(* (parallel.go:41-95, 189-225, 302-345).                                     *)
THEOREM ResultsAreTheCallsHolds == ParallelSpec => []ResultsAreTheCalls
BY ParallelInvariant, ResultsInOrder, PTL

(* A change starts only after each read of its object that the sort has kept, *)
(* the last call of its name, has its own result: reads wait for nothing, so  *)
(* all of them are queued before anything that waits                          *)
(* (parallel.go:206-298, 318-345).                                            *)
THEOREM DependenciesFirstHolds == ParallelSpec => []DependenciesFirst
BY ParallelInvariant, ReadsBeforeChanges, PTL
-----------------------------------------------------------------------------
(* ---- The LLM router.                                                     *)

LEMMA Steps ==
  ASSUME NEW n \in Nat, NEW m \in Nat
  PROVE  /\ \A i \in 1..(n + 1) : i \in 1..n \/ i = n + 1
         /\ n < m => n + 1 \in 1..m /\ n + 1 <= m /\ (n + 1 # m => n + 1 < m)
OBVIOUS

LEMMA WithOneMore ==
  ASSUME NEW S, NEW q \in Seq(S), NEW e \in S
  PROVE  /\ Append(q, e) \in Seq(S) /\ Len(Append(q, e)) = Len(q) + 1
         /\ \A i \in 1..Len(q) : Append(q, e)[i] = q[i]
         /\ Append(q, e)[Len(q) + 1] = e
BY AppendProperties

LEMMA UpToIsFinite ==
  ASSUME NEW n \in Nat
  PROVE  IsFiniteSet(1..n) /\ Cardinality(1..n) = n
BY FS_Interval

-----------------------------------------------------------------------------
(* Lists, the order of their providers, and whether names come twice.         *)
Lists == Seq(ProviderConfig)

Priority(cfgs, i) == PriorityMap(cfgs, cfgs[i].name)

OneOfEachName(cfgs) == \A i, j \in DOMAIN cfgs : cfgs[i].name = cfgs[j].name => i = j

Place(cfgs, i) == Cardinality(Before(cfgs, i)) + 1

LEMMA ListsAre ==
  ASSUME NEW cfgs \in Lists
  PROVE  /\ Len(cfgs) \in Nat /\ DOMAIN cfgs = 1..Len(cfgs) /\ IsFiniteSet(DOMAIN cfgs)
         /\ Cardinality(DOMAIN cfgs) = Len(cfgs)
         /\ \A i \in DOMAIN cfgs : cfgs[i] \in ProviderConfig /\ Priority(cfgs, i) \in Int
<1>1. Len(cfgs) \in Nat /\ DOMAIN cfgs = 1..Len(cfgs)
  BY LenProperties DEF Lists
<1>2. \A i \in DOMAIN cfgs : cfgs[i] \in ProviderConfig
  BY <1>1, ElementOfSeq DEF Lists
<1>3. ASSUME NEW i \in DOMAIN cfgs PROVE Priority(cfgs, i) \in Int
  <2> DEFINE T == {j \in DOMAIN cfgs : cfgs[j].name = cfgs[i].name}
  <2>1. T \in SUBSET (1..Len(cfgs)) /\ T # {}
    BY <1>1
  <2>2. Max(T) \in T
    <3> HIDE DEF T
    <3> QED BY <1>1, <2>1, GreatestPlace
  <2>3. cfgs[Max(T)].priority \in Int
    BY <1>2, <2>2 DEF ProviderConfig
  <2> QED BY <2>3 DEF Priority, PriorityMap
<1>4. IsFiniteSet(1..Len(cfgs)) /\ Cardinality(1..Len(cfgs)) = Len(cfgs)
  BY <1>1, UpToIsFinite
<1> QED BY <1>1, <1>2, <1>3, <1>4

LEMMA BeforeIs ==
  ASSUME NEW cfgs \in Lists, NEW i \in DOMAIN cfgs
  PROVE  /\ \A j \in DOMAIN cfgs : j \in Before(cfgs, i) <=>
              \/ Priority(cfgs, j) < Priority(cfgs, i)
              \/ Priority(cfgs, j) = Priority(cfgs, i) /\ j < i
         /\ Before(cfgs, i) \subseteq DOMAIN cfgs
         /\ IsFiniteSet(Before(cfgs, i)) /\ Cardinality(Before(cfgs, i)) \in Nat
<1>1. Before(cfgs, i) \subseteq DOMAIN cfgs
  BY DEF Before
<1>2. IsFiniteSet(Before(cfgs, i)) /\ Cardinality(Before(cfgs, i)) \in Nat
  BY <1>1, ListsAre, FS_Subset, FS_CardinalityType
<1> QED BY <1>1, <1>2 DEF Before, Priority

(* Of two providers one comes before the other, and has the smaller place.    *)
LEMMA PlacesDiffer ==
  ASSUME NEW cfgs \in Lists, NEW i \in DOMAIN cfgs, NEW j \in DOMAIN cfgs, j \in Before(cfgs, i)
  PROVE  Place(cfgs, j) < Place(cfgs, i) /\ i # j
<1> DEFINE A == Before(cfgs, j)
           B == Before(cfgs, i)
<1>1. \A k \in DOMAIN cfgs : Priority(cfgs, k) \in Int /\ k \in Nat
  BY ListsAre
<1>2. i # j /\ j \notin A
  BY <1>1, BeforeIs
<1>3. A \subseteq B
  <2> SUFFICES ASSUME NEW k \in A PROVE k \in B
    OBVIOUS
  <2>1. k \in DOMAIN cfgs
    BY BeforeIs
  <2> QED BY <1>1, <2>1, BeforeIs
<1>4. IsFiniteSet(A) /\ IsFiniteSet(B) /\ Cardinality(A) \in Nat /\ Cardinality(B) \in Nat
  BY BeforeIs
<1>5. Place(cfgs, j) = Cardinality(A) + 1 /\ Place(cfgs, i) = Cardinality(B) + 1 /\ j \in B
  BY DEF Place
<1> HIDE DEF A, B
<1>6. Cardinality(A \cup {j}) = Cardinality(A) + 1 /\ Cardinality(A \cup {j}) <= Cardinality(B)
  <2>1. A \cup {j} \in SUBSET B
    BY <1>3, <1>5
  <2> QED BY <1>2, <1>4, <2>1, FS_AddElement, FS_Subset
<1> QED BY <1>2, <1>4, <1>5, <1>6

LEMMA SomeoneIsFirst ==
  ASSUME NEW cfgs \in Lists, NEW i \in DOMAIN cfgs, NEW j \in DOMAIN cfgs, i # j
  PROVE  i \in Before(cfgs, j) \/ j \in Before(cfgs, i)
<1>1. \A k \in DOMAIN cfgs : Priority(cfgs, k) \in Int /\ k \in Nat
  BY ListsAre
<1> QED BY <1>1, BeforeIs

LEMMA PlaceIsOne ==
  ASSUME NEW cfgs \in Lists, NEW i \in DOMAIN cfgs
  PROVE  Place(cfgs, i) \in DOMAIN cfgs
<1> DEFINE D == DOMAIN cfgs
           B == Before(cfgs, i)
<1>0. D = 1..Len(cfgs) /\ Len(cfgs) \in Nat /\ IsFiniteSet(D) /\ Cardinality(D) = Len(cfgs)
  BY ListsAre
<1>1. IsFiniteSet(B) /\ Cardinality(B) \in Nat /\ B \subseteq D
  BY BeforeIs
<1>2. i \notin B
  BY PlacesDiffer
<1>3. Place(cfgs, i) = Cardinality(B) + 1
  BY DEF Place
<1> HIDE DEF B
<1>4. Cardinality(B \cup {i}) = Cardinality(B) + 1 /\ Cardinality(B \cup {i}) <= Cardinality(D)
  <2>1. B \cup {i} \in SUBSET D
    BY <1>1
  <2> HIDE DEF D
  <2> QED BY <1>0, <1>1, <1>2, <2>1, FS_AddElement, FS_Subset
<1> QED BY <1>0, <1>1, <1>3, <1>4

(* Every place is one provider's.                                             *)
LEMMA PlacesAreTaken ==
  ASSUME NEW cfgs \in Lists, NEW k \in DOMAIN cfgs
  PROVE  \E i \in DOMAIN cfgs : Place(cfgs, i) = k
<1> DEFINE D == DOMAIN cfgs
           f == [i \in D |-> Place(cfgs, i)]
<1>1. D = 1..Len(cfgs) /\ Len(cfgs) \in Nat /\ IsFiniteSet(D) /\ Cardinality(D) = Len(cfgs)
  BY ListsAre
<1>2. \A i \in D : Place(cfgs, i) \in D
  BY PlaceIsOne
<1>3. ASSUME NEW i \in D, NEW j \in D, i # j PROVE Place(cfgs, i) # Place(cfgs, j)
  <2>1. Place(cfgs, i) \in Int /\ Place(cfgs, j) \in Int
    BY <1>1, <1>2
  <2>2. Place(cfgs, i) < Place(cfgs, j) \/ Place(cfgs, j) < Place(cfgs, i)
    BY <1>3, SomeoneIsFirst, PlacesDiffer
  <2> QED BY <2>1, <2>2
<1>4. f \in Injection(D, D)
  BY <1>2, <1>3 DEF Injection, IsInjective
<1>5. f \in Surjection(D, D)
  <2> HIDE DEF D, f
  <2> QED BY <1>1, <1>4, FS_Injection
<1> QED BY <1>5 DEF Surjection

(* The sort is a permutation, and where no name comes twice no provider       *)
(* stands before one of a better priority.                                    *)
LEMMA SortIs ==
  ASSUME NEW cfgs \in Lists
  PROVE  /\ SortProviders(cfgs) \in Lists /\ Len(SortProviders(cfgs)) = Len(cfgs)
         /\ \A k \in DOMAIN cfgs : SortProviders(cfgs)[k] \in ToSet(cfgs)
         /\ \A cfg \in ToSet(cfgs) : \E k \in DOMAIN cfgs : SortProviders(cfgs)[k] = cfg
         /\ OneOfEachName(cfgs) =>
              \A k, l \in DOMAIN cfgs : k < l =>
                /\ SortProviders(cfgs)[k].priority <= SortProviders(cfgs)[l].priority
                /\ SortProviders(cfgs)[k] # SortProviders(cfgs)[l]
<1> DEFINE D == DOMAIN cfgs
           s == SortProviders(cfgs)
           who(k) == CHOOSE i \in D : Cardinality(Before(cfgs, i)) = k - 1
<1>1. D = 1..Len(cfgs) /\ Len(cfgs) \in Nat /\ \A i \in D : cfgs[i] \in ProviderConfig /\ Priority(cfgs, i) \in Int
  BY ListsAre
<1>2. ASSUME NEW k \in D PROVE who(k) \in D /\ Place(cfgs, who(k)) = k
  <2>1. PICK i \in D : Place(cfgs, i) = k
    BY PlacesAreTaken
  <2>2. Cardinality(Before(cfgs, i)) = k - 1
    BY <1>1, <2>1, BeforeIs DEF Place
  <2>3. who(k) \in D /\ Cardinality(Before(cfgs, who(k))) = k - 1
    BY <2>2
  <2> HIDE DEF who
  <2> QED BY <1>1, <2>3 DEF Place
<1>3. \A k \in D : s[k] = cfgs[who(k)]
  BY DEF SortProviders
<1>4. s \in [D -> ProviderConfig]
  BY <1>1, <1>2 DEF SortProviders
<1> HIDE DEF who, s
<1>5. s \in Lists /\ Len(s) = Len(cfgs)
  BY <1>1, <1>4, IsSeq DEF Lists
<1>6. \A k \in D : s[k] \in ToSet(cfgs)
  BY <1>2, <1>3 DEF ToSet
<1>7. ASSUME NEW i \in D PROVE \E k \in D : s[k] = cfgs[i]
  <2>1. PICK k \in D : k = Place(cfgs, i)
    <3>1. Place(cfgs, i) \in D
      BY PlaceIsOne
    <3> QED BY <3>1
  <2>2. who(k) = i
    <3>1. Place(cfgs, who(k)) = Place(cfgs, i) /\ who(k) \in D /\ Place(cfgs, i) \in Int
      BY <1>1, <1>2, <2>1
    <3>2. ~(Place(cfgs, i) < Place(cfgs, i))
      BY <3>1
    <3> QED BY <3>1, <3>2, SomeoneIsFirst, PlacesDiffer
  <2> QED BY <1>3, <2>2
<1>8. ASSUME OneOfEachName(cfgs), NEW k \in D, NEW l \in D, k < l
      PROVE  s[k].priority <= s[l].priority /\ s[k] # s[l]
  <2>1. who(k) \in D /\ who(l) \in D /\ Place(cfgs, who(k)) < Place(cfgs, who(l)) /\ k \in Int /\ l \in Int
    BY <1>1, <1>2, <1>8
  <2>2. who(k) # who(l) /\ who(k) \in Before(cfgs, who(l))
    <3>1. ~(Place(cfgs, who(l)) < Place(cfgs, who(k)))
      BY <1>2, <1>8, <2>1
    <3>2. who(k) # who(l)
      BY <1>2, <1>8, <2>1
    <3> QED BY <2>1, <3>1, <3>2, SomeoneIsFirst, PlacesDiffer
  <2>3. ASSUME NEW i \in D PROVE Priority(cfgs, i) = cfgs[i].priority
    <3> DEFINE T == {j \in D : cfgs[j].name = cfgs[i].name}
    <3>1. T = {i}
      BY <1>8 DEF OneOfEachName
    <3>2. Max({i}) = i
      <4>1. i \in Int
        BY <1>1
      <4>2. \A x \in {i} : \A y \in {i} : x >= y
        BY <4>1
      <4> QED BY <4>2 DEF Max
    <3>3. Priority(cfgs, i) = cfgs[Max(T)].priority
      BY DEF Priority, PriorityMap
    <3> HIDE DEF T
    <3> QED BY <3>1, <3>2, <3>3
  <2>4. Priority(cfgs, who(k)) <= Priority(cfgs, who(l))
    <3>1. /\ who(k) \in D /\ who(l) \in D
          /\ Priority(cfgs, who(k)) \in Int /\ Priority(cfgs, who(l)) \in Int
      BY <1>1, <2>1
    <3>2. \/ Priority(cfgs, who(k)) < Priority(cfgs, who(l))
          \/ Priority(cfgs, who(k)) = Priority(cfgs, who(l))
      BY <2>2, <3>1, BeforeIs
    <3> QED BY <3>1, <3>2
  <2>5. s[k].priority <= s[l].priority
    BY <1>3, <2>1, <2>3, <2>4
  <2>6. s[k] # s[l]
    BY <1>3, <1>8, <2>1, <2>2 DEF OneOfEachName
  <2> QED BY <2>5, <2>6
<1>9. \A cfg \in ToSet(cfgs) : \E k \in D : s[k] = cfg
  BY <1>7 DEF ToSet
<1> QED BY <1>5, <1>6, <1>8, <1>9 DEF s

-----------------------------------------------------------------------------
(* A request has asked the first of its list, which is the sorted             *)
(* configurations that were in force when it began; it is still trying only   *)
(* while one is left, and it has failed or reported only when none is.        *)
Models == STRING \cup {NoConfig.model}

Attempt == [of : ProviderConfig, model : Models]

RouterTypeOK ==
  /\ configs \in Configurations /\ providers = SortProviders(configs)
  /\ asking \in [Callers -> [kind : {"none", "complete", "stream", "health"},
                             at : {"idle", "trying", "cut off", "answered", "cancelled", "failed", "reported"}]]
  /\ list \in [Callers -> Lists] /\ tried \in [Callers -> Seq(Attempt)]
  /\ inForce \in [Callers -> Configurations \cup {<<>>}]

RequestOK(c) ==
  /\ list[c] = SortProviders(inForce[c])
  /\ Len(tried[c]) <= Len(list[c])
  /\ \A i \in 1..Len(tried[c]) : tried[c][i].of = list[c][i]
  /\ asking[c].at = "idle" => Len(tried[c]) = 0
  /\ asking[c].at = "trying" => Len(tried[c]) < Len(list[c])
  /\ asking[c].at \in {"failed", "reported"} => Len(tried[c]) = Len(list[c])

RouterInv == RouterTypeOK /\ \A c \in Callers : RequestOK(c)

LEMMA NoLists == <<>> \in Lists /\ SortProviders(<<>>) = <<>> /\ Len(<<>>) = 0
<1>1. <<>> \in Lists /\ Len(<<>>) = 0
  BY EmptySeq DEF Lists
<1>2. SortProviders(<<>>) \in Lists /\ Len(SortProviders(<<>>)) = 0
  BY <1>1, SortIs
<1> QED BY <1>1, <1>2, EmptySeq DEF Lists

LEMMA InForceIs ==
  ASSUME RouterTypeOK
  PROVE  configs \in Lists /\ \A c \in Callers : inForce[c] \in Lists
BY NoLists, ConfigurationsAssumption DEF RouterTypeOK, Lists

LEMMA LeastPlace ==
  ASSUME NEW T \in SUBSET Nat, T # {}
  PROVE  Min(T) \in T
<1> DEFINE Less == OpToRel(<, Nat)
<1>1. PICK m \in T : \A e \in T : <<e, m>> \notin Less
  BY NatLessThanWellFounded, WFMin
<1>2. \A e \in T : m =< e
  <2>1. \A e \in T : ~(e < m)
    BY <1>1 DEF OpToRel
  <2>2. m \in Nat /\ \A e \in T : e \in Nat
    BY <1>1
  <2> HIDE DEF Less
  <2> QED BY <2>1, <2>2
<1> QED BY <1>1, <1>2 DEF Min

LEMMA FoundConfig ==
  ASSUME RouterTypeOK, NEW name
  PROVE  FindConfig(name).model \in Models
<1> DEFINE T == {i \in 1..Len(configs) : configs[i].name = name}
           found == SelectInSeq(configs, LAMBDA cfg : cfg.name = name)
<1>1. /\ Len(configs) \in Nat /\ DOMAIN configs = 1..Len(configs)
      /\ \A i \in DOMAIN configs : configs[i] \in ProviderConfig
  BY InForceIs, ListsAre
<1>2. found = IF T # {} THEN Min(T) ELSE 0
  BY DEF SelectInSeq
<1>3. T \in SUBSET Nat /\ T \in SUBSET (1..Len(configs))
  BY <1>1
<1>4. FindConfig(name) = IF found = 0 THEN NoConfig ELSE configs[found]
  BY DEF FindConfig
<1> HIDE DEF T, found
<1>5. found = 0 \/ found \in DOMAIN configs
  BY <1>1, <1>2, <1>3, LeastPlace
<1> QED BY <1>1, <1>4, <1>5 DEF ProviderConfig, Models

LEMMA RouterInitOK == RouterInit => RouterInv
<1> SUFFICES ASSUME RouterInit PROVE RouterInv
  OBVIOUS
<1>1. <<>> \in Lists /\ <<>> \in Seq(Attempt) /\ Len(<<>>) = 0 /\ SortProviders(<<>>) = <<>>
  BY NoLists, EmptySeq
<1>2. RouterTypeOK
  BY <1>1 DEF RouterInit, RouterTypeOK
<1>3. \A c \in Callers : RequestOK(c)
  BY <1>1 DEF RouterInit, RequestOK
<1> QED BY <1>2, <1>3 DEF RouterInv

LEMMA RequestsAre ==
  ASSUME RouterInv, NEW c \in Callers
  PROVE  /\ RequestOK(c) /\ list[c] \in Lists /\ Len(list[c]) \in Nat /\ DOMAIN list[c] = 1..Len(list[c])
         /\ \A i \in 1..Len(list[c]) : list[c][i] \in ProviderConfig
         /\ tried[c] \in Seq(Attempt) /\ Len(tried[c]) \in Nat /\ DOMAIN tried[c] = 1..Len(tried[c])
         /\ inForce[c] \in Lists
<1>1. RequestOK(c) /\ list[c] \in Lists /\ tried[c] \in Seq(Attempt) /\ inForce[c] \in Lists
  BY InForceIs DEF RouterInv, RouterTypeOK
<1> QED BY <1>1, ListsAre, LenProperties

LEMMA UpdatesOK == RouterInv /\ UpdateProviders => RouterInv'
<1> SUFFICES ASSUME RouterInv, UpdateProviders PROVE RouterInv'
  OBVIOUS
<1>1. RouterTypeOK'
  BY DEF RouterInv, RouterTypeOK, UpdateProviders
<1>2. \A c \in Callers : RequestOK(c)'
  BY DEF RouterInv, RequestOK, UpdateProviders
<1> QED BY <1>1, <1>2 DEF RouterInv

LEMMA GetsOK ==
  ASSUME RouterInv, NEW c \in Callers, NEW kind \in {"complete", "stream", "health"},
         GetProviders(c, kind)
  PROVE  RouterInv'
<1>1. configs \in Lists /\ configs \in Configurations /\ providers = SortProviders(configs)
  BY InForceIs DEF RouterInv, RouterTypeOK
<1>2. providers \in Lists /\ Len(providers) \in Nat
  BY <1>1, SortIs, ListsAre
<1>3. Len(providers) = 0 <=> providers = <<>>
  BY <1>2, EmptySeq DEF Lists
<1>4. /\ list' = [list EXCEPT ![c] = providers] /\ inForce' = [inForce EXCEPT ![c] = configs]
      /\ tried' = tried /\ UNCHANGED <<configs, providers>>
      /\ asking[c].at = "idle"
  BY DEF GetProviders
<1>5. RouterTypeOK'
  BY <1>1, <1>2, <1>4 DEF RouterInv, RouterTypeOK, GetProviders
<1>6. ASSUME NEW d \in Callers PROVE RequestOK(d)'
  <2>1. CASE d # c
    <3>1. list'[d] = list[d] /\ inForce'[d] = inForce[d] /\ asking'[d] = asking[d] /\ tried'[d] = tried[d]
      BY <1>4, <2>1 DEF RouterInv, RouterTypeOK, GetProviders
    <3> QED BY <3>1 DEF RouterInv, RequestOK
  <2>2. CASE d = c
    <3>1. list'[c] = providers /\ inForce'[c] = configs /\ tried'[c] = tried[c] /\ Len(tried[c]) = 0
      BY <1>4 DEF RouterInv, RouterTypeOK, RequestOK
    <3>2. /\ asking'[c].at \in {"trying", "reported", "failed"}
          /\ asking'[c].at = "trying" <=> providers # <<>>
      BY DEF RouterInv, RouterTypeOK, GetProviders
    <3> QED BY <1>1, <1>2, <1>3, <2>2, <3>1, <3>2 DEF RequestOK
  <2> QED BY <2>1, <2>2
<1> QED BY <1>5, <1>6 DEF RouterInv

(* Asking takes the next of the list, which is there.                         *)
LEMMA AskingOK ==
  ASSUME RouterInv, NEW c \in Callers, Ask(c), NEW place,
         place \in {"cut off", "answered", "cancelled", "failed", "trying", "reported"},
         place \in {"failed", "reported"} => IsLast(c),
         place = "trying" => ~IsLast(c),
         At(c, place)
  PROVE  RouterInv'
<1> DEFINE one == [of |-> NextProvider(c), model |-> FindConfig(NextProvider(c).name).model]
<1>1. /\ tried' = [tried EXCEPT ![c] = Append(tried[c], one)]
      /\ UNCHANGED <<configs, providers, list, inForce>> /\ asking[c].at = "trying"
  BY DEF Ask
<1>2. Len(tried[c]) < Len(list[c])
  BY <1>1, RequestsAre DEF RequestOK
<1>3. NextProvider(c) \in ProviderConfig
  <2>1. Len(tried[c]) + 1 \in 1..Len(list[c])
    BY <1>2, RequestsAre, Steps
  <2> QED BY <2>1, RequestsAre DEF NextProvider
<1>4. one \in Attempt
  BY <1>3, FoundConfig DEF Attempt, RouterInv
<1>5. /\ Append(tried[c], one) \in Seq(Attempt) /\ Len(Append(tried[c], one)) = Len(tried[c]) + 1
      /\ \A i \in 1..Len(tried[c]) : Append(tried[c], one)[i] = tried[c][i]
      /\ Append(tried[c], one)[Len(tried[c]) + 1] = one
  <2>1. tried[c] \in Seq(Attempt)
    BY RequestsAre
  <2> HIDE DEF one
  <2> QED BY <1>4, <2>1, WithOneMore
<1>6. one.of = list[c][Len(tried[c]) + 1]
  BY DEF NextProvider
<1> HIDE DEF one
<1>7. asking' = [asking EXCEPT ![c].at = place]
  BY DEF At
<1>8. RouterTypeOK'
  BY <1>1, <1>5, <1>7 DEF RouterInv, RouterTypeOK
<1>9. ASSUME NEW d \in Callers PROVE RequestOK(d)'
  <2>1. CASE d # c
    <3>1. list'[d] = list[d] /\ inForce'[d] = inForce[d] /\ asking'[d] = asking[d] /\ tried'[d] = tried[d]
      BY <1>1, <1>7, <2>1 DEF RouterInv, RouterTypeOK
    <3> QED BY <3>1 DEF RouterInv, RequestOK
  <2>2. CASE d = c
    <3>1. list'[c] = list[c] /\ inForce'[c] = inForce[c] /\ asking'[c].at = place
          /\ tried'[c] = Append(tried[c], one)
      BY <1>1, <1>7 DEF RouterInv, RouterTypeOK
    <3>2. /\ Len(tried[c]) \in Nat /\ Len(list[c]) \in Nat
          /\ list[c] = SortProviders(inForce[c])
          /\ \A i \in 1..Len(tried[c]) : tried[c][i].of = list[c][i]
      BY RequestsAre DEF RequestOK
    <3>3. \A i \in 1..(Len(tried[c]) + 1) : Append(tried[c], one)[i].of = list[c][i]
      <4>1. \A i \in 1..(Len(tried[c]) + 1) : i \in 1..Len(tried[c]) \/ i = Len(tried[c]) + 1
        BY <3>2, Steps
      <4> QED BY <1>5, <1>6, <3>2, <4>1
    <3>4. IsLast(c) <=> Len(tried[c]) + 1 = Len(list[c])
      BY DEF IsLast
    <3>5. /\ Len(tried'[c]) = Len(tried[c]) + 1
          /\ \A i \in 1..Len(tried'[c]) : tried'[c][i].of = list[c][i]
      BY <1>5, <3>1, <3>3
    <3>6. Len(tried'[c]) <= Len(list[c]) /\ (place = "trying" => Len(tried'[c]) < Len(list[c]))
      <4>1. Len(tried[c]) \in Nat /\ Len(list[c]) \in Nat /\ (place = "trying" => Len(tried[c]) + 1 # Len(list[c]))
        BY <3>2, <3>4
      <4> QED BY <1>2, <3>5, <4>1, Steps
    <3> QED BY <2>2, <3>1, <3>2, <3>4, <3>5, <3>6 DEF RequestOK
  <2> QED BY <2>1, <2>2
<1> QED BY <1>8, <1>9 DEF RouterInv

LEMMA CancelsOK ==
  ASSUME RouterInv, NEW c \in Callers, Cancel(c)
  PROVE  RouterInv'
<1>1. RouterTypeOK'
  BY DEF RouterInv, RouterTypeOK, Cancel
<1>2. \A d \in Callers : RequestOK(d)'
  BY DEF RouterInv, RequestOK, Cancel
<1> QED BY <1>1, <1>2 DEF RouterInv

LEMMA RouterNextOK == RouterInv /\ [RouterNext]_routerVars => RouterInv'
<1> SUFFICES ASSUME RouterInv, [RouterNext]_routerVars PROVE RouterInv'
  OBVIOUS
<1>1. CASE UpdateProviders
  BY <1>1, UpdatesOK
<1>2. ASSUME NEW c \in Callers, NEW kind \in {"complete", "stream", "health"}, GetProviders(c, kind)
      PROVE  RouterInv'
  BY <1>2, GetsOK
<1>3. ASSUME NEW c \in Callers, Succeeds(c) PROVE RouterInv'
  <2>1. Ask(c) /\ (At(c, "cut off") \/ At(c, "answered"))
    BY <1>3 DEF Succeeds
  <2> QED BY <2>1, AskingOK
<1>4. ASSUME NEW c \in Callers, Fails(c) PROVE RouterInv'
  <2>1. /\ Ask(c)
        /\ \/ At(c, "cancelled")
           \/ At(c, "failed") /\ IsLast(c)
           \/ At(c, "trying") /\ ~IsLast(c)
    BY <1>4 DEF Fails
  <2> QED BY <2>1, AskingOK
<1>5. ASSUME NEW c \in Callers, Reports(c) PROVE RouterInv'
  <2>1. /\ Ask(c)
        /\ \/ At(c, "reported") /\ IsLast(c)
           \/ At(c, "trying") /\ ~IsLast(c)
    BY <1>5 DEF Reports
  <2> QED BY <2>1, AskingOK
<1>6. ASSUME NEW c \in Callers, Cancel(c) PROVE RouterInv'
  BY <1>6, CancelsOK
<1>7. CASE UNCHANGED routerVars
  BY <1>7 DEF RouterInv, RouterTypeOK, RequestOK, routerVars
<1> QED BY <1>1, <1>2, <1>3, <1>4, <1>5, <1>6, <1>7 DEF RouterNext

LEMMA RouterInvImplies == RouterInv => FailoverInOrder
<1> SUFFICES ASSUME RouterInv, NEW c \in Callers, OneOfEachName(inForce[c])
             PROVE  LET asked == [i \in DOMAIN tried[c] |-> tried[c][i].of]
                    IN  /\ ToSet(asked) \subseteq ToSet(inForce[c])
                        /\ \A i, j \in DOMAIN asked :
                             i < j => asked[i].priority <= asked[j].priority /\ asked[i] # asked[j]
                        /\ \A i \in DOMAIN asked : \A cfg \in ToSet(inForce[c]) \ ToSet(asked) :
                             asked[i].priority <= cfg.priority
                        /\ asking[c].at \in {"failed", "reported"} => ToSet(asked) = ToSet(inForce[c])
  BY DEF FailoverInOrder, OneOfEachName
<1> DEFINE asked == [i \in DOMAIN tried[c] |-> tried[c][i].of]
           n == Len(tried[c])
           D == DOMAIN inForce[c]
           s == SortProviders(inForce[c])
<1>1. /\ n \in Nat /\ Len(inForce[c]) \in Nat /\ D = 1..Len(inForce[c]) /\ n <= Len(inForce[c])
      /\ \A i \in 1..n : asked[i] = s[i]
      /\ asking[c].at \in {"failed", "reported"} => n = Len(inForce[c])
  <2>1. list[c] = s /\ Len(s) = Len(inForce[c])
    BY RequestsAre, SortIs DEF RequestOK
  <2> QED BY <2>1, RequestsAre, ListsAre DEF RequestOK
<1>2. DOMAIN asked = 1..n /\ ToSet(asked) = {asked[i] : i \in 1..n}
  BY RequestsAre DEF ToSet
<1>3. /\ \A k \in D : s[k] \in ToSet(inForce[c])
      /\ \A cfg \in ToSet(inForce[c]) : \E k \in D : s[k] = cfg
      /\ \A k, l \in D : k < l => s[k].priority <= s[l].priority /\ s[k] # s[l]
  BY RequestsAre, SortIs
<1> HIDE DEF asked, n, D, s
<1>4. \A i \in 1..n : i \in D
  BY <1>1
<1>5. ToSet(asked) \subseteq ToSet(inForce[c])
  <2>1. \A i \in 1..n : asked[i] \in ToSet(inForce[c])
    BY <1>1, <1>3, <1>4
  <2> QED BY <1>2, <2>1
<1>6. \A i, j \in 1..n : i < j => asked[i].priority <= asked[j].priority /\ asked[i] # asked[j]
  BY <1>1, <1>3, <1>4
<1>7. ASSUME NEW i \in 1..n, NEW cfg \in ToSet(inForce[c]) \ ToSet(asked)
      PROVE  asked[i].priority <= cfg.priority
  <2>1. PICK k \in D : s[k] = cfg
    BY <1>3
  <2>2. k \notin 1..n
    BY <1>1, <1>2, <1>7, <2>1
  <2>3. i < k
    BY <1>1, <2>2
  <2> QED BY <1>1, <1>3, <1>4, <2>1, <2>3
<1>8. ASSUME asking[c].at \in {"failed", "reported"} PROVE ToSet(asked) = ToSet(inForce[c])
  <2>1. D = 1..n
    BY <1>1, <1>8
  <2> QED BY <1>1, <1>2, <1>3, <1>5, <2>1
<1> QED BY <1>2, <1>5, <1>6, <1>7, <1>8 DEF asked

(* Whatever updates come in between, a request asks the providers of the      *)
(* configurations in force when it began in the order of their priorities,    *)
(* if no name comes twice, and it fails or reports only when it has asked     *)
(* them all (router.go:80-122, 256-276).                                      *)
THEOREM FailoverInOrderHolds == RouterSpec => []FailoverInOrder
<1>1. RouterSpec => []RouterInv
  BY RouterInitOK, RouterNextOK, PTL DEF RouterSpec
<1> QED BY <1>1, RouterInvImplies, PTL
=============================================================================
