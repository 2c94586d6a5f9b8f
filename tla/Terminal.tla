------------------------------ MODULE Terminal ------------------------------
(***************************************************************************)
(* The terminal interface (pkg/tui/models/tui_model.go and the components  *)
(* it draws).  One goroutine, bubbletea's event loop, runs Update on every *)
(* message.  Goroutines talk to it with Program.Send, which waits until    *)
(* the loop takes the message: the key reader, the commands that Update    *)
(* returns, and a goroutine per question, which runs the agent or, without *)
(* one, a demo.  A run that needs a confirmation waits for an answer on    *)
(* pendingConfirmationChan.  Update sends the answer with Send too, and    *)
(* so waits for itself: the loop stops there, and the case of Update that  *)
(* would receive the answer never runs.                                    *)
(***************************************************************************)
EXTENDS Naturals, Sequences

CONSTANTS
  Questions,   (* what the user may ask, each once                             *)
  NoQuestion,  (* no confirmation                                              *)
  MaxEvents    (* bound: what a run of the agent sends before it ends          *)

ASSUME TerminalConstants == NoQuestion \notin Questions /\ MaxEvents \in Nat

VARIABLES
  loop,     (* the event loop: ready, initialising an agent, sending to itself *)
  agent,    (* agentLoop is not nil                                            *)
  focused,  (* the input has the focus: Insert mode                            *)
  draft,    (* the input holds text                                            *)
  help,     (* showHelp                                                        *)
  preview,  (* the question whose command preview is visible                   *)
  panel,    (* the configuration panel is visible                              *)
  modal,    (* the confirmation the modal shows, by the run that asked         *)
  pending,  (* pendingConfirmationReq                                          *)
  run,      (* of each question: where its goroutine is, what it still sends   *)
  commands, (* messages of commands that the loop has not taken                *)
  answer    (* the chat's AI message, which all answers are appended to        *)

keys   == <<focused, draft, help, panel>>
shown  == <<preview, modal, answer>>
terminalVars == <<loop, agent, keys, shown, pending, run, commands>>

Gone    == loop \in {"quit", "crashed"}
Popup   == preview # NoQuestion \/ panel
Covered == Popup \/ help

(* Update goes on to the modal, a popup or the input only with the keys that  *)
(* no shortcut takes: Enter and the arrows are shortcuts of Normal mode       *)
(* unless something covers the chat, and the modal does not count.            *)
Falls == focused \/ Covered

TerminalInit ==
  /\ loop = "ready" /\ agent \in BOOLEAN
  /\ focused = TRUE /\ draft = FALSE /\ help = FALSE /\ panel = FALSE
  /\ preview = NoQuestion /\ modal = NoQuestion /\ pending = NoQuestion
  /\ run = [q \in Questions |-> [at |-> "new", left |-> MaxEvents, out |-> <<>>]]
  /\ commands = {} /\ answer = "none"

-----------------------------------------------------------------------------
(* Shortcuts.  Those that only scroll change nothing here.                    *)

Quit ==
  /\ loop = "ready" /\ loop' = "quit"
  /\ UNCHANGED <<agent, keys, shown, pending, run, commands>>

ToggleHelp ==
  /\ loop = "ready" /\ ~focused /\ (~Popup \/ help)
  /\ help' = IF Popup THEN FALSE ELSE ~help
  /\ UNCHANGED <<loop, agent, focused, draft, panel, shown, pending, run, commands>>

(* Normal mode, nothing covers the chat.                                      *)
Shortcut == loop = "ready" /\ ~focused /\ ~Covered

FocusInput ==
  /\ Shortcut /\ focused' = TRUE
  /\ UNCHANGED <<loop, agent, draft, help, panel, shown, pending, run, commands>>

OpenPanel ==
  /\ Shortcut /\ panel' = TRUE
  /\ UNCHANGED <<loop, agent, focused, draft, help, shown, pending, run, commands>>

(* SetTheme makes every component anew except the modal: the chat is empty.   *)
CycleTheme ==
  /\ Shortcut /\ draft' = FALSE /\ answer' = "none"
  /\ UNCHANGED <<loop, agent, focused, help, panel, preview, modal, pending, run, commands>>

(* reinitAgentLoop drops the agent, then makes one, if there is a provider.   *)
Reload ==
  /\ Shortcut /\ agent' = FALSE /\ loop' = "initialising"
  /\ UNCHANGED <<keys, shown, pending, run, commands>>

Initialised ==
  /\ loop = "initialising" /\ loop' = "ready" /\ agent' \in BOOLEAN
  /\ UNCHANGED <<keys, shown, pending, run, commands>>

Blur ==
  /\ loop = "ready" /\ focused /\ focused' = FALSE
  /\ UNCHANGED <<loop, agent, draft, help, panel, shown, pending, run, commands>>

ClearInput ==
  /\ loop = "ready" /\ focused /\ draft /\ draft' = FALSE
  /\ UNCHANGED <<loop, agent, focused, help, panel, shown, pending, run, commands>>

-----------------------------------------------------------------------------
(* Keys that no shortcut takes: the modal comes first, then the preview, then *)
(* the panel, then the input.                                                 *)

Modal   == loop = "ready" /\ modal # NoQuestion
Preview == loop = "ready" /\ modal = NoQuestion /\ preview # NoQuestion
Panel   == loop = "ready" /\ modal = NoQuestion /\ preview = NoQuestion /\ panel

(* Enter, wherever the modal's cursor is, and Esc: SendMessage within Update. *)
AnswerModal ==
  /\ Modal /\ Falls /\ modal = pending
  /\ loop' = "sending"
  /\ UNCHANGED <<agent, keys, shown, pending, run, commands>>

ClosePreview ==
  /\ Preview /\ preview' = NoQuestion
  /\ \E m \in {"approved", "cancelled"} : commands' = commands \cup {<<m, preview>>}
  /\ UNCHANGED <<loop, agent, keys, modal, answer, pending, run>>

ClosePanel ==
  /\ Panel /\ ~help /\ panel' = FALSE
  /\ commands' = commands \cup {<<"closed", NoQuestion>>}
  /\ UNCHANGED <<loop, agent, focused, draft, help, shown, pending, run>>

SavePanel ==
  /\ Panel
  /\ commands' = commands \cup {<<"saved", NoQuestion>>}
  /\ UNCHANGED <<loop, agent, keys, shown, pending, run>>

Type ==
  /\ loop = "ready" /\ focused /\ modal = NoQuestion /\ ~Popup
  /\ draft' = TRUE
  /\ UNCHANGED <<loop, agent, focused, help, panel, shown, pending, run, commands>>

Submit(q) ==
  /\ loop = "ready" /\ focused /\ draft /\ modal = NoQuestion /\ ~Popup
  /\ run[q].at = "new"
  /\ draft' = FALSE /\ run' = [run EXCEPT ![q].at = "submitted"]
  /\ UNCHANGED <<loop, agent, focused, help, panel, shown, pending, commands>>

Key ==
  \/ Quit \/ ToggleHelp \/ FocusInput \/ OpenPanel \/ CycleTheme \/ Reload \/ Blur
  \/ ClearInput \/ AnswerModal \/ ClosePreview \/ ClosePanel \/ SavePanel \/ Type
  \/ \E q \in Questions : Submit(q)

-----------------------------------------------------------------------------
(* Messages of commands.  An approved preview only pretends to run the        *)
(* command: a goroutine reports its success a second later.                   *)

TakeCommand(c) ==
  /\ loop = "ready" /\ c \in commands
  /\ commands' = (commands \ {c}) \cup (IF c[1] = "approved" THEN {<<"executed", c[2]>>} ELSE {})
  /\ panel' = (panel /\ c[1] \notin {"saved", "closed"})
  /\ IF c[1] = "saved" THEN agent' = FALSE /\ loop' = "initialising"
                       ELSE UNCHANGED <<agent, loop>>
  /\ UNCHANGED <<focused, draft, help, shown, pending, run>>

(* handleUserInput: the goroutine it starts looks at agentLoop once more.     *)
HandleUserInput(q) ==
  /\ loop = "ready" /\ run[q].at = "submitted"
  /\ run' = [run EXCEPT ![q].at = IF agent THEN "starting" ELSE "demo"]
  /\ UNCHANGED <<loop, agent, keys, shown, pending, commands>>

-----------------------------------------------------------------------------
(* A run of the agent, AgentLoop, as the screen sees it: it sends the events  *)
(* of the loop one by one.  An error has an event before it is returned.  A   *)
(* panic, such as of a nil agent, is recovered into an event and a nil        *)
(* result, which the goroutine dereferences.                                  *)

Become(q, at, out) == run' = [run EXCEPT ![q] = [@ EXCEPT !.at = at, !.out = out]]

Idle(q, at) == ~Gone /\ run[q].at = at /\ run[q].out = <<>>

StartRun(q) ==
  /\ Idle(q, "starting")
  /\ IF agent THEN Become(q, "running", <<>>) ELSE Become(q, "panicked", <<"note">>)
  /\ UNCHANGED <<loop, agent, keys, shown, pending, commands>>

(* What a run sends: a part of the answer, an error, a tool's call or result.   *)
Messages == {"chunk", "note", "tool"}

Emit(q) ==
  /\ Idle(q, "running") /\ run[q].left > 0
  /\ \E m \in Messages :
       run' = [run EXCEPT ![q] = [@ EXCEPT !.left = @ - 1, !.out = <<m>>]]
  /\ UNCHANGED <<loop, agent, keys, shown, pending, commands>>

(* The ConfirmationHandler, on the goroutine of the run.                      *)
Ask(q) ==
  /\ Idle(q, "running")
  /\ pending' = q /\ Become(q, "waiting", <<"show">>)
  /\ UNCHANGED <<loop, agent, keys, shown, commands>>

EndRun(q) ==
  /\ Idle(q, "running")
  /\ \/ Become(q, "ending", <<"done">>) \/ Become(q, "ending", <<"chunk", "done">>)
     \/ Become(q, "ending", <<"note", "failed">>) \/ Become(q, "panicked", <<"note">>)
  /\ UNCHANGED <<loop, agent, keys, shown, pending, commands>>

(* Without an agent, the demo ends in a conclusion or in a command preview.   *)
Demo(q) ==
  /\ Idle(q, "demo")
  /\ \/ Become(q, "ending", <<"chunk", "tool", "done">>)
     \/ Become(q, "proposing", <<"chunk", "preview">>)
  /\ UNCHANGED <<loop, agent, keys, shown, pending, commands>>

Ended(q) ==
  /\ Idle(q, "ending") /\ Become(q, "ended", <<>>)
  /\ UNCHANGED <<loop, agent, keys, shown, pending, commands>>

NilResult(q) ==
  /\ Idle(q, "panicked") /\ loop' = "crashed"
  /\ UNCHANGED <<agent, keys, shown, pending, run, commands>>

RunStep(q) ==
  \/ StartRun(q) \/ Emit(q) \/ EndRun(q) \/ Demo(q) \/ Ended(q) \/ NilResult(q)

AppendToLastAIMessage == "streaming"
FinishLastAIStreaming == IF answer = "streaming" THEN "finished" ELSE answer

(* Mutant: the event of an error is appended, and not finished.               *)
NoteStreams(m) ==
  CASE m \in {"chunk", "note"} -> AppendToLastAIMessage
    [] m = "done"              -> FinishLastAIStreaming
    [] OTHER                   -> answer

(* handleAIResponse and the others: a note is an error, appended and finished.*)
AfterMessage(m) ==
  CASE m = "chunk" -> AppendToLastAIMessage
    [] m = "note"  -> "finished"
    [] m = "done"  -> FinishLastAIStreaming
    [] OTHER       -> answer

(* Mutant: the modal takes every message.                                     *)
DeliverUnlessModal(q) ==
  /\ loop = "ready" /\ run[q].out # <<>> /\ modal = NoQuestion
  /\ answer'  = AfterMessage(Head(run[q].out))
  /\ modal'   = IF Head(run[q].out) = "show" THEN q ELSE modal
  /\ preview' = IF Head(run[q].out) = "preview" THEN q ELSE preview
  /\ run' = [run EXCEPT ![q].out = Tail(@)]
  /\ UNCHANGED <<loop, agent, keys, pending, commands>>

(* The loop takes what a run sends, whatever is on the screen.                *)
Deliver(q) ==
  /\ loop = "ready" /\ run[q].out # <<>>
  /\ answer'  = AfterMessage(Head(run[q].out))
  /\ modal'   = IF Head(run[q].out) = "show" THEN q ELSE modal
  /\ preview' = IF Head(run[q].out) = "preview" THEN q ELSE preview
  /\ run' = [run EXCEPT ![q].out = Tail(@)]
  /\ UNCHANGED <<loop, agent, keys, pending, commands>>

Handle(q) == HandleUserInput(q) \/ Deliver(q)

TerminalNext ==
  \/ Key \/ Initialised \/ \E c \in commands : TakeCommand(c)
  \/ \E q \in Questions : Handle(q) \/ Ask(q) \/ RunStep(q)

TerminalSpec == TerminalInit /\ [][TerminalNext]_terminalVars

(* Goroutines go on; the loop serves waiting senders in turn, also when       *)
(* initialisations keep it busy between messages.  A run of the agent goes on *)
(* as RunsReturn of AgentLoop has it, if no job it was told to run now holds  *)
(* it for ever.  Nobody has to press keys.                                    *)
FairTerminalSpec ==
  /\ TerminalSpec /\ WF_terminalVars(Initialised)
  /\ \A q \in Questions : WF_terminalVars(RunStep(q)) /\ SF_terminalVars(Handle(q))

-----------------------------------------------------------------------------
(* Properties                                                                 *)

(* Answers of several runs share one message, and only the last one to end    *)
(* finishes it: when all have ended, also by errors, the chat does not show   *)
(* an answer still streaming.  A demo that proposes a command leaves it so.   *)
StreamingSettles ==
  (\A q \in Questions : run[q].at \in {"new", "ended"}) => answer # "streaming"

(* Whatever popup the user leaves open, a submitted question ends, or asks    *)
(* for a confirmation: unless the program ends or the loop waits for itself.  *)
QuestionsEnd ==
  \A q \in Questions :
    run[q].at = "submitted" ~>
      \/ run[q].at \in {"ended", "waiting", "proposing"} /\ run[q].out = <<>>
      \/ loop = "sending" \/ Gone

(* "Enter confirms, Esc cancels" (confirmation_modal.go): the answer arrives. *)
ConfirmationsAnswered ==
  \A q \in Questions : loop = "sending" /\ modal = q ~> run[q].at # "waiting"
=============================================================================
