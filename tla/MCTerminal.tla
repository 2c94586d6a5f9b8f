----------------------------- MODULE MCTerminal -----------------------------
(***************************************************************************)
(* The terminal and its configuration panel for TLC: in one behaviour one  *)
(* of the two moves and the other stays in a single initial state.         *)
(***************************************************************************)
EXTENDS Terminal, ConfigPanel

VARIABLE part

MCVars == <<terminalVars, configVars, part>>

MCTerminalInit ==
  \/ part = "screen" /\ TerminalInit /\ ConfigInit /\ file = Empty
  \/ part = "panel" /\ TerminalInit /\ agent = TRUE /\ ConfigInit

MCTerminalNext ==
  \/ part = "screen" /\ TerminalNext /\ UNCHANGED <<configVars, part>>
  \/ part = "panel" /\ ConfigNext /\ UNCHANGED <<terminalVars, part>>

MCTerminalSpec ==
  /\ MCTerminalInit /\ [][MCTerminalNext]_MCVars
  /\ WF_terminalVars(part = "screen" /\ Initialised)
  /\ \A q \in Questions :
       WF_terminalVars(part = "screen" /\ RunStep(q)) /\ SF_terminalVars(part = "screen" /\ Handle(q))
=============================================================================
