----------------------------- MODULE ConfigPanel -----------------------------
(***************************************************************************)
(* The list of LLM providers in its three places: the file of              *)
(* pkg/config/llm_config.go, the configuration in memory, and the copy the *)
(* configuration panel (pkg/tui/components/config_panel.go) edits.  The    *)
(* panel hands its own slice to SaveLLMConfig, so that after a save the    *)
(* two are one; RemoveProvider changes the memory before it saves.  A save *)
(* may fail before it touches the file or after it has truncated it, and   *)
(* a file that cannot be read counts as an empty one.                      *)
(***************************************************************************)
EXTENDS Naturals, Sequences

CONSTANTS
  Names,        (* names of providers; the other fields tell nothing apart     *)
  NoName,       (* no current provider                                         *)
  MaxProviders  (* bound: the length of the list                               *)

ASSUME ConfigConstants == NoName \notin Names /\ MaxProviders \in Nat

VARIABLES
  file,      (* the configuration on disk: the providers, the current one      *)
  memory,    (* llmConfigInstance                                              *)
  list,      (* the panel's providers                                          *)
  shared,    (* the panel's slice is the memory's                              *)
  mode,      (* the panel: hidden, or its mode                                 *)
  index,     (* currentIndex + 1                                               *)
  selected,  (* selectedIndex + 1                                              *)
  savedMsg,  (* a ConfigSavedMsg is on its way                                 *)
  asked,     (* history: the names the user has asked to remove                *)
  torn       (* history: a write failed midway, or the file could not be read  *)

configVars == <<file, memory, list, shared, mode, index, selected, savedMsg, asked, torn>>

Empty == [list |-> <<>>, current |-> NoName]
Config(l, n) == [list |-> l, current |-> n]
InList(l) == {l[i] : i \in 1..Len(l)}

(* LoadLLMConfig found what an earlier process saved.                         *)
ConfigInit ==
  /\ \/ file = Empty
     \/ \E n \in Names : file = Config(<<n>>, n)
     \/ \E m, n \in Names : file = Config(<<m, n>>, n)
  /\ memory = file /\ list = <<>> /\ shared = FALSE
  /\ mode = "hidden" /\ index = 1 /\ selected = 0 /\ savedMsg = FALSE
  /\ asked = {} /\ torn = FALSE

-----------------------------------------------------------------------------
(* LoadLLMConfig and saveLLMConfigLocked.                                     *)

(* Too wide permissions, a symbolic link, no access; and no API key in the    *)
(* environment to make a configuration of.                                    *)
Unreadable == memory' = Empty /\ torn' = TRUE

Load == (memory' = file /\ torn' = torn) \/ Unreadable

Saves(c) == file' = c /\ torn' = torn
SaveFails ==
  \/ file' = file /\ torn' = torn
  \/ file' = Empty /\ torn' = TRUE

(* reinitAgentLoop: the user's reload, or the panel's ConfigSavedMsg.         *)
ReloadConfig ==
  /\ mode = "hidden" /\ Load /\ shared' = FALSE
  /\ UNCHANGED <<file, list, mode, index, selected, savedMsg, asked>>

ConfigSaved ==
  /\ mode # "panicked" /\ savedMsg /\ savedMsg' = FALSE
  /\ mode' = "hidden" /\ Load /\ shared' = FALSE
  /\ UNCHANGED <<file, list, index, selected, asked>>

-----------------------------------------------------------------------------
(* The panel.                                                                 *)

(* Mutant: the providers are loaded by the reload key only.                   *)
ShowUnloaded ==
  /\ mode = "hidden" /\ mode' = "list" /\ index' = 1
  /\ UNCHANGED <<file, memory, list, shared, selected, savedMsg, asked, torn>>

Show ==
  /\ mode = "hidden" /\ mode' = "list" /\ index' = 1
  /\ list' = memory.list /\ shared' = FALSE
  /\ UNCHANGED <<file, memory, selected, savedMsg, asked, torn>>

(* Esc leaves a form for the list, and the list for the chat.                 *)
Leave ==
  /\ mode \notin {"hidden", "panicked"} /\ mode' = IF mode = "list" THEN "hidden" ELSE "list"
  /\ UNCHANGED <<file, memory, list, shared, index, selected, savedMsg, asked, torn>>

Move ==
  /\ mode = "list"
  /\ \/ index > 1 /\ index' = index - 1
     \/ index < Len(list) /\ index' = index + 1
  /\ UNCHANGED <<file, memory, list, shared, mode, selected, savedMsg, asked, torn>>

(* loadProviders leaves the index where it is.                                *)
LoadProviders ==
  /\ mode = "list" /\ list' = memory.list /\ shared' = FALSE
  /\ UNCHANGED <<file, memory, mode, index, selected, savedMsg, asked, torn>>

OpenForm ==
  /\ mode = "list"
  /\ \/ list # <<>> /\ mode' = "edit" /\ selected' = index
     \/ mode' = "add" /\ selected' = 0
  /\ UNCHANGED <<file, memory, list, shared, index, savedMsg, asked, torn>>

Saved(l, n) ==
  /\ Saves(Config(l, n)) /\ memory' = Config(l, n)
  /\ shared' = TRUE /\ mode' = "list" /\ savedMsg' = TRUE

SaveChoice ==
  /\ mode = "list" /\ index \in 1..Len(list)
  /\ \/ Saved(list, list[index])
     \/ SaveFails /\ UNCHANGED <<memory, shared, mode, savedMsg>>
  /\ UNCHANGED <<list, index, selected, asked>>

(* The entry is changed in place, before anything is saved: in the memory too *)
(* if it has the slice, which an append that was not saved has outgrown.      *)
SaveEdit(n) ==
  /\ mode = "edit" /\ selected \in 1..Len(list)
  /\ list' = [list EXCEPT ![selected] = n]
  /\ \/ Saved(list', n) /\ asked' = (asked \cup {list[selected]}) \ {n}
     \/ /\ SaveFails /\ UNCHANGED <<shared, mode, savedMsg>>
        /\ asked' = asked \cup {list[selected]}
        /\ memory' = IF shared /\ selected <= Len(memory.list)
                      THEN [memory EXCEPT !.list[selected] = n] ELSE memory
  /\ UNCHANGED <<index, selected>>

(* The entry is appended before it is saved, and again when that is retried;  *)
(* append may move the slice.                                                 *)
SaveAdd(n) ==
  /\ mode = "add" /\ Len(list) < MaxProviders
  /\ list' = Append(list, n) /\ index' = Len(list) + 1
  /\ \/ Saved(list', n) /\ asked' = asked \ {n}
     \/ SaveFails /\ shared' \in {shared, FALSE} /\ UNCHANGED <<memory, mode, savedMsg, asked>>
  /\ UNCHANGED selected

Others(l, n) ==
  LET kept[i \in 0..Len(l)] ==
        IF i = 0 THEN <<>>
        ELSE IF l[i] # n THEN Append(kept[i - 1], l[i]) ELSE kept[i - 1]
  IN  kept[Len(l)]

WithoutProvider(n) ==
  LET rest == Others(memory.list, n)
  IN  Config(rest, IF memory.current # n THEN memory.current
                   ELSE IF rest # <<>> THEN rest[1] ELSE NoName)

DeleteProvider ==
  /\ mode = "list" /\ index \in 1..Len(list)
  /\ memory' = WithoutProvider(list[index])
  /\ asked' = asked \cup {list[index]} /\ shared' = FALSE
  /\ \/ /\ Saves(memory') /\ savedMsg' = TRUE
        /\ list' = memory'.list
        /\ index' = IF index <= Len(list') THEN index ELSE IF list' = <<>> THEN 1 ELSE Len(list')
     \/ SaveFails /\ UNCHANGED <<list, index, savedMsg>>
  /\ UNCHANGED <<mode, selected>>

(* The index of a provider that could not be saved, after a reload.           *)
DeletePanics ==
  /\ mode = "list" /\ list # <<>> /\ index > Len(list)
  /\ mode' = "panicked"
  /\ UNCHANGED <<file, memory, list, shared, index, selected, savedMsg, asked, torn>>

ConfigNext ==
  \/ DeletePanics \/ ReloadConfig \/ ConfigSaved \/ Show \/ Leave \/ Move \/ LoadProviders \/ OpenForm
  \/ SaveChoice \/ DeleteProvider \/ \E n \in Names : SaveEdit(n) \/ SaveAdd(n)

ConfigSpec == ConfigInit /\ [][ConfigNext]_configVars

-----------------------------------------------------------------------------
(* Properties                                                                 *)

(* A provider leaves the file only when the user has deleted or renamed it,   *)
(* through failed saves, retries, reloads and the slice that panel and memory *)
(* share; unless a write failed midway or the file could not be read, after   *)
(* which the next save forgets what it held.                                  *)
SavedStays ==
  [][\A n \in InList(file.list) \ InList(file'.list) : n \in asked' \/ torn']_configVars
=============================================================================
