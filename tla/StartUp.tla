-------------------------------- MODULE StartUp --------------------------------
(***************************************************************************)
(* The start of a run with a rule config (parse_args and run of            *)
(* src/ids/cli.py): the output options are checked, the rules are loaded,  *)
(* the outputs are checked again against the rule files, and only then are *)
(* the writers opened, which empties their files.  RuleEngine is the rest. *)
(***************************************************************************)
EXTENDS RuleEngine

CONSTANTS
  OutputChoices,  \* the files that the four output options may name
  Inputs          \* the rule config, and the file that the packets come from

OutputNames == <<"output", "flows_output", "matches_output", "rules_report">>

ASSUME OutputsAreNamed ==
  \A chosen \in OutputChoices : \A k \in 1..Len(OutputNames) : OutputNames[k] \in DOMAIN chosen

VARIABLES
  outputs,  \* the file of each output option
  listed,   \* history: the files that rule_files of the config names
  phase,    \* what the program is at
  opened,   \* how many writers have been opened
  emptied   \* history: the files that a writer has emptied

startUp == <<outputs, listed, phase, opened, emptied>>

Moves(from, to) == phase = from /\ phase' = to /\ UNCHANGED <<outputs, listed>>

\* parse_args: four different files, and none of the inputs.
ArgumentsClash ==
  \/ \E a, b \in DOMAIN outputs : a # b /\ outputs[a] = outputs[b]
  \/ \E a \in DOMAIN outputs : outputs[a] \in Inputs

ParseArguments ==
  /\ Moves("arguments", IF ArgumentsClash THEN "stopped" ELSE "load")
  /\ UNCHANGED <<vars, opened, emptied>>

LoadRules ==
  /\ Moves("load", "load")
  /\ ReadFile \/ IndexLine
  /\ UNCHANGED <<opened, emptied>>

\* _output_on_rule_file: the files that gave a rule line.
OutputOnRuleFile == \E a \in DOMAIN outputs : \E i \in DOMAIN lines : outputs[a] = lines[i].file

CheckOutputs ==
  /\ IsIndexed
  /\ Moves("load", IF OutputOnRuleFile THEN "stopped" ELSE "open")
  /\ UNCHANGED <<vars, opened, emptied>>

OpenWriter ==
  /\ opened < Len(OutputNames)
  /\ Moves("open", "open")
  /\ opened' = opened + 1
  /\ emptied' = emptied \cup {outputs[OutputNames[opened']]}
  /\ UNCHANGED vars

\* A file that cannot be opened ends the run; the outputs opened before it stay empty.
OpenFails ==
  /\ opened < Len(OutputNames)
  /\ Moves("open", "stopped")
  /\ UNCHANGED <<vars, opened, emptied>>

Report ==
  /\ opened = Len(OutputNames)
  /\ Moves("open", "run")
  /\ WriteReport
  /\ UNCHANGED <<opened, emptied>>

Run == Moves("run", "run") /\ Evaluate /\ UNCHANGED <<opened, emptied>>

StartInit ==
  /\ Init
  /\ outputs \in OutputChoices
  /\ listed = {files[i].path : i \in DOMAIN files}
  /\ phase = "arguments" /\ opened = 0 /\ emptied = {}

StartNext ==
  ParseArguments \/ LoadRules \/ CheckOutputs \/ OpenWriter \/ OpenFails \/ Report \/ Run

StartSpec == StartInit /\ [][StartNext]_<<vars, startUp>>
-------------------------------------------------------------------------------
\* The two checks in front of the writers (parse_args, _output_on_rule_file): no writer empties an input of the
\* run or a file that a rule line was read from.
UsedFilesAreSpared == emptied \cap (Inputs \cup {lines[i].file : i \in DOMAIN lines}) = {}

\* README, Options: "An output file cannot be one of the rule files": no writer empties a file that the rule
\* config lists.
RuleFilesAreSpared == emptied \cap listed = {}
===============================================================================
