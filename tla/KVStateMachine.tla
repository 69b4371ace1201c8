--------------------------- MODULE KVStateMachine ---------------------------
(***************************************************************************)
(* KVStateMachine of internal/server/state_machine.go as operators: what a *)
(* command does to the map and what it returns.  A map is a function from  *)
(* the keys that are present to their values.                              *)
(***************************************************************************)
EXTENDS Naturals, Sequences
LOCAL INSTANCE SequencesExt

CONSTANT Missing \* the zero value: no previous value

EmptyMap == [k \in {} |-> Missing]

Present(data, key) == key \in DOMAIN data

\* Get, and the lookups of Apply.
ValueOf(data, key) == IF Present(data, key) THEN data[key] ELSE Missing

With(data, key, value) ==
  [k \in DOMAIN data \cup {key} |-> IF k = key THEN value ELSE data[k]]

Without(data, key) == [k \in DOMAIN data \ {key} |-> data[k]]

\* Does a compare-and-swap find what it expects?
Swaps(data, command) ==
  Present(data, command.key) /\ data[command.key] = command.expected

\* The map after Apply.
Apply(data, command) ==
  CASE command.op = "put"    -> With(data, command.key, command.value)
    [] command.op = "delete" -> Without(data, command.key)
    [] command.op = "cas"    -> IF Swaps(data, command)
                                THEN With(data, command.key, command.value) ELSE data
    [] OTHER                 -> data

\* The ApplyResult that Apply returns.
Result(data, command) ==
  LET found == Present(data, command.key)
      old   == ValueOf(data, command.key)
  IN  CASE command.op = "put" ->
             [found |-> TRUE, value |-> command.value, swapped |-> FALSE]
        [] command.op = "delete" -> [found |-> found, value |-> old, swapped |-> FALSE]
        [] command.op = "cas" ->
             IF Swaps(data, command)
             THEN [found |-> TRUE, value |-> command.value, swapped |-> TRUE]
             ELSE [found |-> found, value |-> old, swapped |-> FALSE]
        [] OTHER -> [found |-> FALSE, value |-> Missing, swapped |-> FALSE]

\* The map after a sequence of commands, from the map data.
ApplyAll(data, commands) == FoldLeft(Apply, data, commands)
=============================================================================
