----------------------------- MODULE MCScriptRuns -----------------------------
(* Instances of ScriptRuns for TLC. *)
EXTENDS ScriptRuns

Times == {1, 2, 4}
FirstScript == {<<d, s>> : d \in Devices, s \in {CHOOSE x \in Scripts : TRUE}}
=============================================================================
