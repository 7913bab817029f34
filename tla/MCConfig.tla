------------------------------ MODULE MCConfig ------------------------------
(***************************************************************************)
(* The upstream, a key of the base, and the switch of a plugin, registered *)
(* later.  Files may name neither, one or both.                            *)
(***************************************************************************)
EXTENDS Config

Says(u, s) == [k \in Keys |-> IF k = UpstreamKey THEN u ELSE s]

MCFileInputs == {Says(None, None), Says("v2", "v1"), Says("v1", None)}

MCEnvInputs == {Says(None, None), Says("v2", None)}

MCArgInputs == {Says(None, None), Says("v1", None), Says(None, Switch)}

OnlyEnvFile == <<".env">>

=============================================================================
