------------------------------ MODULE MCChain ------------------------------
(***************************************************************************)
(* Two middlewares share the head slot, so that one can be moved over the  *)
(* other; a third one hooks the responses.                                 *)
(***************************************************************************)
EXTENDS Chain, TLC

CONSTANTS shield, auth, obs

MCHandlers == {shield, auth, obs}

MCSlotOf == shield :> "head" @@ auth :> "head" @@ obs :> "tail"

MCRemovable == {shield, obs}

MCReplacements == {<<auth>>}
=============================================================================
