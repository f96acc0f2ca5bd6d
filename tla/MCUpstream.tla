------------------------------ MODULE MCUpstream ------------------------------
(* A registry with a model of each provider, a 4K route of Gemini's and a chain for TLC. *)
EXTENDS Upstream, TLC

MCBackend == ("g" :> "gemini") @@ ("g4" :> "gemini") @@ ("o" :> "openai") @@ ("w" :> "wan") @@ ("x" :> "xiangyun")
MCChain == <<"g", "blank", "w", "gone", "o">>
MCFourK == "g" :> "g4"
=============================================================================
