------------------------------- MODULE MCRJson -------------------------------
(* {"a": [1, {"b": "s"}, 2], "c": "s"} and "s".                               *)
EXTENDS RJson, TLC

MCTexts ==
  {<<>> :> "object" @@ <<1>> :> "array" @@ <<1, 1>> :> "scalar" @@ <<1, 2>> :> "object"
     @@ <<1, 2, 1>> :> "string" @@ <<1, 3>> :> "scalar" @@ <<2>> :> "string",
   <<>> :> "string"}

\* One userdata is as good as another, and all properties are invariants.
DocSymmetry == Permutations(Docs)
=============================================================================
