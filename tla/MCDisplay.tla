------------------------------ MODULE MCDisplay ------------------------------
(* An instance of Display: Outer contains Mid, Mid contains Inner; Other is  *)
(* at the top level beside Outer and has no frame.                           *)
EXTENDS Display

MCProcs == {"Main", "Outer", "Mid", "Inner", "Other"}

MCChain == [p \in MCProcs |->
              CASE p = "Main"  -> <<"Main">>
                [] p = "Outer" -> <<"Main", "Outer">>
                [] p = "Mid"   -> <<"Main", "Outer", "Mid">>
                [] p = "Inner" -> <<"Main", "Outer", "Mid", "Inner">>
                [] p = "Other" -> <<"Main", "Other">>]

MCFrameSize == [p \in MCProcs |-> CASE p = "Other" -> 0
                                    [] p = "Mid"   -> 3
                                    [] OTHER       -> 2]
=============================================================================
