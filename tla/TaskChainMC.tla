------------------------------ MODULE TaskChainMC ------------------------------
(* Small instances of TaskChain for TLC. *)
EXTENDS TaskChain, TLC

CONSTANTS f1, f2, last, s, c1, c2, k1, r1

TwoFunctors == <<f1, f2>>
TheirHolders == (f1 :> c1) @@ (f2 :> c2)
SecondMayHandle == {k \in [{f1, f2} -> {"auto", "handlesExceptions"}] : k[f1] = "auto"}
SecondOrNot == {w \in [{f1, f2} -> BOOLEAN] : w[f1]}
=============================================================================
