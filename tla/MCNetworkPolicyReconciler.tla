---------------------- MODULE MCNetworkPolicyReconciler ----------------------
(* Small instances of the network policy reconciler for TLC.               *)
EXTENDS NetworkPolicyReconciler

Only(p) == <<p>>
Both == <<"l1", "l2">>
TypoFirst == <<"typo", "l1">>

\* What an annotation or networkPolicies may say.
L1 == {Only("l1")}
L1orL2 == {Only("l1"), Only("l2")}
L2orBoth == {Only("l2"), Both}
L1orTypo == {Only("l1"), TypoFirst}
AnyOne == {Only(p) : p \in Names}

\* The KarydiaConfig at the start, with enforcement or without.
Default(setting) == {[names |-> setting, enforcement |-> e] : e \in BOOLEAN}
DefaultL1 == Default(Only("l1"))
UnenforcedL1 == {c \in DefaultL1 : ~c.enforcement}
UnenforcedBoth == {c \in Default(Both) : ~c.enforcement}
L1thenEnforcedTypo == UnenforcedL1 \cup {[names |-> TypoFirst, enforcement |-> TRUE]}
L1thenEnforcedL2 == UnenforcedL1 \cup {[names |-> Only("l2"), enforcement |-> TRUE]}

\* Every name has a template, or all but "typo".
AllDeployed == [p \in Names |-> "s1"]
AllButTypo == [p \in Names |-> IF p = "typo" THEN None ELSE "s1"]

SingleReplica == [w \in Workers |-> "r1"]
TwoReplicas == [w \in Workers |-> IF w \in {"ns1", "np1"} THEN "r1" ELSE "r2"]
=============================================================================
