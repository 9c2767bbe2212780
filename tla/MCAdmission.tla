----------------------------- MODULE MCAdmission -----------------------------
(* Small instances of the admission requests for TLC.                      *)
EXTENDS Admission

TwoIndices == <<"0", "1">>
SomeKeys == {"0", "1", "app", "annotations", "containers", "securityContext",
             "runAsUser", "runAsGroup", "allowPrivilegeEscalation",
             "automountServiceAccountToken", "deletionTimestamp", Seccomp[2]}
                \cup {Internal[f] : f \in Features}

Say(seccomp, context, automount) ==
    [f \in Features |-> CASE f = "seccompProfile" -> seccomp
                          [] f = "podSecurityContext" -> context
                          [] OTHER -> automount]

\* With and without each feature, enforcement on and off.
TwoConfigs ==
    {[enforcement |-> FALSE, setting |-> Say("p1", "nobody", "change-default")],
     [enforcement |-> TRUE, setting |-> Say("p2", "nobody", "change-all")]}
ThreeConfigs ==
    TwoConfigs \cup {[enforcement |-> FALSE, setting |-> Say("", "none", "no-change")]}

Silent == Say(None, None, None)
OptOut == Say("", "none", "no-change")
OptIn == Say("p2", "nobody", "change-all")
SomeAnnotations == {Silent, OptOut, OptIn}

Own == Plain("own")

\* Documents put together from parts.
Document(parts) ==
    [path \in {<<>>} \cup UNION {DOMAIN p : p \in parts} |->
        IF path = <<>> THEN Braces
        ELSE LET p == CHOOSE p \in parts : path \in DOMAIN p IN p[path]]

At(path, doc) ==
    [q \in {path \o r : r \in DOMAIN doc} |-> doc[SubSeq(q, Len(path) + 1, Len(q))]]

Absent == [path \in {} |-> Braces]
Empty == Object([key \in {} |-> Own])

PodAnnotations ==
    {Absent, At(<<"annotations">>, Empty), At(<<"annotations">>, Object("app" :> Own)),
     At(<<"annotations">>, Object(Seccomp[2] :> Own))}
\* As a client copies them from elsewhere.
StrayRecords ==
    {At(<<"annotations">>, Object(Internal["seccompProfile"] :> Own)),
     At(<<"annotations">>, Object(Internal["seccompProfile"] :> Own @@ Seccomp[2] :> Own)),
     At(<<"annotations">>, Object(Internal["podSecurityContext"] :> Own))}
PodContexts ==
    {Absent, At(Context, Empty), At(Context, Object("runAsUser" :> Own)),
     At(Context, Object("runAsGroup" :> Own))}
PartsOf(i, context) ==
    {Scalar(Braces), At(<<"containers">>, Scalar(Braces)),
     At(<<"containers", i>>, Scalar(Braces)), context}
ContainerContext(i) ==
    {Absent, At(<<"containers", i, "securityContext">>, Empty),
     At(<<"containers", i, "securityContext">>, Object("allowPrivilegeEscalation" :> Own))}

Pod(n, doc) == [kind |-> "Pod", namespace |-> n, name |-> "pod", doc |-> doc]
Account(n, name, doc) ==
    [kind |-> "ServiceAccount", namespace |-> n, name |-> name, doc |-> doc]

OneContainer ==
    {Document({a, c} \cup PartsOf("0", Absent)) :
        a \in PodAnnotations \cup StrayRecords, c \in PodContexts}
TwoContainers ==
    {Document({At(Context, Empty)} \cup PartsOf("0", x) \cup PartsOf("1", y)) :
        x \in ContainerContext("0"), y \in ContainerContext("1")}
Accounts ==
    {Document({a, m}) :
        a \in {Absent, At(<<"annotations">>, Object("app" :> Own)),
               At(<<"annotations">>, Object(Internal["automountServiceAccountToken"] :> Own))},
        m \in {Absent, At(Automount, Scalar(Own))}}

\* Of kube-system, which only its settings tell apart, one pod and one account.
SomeObjects ==
    {Pod("n1", d) : d \in OneContainer \cup TwoContainers}
        \cup {Account("n1", name, d) : name \in {"default", "other"}, d \in Accounts}
        \cup {Pod("kube-system", Document({Scalar(Braces)})),
              Account("kube-system", "other", Document({Scalar(Braces)}))}

\* Pods that bring no record: without anything, and with all but the security
\* context of its container.
PlainPod == {Pod("n1", Document({At(Context, Empty)} \cup PartsOf("0", Absent)))}
ExplicitPod ==
    {Pod("n1", Document({At(<<"annotations">>, Object(Seccomp[2] :> Own)),
                         At(Context, Object("runAsUser" :> Own))}
                            \cup PartsOf("0", Absent)))}
=============================================================================
