------------------------------- MODULE Cluster -------------------------------
(***************************************************************************)
(* What surrounds the network policy reconciler: the objects at the API    *)
(* server, the watches by which the informers of every replica of karydia  *)
(* follow them, and what other parties do to them.  The API server is not  *)
(* part of karydia; it is modelled from how                                *)
(* pkg/controller/networkpolicy_reconciler.go calls it.                    *)
(***************************************************************************)
EXTENDS Naturals, Sequences

CONSTANTS
    None,
    Namespaces,   \* names of namespaces
    Names,        \* names of network policies, of templates or not
    Specs,        \* contents of network policies
    Settings,     \* values of an annotation or of networkPolicies, split at ";"
    Configs,      \* specs of the KarydiaConfig: [names, enforcement]
    InitialTemplates,   \* the KarydiaNetworkPolicies deployed with karydia
    Replicas,     \* processes of karydia: no leader is elected among them
    Environment,  \* the kinds of changes other parties make
    MaxChanges    \* bound: how many changes other parties make

INSTANCE Informers

PolicyKeys == Namespaces \X Names

ASSUME SettingsAssumption ==
    Settings \subseteq Seq(Names) \ {<<>>}    \* strings.Split is never empty

ASSUME ConfigAssumption ==
    Configs \subseteq [names : Settings, enforcement : BOOLEAN]

ASSUME TemplateAssumption == InitialTemplates \in [Names -> Specs \cup {None}]

ASSUME NoneAssumption ==
    /\ None \notin Namespaces /\ None \notin PolicyKeys /\ None \notin Names
    /\ None \notin Specs /\ None \notin Settings /\ None \notin Configs

ASSUME BoundAssumption == MaxChanges \in Nat

VARIABLES
    namespace,    \* the namespaces: None, or their phase and annotation
    policy,       \* the NetworkPolicies: None, or their spec and the source
                  \* their networkPolicy.internal annotation names
    template,     \* the KarydiaNetworkPolicies: None, or their spec
    config,       \* the spec of the KarydiaConfig
    namespaceStream,   \* by replica: the changes of a namespace on their way
    policyStream,      \* by replica: the changes of a policy on their way
    namespacesLister,     \* by replica: the informer's cache of namespaces
    networkPolicyLister,  \* by replica: the informer's cache of policies
    up,           \* the replicas that run
    changes       \* how many changes other parties have made

objects == <<namespace, policy, template, config>>
streams == <<namespaceStream, policyStream>>
listers == <<namespacesLister, networkPolicyLister>>

Phases == {"Active", "Terminating"}
Sources == {"config", "namespace"}

NamespaceObjects == [phase : Phases, annotation : Settings \cup {None}]
PolicyObjects == [spec : Specs, source : Sources \cup {None}]

ASSUME ObjectAssumption == None \notin NamespaceObjects /\ None \notin PolicyObjects

ClusterTypeOK ==
    /\ namespace \in [Namespaces -> NamespaceObjects \cup {None}]
    /\ policy \in [PolicyKeys -> PolicyObjects \cup {None}]
    /\ template \in [Names -> Specs \cup {None}]
    /\ config \in Configs
    /\ namespaceStream \in [Replicas -> [Namespaces -> Seq(Events(NamespaceObjects))]]
    /\ policyStream \in [Replicas -> [PolicyKeys -> Seq(Events(PolicyObjects))]]
    /\ namespacesLister \in [Replicas -> [Namespaces -> NamespaceObjects \cup {None}]]
    /\ networkPolicyLister \in [Replicas -> [PolicyKeys -> PolicyObjects \cup {None}]]
    /\ up \in SUBSET Replicas
    /\ changes \in 0..MaxChanges

\* Nothing runs yet; karydia is going to be installed in a cluster with any
\* of its namespaces, none of them annotated and none with a policy.
ClusterInit ==
    /\ namespace \in [Namespaces ->
                        {None, [phase |-> "Active", annotation |-> None]}]
    /\ policy = [k \in PolicyKeys |-> None]
    /\ template = InitialTemplates
    /\ config \in Configs
    /\ namespaceStream = [r \in Replicas |-> [n \in Namespaces |-> <<>>]]
    /\ policyStream = [r \in Replicas |-> [k \in PolicyKeys |-> <<>>]]
    /\ namespacesLister = [r \in Replicas |-> [n \in Namespaces |-> None]]
    /\ networkPolicyLister = [r \in Replicas |-> [k \in PolicyKeys |-> None]]
    /\ up = {}
    /\ changes = 0

----------------------------------------------------------------------------
(* Writes.  Every change of an object goes to the watches that are open.   *)

Published(stream, k, v) ==
    [r \in Replicas |->
        IF r \in up
        THEN [stream[r] EXCEPT ![k] = Append(@, Watched(v))]
        ELSE stream[r]]

PutNamespace(n, v) ==
    /\ namespace' = [namespace EXCEPT ![n] = v]
    /\ namespaceStream' = Published(namespaceStream, n, v)

\* A write that changes nothing is not a change.
PutPolicy(k, v) ==
    /\ policy' = [policy EXCEPT ![k] = v]
    /\ policyStream' = IF policy[k] = v THEN policyStream
                                        ELSE Published(policyStream, k, v)

Active(n) == namespace[n] # None /\ namespace[n].phase = "Active"

----------------------------------------------------------------------------
(* What other parties do, at most MaxChanges times.                        *)

Change(kind) ==
    /\ kind \in Environment
    /\ changes < MaxChanges
    /\ changes' = changes + 1

CreateNamespace(n, a) ==
    /\ Change("CreateNamespace")
    /\ namespace[n] = None
    /\ PutNamespace(n, [phase |-> "Active", annotation |-> a])
    /\ UNCHANGED <<policy, template, config, policyStream, listers, up>>

AnnotateNamespace(n, a) ==
    /\ Change("AnnotateNamespace")
    /\ Active(n)
    /\ namespace[n].annotation # a
    /\ PutNamespace(n, [namespace[n] EXCEPT !.annotation = a])
    /\ UNCHANGED <<policy, template, config, policyStream, listers, up>>

TerminateNamespace(n) ==
    /\ Change("TerminateNamespace")
    /\ Active(n)
    /\ PutNamespace(n, [namespace[n] EXCEPT !.phase = "Terminating"])
    /\ UNCHANGED <<policy, template, config, policyStream, listers, up>>

\* The namespace controller of Kubernetes empties a terminating namespace
\* and then removes it.
EmptyNamespace(k) ==
    /\ namespace[k[1]] # None /\ namespace[k[1]].phase = "Terminating"
    /\ policy[k] # None
    /\ PutPolicy(k, None)
    /\ UNCHANGED <<namespace, template, config, namespaceStream, listers, up, changes>>

RemoveNamespace(n) ==
    /\ namespace[n] # None /\ namespace[n].phase = "Terminating"
    /\ \A p \in Names : policy[<<n, p>>] = None
    /\ PutNamespace(n, None)
    /\ UNCHANGED <<policy, template, config, policyStream, listers, up, changes>>

CreatePolicy(k, s) ==
    /\ Change("CreatePolicy")
    /\ Active(k[1]) /\ policy[k] = None
    /\ PutPolicy(k, [spec |-> s, source |-> None])
    /\ UNCHANGED <<namespace, template, config, namespaceStream, listers, up>>

ModifyPolicy(k, s) ==
    /\ Change("ModifyPolicy")
    /\ policy[k] # None /\ policy[k].spec # s
    /\ PutPolicy(k, [policy[k] EXCEPT !.spec = s])
    /\ UNCHANGED <<namespace, template, config, namespaceStream, listers, up>>

DeletePolicy(k) ==
    /\ Change("DeletePolicy")
    /\ policy[k] # None
    /\ PutPolicy(k, None)
    /\ UNCHANGED <<namespace, template, config, namespaceStream, listers, up>>

ChangeTemplate(p, s) ==
    /\ Change("ChangeTemplate")
    /\ template[p] # s
    /\ template' = [template EXCEPT ![p] = s]
    /\ UNCHANGED <<namespace, policy, config, streams, listers, up>>

ChangeConfig(c) ==
    /\ Change("ChangeConfig")
    /\ config # c
    /\ config' = c
    /\ UNCHANGED <<namespace, policy, template, streams, listers, up>>

----------------------------------------------------------------------------
(* A watch breaks and the informer lists again.                            *)

BreakNamespaceWatch(r, n, kept) ==
    /\ Change("BreakWatch")
    /\ kept < Len(namespaceStream[r][n])
    /\ namespaceStream' = [namespaceStream EXCEPT ![r][n] =
                             Relisted(@, kept, namespacesLister[r][n], namespace[n])]
    /\ UNCHANGED <<objects, policyStream, listers, up>>

BreakPolicyWatch(r, k, kept) ==
    /\ Change("BreakWatch")
    /\ kept < Len(policyStream[r][k])
    /\ policyStream' = [policyStream EXCEPT ![r][k] =
                          Relisted(@, kept, networkPolicyLister[r][k], policy[k])]
    /\ UNCHANGED <<objects, namespaceStream, listers, up>>

OtherParties ==
    \/ \E n \in Namespaces :
          \/ \E a \in Settings \cup {None} : CreateNamespace(n, a) \/ AnnotateNamespace(n, a)
          \/ TerminateNamespace(n)
          \/ RemoveNamespace(n)
          \/ \E r \in Replicas : \E kept \in 0..Len(namespaceStream[r][n]) :
                BreakNamespaceWatch(r, n, kept)
    \/ \E k \in PolicyKeys :
          \/ \E s \in Specs : CreatePolicy(k, s) \/ ModifyPolicy(k, s)
          \/ DeletePolicy(k)
          \/ EmptyNamespace(k)
          \/ \E r \in Replicas : \E kept \in 0..Len(policyStream[r][k]) :
                BreakPolicyWatch(r, k, kept)
    \/ \E p \in Names, s \in Specs \cup {None} : ChangeTemplate(p, s)
    \/ \E c \in Configs : ChangeConfig(c)

=============================================================================
