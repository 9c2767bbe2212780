------------------------------ MODULE Admission ------------------------------
(***************************************************************************)
(* A pod or service account on its way through karydia's webhooks: the API *)
(* server has it changed by one replica of karydia, validated by another,  *)
(* and stores it (pkg/webhook/webhook.go, pkg/admission/karydia).  While a *)
(* replica works on a review its config may be replaced, and it looks at   *)
(* the config several times.                                               *)
(*                                                                         *)
(* Requests share nothing but the config and the namespaces, which they    *)
(* only read, so one request at a time is followed.  What the API server   *)
(* does is modelled from the webhook configurations in                     *)
(* install/charts/templates/configure-karydia-webhook.sh.tpl: both         *)
(* webhooks, CREATE and UPDATE, failurePolicy Ignore.                      *)
(***************************************************************************)
EXTENDS AdmissionOps

CONSTANTS
    None,
    Replicas,     \* processes of karydia
    Namespaces,
    Values,       \* what a feature can be set to, "" included
    Configs,      \* specs of the KarydiaConfig: [enforcement, setting]
    Annotations,  \* what a namespace says of the features: a value or None
    Objects,      \* what clients create: [kind, namespace, name, doc]
    MaxRequests,  \* bound: how many objects are created or updated
    MaxChanges,   \* bound: how often configs or annotations change
    MaxFaults     \* bound: how many calls fail

ASSUME ValuesAssumption == "" \in Values /\ None \notin Values
ASSUME ConfigsAssumption ==
    Configs \subseteq [enforcement : BOOLEAN, setting : [Features -> Values]]
ASSUME AnnotationsAssumption ==
    Annotations \subseteq [Features -> Values \cup {None}]

\* What a handler finds a feature set to, and where.
Settings == [src : {"config", "namespace"}, value : Values]

ASSUME SettingsAssumption == None \notin Settings

IsObject(o) ==
    /\ o = [kind |-> o.kind, namespace |-> o.namespace, name |-> o.name, doc |-> o.doc]
    /\ o.kind \in {"Pod", "ServiceAccount"}
    /\ o.namespace \in Namespaces

\* The annotations are a map of strings.
WellFormed(doc) ==
    /\ IsDocument(doc)
    /\ Has(doc, <<"annotations">>) => doc[<<"annotations">>] = Braces
    /\ \A path \in DOMAIN doc : IsStrictPrefix(<<"annotations">>, path) => Len(path) = 2

ASSUME ObjectsAssumption == \A o \in Objects : IsObject(o)
ASSUME DocumentsAssumption == \A o \in Objects : WellFormed(o.doc)
ASSUME BoundAssumption ==
    MaxRequests \in Nat /\ MaxChanges \in Nat /\ MaxFaults \in Nat

VARIABLES
    karydiaConfig,  \* by replica
    annotations,    \* by namespace
    stage,          \* how far the request is at the API server
    submitted,      \* the document as the client sent it
    object,         \* the object under review, or stored
    replica,        \* the replica that is called
    step,           \* where its handler is
    namespace,      \* what the handler has read of the namespace
    todo,           \* the features it has yet to look at
    settings,       \* by feature: what it has found
    patches,        \* what it has to change
    errors,         \* the features it has found an error in
    mutated,        \* for the properties: the settings of the last mutation
    current,        \* for the properties: the configs during this call
    requests, changes, faults

server == <<stage, submitted, object, mutated>>
found == <<settings, patches, errors>>
handler == <<replica, step, namespace, todo, found>>
vars == <<karydiaConfig, annotations, server, handler, current,
          requests, changes, faults>>

Stages == {"idle", "mutating", "validating", "stored", "refused"}
Steps == {"none", "received", "namespace", "decide", "take", "respond"}
Found == [Features -> Settings \cup {None}]
Nothing == [f \in Features |-> None]

TypeOK ==
    /\ karydiaConfig \in [Replicas -> Configs]
    /\ annotations \in [Namespaces -> Annotations]
    /\ stage \in Stages
    /\ IsObject(object)
    /\ replica \in Replicas
    /\ step \in Steps
    /\ namespace \in Annotations \cup {None}
    /\ todo \in Seq(Features)
    /\ settings \in Found /\ mutated \in Found
    /\ errors \in SUBSET Features
    /\ current \in SUBSET Configs
    /\ requests \in 0..MaxRequests /\ changes \in 0..MaxChanges /\ faults \in 0..MaxFaults

Init ==
    /\ \E c \in Configs : karydiaConfig = [r \in Replicas |-> c]
    /\ annotations \in [Namespaces -> Annotations]
    /\ stage = "idle"
    /\ object \in Objects
    /\ submitted = object.doc
    /\ replica \in Replicas
    /\ step = "none"
    /\ namespace = None /\ todo = <<>>
    /\ settings = Nothing /\ patches = <<>> /\ errors = {}
    /\ mutated = Nothing
    /\ current = {}
    /\ requests = 0 /\ changes = 0 /\ faults = 0

----------------------------------------------------------------------------
(* The API server                                                          *)

\* The variables of a handler end with it.
Fresh ==
    /\ namespace' = None /\ todo' = <<>>
    /\ settings' = Nothing /\ patches' = <<>> /\ errors' = {}

Call(s) ==
    /\ stage' = s
    /\ replica' \in Replicas
    /\ step' = "received"
    /\ current' = {karydiaConfig[replica']}
    /\ Fresh

End(s) ==
    /\ stage' = s
    /\ step' = "none"
    /\ current' = {}
    /\ Fresh
    /\ UNCHANGED replica

\* A call that is answered with "allowed", or ignored, is followed by the next.
Proceed == IF stage = "mutating" THEN Call("validating") ELSE End("stored")

Request ==
    /\ requests < MaxRequests
    /\ requests' = requests + 1
    /\ Call("mutating")
    /\ UNCHANGED <<karydiaConfig, annotations, changes, faults>>

Create ==
    /\ stage = "idle"
    /\ Request
    /\ UNCHANGED <<submitted, object, mutated>>

\* Anybody, such as the kubelet, writes the object back as it is.
Rewrite ==
    /\ stage = "stored"
    /\ Request
    /\ submitted' = object.doc
    /\ UNCHANGED <<object, mutated>>

\* What else a client can make of an object: it takes annotations away, or
\* what a service account says of its token; it says which profile it wants,
\* whatever karydia has recorded; or it has deleted the object, which waits
\* for its finalizers.
Edits(doc) ==
    LET Removed == {<<"annotations">>, Seccomp, Automount} \cup {Record(f) : f \in Features}
        Given == {DeletionTimestamp} \cup {path \in {Seccomp} : Has(doc, Front(path))}
    IN  {Without(doc, path) : path \in Removed}
            \cup {Added(doc, Add(path, Scalar(Plain("own")))) : path \in Given}

Edit ==
    /\ stage = "stored"
    /\ Request
    /\ submitted' \in Edits(object.doc)
    /\ object' = [object EXCEPT !.doc = submitted']
    /\ mutated' = Nothing

\* The webhook is not reached, answers with an HTTP error or too late, or
\* the handler panics: failurePolicy Ignore.
Unanswered ==
    /\ step # "none"
    /\ faults < MaxFaults
    /\ faults' = faults + 1
    /\ Proceed
    /\ UNCHANGED <<karydiaConfig, annotations, submitted, object, mutated, requests, changes>>

----------------------------------------------------------------------------
(* The handler: Webhook.Serve with the one plugin that runserver registers *)

Quiet == UNCHANGED <<karydiaConfig, annotations, requests, changes>>

\* A variant that asks about terminating pods as about others.
ReceiveAll ==
    /\ step = "received"
    /\ step' = "namespace"
    /\ UNCHANGED <<server, replica, namespace, todo, found, current, faults>>
    /\ Quiet

\* A terminating pod is let through.
Receive ==
    /\ step = "received"
    /\ IF IsTerminating(object)
       THEN Proceed
       ELSE /\ step' = "namespace"
            /\ UNCHANGED <<stage, replica, namespace, todo, found, current>>
    /\ UNCHANGED <<submitted, object, mutated, faults>>
    /\ Quiet

\* getNamespaceFromAdmissionRequest; its error is an answer, and refuses.
GetNamespace ==
    /\ step = "namespace"
    /\ namespace' = annotations[object.namespace]
    /\ todo' = Asked(object.kind)
    /\ step' = "decide"
    /\ UNCHANGED <<server, replica, found, current, faults>>
    /\ Quiet

GetNamespaceFails ==
    /\ step = "namespace"
    /\ faults < MaxFaults
    /\ faults' = faults + 1
    /\ End("refused")
    /\ UNCHANGED <<submitted, object, mutated>>
    /\ Quiet

\* Variants that do not ask whether there is an annotation, or enforcement.
AnnotatedOrNot(f, annotated, name, config) ==
    name = "kube-system" \/ ~config.enforcement
Annotated(f, annotated, name, config) == annotated[f] # None

\* Whether the annotation of the namespace decides over a feature.
FromNamespace(f, annotated, name, config) ==
    /\ annotated[f] # None
    /\ name = "kube-system" \/ ~config.enforcement

\* What the handler does with a setting.
Use(f, setting) ==
    /\ settings' = [settings EXCEPT ![f] = setting]
    /\ IF stage = "mutating"
       THEN /\ patches' = Mutate(f, object, setting, patches)
            /\ UNCHANGED errors
       ELSE /\ errors' = IF Invalid(f, object, setting) THEN errors \cup {f} ELSE errors
            /\ UNCHANGED patches
    /\ todo' = Tail(todo)
    /\ step' = IF Tail(todo) = <<>> THEN "respond" ELSE "decide"

\* The first look at the config: at its enforcement.
Decide ==
    /\ step = "decide"
    /\ LET f == Head(todo)
       IN  IF FromNamespace(f, namespace, object.namespace, karydiaConfig[replica])
           THEN Use(f, [src |-> "namespace", value |-> namespace[f]])
           ELSE step' = "take" /\ UNCHANGED <<todo, found>>
    /\ UNCHANGED <<server, replica, namespace, current, faults>>
    /\ Quiet

\* The second: at its value, which may be that of another config.
Take ==
    /\ step = "take"
    /\ LET f == Head(todo)
       IN  Use(f, [src |-> "config", value |-> karydiaConfig[replica].setting[f]])
    /\ UNCHANGED <<server, replica, namespace, current, faults>>
    /\ Quiet

\* The API server applies the patches, or fails the request.  No patches are
\* sent as "null", which changes nothing.
RespondMutating ==
    /\ step = "respond"
    /\ stage = "mutating"
    /\ LET result == Patched(object.doc, patches)
       IN  IF result.ok
           THEN /\ object' = [object EXCEPT !.doc = result.doc]
                /\ mutated' = settings
                /\ Proceed
           ELSE /\ UNCHANGED <<object, mutated>>
                /\ End("refused")
    /\ UNCHANGED <<submitted, faults>>
    /\ Quiet

RespondValidating ==
    /\ step = "respond"
    /\ stage = "validating"
    /\ IF errors = {} THEN Proceed ELSE End("refused")
    /\ UNCHANGED <<submitted, object, mutated, faults>>
    /\ Quiet

----------------------------------------------------------------------------
(* What else happens                                                       *)

\* The config reconciler of a replica hands over another config.
UpdateConfig(r) ==
    /\ changes < MaxChanges
    /\ changes' = changes + 1
    /\ \E c \in Configs :
          /\ karydiaConfig' = [karydiaConfig EXCEPT ![r] = c]
          /\ current' = IF r = replica /\ step # "none" THEN current \cup {c} ELSE current
    /\ UNCHANGED <<annotations, server, handler, requests, faults>>

AnnotateNamespace(n) ==
    /\ changes < MaxChanges
    /\ changes' = changes + 1
    /\ \E a \in Annotations : annotations' = [annotations EXCEPT ![n] = a]
    /\ UNCHANGED <<karydiaConfig, server, handler, current, requests, faults>>

Next ==
    \/ Create \/ Rewrite \/ Edit \/ Unanswered
    \/ Receive \/ GetNamespace \/ GetNamespaceFails
    \/ Decide \/ Take \/ RespondMutating \/ RespondValidating
    \/ \E r \in Replicas : UpdateConfig(r)
    \/ \E n \in Namespaces : AnnotateNamespace(n)

Spec == Init /\ [][Next]_vars

----------------------------------------------------------------------------
(* Properties                                                              *)

(***************************************************************************)
(* Every operation of a patch finds what it adds to, also the second       *)
(* annotation of a pod that had none: annotatePod (admission_pod.go:177).  *)
(***************************************************************************)
PatchesApply ==
    step = "respond" /\ stage = "mutating" => Patched(object.doc, patches).ok

(***************************************************************************)
(* Mutation and validation, perhaps by different replicas with different   *)
(* configs, agree: an object that was mutated is found invalid only by a   *)
(* setting other than the one it was mutated by ("Zero validation errors   *)
(* expected for mutated pod", seccomp_test.go).                            *)
(***************************************************************************)
MutatedIsValid ==
    \A f \in errors : mutated[f] # settings[f]

(***************************************************************************)
(* Mutation leaves an object as secure as its settings ask for, whatever   *)
(* of it the client had given (docs/features.md:59-69).                    *)
(***************************************************************************)
Meets(f, setting) ==
    /\ ~Invalid(f, object, setting)
    /\ f = "podSecurityContext" /\ setting.value = "nobody" =>
         \A k \in Containers(object.doc) :
            ~MayEscalate(object.doc, ContextOf(Indices[k]))

MutatedIsHardened ==
    \A f \in Features : mutated[f] # None => Meets(f, mutated[f])

(***************************************************************************)
(* What a client says explicitly is kept through all patches: "that do not *)
(* explicitly specify another" (docs/features.md:64, :67, :70).  Only the  *)
(* records are karydia's.                                                  *)
(***************************************************************************)
OwnChoicesKept ==
    \A path \in DOMAIN submitted :
        /\ Has(object.doc, path)
        /\ object.doc[path] = submitted[path] \/ \E f \in Features : path = Record(f)

(***************************************************************************)
(* Whatever records a client has sent along, once karydia has answered     *)
(* those of the features it has set name the setting it has used, from     *)
(* where and what, and the others are as they were (docs/features.md:78).  *)
(***************************************************************************)
Explicit(f, doc) ==
    CASE f = "seccompProfile" -> Has(doc, Seccomp)
      [] f = "podSecurityContext" -> ~NoUser(doc)
      [] OTHER -> Has(doc, Automount)

\* What becomes of the record of a feature when an object is changed.
RecordedRight(f, doc, more, setting) ==
    IF Explicit(f, more) /\ ~Explicit(f, doc)
    THEN /\ Has(more, Record(f))
         /\ more[Record(f)] = setting
         /\ f = "seccompProfile" => more[Seccomp].value = setting.value
    ELSE /\ Has(more, Record(f)) <=> Has(doc, Record(f))
         /\ Has(doc, Record(f)) => more[Record(f)] = doc[Record(f)]

RecordsItsChanges ==
    \A f \in Features : RecordedRight(f, submitted, object.doc, mutated[f])

(***************************************************************************)
(* An object that is written back unchanged is not changed again: the      *)
(* patches of a mutation are a fixed point of it.                          *)
(***************************************************************************)
SettledIsLeftAlone ==
    step = "respond" /\ stage = "mutating" /\ settings = mutated => patches = <<>>

(***************************************************************************)
(* With enforcement, annotations of a namespace other than kube-system do  *)
(* not decide: "disable the 'opt-out via annotation' functionality"        *)
(* (types.go:40).                                                          *)
(***************************************************************************)
EnforcedCannotOptOut ==
    \A f \in Features :
        /\ settings[f] # None
        /\ object.namespace # "kube-system"
        /\ \A c \in current : c.enforcement
        => settings[f].src = "config"

(***************************************************************************)
(* A pod that is being deleted is neither changed nor refused              *)
(* (TestTerminatingPod, admission_test.go:33).                             *)
(***************************************************************************)
DeletionIsNotHeld ==
    [][IsTerminating(object) =>
          /\ stage' # "refused"
          /\ object'.doc = object.doc \/ submitted' # submitted]_vars

----------------------------------------------------------------------------
(* What the documentation says and the code does not do.                   *)

(***************************************************************************)
(* features.md:78, "the at the time and context valid security settings":  *)
(* a setting is what some config, together with the annotation, prescribes *)
(* that was valid during the call.                                         *)
(***************************************************************************)
Prescribed(f, config) ==
    IF FromNamespace(f, namespace, object.namespace, config)
    THEN [src |-> "namespace", value |-> namespace[f]]
    ELSE [src |-> "config", value |-> config.setting[f]]

ValidAtItsTime ==
    \A f \in Features :
        settings[f] # None => \E c \in current : settings[f] = Prescribed(f, c)

(***************************************************************************)
(* features.md:78, "Karydia annotates the mutated resources with the ...   *)
(* valid security settings": the record of a stored pod names the profile  *)
(* that it has.  A client that writes another profile leaves the record.   *)
(***************************************************************************)
RecordTellsTheTruth ==
    stage = "stored" /\ Has(object.doc, Record("seccompProfile")) =>
        /\ Has(object.doc, Seccomp)
        /\ object.doc[Seccomp].value = object.doc[Record("seccompProfile")].value

(***************************************************************************)
(* features.md:78 again: an object that karydia has changed has a record.  *)
(* One whose containers are all that "nobody" changes has none.            *)
(***************************************************************************)
ChangesAreRecorded ==
    object.doc # submitted => \E f \in Features : Has(object.doc, Record(f))
=============================================================================
