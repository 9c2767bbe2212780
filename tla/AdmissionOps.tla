----------------------------- MODULE AdmissionOps -----------------------------
(***************************************************************************)
(* The decisions of karydia's admission plugin: what it changes in a pod   *)
(* or service account and what it finds wrong with one, given a setting    *)
(* (pkg/admission/karydia/admission_pod.go, admission_service_account.go). *)
(*                                                                         *)
(* A reviewed object is its kind, namespace, name and JSON document.  The  *)
(* paths leave out "metadata" and "spec", which every object has.          *)
(***************************************************************************)
EXTENDS Naturals, JsonPatch

CONSTANT Indices   \* those that the containers of a pod may have, in order

ASSUME IndicesAssumption ==
    /\ Indices \in Seq(Keys)
    /\ \A j, k \in DOMAIN Indices : Indices[j] = Indices[k] => j = k

Features == {"seccompProfile", "podSecurityContext", "automountServiceAccountToken"}

\* In which order the settings for an object are looked up.
Asked(kind) == IF kind = "Pod"
               THEN <<"seccompProfile", "podSecurityContext">>
               ELSE <<"automountServiceAccountToken">>

Seccomp == <<"annotations", "seccomp.security.alpha.kubernetes.io/pod">>
Context == <<"securityContext">>
RunAsUser == <<"securityContext", "runAsUser">>
RunAsGroup == <<"securityContext", "runAsGroup">>
Automount == <<"automountServiceAccountToken">>
DeletionTimestamp == <<"deletionTimestamp">>

\* The annotation that tells by which setting an object was changed.
Internal ==
    [f \in Features |->
        CASE f = "seccompProfile" ->
                "karydia.gardener.cloud/seccompProfile.internal"
          [] f = "podSecurityContext" ->
                "karydia.gardener.cloud/podSecurityContext.internal"
          [] OTHER ->
                "karydia.gardener.cloud/automountServiceAccountToken.internal"]

\* Where an object has an annotation, and one of these.
Note(key) == <<"annotations", key>>
Record(f) == Note(Internal[f])

ASSUME KeysAssumption ==
    /\ {Internal[f] : f \in Features} \subseteq Keys
    /\ {"annotations", "seccomp.security.alpha.kubernetes.io/pod", "securityContext",
        "runAsUser", "runAsGroup", "automountServiceAccountToken", "deletionTimestamp",
        "containers", "allowPrivilegeEscalation"} \subseteq Keys

Nobody == Plain("65534")
False == Plain("false")

\* getPodStatus says "Terminating" exactly if there is a deletion timestamp:
\* no phase or reason of a container is called so.
IsTerminating(object) ==
    object.kind = "Pod" /\ Has(object.doc, DeletionTimestamp)

----------------------------------------------------------------------------
(* What is missing in an object.                                           *)

NoUser(doc) == ~Has(doc, RunAsUser) /\ ~Has(doc, RunAsGroup)

\* The containers of a pod, and where their security contexts are.
Container(i) == <<"containers", i>>
ContextOf(i) == Append(Container(i), "securityContext")
Containers(doc) == {k \in DOMAIN Indices : Has(doc, Container(Indices[k]))}

MayEscalate(doc, context) == ~Has(doc, Append(context, "allowPrivilegeEscalation"))

\* Whether the setting is about this service account and it says nothing.
TokenMountImplicit(object, setting) ==
    /\ ~Has(object.doc, Automount)
    /\ \/ setting.value = "change-default" /\ object.name = "default"
       \/ setting.value = "change-all"

----------------------------------------------------------------------------
(* Mutation                                                                *)

\* A variant that always adds the whole map.
NeverAnnotated(doc) == TRUE

NoAnnotations(doc) == \A path \in DOMAIN doc : ~IsStrictPrefix(<<"annotations">>, path)

\* A variant without Patches.annotated.
Forgotten(patches) == FALSE

\* Patches.annotated
AnnotationsAdded(patches) ==
    \E i \in DOMAIN patches : patches[i].path = <<"annotations">>

\* A variant that takes the map for granted.
AnnotateOnly(doc, patches, key, v) ==
    Append(patches, Add(Note(key), Scalar(v)))

\* annotateServiceAccount has no AnnotationsAdded, but is called once.
Annotate(doc, patches, key, v) ==
    Append(patches,
           IF NoAnnotations(doc) /\ ~AnnotationsAdded(patches)
           THEN Add(<<"annotations">>, Object([k \in {key} |-> v]))
           ELSE Add(Note(key), Scalar(v)))

\* A variant that sets the profile in any case.
MutateAnyProfile(doc, setting, patches) ==
    Annotate(doc,
             Annotate(doc, patches, Seccomp[2], Plain(setting.value)),
             Internal["seccompProfile"], setting)

MutatePodSeccompProfile(doc, setting, patches) ==
    IF Has(doc, Seccomp) THEN patches
    ELSE Annotate(doc,
                  Annotate(doc, patches, Seccomp[2], Plain(setting.value)),
                  Internal["seccompProfile"], setting)

AddUser(doc) ==
    IF ~Has(doc, Context)
    THEN <<Add(Context, Object([key \in {"runAsUser", "runAsGroup"} |-> Nobody]))>>
    ELSE <<Add(RunAsUser, Scalar(Nobody)), Add(RunAsGroup, Scalar(Nobody))>>

\* A variant that leaves security contexts alone that are there.
ForbidInMissing(doc, context) ==
    IF Has(doc, context) THEN <<>>
    ELSE <<Add(context, Object([key \in {"allowPrivilegeEscalation"} |-> False]))>>

ForbidEscalation(doc, context) ==
    IF ~Has(doc, context)
    THEN <<Add(context, Object([key \in {"allowPrivilegeEscalation"} |-> False]))>>
    ELSE IF MayEscalate(doc, context)
    THEN <<Add(Append(context, "allowPrivilegeEscalation"), Scalar(False))>>
    ELSE <<>>

\* A variant that records the user as what the other feature of a pod has set.
SetUserAsProfile(doc, setting, patches) ==
    IF NoUser(doc)
    THEN Annotate(doc, patches \o AddUser(doc), Internal["seccompProfile"], setting)
    ELSE patches

SetUser(doc, setting, patches) ==
    IF NoUser(doc)
    THEN Annotate(doc, patches \o AddUser(doc), Internal["podSecurityContext"], setting)
    ELSE patches

\* The loop over the containers.
ForbidAll(doc, patches) ==
    LET upTo[k \in 0..Len(Indices)] ==
            IF k = 0 THEN patches
            ELSE IF k \in Containers(doc)
            THEN upTo[k - 1] \o ForbidEscalation(doc, ContextOf(Indices[k]))
            ELSE upTo[k - 1]
    IN  upTo[Len(Indices)]

MutatePodSecurityContext(doc, setting, patches) ==
    IF setting.value = "nobody"
    THEN ForbidAll(doc, SetUser(doc, setting, patches))
    ELSE patches

MutateServiceAccountTokenMount(object, setting, patches) ==
    IF TokenMountImplicit(object, setting)
    THEN Annotate(object.doc, Append(patches, Add(Automount, Scalar(False))),
                  Internal["automountServiceAccountToken"], setting)
    ELSE patches

\* The patches after those for one more setting.
Mutate(feature, object, setting, patches) ==
    CASE setting.value = "" -> patches
      [] setting.value # "" /\ feature = "seccompProfile" ->
            MutatePodSeccompProfile(object.doc, setting, patches)
      [] setting.value # "" /\ feature = "podSecurityContext" ->
            MutatePodSecurityContext(object.doc, setting, patches)
      [] setting.value # "" /\ feature = "automountServiceAccountToken" ->
            MutateServiceAccountTokenMount(object, setting, patches)

----------------------------------------------------------------------------
(* Validation: whether an object is found to be against a setting.         *)

Invalid(feature, object, setting) ==
    /\ setting.value # ""
    /\ \/ feature = "seccompProfile" /\ ~Has(object.doc, Seccomp)
       \/ /\ feature = "podSecurityContext"
          /\ setting.value = "nobody"
          /\ NoUser(object.doc)
       \/ /\ feature = "automountServiceAccountToken"
          /\ TokenMountImplicit(object, setting)
=============================================================================
