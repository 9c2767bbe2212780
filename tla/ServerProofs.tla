----------------------------- MODULE ServerProofs -----------------------------
(***************************************************************************)
(* What holds of a process for any requests, plugins and signals: its      *)
(* types, and that it keeps its promise to those who send requests.        *)
(***************************************************************************)
EXTENDS Server, SequenceTheorems, TLAPS

\* What was open when Shutdown began was accepted, and is over once Shutdown
\* has returned because nothing was busy.
Finished ==
    /\ \A r \in early : request[r] \notin {"unsent", "sent"}
    /\ exit = None /\ closer = "done" => early \cap Open = {}

\* A request that is under way looks like something.
Shaped == \A r \in Requests : request[r] \in {"sent", "open"} => shape[r] \in Shapes

\* Nobody is about to call Shutdown before the goroutines are started.
Unbuilt == boot \in {"tls", "config", "policies", "build"} => closer = "off"

Inv == TypeOK /\ Shaped /\ Finished /\ Unbuilt

LEMMA ServedType ==
    ASSUME NEW s \in Shapes
    PROVE  Served(s) \in Handlers
<1>1. s \in [path : Paths, body : Bodies]
  BY ShapeAssumption
<1>2. CASE s.path = "/healthz"
  BY <1>2 DEF Served, NoHandler, Handlers, Statuses
<1>3. CASE s.path # "/healthz" /\ s.body = "review"
  BY <1>3 DEF Served, NoHandler, Handlers
<1>4. CASE s.path # "/healthz" /\ s.body # "review"
  <2>1. StatusOf[s.body] \in Statuses
    BY <1>1, <1>4 DEF StatusOf, Statuses, Bodies
  <2>. QED  BY <1>4, <2>1 DEF Served, NoHandler, Handlers
<1>. QED  BY <1>2, <1>3, <1>4

LEMMA AnswerType ==
    ASSUME NEW h \in Handlers, NEW response \in Responses
    PROVE  Answer(h, response) \in Handlers
  BY DEF Answer, Handlers, Statuses

LEMMA AdmittedType ==
    ASSUME NEW h \in Handlers, NEW response \in Responses
    PROVE  Admitted(h, response) \in Handlers
<1>1. Denied \in Responses
  BY DEF Responses
<1>2. [h EXCEPT !.next = @ + 1] \in Handlers
  BY DEF Handlers
<1>3. [h EXCEPT !.next = @ + 1, !.patched = response]
        = [[h EXCEPT !.next = @ + 1] EXCEPT !.patched = response]
  BY DEF Handlers
<1>4. [h EXCEPT !.next = @ + 1, !.patched = response] \in Handlers
  BY <1>2, <1>3 DEF Handlers
<1>. QED  BY <1>1, <1>2, <1>4, AnswerType DEF Admitted

LEMMA ConcludedType ==
    ASSUME NEW h \in Handlers
    PROVE  Concluded(h) \in Handlers
<1>1. Allowed(None) \in Responses
  BY DEF Responses
<1>2. h.patched # None => h.patched \in Responses
  BY DEF Handlers
<1>. QED  BY <1>1, <1>2, AnswerType DEF Concluded

LEMMA NoHandlerType == NoHandler \in Handlers
  BY DEF NoHandler, Handlers

LEMMA KindsType ==
    ASSUME NEW c \in Controllers
    PROVE  KindsOf(c) \subseteq Kinds
  BY DEF KindsOf, Kinds

----------------------------------------------------------------------------
(* Types.                                                                  *)

LEMMA InitTyped ==
    ASSUME Init
    PROVE  TypeOK
<1>1. said \in [Requests -> Seq(Responses)]
  BY EmptySeq DEF Init
<1>2. handler \in [Requests -> Handlers]
  BY NoHandlerType DEF Init
<1>3. factory \in [Controllers -> [informers : SUBSET Kinds, started : SUBSET Kinds]]
  BY DEF Init, NoFactory
<1>4. signals \in 0..MaxSignals
  BY SignalAssumption DEF Init
<1>5. admission \in BOOLEAN /\ networkPolicy \in BOOLEAN /\ cancelled \in BOOLEAN
  BY Zenon DEF Init
<1>. QED  BY <1>1, <1>2, <1>3, <1>4, <1>5 DEF Init, TypeOK

LEMMA ExitTyped ==
    ASSUME TypeOK, NEW how \in Exits, Exit(how)
    PROVE  TypeOK'
<1>1. [r \in Requests |-> IF request[r] \in {"sent", "open"} THEN "lost" ELSE request[r]]
        \in [Requests -> {"unsent", "sent", "open", "over", "lost"}]
  BY DEF TypeOK
<1>2. said' \in [Requests -> Seq(Responses)]
  BY EmptySeq DEF Exit
<1>3. cancelled' \in BOOLEAN
  BY Zenon DEF Exit
<1>. QED
  BY <1>1, <1>2, <1>3, NoHandlerType DEF Exit, TypeOK, NoFactory

LEMMA MainTyped ==
    ASSUME TypeOK, Main
    PROVE  TypeOK'
<1>1. CASE LoadTLS \/ LoadConfig \/ LoadPolicies \/ Awake
  BY <1>1 DEF LoadTLS, LoadConfig, LoadPolicies, Awake, QuietStep, MainStep,
              TypeOK, controllers, signalling, serving, requests
<1>2. CASE Fatal \/ Join
  BY <1>2, ExitTyped DEF Fatal, Join, Exits
<1>3. CASE Build
  <2>1. [c \in Controllers |->
           IF Enabled(c) THEN InformerFor(factory[c], KindsOf(c)) ELSE factory[c]]
          \in [Controllers -> [informers : SUBSET Kinds, started : SUBSET Kinds]]
    BY KindsType DEF InformerFor, TypeOK
  <2>. QED
    BY <1>3, <2>1 DEF Build, MainStep, TypeOK, requests
<1>. QED  BY <1>1, <1>2, <1>3 DEF Main

LEMMA ServingTyped ==
    ASSUME TypeOK, ListenerRuns \/ CloserRuns
    PROVE  TypeOK'
  BY DEF ListenerRuns, CloserRuns, Listen, ListenFails, ListenerCloses,
         ListenerStep, BeginShutdown, AllIdle, Expire, CloserStep, Open, TypeOK,
         starting, controllers, signalling, requests

LEMMA RunnerTyped ==
    ASSUME TypeOK, NEW c \in Controllers, RunnerRuns(c) \/ Sync(c)
    PROVE  TypeOK'
<1>1. Started(factory[c]) \in [informers : SUBSET Kinds, started : SUBSET Kinds]
  BY DEF Started, TypeOK
<1>2. CASE StartInformers(c)
  BY <1>1, <1>2 DEF StartInformers, RunnerStep, TypeOK, starting, signalling,
                    serving, requests
<1>3. CASE StartWorkers(c) \/ GiveUp(c) \/ StopWorkers(c)
  <2>1. PICK from, to \in {"syncing", "running", "done"} : RunnerStep(c, from, to)
    BY <1>3 DEF StartWorkers, GiveUp, StopWorkers
  <2>2. UNCHANGED <<factory, synced>>
    BY <1>3 DEF StartWorkers, GiveUp, StopWorkers
  <2>. QED
    BY <2>1, <2>2 DEF RunnerStep, TypeOK, starting, signalling, serving, requests
<1>4. CASE Sync(c)
  BY <1>4 DEF Sync, TypeOK, starting, signalling, serving, requests
<1>. QED  BY <1>2, <1>3, <1>4 DEF RunnerRuns

LEMMA SignalTyped ==
    ASSUME TypeOK, NotifierRuns \/ Signal \/ Kill \/ Probe
    PROVE  TypeOK'
<1>1. CASE Notify \/ TakeSignal \/ CancelCtx
  <2>1. cancelled' \in BOOLEAN
    BY <1>1, Zenon DEF Notify, TakeSignal, CancelCtx, TypeOK
  <2>2. /\ notifier' \in {"off", "new", "first", "cancel", "second"}
        /\ sigChan' \in 0..1 /\ UNCHANGED signals
    BY <1>1 DEF Notify, TakeSignal, CancelCtx, NotifierStep, TypeOK
  <2>3. UNCHANGED <<starting, exit, controllers, serving, requests>>
    BY <1>1 DEF Notify, TakeSignal, CancelCtx, NotifierStep
  <2>. QED
    BY <2>1, <2>2, <2>3 DEF TypeOK, starting, controllers, serving, requests
<1>2. CASE Abort \/ Kill
  BY <1>2, ExitTyped DEF Abort, Kill, Exits
<1>3. CASE Signal
  BY <1>3, SignalAssumption DEF Signal, Queued, TypeOK, starting, controllers, serving, requests
<1>4. CASE Probe
  BY <1>4 DEF Probe, Queued, TypeOK, starting, controllers, serving, requests
<1>. QED  BY <1>1, <1>2, <1>3, <1>4 DEF NotifierRuns

LEMMA RequestTyped ==
    ASSUME TypeOK, Shaped, NEW r \in Requests, RequestRuns(r)
    PROVE  TypeOK'
<1>. USE DEF starting, controllers, signalling, serving
<1>1. ASSUME NEW s \in Shapes, Send(r, s)
      PROVE  TypeOK'
  BY <1>1 DEF Send, RequestStep, TypeOK
<1>2. CASE Refuse(r)
  BY <1>2 DEF Refuse, RequestStep, TypeOK
<1>3. CASE Accept(r)
  <2>1. Served(shape[r]) \in Handlers
    BY <1>3, ServedType DEF Accept, RequestStep, Shaped
  <2>. QED
    BY <1>3, <2>1 DEF Accept, RequestStep, TypeOK
<1>4. CASE Admit(r)
  <2>1. PICK response \in ResponsesOf(shape[r].path) :
          /\ handler' = [handler EXCEPT ![r] = Admitted(@, response)]
          /\ said' = [said EXCEPT ![r] = Append(@, response)]
    BY <1>4 DEF Admit
  <2>2. response \in Responses
    BY DEF ResponsesOf, Responses
  <2>3. Admitted(handler[r], response) \in Handlers
    BY <2>2, AdmittedType DEF TypeOK
  <2>4. Append(said[r], response) \in Seq(Responses)
    BY <2>2, AppendProperties DEF TypeOK
  <2>5. handler' \in [Requests -> Handlers] /\ said' \in [Requests -> Seq(Responses)]
    BY <2>1, <2>3, <2>4 DEF TypeOK
  <2>. QED
    BY <1>4, <2>5 DEF Admit, TypeOK
<1>5. CASE Conclude(r)
  <2>1. Concluded(handler[r]) \in Handlers
    BY ConcludedType DEF TypeOK
  <2>. QED
    BY <1>5, <2>1 DEF Conclude, TypeOK
<1>6. CASE Finish(r)
  <2>1. handler' \in [Requests -> Handlers] /\ said' \in [Requests -> Seq(Responses)]
    BY <1>6, NoHandlerType, EmptySeq DEF Finish, TypeOK
  <2>. QED
    BY <1>6, <2>1 DEF Finish, RequestStep, TypeOK
<1>. QED  BY <1>1, <1>2, <1>3, <1>4, <1>5, <1>6 DEF RequestRuns

----------------------------------------------------------------------------
(* What each step is to those who send requests.                           *)

Rest == Shaped /\ Finished /\ Unbuilt

\* A step is one of Serving, or does not concern it.
Mapped == [Promise!Next]_(Promise!vars)

LEMMA PhaseKept ==
    ASSUME UNCHANGED <<exit, closer>>
    PROVE  Phase' = Phase
  BY DEF Phase

\* A step that changes none of what the promise is about.
LEMMA Aside ==
    ASSUME Rest, UNCHANGED <<exit, closer, early, request, shape>>,
           \/ boot' \in {boot, "joining"}
           \/ boot' \in {"config", "policies", "build"} /\ Unbuilt'
    PROVE  Mapped /\ Rest'
<1>1. Phase' = Phase
  BY PhaseKept
<1>2. UNCHANGED Promise!vars
  BY <1>1 DEF Promise!vars
<1>3. Shaped' /\ Finished' /\ Unbuilt'
  BY DEF Rest, Shaped, Finished, Open, Unbuilt
<1>. QED  BY <1>2, <1>3 DEF Mapped, Rest

LEMMA Gone ==
    ASSUME Inv, NEW how \in Exits, Exit(how)
    PROVE  /\ request' = Promise!Lost
           /\ UNCHANGED early
           /\ Phase' = IF how = "returned" THEN "ended" ELSE "aborted"
           /\ Rest'
<1>1. exit' # None
  BY NoneAssumption DEF Exit
<1>2. Shaped' /\ Finished' /\ Unbuilt'
  BY <1>1 DEF Exit, Shaped, Finished, Unbuilt, Inv, TypeOK
<1>3. Phase' = IF how = "returned" THEN "ended" ELSE "aborted"
  BY <1>1 DEF Exit, Phase, Exits
<1>. QED  BY <1>2, <1>3 DEF Exit, Rest, Promise!Lost

LEMMA PhaseAlive ==
    ASSUME TypeOK, Alive
    PROVE  /\ Phase = CASE closer = "expired" -> "forced"
                        [] closer \in {"polling", "done"} -> "closing"
                        [] OTHER -> "up"
           /\ Promise!Running
<1>1. exit \notin Exits
  BY NoneAssumption DEF Alive
<1>. QED  BY <1>1 DEF Alive, Phase, Exits, Promise!Running, TypeOK

LEMMA MainMapped ==
    ASSUME Inv, Main
    PROVE  Mapped /\ Rest'
<1>. USE DEF Inv, Rest
<1>1. CASE LoadTLS \/ LoadConfig \/ LoadPolicies \/ Awake
  <2>1. UNCHANGED <<exit, closer, early, request, shape>>
    BY <1>1 DEF LoadTLS, LoadConfig, LoadPolicies, Awake, QuietStep, MainStep,
                serving, requests
  <2>2. (boot' \in {"config", "policies", "build"} /\ Unbuilt') \/ boot' = "joining"
    BY <1>1, <2>1 DEF LoadTLS, LoadConfig, LoadPolicies, Awake, QuietStep, MainStep,
                      Unbuilt
  <2>. QED  BY <2>1, <2>2, Aside
<1>2. CASE Fatal
  <2>1. Exit("fatal") /\ "fatal" \in Exits /\ Promise!Running
    BY <1>2, PhaseAlive DEF Fatal, Exits
  <2>2. Promise!Abort /\ Rest'
    BY <2>1, Gone DEF Promise!Abort
  <2>. QED  BY <2>2 DEF Mapped, Promise!Next
<1>3. CASE Join
  <2>1. Exit("returned") /\ "returned" \in Exits /\ Alive
    BY <1>3 DEF Join, Exits
  <2>2. /\ Phase \in {"closing", "forced"}
        /\ Phase = "closing" => closer = "done"
    BY <1>3, PhaseAlive, <2>1 DEF Join, AllDone
  <2>3. Phase = "closing" => early \cap Promise!Open = {}
    BY <2>1, <2>2 DEF Finished, Alive, Open, Promise!Open
  <2>4. Promise!End /\ Rest'
    BY <2>1, <2>2, <2>3, Gone DEF Promise!End
  <2>. QED  BY <2>4 DEF Mapped, Promise!Next
<1>4. CASE Build
  <2>1. closer = "off" /\ closer' = "waiting" /\ Alive /\ boot' = "waiting"
    BY <1>4 DEF Build, MainStep, Unbuilt
  <2>2. UNCHANGED <<exit, early, request, shape>>
    BY <1>4 DEF Build, MainStep, requests
  <2>3. exit \notin Exits
    BY <2>1, NoneAssumption DEF Alive
  <2>4. Phase' = Phase
    BY <2>1, <2>2, <2>3 DEF Phase, Exits
  <2>5. UNCHANGED Promise!vars
    BY <2>2, <2>4 DEF Promise!vars
  <2>6. Shaped' /\ Finished' /\ Unbuilt'
    BY <2>1, <2>2 DEF Shaped, Finished, Open, Unbuilt
  <2>. QED  BY <2>5, <2>6 DEF Mapped
<1>. QED  BY <1>1, <1>2, <1>3, <1>4 DEF Main

LEMMA CloserMapped ==
    ASSUME Inv, CloserRuns
    PROVE  Mapped /\ Rest'
<1>. USE DEF Inv, Rest, CloserStep
<1>1. /\ Alive /\ UNCHANGED <<exit, boot, request, shape>>
      /\ closer # "off" /\ Alive'
  BY DEF CloserRuns, BeginShutdown, AllIdle, Expire, starting, requests, Alive
<1>2. Shaped' /\ Unbuilt'
  BY <1>1 DEF Shaped, Unbuilt
<1>3. exit \notin Exits /\ exit' \notin Exits
  BY <1>1, NoneAssumption DEF Alive
<1>4. CASE BeginShutdown
  <2>1. Phase = "up" /\ Phase' = "closing"
    BY <1>1, <1>3, <1>4 DEF BeginShutdown, Phase, Exits, Alive
  <2>2. Promise!Close
    BY <1>1, <1>4, <2>1 DEF BeginShutdown, Promise!Close, Promise!Open, Open
  <2>3. Finished'
    BY <1>1, <1>4 DEF BeginShutdown, Finished, Open
  <2>. QED  BY <1>2, <2>2, <2>3 DEF Mapped, Promise!Next
<1>5. CASE AllIdle
  <2>1. Phase = "closing" /\ Phase' = "closing"
    BY <1>1, <1>3, <1>5 DEF AllIdle, Phase, Exits, Alive
  <2>2. UNCHANGED Promise!vars
    BY <1>1, <1>5, <2>1 DEF AllIdle, Promise!vars
  <2>3. Finished'
    BY <1>1, <1>5 DEF AllIdle, Finished, Open
  <2>. QED  BY <1>2, <2>2, <2>3 DEF Mapped
<1>6. CASE Expire
  <2>1. Phase = "closing" /\ Phase' = "forced"
    BY <1>1, <1>3, <1>6 DEF Expire, Phase, Exits, Alive
  <2>2. Promise!Force
    BY <1>1, <1>6, <2>1 DEF Expire, Promise!Force
  <2>3. Finished'
    BY <1>1, <1>6 DEF Expire, Finished
  <2>. QED  BY <1>2, <2>2, <2>3 DEF Mapped, Promise!Next
<1>. QED  BY <1>4, <1>5, <1>6 DEF CloserRuns

LEMMA RequestMapped ==
    ASSUME Inv, NEW r \in Requests, RequestRuns(r)
    PROVE  Mapped /\ Rest'
<1>. USE DEF Inv, Rest
<1>1. Alive /\ Promise!Running
  BY PhaseAlive DEF RequestRuns, Send, Refuse, Accept, Admit, Conclude, Finish
<1>2. UNCHANGED <<exit, closer, early>> /\ UNCHANGED boot
  BY DEF RequestRuns, Send, Refuse, Accept, Admit, Conclude, Finish, RequestStep,
         serving, starting
<1>3. Phase' = Phase
  BY <1>2, PhaseKept
<1>4. Unbuilt'
  BY <1>2 DEF Unbuilt
<1>5. ASSUME NEW s \in Shapes, Send(r, s)
      PROVE  Mapped /\ Shaped' /\ Finished'
  <2>1. Promise!Send(r)
    BY <1>2, <1>3, <1>5 DEF Send, RequestStep, Promise!Send, Promise!Move
  <2>2. Shaped' /\ Finished'
    BY <1>2, <1>5 DEF Send, RequestStep, Shaped, Finished, Open, TypeOK
  <2>3. Promise!Next
    BY <2>1 DEF Promise!Next
  <2>. QED  BY <1>4, <2>2, <2>3 DEF Mapped
<1>6. CASE Refuse(r)
  <2>1. Promise!Refuse(r)
    BY <1>2, <1>3, <1>6 DEF Refuse, RequestStep, Promise!Refuse, Promise!Move
  <2>2. Shaped' /\ Finished'
    BY <1>2, <1>6 DEF Refuse, RequestStep, Shaped, Finished, Open, TypeOK
  <2>3. Promise!Next
    BY <2>1 DEF Promise!Next
  <2>. QED  BY <1>4, <2>2, <2>3 DEF Mapped
<1>7. CASE Accept(r)
  <2>1. Promise!Take(r)
    BY <1>1, <1>2, <1>3, <1>7 DEF Accept, RequestStep, Promise!Take, Promise!Move
  <2>2. Shaped' /\ Finished'
    BY <1>2, <1>7 DEF Accept, RequestStep, Shaped, Finished, Open, TypeOK
  <2>3. Promise!Next
    BY <2>1 DEF Promise!Next
  <2>. QED  BY <1>4, <2>2, <2>3 DEF Mapped
<1>8. CASE Admit(r) \/ Conclude(r)
  <2>1. UNCHANGED <<request, shape>>
    BY <1>8 DEF Admit, Conclude
  <2>2. UNCHANGED <<exit, closer, early, request, shape>>
    BY <1>2, <2>1
  <2>. QED  BY <1>2, <2>2, Aside
<1>9. CASE Finish(r)
  <2>1. Promise!Finish(r)
    BY <1>1, <1>2, <1>3, <1>9 DEF Finish, RequestStep, Promise!Finish, Promise!Move
  <2>2. Shaped' /\ Finished'
    BY <1>2, <1>9 DEF Finish, RequestStep, Shaped, Finished, Open, TypeOK
  <2>3. Promise!Next
    BY <2>1 DEF Promise!Next
  <2>. QED  BY <1>4, <2>2, <2>3 DEF Mapped
<1>. QED  BY <1>4, <1>5, <1>6, <1>7, <1>8, <1>9 DEF RequestRuns

LEMMA NextMapped ==
    ASSUME Inv, [Next]_vars
    PROVE  Mapped /\ Rest'
<1>. USE DEF Inv, Rest
<1>1. CASE Main
  BY <1>1, MainMapped
<1>2. CASE ListenerRuns
  <2>1. UNCHANGED <<exit, closer, early, request, shape>> /\ UNCHANGED boot
    BY <1>2 DEF ListenerRuns, Listen, ListenFails, ListenerCloses, ListenerStep,
                starting, requests
  <2>. QED  BY <2>1, Aside
<1>3. CASE CloserRuns
  BY <1>3, CloserMapped
<1>4. CASE Abort \/ Kill
  <2>1. PICK how \in {"aborted", "killed"} : Exit(how)
    BY <1>4 DEF Abort, Kill
  <2>2. Promise!Running
    BY <1>4, PhaseAlive DEF Abort, Kill
  <2>3. Promise!Abort /\ Rest'
    BY <2>1, <2>2, Gone DEF Promise!Abort, Exits
  <2>. QED  BY <2>3 DEF Mapped, Promise!Next
<1>5. CASE Notify \/ TakeSignal \/ CancelCtx \/ Signal \/ Probe
  <2>1. UNCHANGED <<exit, closer, early, request, shape>> /\ UNCHANGED boot
    BY <1>5 DEF Notify, TakeSignal, CancelCtx, NotifierStep, Signal, Probe,
                starting, serving, requests
  <2>. QED  BY <2>1, Aside
<1>6. ASSUME NEW c \in Controllers, RunnerRuns(c) \/ Sync(c)
      PROVE  Mapped /\ Rest'
  <2>1. UNCHANGED <<exit, closer, early, request, shape>> /\ UNCHANGED boot
    BY <1>6 DEF RunnerRuns, StartInformers, StartWorkers, GiveUp, StopWorkers,
                RunnerStep, Sync, starting, serving, requests
  <2>. QED  BY <2>1, Aside
<1>7. ASSUME NEW r \in Requests, RequestRuns(r)
      PROVE  Mapped /\ Rest'
  BY <1>7, RequestMapped
<1>8. CASE UNCHANGED vars
  <2>1. UNCHANGED <<exit, closer, early, request, shape>> /\ UNCHANGED boot
    BY <1>8 DEF vars, starting, serving, requests
  <2>. QED  BY <2>1, Aside
<1>. QED  BY <1>1, <1>2, <1>3, <1>4, <1>5, <1>6, <1>7, <1>8 DEF Next, NotifierRuns

LEMMA NextTyped ==
    ASSUME Inv, [Next]_vars
    PROVE  TypeOK'
<1>. USE DEF Inv
<1>1. CASE UNCHANGED vars
  BY <1>1 DEF vars, starting, controllers, signalling, serving, requests, TypeOK
<1>2. CASE Next
  BY <1>2, MainTyped, ServingTyped, RunnerTyped, SignalTyped, RequestTyped DEF Next
<1>. QED  BY <1>1, <1>2

LEMMA InvAlways == Spec => []Inv
<1>1. Init => Inv
  BY InitTyped DEF Init, Inv, Shaped, Finished, Unbuilt
<1>2. Inv /\ [Next]_vars => Inv'
  BY NextTyped, NextMapped DEF Inv, Rest
<1>. QED  BY <1>1, <1>2, PTL DEF Spec

(***************************************************************************)
(* The variables of a process keep their types, and the channel for        *)
(* signals never holds more than one.                                      *)
(***************************************************************************)
THEOREM TypeCorrect == Spec => []TypeOK
<1>1. Inv => TypeOK
  BY DEF Inv
<1>. QED  BY <1>1, InvAlways, PTL

(***************************************************************************)
(* A process asked to end lets the requests it is working on end first, or *)
(* for five seconds, whatever signals, plugins and clients do meanwhile    *)
(* (runserverFunc, Shutdown).                                              *)
(***************************************************************************)
THEOREM Refinement == Spec => ImplementsServing
<1>1. Init => Promise!Init
  <2> SUFFICES ASSUME Init PROVE Promise!Init
    OBVIOUS
  <2>1. Phase = "up"
    BY NoneAssumption DEF Init, Phase, Exits
  <2>. QED  BY <2>1 DEF Init, Promise!Init
<1>2. Inv /\ [Next]_vars => Mapped
  BY NextMapped
<1>. QED
  BY <1>1, <1>2, InvAlways, PTL DEF Spec, ImplementsServing, Promise!Spec, Mapped

----------------------------------------------------------------------------
(* What the webhook makes of the responses of n plugins.                   *)

\* Handler h has asked plugins, has heard s, and goes on.
Asking(h, s, n) ==
    /\ h.answer = None
    /\ h.next \in 1..(n + 1) /\ Len(s) = h.next - 1
    /\ \A i \in 1..Len(s) : s[i].allowed
    /\ h.patched = None => Patched(s) = {}
    /\ h.patched # None => \E k \in Patched(s) : Patched(s) = {k} /\ h.patched = s[k]

\* Handler h answers what it has to.
Decided(h, s, n) ==
    h.answer # None => h.status # None /\ h.answer = Verdict(s, n)

LEMMA PatchedAppend ==
    ASSUME NEW s \in Seq(Responses), NEW response \in Responses
    PROVE  Patched(Append(s, response)) =
             Patched(s) \cup (IF response.patch = None THEN {} ELSE {Len(s) + 1})
<1>1. /\ DOMAIN Append(s, response) = 1..(Len(s) + 1) /\ DOMAIN s = 1..Len(s)
      /\ Len(s) \in Nat
      /\ Append(s, response)[Len(s) + 1] = response
      /\ \A i \in 1..Len(s) : Append(s, response)[i] = s[i]
  BY AppendProperties
<1>. QED  BY <1>1 DEF Patched

LEMMA AdmittedRight ==
    ASSUME NEW h \in Handlers, NEW s \in Seq(Responses), NEW n \in Nat,
           NEW response \in Responses,
           Asking(h, s, n), h.status = None, h.next \in 1..n
    PROVE  LET g == Admitted(h, response)
               t == Append(s, response)
           IN (g.status = None => Asking(g, t, n)) /\ Decided(g, t, n)
<1> DEFINE t == Append(s, response)
<1>1. /\ Len(t) = Len(s) + 1 /\ t[Len(s) + 1] = response /\ Len(s) \in Nat
      /\ \A i \in 1..Len(s) : t[i] = s[i]
      /\ Len(s) + 1 = h.next
  BY AppendProperties DEF Asking
<1>2. Patched(t) = Patched(s) \cup (IF response.patch = None THEN {} ELSE {Len(s) + 1})
  BY PatchedAppend
<1>3. Len(s) + 1 \notin Patched(s)
  BY <1>1 DEF Patched
<1> HIDE DEF t
<1>4. ASSUME NEW v \in Responses
      PROVE  /\ Answer(h, v).status = "ok" /\ Answer(h, v).answer = v
             /\ "ok" # None
  BY NoneAssumption DEF Answer, Handlers, Statuses
<1>5. CASE ~response.allowed
  <2>1. response = Denied
    BY <1>5 DEF Responses, Allowed
  <2>2. Verdict(t, n) = Denied
    BY <1>1, <1>5 DEF Verdict
  <2>3. Admitted(h, response) = Answer(h, response)
    BY <1>5 DEF Admitted
  <2>. QED  BY <1>4, <2>1, <2>2, <2>3 DEF Decided, t
<1>6. CASE response.allowed /\ response.patch = None
  <2>1. Admitted(h, response) = [h EXCEPT !.next = @ + 1]
    BY <1>6 DEF Admitted
  <2>2. Patched(t) = Patched(s)
    BY <1>2, <1>6
  <2>3. \A i \in 1..Len(t) : t[i].allowed
    BY <1>1, <1>6 DEF Asking
  <2>4. h.patched # None => \E k \in Patched(t) : Patched(t) = {k} /\ h.patched = t[k]
    BY <1>1, <2>2 DEF Asking, Patched
  <2>5. /\ Admitted(h, response).answer = None
        /\ Admitted(h, response).next = h.next + 1
        /\ Admitted(h, response).patched = h.patched
    BY <2>1 DEF Asking, Handlers
  <2>6. h.patched = None => Patched(t) = {}
    BY <2>2 DEF Asking
  <2>7. Asking(Admitted(h, response), t, n)
    BY <1>1, <2>3, <2>4, <2>5, <2>6 DEF Asking
  <2>. QED  BY <2>5, <2>7 DEF Decided, t
<1>7. CASE response.allowed /\ response.patch # None /\ h.patched = None
  <2>1. Admitted(h, response) = [h EXCEPT !.next = @ + 1, !.patched = response]
    BY <1>7 DEF Admitted
  <2>2. Patched(t) = {Len(s) + 1}
    BY <1>2, <1>7 DEF Asking
  <2>3. \A i \in 1..Len(t) : t[i].allowed
    BY <1>1, <1>7 DEF Asking
  <2>4. response # None
    BY NoneAssumption
  <2>. QED  BY <1>1, <2>1, <2>2, <2>3, <2>4 DEF Asking, Decided, Handlers, t
<1>8. CASE response.allowed /\ response.patch # None /\ h.patched # None
  <2>1. Admitted(h, response) = Answer(h, Denied)
    BY <1>8 DEF Admitted
  <2>2. PICK k \in Patched(s) : TRUE
    BY <1>8 DEF Asking
  <2>3. k \in Patched(t) /\ Len(s) + 1 \in Patched(t) /\ k # Len(s) + 1
    BY <1>2, <1>3, <1>8, <2>2
  <2>4. Verdict(t, n) = Denied
    BY <2>3 DEF Verdict
  <2>5. Denied \in Responses
    BY DEF Responses
  <2>. QED  BY <1>4, <2>1, <2>4, <2>5 DEF Decided, t
<1>. QED  BY <1>5, <1>6, <1>7, <1>8

LEMMA ConcludedRight ==
    ASSUME NEW h \in Handlers, NEW s \in Seq(Responses), NEW n \in Nat,
           Asking(h, s, n), h.next > n
    PROVE  Concluded(h).status # None /\ Decided(Concluded(h), s, n)
<1>1. Len(s) = n /\ \A i \in 1..n : s[i].allowed
  BY DEF Asking, Handlers
<1>2. \A i, j \in Patched(s) : i = j
  BY DEF Asking
<1>3. Verdict(s, n) = IF Patched(s) = {} THEN Allowed(None)
                      ELSE s[CHOOSE i \in Patched(s) : TRUE]
  BY <1>1, <1>2 DEF Verdict
<1>4. Verdict(s, n) = IF h.patched # None THEN h.patched ELSE Allowed(None)
  <2>1. CASE h.patched = None
    BY <1>3, <2>1 DEF Asking
  <2>2. CASE h.patched # None
    <3>1. PICK k \in Patched(s) : Patched(s) = {k} /\ h.patched = s[k]
      BY <2>2 DEF Asking
    <3>2. (CHOOSE i \in Patched(s) : TRUE) = k
      BY <3>1
    <3>. QED  BY <1>3, <2>2, <3>1, <3>2
  <2>. QED  BY <2>1, <2>2
<1>5. "ok" # None
  BY NoneAssumption DEF Statuses
<1>. QED  BY <1>4, <1>5 DEF Concluded, Answer, Decided, Handlers

----------------------------------------------------------------------------
(* Every handler of the process decides like that.                         *)

HandlerOK(r) ==
    /\ request[r] # "open" => handler[r] = NoHandler /\ said[r] = <<>>
    /\ request[r] = "open" /\ handler[r].status = None
         => Asking(handler[r], said[r], Registered)
    /\ Decided(handler[r], said[r], Registered)

HandlersOK == \A r \in Requests : HandlerOK(r)

LEMMA RegisteredType ==
    ASSUME TypeOK
    PROVE  Registered \in Nat
  BY PluginAssumption DEF Registered

\* Only a step of a request concerns handlers, and only its own.
LEMMA OthersKeep ==
    ASSUME HandlersOK, UNCHANGED <<request, handler, said>> /\ UNCHANGED admission
    PROVE  HandlersOK'
  BY DEF HandlersOK, HandlerOK, Registered

LEMMA ExitDecides ==
    ASSUME TypeOK, NEW how \in Exits, Exit(how)
    PROVE  HandlersOK'
<1> SUFFICES ASSUME NEW r \in Requests PROVE HandlerOK(r)'
  BY DEF HandlersOK
<1>1. request'[r] # "open" /\ handler'[r] = NoHandler /\ said'[r] = <<>>
  BY DEF Exit, TypeOK
<1>. QED  BY <1>1 DEF HandlerOK, Decided, NoHandler

LEMMA RequestDecides ==
    ASSUME TypeOK, Shaped, HandlersOK, NEW r \in Requests, RequestRuns(r)
    PROVE  HandlersOK'
<1>1. /\ UNCHANGED admission /\ Registered' = Registered /\ Registered \in Nat
      /\ \A q \in Requests \ {r} : /\ request'[q] = request[q]
                                   /\ handler'[q] = handler[q] /\ said'[q] = said[q]
  BY RegisteredType
     DEF RequestRuns, Send, Refuse, Accept, Admit, Conclude, Finish, RequestStep,
         starting, TypeOK, Registered
<1>2. \A q \in Requests \ {r} : HandlerOK(q)'
  BY <1>1 DEF HandlersOK, HandlerOK
<1>3. HandlerOK(r)
  BY DEF HandlersOK
<1>. SUFFICES HandlerOK(r)'
  BY <1>2 DEF HandlersOK
<1>4. ASSUME NEW s \in Shapes, Send(r, s) PROVE HandlerOK(r)'
  BY <1>1, <1>3, <1>4 DEF Send, RequestStep, HandlerOK, Decided, TypeOK
<1>5. CASE Refuse(r)
  <2>1. /\ request[r] = "sent" /\ request'[r] = "lost"
        /\ handler'[r] = handler[r] /\ said'[r] = said[r]
    BY <1>5 DEF Refuse, RequestStep, TypeOK
  <2>. QED  BY <1>1, <1>3, <2>1 DEF HandlerOK
<1>6. CASE Accept(r)
  <2>1. handler'[r] = Served(shape[r]) /\ said'[r] = <<>> /\ request'[r] = "open"
    BY <1>3, <1>6 DEF Accept, RequestStep, HandlerOK, TypeOK
  <2>2. /\ Served(shape[r]).answer = None /\ Served(shape[r]).patched = None
        /\ Served(shape[r]).status = None => Served(shape[r]).next = 1
    <3>1. shape[r] \in [path : Paths, body : Bodies]
      BY <1>6, ShapeAssumption DEF Accept, RequestStep, Shaped
    <3>2. shape[r].body # "review" => StatusOf[shape[r].body] # None
      BY <3>1, NoneAssumption DEF StatusOf, Statuses, Bodies
    <3>3. "ok" # None
      BY NoneAssumption DEF Statuses
    <3>. QED  BY <3>2, <3>3 DEF Served, NoHandler
  <2>3. Patched(<<>>) = {} /\ Len(<<>>) = 0
    BY DEF Patched
  <2>4. Decided(handler'[r], said'[r], Registered)
    BY <2>1, <2>2 DEF Decided
  <2>5. handler'[r].status = None => Asking(handler'[r], said'[r], Registered)
    BY <1>1, <2>1, <2>2, <2>3 DEF Asking
  <2>. QED  BY <1>1, <2>1, <2>4, <2>5 DEF HandlerOK
<1>7. CASE Admit(r)
  <2>1. PICK response \in ResponsesOf(shape[r].path) :
          /\ handler' = [handler EXCEPT ![r] = Admitted(@, response)]
          /\ said' = [said EXCEPT ![r] = Append(@, response)]
    BY <1>7 DEF Admit
  <2>2. response \in Responses
    BY DEF ResponsesOf, Responses
  <2>3. /\ handler'[r] = Admitted(handler[r], response)
        /\ said'[r] = Append(said[r], response) /\ request'[r] = "open"
    BY <1>7, <2>1 DEF Admit, TypeOK
  <2>4. /\ Asking(handler[r], said[r], Registered) /\ handler[r].status = None
        /\ handler[r].next \in 1..Registered
    BY <1>3, <1>7 DEF Admit, HandlerOK
  <2>5. handler[r] \in Handlers /\ said[r] \in Seq(Responses)
    BY DEF TypeOK
  <2>6. /\ handler'[r].status = None => Asking(handler'[r], said'[r], Registered)
        /\ Decided(handler'[r], said'[r], Registered)
    BY <1>1, <2>2, <2>3, <2>4, <2>5, AdmittedRight
  <2>. QED  BY <1>1, <2>3, <2>6 DEF HandlerOK
<1>8. CASE Conclude(r)
  <2>1. /\ handler'[r] = Concluded(handler[r]) /\ said'[r] = said[r]
        /\ request'[r] = "open"
    BY <1>8 DEF Conclude, TypeOK
  <2>2. Asking(handler[r], said[r], Registered) /\ handler[r].next > Registered
    BY <1>3, <1>8 DEF Conclude, HandlerOK
  <2>3. handler[r] \in Handlers /\ said[r] \in Seq(Responses)
    BY DEF TypeOK
  <2>4. handler'[r].status # None /\ Decided(handler'[r], said'[r], Registered)
    BY <1>1, <2>1, <2>2, <2>3, ConcludedRight
  <2>. QED  BY <1>1, <2>1, <2>4 DEF HandlerOK
<1>9. CASE Finish(r)
  <2>1. request'[r] = "over" /\ handler'[r] = NoHandler /\ said'[r] = <<>>
    BY <1>9 DEF Finish, RequestStep, TypeOK
  <2>2. Decided(handler'[r], said'[r], Registered')
    BY <2>1 DEF Decided, NoHandler
  <2>. QED  BY <2>1, <2>2 DEF HandlerOK
<1>. QED
  BY <1>4, <1>5, <1>6, <1>7, <1>8, <1>9 DEF RequestRuns

LEMMA NextDecides ==
    ASSUME Inv, HandlersOK, [Next]_vars
    PROVE  HandlersOK'
<1>1. CASE UNCHANGED vars
  <2>1. UNCHANGED <<request, handler, said>> /\ UNCHANGED admission
    BY <1>1 DEF vars, requests, starting
  <2>. QED  BY <2>1, OthersKeep
<1>2. CASE Fatal \/ Join \/ Abort \/ Kill
  BY <1>2, ExitDecides DEF Inv, Fatal, Join, Abort, Kill, Exits
<1>3. CASE LoadTLS \/ LoadConfig \/ LoadPolicies \/ Build \/ Awake
  <2>1. UNCHANGED <<request, handler, said>> /\ UNCHANGED admission
    BY <1>3 DEF LoadTLS, LoadConfig, LoadPolicies, Build, Awake, QuietStep, MainStep,
                requests
  <2>. QED  BY <2>1, OthersKeep
<1>4. CASE ListenerRuns \/ CloserRuns
  <2>1. UNCHANGED <<request, handler, said>> /\ UNCHANGED admission
    BY <1>4 DEF ListenerRuns, Listen, ListenFails, ListenerCloses, ListenerStep,
                CloserRuns, BeginShutdown, AllIdle, Expire, CloserStep, requests, starting
  <2>. QED  BY <2>1, OthersKeep
<1>5. CASE Notify \/ TakeSignal \/ CancelCtx \/ Signal \/ Probe
  <2>1. UNCHANGED <<request, handler, said>> /\ UNCHANGED admission
    BY <1>5 DEF Notify, TakeSignal, CancelCtx, NotifierStep, Signal, Probe,
                requests, starting
  <2>. QED  BY <2>1, OthersKeep
<1>6. ASSUME NEW c \in Controllers, RunnerRuns(c) \/ Sync(c)
      PROVE  HandlersOK'
  <2>1. UNCHANGED <<request, handler, said>> /\ UNCHANGED admission
    BY <1>6 DEF RunnerRuns, StartInformers, StartWorkers, GiveUp, StopWorkers,
                RunnerStep, Sync, requests, starting
  <2>. QED  BY <2>1, OthersKeep
<1>7. ASSUME NEW r \in Requests, RequestRuns(r)
      PROVE  HandlersOK'
  BY <1>7, RequestDecides DEF Inv
<1>. QED
  BY <1>1, <1>2, <1>3, <1>4, <1>5, <1>6, <1>7 DEF Next, Main, NotifierRuns

(***************************************************************************)
(* However many plugins are registered, the answer to a review is what     *)
(* their responses come to: the webhook drops no refusal and no patch, and *)
(* never sends a patch while another plugin has made one (admit).          *)
(***************************************************************************)
THEOREM MergedRight == Spec => []AnswerIsTheirs
<1>1. Init => HandlersOK
  <2> SUFFICES ASSUME Init, NEW r \in Requests PROVE HandlerOK(r)
    BY DEF HandlersOK
  <2>1. request[r] = "unsent" /\ handler[r] = NoHandler /\ said[r] = <<>>
    BY DEF Init
  <2>. QED  BY <2>1 DEF HandlerOK, Decided, NoHandler
<1>2. Inv /\ HandlersOK /\ [Next]_vars => HandlersOK'
  BY NextDecides
<1>3. HandlersOK => AnswerIsTheirs
  BY DEF HandlersOK, HandlerOK, Decided, AnswerIsTheirs
<1>. QED  BY <1>1, <1>2, <1>3, InvAlways, PTL DEF Spec

=============================================================================
