--------------------------- MODULE MCServices ---------------------------
(***************************************************************************)
(* The services around the Runtime, each on its own: the initial state     *)
(* says which one the behaviour is about, and the others stand still.      *)
(***************************************************************************)
EXTENDS BackgroundTasks, Admission, ReactLoop, ProgressDetector, EventStream, LocalStore

VARIABLE focus

\* One Thread: two requests under one key, one of other content, one without a key.
Requests == [first |-> [key |-> "k", content |-> "a"], again |-> [key |-> "k", content |-> "a"],
             other |-> [key |-> "k", content |-> "b"], plain |-> [key |-> NoKey, content |-> "c"]]

ServicesInit ==
    /\ focus \in {"tasks", "admission", "react", "progress", "events", "store"}
    /\ TasksInit /\ AdmissionInit /\ ReactInit /\ ProgressInit /\ StreamInit /\ StoreInit

ServicesNext ==
    /\ UNCHANGED focus
    /\ \/ /\ focus = "tasks" /\ TasksNext
          /\ UNCHANGED <<admissionVars, reactVars, progressVars, streamVars, storeVars>>
       \/ /\ focus = "admission" /\ AdmissionNext
          /\ UNCHANGED <<taskVars, reactVars, progressVars, streamVars, storeVars>>
       \/ /\ focus = "react" /\ ReactNext
          /\ UNCHANGED <<taskVars, admissionVars, progressVars, streamVars, storeVars>>
       \/ /\ focus = "progress" /\ ProgressNext
          /\ UNCHANGED <<taskVars, admissionVars, reactVars, streamVars, storeVars>>
       \/ /\ focus = "events" /\ StreamNext
          /\ UNCHANGED <<taskVars, admissionVars, reactVars, progressVars, storeVars>>
       \/ /\ focus = "store" /\ StoreNext
          /\ UNCHANGED <<taskVars, admissionVars, reactVars, progressVars, streamVars>>

vars == <<focus, taskVars, admissionVars, reactVars, progressVars, streamVars, storeVars>>

\* The fairness of the service the behaviour is about.
ServicesFairness ==
    /\ \A w \in Thread : WF_taskVars(focus = "tasks" /\ ExecuteTask(w))
    /\ WF_reactVars(focus = "react" /\ Execute)
    /\ WF_streamVars(focus = "events" /\ Serve)
    /\ \A p \in Emitter : WF_streamVars(focus = "events" /\ CommitEvent(p))

ServicesSpec == ServicesInit /\ [][ServicesNext]_vars /\ ServicesFairness
=============================================================================
