--------------------------- MODULE TeardownProofs ---------------------------
(***************************************************************************)
(* If users give their jobs names of their own, the cleanup daemon never   *)
(* takes a VM from a job that runs, and never forgets a request.  Neither  *)
(* is inductive: that a request, which is only a name, stands for a job    *)
(* that is over has to be carried through the files and the loop.          *)
(***************************************************************************)
EXTENDS Teardown, TLAPS

\* What the users have to see to.
OwnNames == \A i, k \in Jobs : Label[i] = Label[k] => i = k

NameInv == \A j \in Jobs : name[j] # None => name[j][1] = Label[j]

\* The cluster.conf in a job's folder is the job's.
ConfInv ==
    /\ \A n \in JobNames : clusterConf[n] # None => name[clusterConf[n]] = n
    /\ \A j \in Jobs : job[j] # "submitted" => name[j] # None /\ clusterConf[name[j]] = j

\* The requests there are: in the directory, in the loop, in hand.
Requests == completed \cup list \cup ({entry} \ {None})

RequestInv == \A n \in Requests : \E k \in Jobs : name[k] = n /\ job[k] = "over"

VmInv == \A v \in VMs :
    /\ v \in vms => job[v[1]] # "submitted"
    /\ epilog[v] # "none" => job[v[1]] = "over"

\* What the destruction has left standing when it has run.
CleanedInv ==
    /\ daemon \in {"cleaning", "cleaned"} => entry # None
    /\ daemon = "cleaned" =>
           \A v \in vms : name[v[1]] = entry => v[1] \in failed

TInv == /\ TypeOK /\ NameInv /\ ConfInv /\ RequestInv /\ VmInv /\ CleanedInv
        /\ DestroyedOnlyWhenOver /\ RequestKept

LEMMA VmParts == ASSUME NEW v \in VMs PROVE v[1] \in Jobs
BY DEF VMs

LEMMA NamesAreOwn ==
    ASSUME OwnNames, NameInv, NEW i \in Jobs, NEW k \in Jobs, name[i] = name[k], name[i] # None
    PROVE  i = k
BY DEF OwnNames, NameInv

LEMMA NoneIsNone == None \notin Jobs /\ None \notin JobNames
BY TeardownAssumption DEF JobNames

LEMMA TInitially == Init => TInv
<1> SUFFICES ASSUME Init PROVE TInv OBVIOUS
<1>1. TypeOK BY TeardownAssumption DEF Init, TypeOK
<1>2. NameInv /\ ConfInv BY DEF Init, NameInv, ConfInv
<1>3. RequestInv BY DEF Init, RequestInv, Requests
<1>4. VmInv /\ CleanedInv BY DEF Init, VmInv, CleanedInv
<1>5. DestroyedOnlyWhenOver BY VmParts DEF Init, DestroyedOnlyWhenOver
<1>6. RequestKept BY DEF Init, RequestKept
<1> QED BY <1>1, <1>2, <1>3, <1>4, <1>5, <1>6 DEF TInv

-----------------------------------------------------------------------------
LEMMA TickStep == ASSUME TInv, Tick PROVE TInv'
<1>1. UNCHANGED <<name, clusterConf, job, vms, epilog, logs, completed, daemon, list, entry, crashes, failed>>
  BY DEF Tick, vmVars, daemonVars
<1>2. TypeOK' BY <1>1, TeardownAssumption DEF TInv, TypeOK, Tick
<1> QED
  BY <1>1, <1>2 DEF TInv, NameInv, ConfInv, RequestInv, Requests, VmInv, CleanedInv,
                    DestroyedOnlyWhenOver, RequestKept

LEMMA SubmitStep == ASSUME TInv, OwnNames, NEW j \in Jobs, Submit(j) PROVE TInv'
<1> DEFINE n == <<Label[j], now>>
<1>1. name[j] = None /\ name' = [name EXCEPT ![j] = n] BY DEF Submit
<1>2. UNCHANGED <<now, clusterConf, job, vms, epilog, logs, completed, daemon, list, entry, crashes, failed>>
  BY DEF Submit, vmVars, daemonVars
<1>3. n \in JobNames BY TeardownAssumption DEF TInv, TypeOK, JobNames
<1>4. TypeOK' BY <1>1, <1>2, <1>3 DEF TInv, TypeOK
<1>5. name'[j] = n /\ \A k \in Jobs \ {j} : name'[k] = name[k] BY <1>1 DEF TInv, TypeOK
<1>6. NameInv' BY <1>5 DEF TInv, NameInv
<1>7. \A k \in Jobs : name[k] # None => name'[k] = name[k] BY <1>1, <1>5
<1>8. job[j] = "submitted" BY <1>1 DEF TInv, ConfInv
<1>9. ConfInv'
  <2>1. \A m \in JobNames : clusterConf[m] # None => clusterConf[m] \in Jobs BY DEF TInv, TypeOK
  <2>2. \A m \in JobNames : clusterConf[m] # None => name'[clusterConf[m]] = m
    BY <2>1, <1>7, NoneIsNone DEF TInv, ConfInv
  <2>3. \A k \in Jobs : job[k] # "submitted" => name'[k] # None /\ clusterConf[name'[k]] = k
    BY <1>7 DEF TInv, ConfInv
  <2> QED BY <2>2, <2>3, <1>2 DEF ConfInv
<1>10. \A v \in vms : v[1] \in Jobs \ {j} BY <1>8, VmParts DEF TInv, TypeOK, VmInv
<1>11. RequestInv'
  <2>1. \A m \in Requests : m # None BY NoneIsNone DEF TInv, TypeOK, Requests
  <2> QED BY <2>1, <1>2, <1>7 DEF TInv, RequestInv, Requests
<1>12. VmInv' /\ DestroyedOnlyWhenOver' BY <1>2 DEF TInv, VmInv, DestroyedOnlyWhenOver
<1>13. CleanedInv' BY <1>2, <1>5, <1>10 DEF TInv, CleanedInv
<1>14. RequestKept' BY <1>2, <1>5, <1>10 DEF TInv, RequestKept
<1> QED BY <1>4, <1>6, <1>9, <1>11, <1>12, <1>13, <1>14 DEF TInv

LEMMA LaunchStep == ASSUME TInv, OwnNames, NEW j \in Jobs, Launch(j) PROVE TInv'
<1>1. name[j] # None /\ job[j] = "submitted" BY DEF Launch
<1>2. clusterConf' = [clusterConf EXCEPT ![name[j]] = j] BY DEF Launch
<1>3. vms' = vms \cup {v \in VMs : v[1] = j} BY DEF Launch
<1>4. job' = [job EXCEPT ![j] = "running"] BY DEF Launch
<1>5. UNCHANGED <<now, name, epilog, logs, completed, daemon, list, entry, crashes, failed>>
  BY DEF Launch, daemonVars
<1>6. name[j] \in JobNames BY <1>1 DEF TInv, TypeOK
<1>7. clusterConf' \in [JobNames -> Jobs \cup {None}] BY <1>2 DEF TInv, TypeOK
<1>8. vms' \subseteq VMs BY <1>3 DEF TInv, TypeOK
<1>9. job' \in [Jobs -> {"submitted", "running", "over"}] BY <1>4 DEF TInv, TypeOK
<1>10. TypeOK' BY <1>5, <1>7, <1>8, <1>9 DEF TInv, TypeOK
<1>11. job'[j] = "running" /\ \A k \in Jobs \ {j} : job'[k] = job[k] BY <1>4 DEF TInv, TypeOK
<1>12. /\ clusterConf'[name[j]] = j
       /\ \A n \in JobNames \ {name[j]} : clusterConf'[n] = clusterConf[n]
  BY <1>2, <1>6 DEF TInv, TypeOK
<1>13. ConfInv'
  <2>1. \A n \in JobNames : clusterConf'[n] # None => name[clusterConf'[n]] = n
    BY <1>12 DEF TInv, ConfInv
  <2>2. ASSUME NEW k \in Jobs, job'[k] # "submitted"
        PROVE  name[k] # None /\ clusterConf'[name[k]] = k
    <3>1. CASE k = j BY <3>1, <1>1, <1>12
    <3>2. CASE k # j
      <4>1. name[k] # None /\ clusterConf[name[k]] = k BY <2>2, <3>2, <1>11 DEF TInv, ConfInv
      <4>2. name[k] # name[j] BY <3>2, <4>1, NamesAreOwn DEF TInv
      <4>3. name[k] \in JobNames BY <4>1 DEF TInv, TypeOK
      <4> QED BY <4>1, <4>2, <4>3, <1>12
    <3> QED BY <3>1, <3>2
  <2> QED BY <2>1, <2>2, <1>5 DEF ConfInv
<1>14. NameInv' BY <1>5 DEF TInv, NameInv
<1>15. RequestInv' BY <1>1, <1>5, <1>11 DEF TInv, RequestInv, Requests
<1>16. VmInv' BY <1>1, <1>3, <1>5, <1>11, VmParts DEF TInv, VmInv
<1>17. DestroyedOnlyWhenOver' BY <1>3, <1>11, VmParts DEF TInv, DestroyedOnlyWhenOver
<1>18. \A n \in Requests : n # name[j]
  BY <1>1, NamesAreOwn DEF TInv, RequestInv
<1>19. CleanedInv'
  <2>1. daemon = "cleaned" => entry # name[j]
    BY <1>1, <1>18 DEF Requests
  <2> QED BY <2>1, <1>3, <1>5 DEF TInv, CleanedInv
<1>20. RequestKept'
  <2>1. \A v \in VMs : v[1] = j => epilog[v] = "none" BY <1>1 DEF TInv, VmInv
  <2> QED BY <2>1, <1>3, <1>5 DEF TInv, RequestKept
<1> QED BY <1>10, <1>13, <1>14, <1>15, <1>16, <1>17, <1>19, <1>20 DEF TInv

LEMMA JobEndsStep == ASSUME TInv, NEW j \in Jobs, JobEnds(j) PROVE TInv'
<1>1. job[j] = "running" /\ job' = [job EXCEPT ![j] = "over"] BY DEF JobEnds
<1>2. UNCHANGED <<now, name, clusterConf, vms, epilog, logs, completed, daemon, list, entry, crashes, failed>>
  BY DEF JobEnds, vmVars, daemonVars
<1>3. TypeOK' BY <1>1, <1>2 DEF TInv, TypeOK
<1>4. job'[j] = "over" /\ \A k \in Jobs \ {j} : job'[k] = job[k] BY <1>1 DEF TInv, TypeOK
<1>5. NameInv' /\ ConfInv' BY <1>1, <1>2, <1>4 DEF TInv, NameInv, ConfInv
<1>6. RequestInv' BY <1>1, <1>2, <1>4 DEF TInv, RequestInv, Requests
<1>7. VmInv' BY <1>1, <1>2, <1>4, VmParts DEF TInv, VmInv
<1>8. DestroyedOnlyWhenOver' BY <1>1, <1>2, <1>4, VmParts DEF TInv, DestroyedOnlyWhenOver
<1>9. CleanedInv' /\ RequestKept' BY <1>2 DEF TInv, CleanedInv, RequestKept
<1> QED BY <1>3, <1>5, <1>6, <1>7, <1>8, <1>9 DEF TInv

LEMMA VMStep == ASSUME TInv, NEW v \in VMs, VM(v) PROVE TInv'
<1>1. PICK from \in {"none", "notified", "copied"}, to \in {"notified", "copied", "down"} :
        /\ v \in vms /\ epilog[v] = from /\ epilog' = [epilog EXCEPT ![v] = to]
        /\ from = "none" => Notify(v)
  BY DEF VM, Notify, CopyLogs, MarkDown, EpilogStep
<1>2. UNCHANGED <<now, name, clusterConf, job, vms, daemon, list, entry, crashes>>
  BY DEF VM, Notify, CopyLogs, MarkDown, EpilogStep, systemVars, daemonVars
<1>3. v[1] \in Jobs BY VmParts
<1>4. job[v[1]] = "over" BY <1>1 DEF TInv, VmInv, Notify
<1>5. name[v[1]] \in JobNames BY <1>3, <1>4 DEF TInv, TypeOK, ConfInv
<1>6. /\ completed \subseteq completed' /\ completed' \subseteq completed \cup {name[v[1]]}
      /\ failed \subseteq failed' /\ failed' \subseteq failed \cup {v[1]}
      /\ logs' \subseteq logs \cup {v}
  BY DEF VM, Notify, CopyLogs, MarkDown
<1>7. epilog[v] # "none" \/ name[v[1]] \in completed' \/ v[1] \in failed' BY <1>1 DEF Notify
<1>8. epilog' \in [VMs -> {"none", "notified", "copied", "down"}] BY <1>1 DEF TInv, TypeOK
<1>9. TypeOK' BY <1>2, <1>3, <1>5, <1>6, <1>8 DEF TInv, TypeOK
<1>10. epilog'[v] # "none" /\ \A u \in VMs \ {v} : epilog'[u] = epilog[u]
  BY <1>1 DEF TInv, TypeOK
<1>11. NameInv' /\ ConfInv' /\ DestroyedOnlyWhenOver'
  BY <1>2 DEF TInv, NameInv, ConfInv, DestroyedOnlyWhenOver
<1>12. RequestInv' BY <1>2, <1>3, <1>4, <1>6 DEF TInv, RequestInv, Requests
<1>13. VmInv' BY <1>2, <1>4, <1>10 DEF TInv, VmInv
<1>14. CleanedInv' BY <1>2, <1>6 DEF TInv, CleanedInv
<1>15. RequestKept'
  <2>1. vms \subseteq VMs BY DEF TInv, TypeOK
  <2> QED BY <2>1, <1>2, <1>6, <1>7, <1>10 DEF TInv, RequestKept
<1> QED BY <1>9, <1>11, <1>12, <1>13, <1>14, <1>15 DEF TInv

-----------------------------------------------------------------------------
(* The daemon *)

\* It only moves requests from the directory to its loop and to its hand.
LEMMA LoopStep ==
    ASSUME TInv, ListCompleted \/ NextEntry \/ EndLoop \/ CleanupCrash
    PROVE  TInv'
<1>1. UNCHANGED <<now, name, clusterConf, job, vms, epilog, logs, completed, failed>>
  BY DEF ListCompleted, NextEntry, EndLoop, CleanupCrash, systemVars, vmVars
<1>2. /\ daemon' \in {"idle", "loop", "cleaning"}
      /\ list' \subseteq completed \cup list
      /\ entry' \in list \cup {entry, None}
      /\ crashes' \in 0 .. MaxCrashes
  BY TeardownAssumption DEF ListCompleted, NextEntry, EndLoop, CleanupCrash, TInv, TypeOK
<1>3. TypeOK' BY <1>1, <1>2 DEF TInv, TypeOK
<1>4. Requests' \subseteq Requests BY <1>1, <1>2 DEF Requests
<1>5. RequestInv' BY <1>1, <1>4 DEF TInv, RequestInv
<1>6. CleanedInv'
  BY <1>2, NoneIsNone DEF ListCompleted, NextEntry, EndLoop, CleanupCrash, TInv, TypeOK, CleanedInv
<1> QED BY <1>1, <1>3, <1>5, <1>6 DEF TInv, NameInv, ConfInv, VmInv, DestroyedOnlyWhenOver, RequestKept

\* The entry in hand stands for a job that is over, whose VMs these are.
LEMMA CleanUpStep == ASSUME TInv, OwnNames, CleanUp PROVE TInv'
<1>1. daemon = "cleaning" /\ daemon' = "cleaned" BY DEF CleanUp
<1>2. UNCHANGED <<now, name, clusterConf, job, epilog, logs, completed, list, entry, crashes>>
  BY DEF CleanUp, systemVars
<1>3. entry # None /\ entry \in Requests BY <1>1 DEF TInv, CleanedInv, Requests
<1>4. PICK k \in Jobs : name[k] = entry /\ job[k] = "over" BY <1>3 DEF TInv, RequestInv
<1>5. clusterConf[entry] = k BY <1>4 DEF TInv, ConfInv
<1>6. /\ vms' \subseteq vms /\ \A v \in vms \ vms' : v[1] = k
      /\ failed \subseteq failed' /\ failed' \subseteq failed \cup {k}
      /\ k \in failed' \/ \A v \in vms' : v[1] # k
  <2>1. vms \subseteq VMs BY DEF TInv, TypeOK
  <2> QED BY <2>1, <1>5 DEF CleanUp, VMsOf
<1>7. TypeOK' BY <1>1, <1>2, <1>6 DEF TInv, TypeOK
<1>8. NameInv' /\ ConfInv' /\ RequestInv' BY <1>2 DEF TInv, NameInv, ConfInv, RequestInv, Requests
<1>9. VmInv' BY <1>2, <1>6 DEF TInv, VmInv
<1>10. DestroyedOnlyWhenOver' BY <1>2, <1>4, <1>6 DEF TInv, DestroyedOnlyWhenOver
<1>11. CleanedInv'
  <2>1. \A v \in vms : v[1] \in Jobs BY VmParts DEF TInv, TypeOK
  <2>2. \A v \in vms : name[v[1]] = entry => v[1] = k
    BY <2>1, <1>3, <1>4, NamesAreOwn DEF TInv
  <2> QED BY <2>2, <1>2, <1>3, <1>6 DEF CleanedInv
<1>12. RequestKept' BY <1>2, <1>6 DEF TInv, RequestKept
<1> QED BY <1>7, <1>8, <1>9, <1>10, <1>11, <1>12 DEF TInv

LEMMA RemoveEntryStep == ASSUME TInv, RemoveEntry PROVE TInv'
<1>1. daemon = "cleaned" /\ daemon' = "loop" BY DEF RemoveEntry
<1>2. completed' = completed \ {entry} BY DEF RemoveEntry
<1>3. UNCHANGED <<now, name, clusterConf, job, vms, epilog, logs, list, entry, crashes, failed>>
  BY DEF RemoveEntry, systemVars, vmVars
<1>4. TypeOK' BY <1>1, <1>2, <1>3 DEF TInv, TypeOK
<1>5. NameInv' /\ ConfInv' /\ VmInv' /\ DestroyedOnlyWhenOver'
  BY <1>3 DEF TInv, NameInv, ConfInv, VmInv, DestroyedOnlyWhenOver
<1>6. RequestInv' BY <1>2, <1>3 DEF TInv, RequestInv, Requests
<1>7. CleanedInv' BY <1>1 DEF CleanedInv
<1>8. RequestKept' BY <1>1, <1>2, <1>3 DEF TInv, RequestKept, CleanedInv
<1> QED BY <1>4, <1>5, <1>6, <1>7, <1>8 DEF TInv

LEMMA TStep == ASSUME OwnNames PROVE TInv /\ [Next]_teardownVars => TInv'
<1> SUFFICES ASSUME TInv, [Next]_teardownVars PROVE TInv' OBVIOUS
<1>1. CASE UNCHANGED teardownVars
  BY <1>1 DEF teardownVars, systemVars, vmVars, daemonVars, TInv, TypeOK, NameInv, ConfInv, RequestInv,
              Requests, VmInv, CleanedInv, DestroyedOnlyWhenOver, RequestKept
<1>2. CASE Next
  BY <1>2, TickStep, SubmitStep, LaunchStep, JobEndsStep, VMStep, LoopStep, CleanUpStep,
     RemoveEntryStep DEF Next, Daemon
<1> QED BY <1>1, <1>2

-----------------------------------------------------------------------------
\* The daemon never takes a VM away from a job that runs, whatever fails and
\* however often it dies, for any jobs whose users named them apart.  Without
\* OwnNames the second in the name (job_submit.lua:22) is all there is.
THEOREM RunningJobsKeepVMs ==
    ASSUME OwnNames PROVE Spec => []DestroyedOnlyWhenOver
<1>1. TInv => DestroyedOnlyWhenOver BY DEF TInv
<1> QED BY <1>1, TInitially, TStep, PTL DEF Spec

\* A request to destroy VMs is there as long as they are, unless one of the
\* job's own commands has failed.
THEOREM RequestsAreKept ==
    ASSUME OwnNames PROVE Spec => []RequestKept
<1>1. TInv => RequestKept BY DEF TInv
<1> QED BY <1>1, TInitially, TStep, PTL DEF Spec

=============================================================================
