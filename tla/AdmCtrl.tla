------------------------------- MODULE AdmCtrl -------------------------------
(***************************************************************************)
(* The host database of adm_ctrl.py, the launch scripts that consult it    *)
(* and the operator who looks after it.  Under admCtrlLock a script asks   *)
(* for a host that has room and writes down what it takes; the operator's  *)
(* commands take no lock.  Every command is a process of its own, and a    *)
(* command that changes a row reads it first and writes it later.  A job   *)
(* may have two scripts at a time: vhpcLaunch.sh starts another one when   *)
(* it finds the answer of an earlier one (line 169), or the job twice in   *)
(* its files after a crash between lines 216 and 217.                      *)
(*                                                                         *)
(* Memory is counted in units of 1024 MB, processors in virtual CPUs.  The *)
(* hosts of the cluster stay the same.  The operator runs one command at a *)
(* time; bound: one update_from_cluster and one delete.                    *)
(***************************************************************************)
EXTENDS Integers, FiniteSets, Totals

CONSTANTS
    Scripts, NoScript,
    JobOf,               \* the job a script launches
    Hosts, NoHost,
    CpuAvail, MemAvail,  \* CPU_Avail, MEM_Avail of each host
    Cpu,                 \* $CPU of each script: ncpu * num_tasks * min_nodes
    Mem,                 \* $MEM of each script
    Nodes,               \* $nodes of each script
    Gigabyte             \* what line 64 of the script adds to $MEM

ASSUME AdmAssumption ==
    /\ NoScript \notin Scripts /\ NoHost \notin Hosts
    /\ IsFiniteSet(Scripts)
    /\ CpuAvail \in [Hosts -> Nat] /\ MemAvail \in [Hosts -> Nat]
    /\ Cpu \in [Scripts -> Nat] /\ Mem \in [Scripts -> Nat]
    /\ Nodes \in [Scripts -> Nat \ {0}]
    /\ \A p, q \in Scripts : JobOf[p] = JobOf[q] =>
          Cpu[p] = Cpu[q] /\ Mem[p] = Mem[q] /\ Nodes[p] = Nodes[q]
    /\ Gigabyte \in Nat

VARIABLES
    table,    \* the table of hosts: "none", "empty", or "filled" with all rows
    sized,    \* the hosts whose row has CPU_Avail and MEM_Avail; others have 0
    alloc,    \* CPU_Alloc, MEM_Alloc and numVMs of each host
    admLock,  \* who holds admCtrlLock
    stage,    \* how far each launch script is
    host,     \* $host of each script
    seen,     \* the row add_vm has read
    op,       \* the operator's command
    given,    \* history: the scripts whose room remove_vm has given back
    past      \* history: what the operator has done, see Deeds

dbVars == <<table, sized>>
opVars == <<op, given>>
admVars == <<table, sized, alloc, admLock, stage, host, seen, op, given, past>>

Stages == {
    "waiting",   \* not started, or before flock -x
    "refused",   \* no room now: nohost puts the job back on the queue
    "asking",    \* the script has the lock; update_maximum reads the rows
    "looking",   \* not too large: the rows are read again for free room
    "chosen", "adding", "added",
    "reserved",  \* the lock is given back
    "up",        \* the VMs are there
    "invalid",   \* cancelled: no host will do
    "failed",    \* no VM was cloned
    "gone",      \* the VMs have been destroyed
    "killed"     \* the script died with the daemon
  }

\* The stages in which a script holds admCtrlLock.
Locked == {"asking", "looking", "chosen", "adding", "added"}

Deeds == {
    "overlap",    \* remove_vm ran while a script held the lock
    "updated",    \* update_from_cluster has begun
    "deleted"     \* the table was dropped
  }

Row == [cpu : Int, mem : Int, vms : Int]
ZeroRow == [cpu |-> 0, mem |-> 0, vms |-> 0]

\* A command that runs: the script whose room it gives back, or the hosts still
\* to do and the one at hand, and the row that was read or measured.
Commands == [cmd : {"idle", "remove", "update", "initdb"},
             script : Scripts \cup {NoScript}, todo : SUBSET Hosts,
             at : Hosts \cup {NoHost}, row : Row]
Idle == [cmd |-> "idle", script |-> NoScript, todo |-> {}, at |-> NoHost,
         row |-> ZeroRow]

\* The memory of a VM of each script, and what all the VMs of a script take.
OneMem == [p \in Scripts |-> Mem[p] + Gigabyte]
AllCpu == [p \in Scripts |-> Cpu[p] * Nodes[p]]
AllMem == [p \in Scripts |-> (Mem[p] + Gigabyte) * Nodes[p]]

-----------------------------------------------------------------------------
(* adm_ctrl.py *)

\* What the script asks for; $CPU is already multiplied by the nodes.
AskedCpu(p) == Cpu[p] * Nodes[p]
AskedMem(p) == Mem[p] * Nodes[p]

AvailCpu(h) == IF h \in sized THEN CpuAvail[h] ELSE 0
AvailMem(h) == IF h \in sized THEN MemAvail[h] ELSE 0

\* update_maximum: the largest of each column, whichever host it is on.
TooLarge(p) ==
    \/ \A h \in Hosts : AskedCpu(p) > AvailCpu(h)
    \/ \A h \in Hosts : AskedMem(p) > AvailMem(h)

\* (mutant: the allocations are left out of the free room)
BadFits(p, h) == AskedCpu(p) <= AvailCpu(h) /\ AskedMem(p) <= AvailMem(h)

Fits(p, h) ==
    /\ AskedCpu(p) <= AvailCpu(h) - alloc[h].cpu
    /\ AskedMem(p) <= AvailMem(h) - alloc[h].mem

-----------------------------------------------------------------------------
(* The script *)

Go(p, from, to) == stage[p] = from /\ stage' = [stage EXCEPT ![p] = to]

\* A process that ends gives its lock back.
LetGo(p) == admLock' = IF admLock = p THEN NoScript ELSE admLock

\* What add_vm has read dies with it.
Forget(p) == seen' = [seen EXCEPT ![p] = ZeroRow]

\* What a script's step leaves alone.
Quiet == UNCHANGED <<dbVars, opVars, past>>

Overlaps(b) == past' = IF b THEN past \cup {"overlap"} ELSE past

\* The other scripts of a job.
Others(p) == {q \in Scripts \ {p} : JobOf[q] = JobOf[p]}

\* The daemon starts another script of a job whose scripts were all refused;
\* a refusal it reads once more starts a script again, even with another alive.
MayStart(p) ==
    stage[p] = "refused" \/ \A q \in Others(p) : stage[q] \in {"waiting", "refused"}

\* (mutant: flock -x does not wait)
BadTakeLock(p) ==
    /\ Go(p, "waiting", "asking") \/ Go(p, "refused", "asking")
    /\ MayStart(p)
    /\ admLock' = p
    /\ Overlaps(op.cmd = "remove")
    /\ UNCHANGED <<dbVars, opVars, alloc, host, seen>>

TakeLock(p) ==
    /\ admLock = NoScript
    /\ Go(p, "waiting", "asking") \/ Go(p, "refused", "asking")
    /\ MayStart(p)
    /\ admLock' = p
    /\ Overlaps(op.cmd = "remove")
    /\ UNCHANGED <<dbVars, opVars, alloc, host, seen>>

\* get_compatible_host returns 2: status 3.
\* (mutant: a script is refused for good when no host has room now)
BadAnswerInvalid(p) ==
    /\ Go(p, "asking", "invalid")
    /\ table = "filled"
    /\ TooLarge(p) \/ \A h \in Hosts : ~Fits(p, h)
    /\ LetGo(p)
    /\ UNCHANGED <<alloc, host, seen>> /\ Quiet

AnswerInvalid(p) ==
    /\ Go(p, "asking", "invalid")
    /\ table = "filled"
    /\ TooLarge(p)
    /\ LetGo(p)
    /\ UNCHANGED <<alloc, host, seen>> /\ Quiet

\* The maxima will do; vCenter is asked for the hosts again.
LookForRoom(p) ==
    /\ Go(p, "asking", "looking")
    /\ table = "filled"
    /\ ~TooLarge(p)
    /\ UNCHANGED <<alloc, admLock, host, seen>> /\ Quiet

\* It returns 0: status 1, and the daemon queues the job again.
\* (mutant: the script that is refused keeps the lock)
BadAnswerBusy(p) ==
    /\ Go(p, "looking", "refused")
    /\ table = "filled"
    /\ \A h \in Hosts : ~Fits(p, h)
    /\ UNCHANGED <<alloc, admLock, host, seen>> /\ Quiet

AnswerBusy(p) ==
    /\ Go(p, "looking", "refused")
    /\ table = "filled"
    /\ \A h \in Hosts : ~Fits(p, h)
    /\ LetGo(p)
    /\ UNCHANGED <<alloc, host, seen>> /\ Quiet

\* It prints one of the hosts that have room (RANDOM_SELECT).
AnswerHost(p) ==
    /\ Go(p, "looking", "chosen")
    /\ table = "filled"
    /\ \E h \in Hosts : Fits(p, h) /\ host' = [host EXCEPT ![p] = h]
    /\ UNCHANGED <<alloc, admLock, seen>> /\ Quiet

\* vCenter does not answer, or there is no table or no row, and the command
\* dies: $host is empty, which is neither "no" nor "invalid"; add_vm misses
\* an argument and dies too.
AnswerNothing(p) ==
    /\ Go(p, "asking", "added") \/ Go(p, "looking", "added")
    /\ UNCHANGED <<alloc, admLock, host, seen>> /\ Quiet

AddVmRead(p) ==
    /\ Go(p, "chosen", "adding")
    /\ table = "filled"
    /\ seen' = [seen EXCEPT ![p] = alloc[host[p]]]
    /\ UNCHANGED <<alloc, admLock, host>> /\ Quiet

\* add_vm $host $CPU $mem*1024 $nodes: the processors and the memory of one
\* VM, and the number of VMs.
AddVmWrite(p) ==
    /\ Go(p, "adding", "added")
    /\ table = "filled"
    /\ alloc' = [alloc EXCEPT ![host[p]] =
         [cpu |-> seen[p].cpu + Cpu[p],
          mem |-> seen[p].mem + Mem[p] + Gigabyte,
          vms |-> seen[p].vms + Nodes[p]]]
    /\ Forget(p)
    /\ UNCHANGED <<admLock, host>> /\ Quiet

\* The rows have gone meanwhile: add_vm dies or changes no row, and the
\* script goes on all the same.
AddVmDies(p) ==
    /\ Go(p, "chosen", "added") \/ Go(p, "adding", "added")
    /\ table # "filled"
    /\ Forget(p)
    /\ UNCHANGED <<alloc, admLock, host>> /\ Quiet

Unlock(p) ==
    /\ Go(p, "added", "reserved")
    /\ LetGo(p)
    /\ UNCHANGED <<alloc, host, seen>> /\ Quiet

\* vhpc cluster --create clones all the nodes of a job on its host, unless
\* another script has cloned them: their names are made of the job's id.
CreateVMs(p) ==
    /\ Go(p, "reserved", "up")
    /\ host[p] # NoHost
    /\ \A q \in Others(p) : stage[q] # "up"
    /\ UNCHANGED <<alloc, admLock, host, seen>> /\ Quiet

\* Nothing is cloned, for the job has its VMs or the clone fails; the
\* reservation stays.
CloneFailed(p) ==
    /\ Go(p, "reserved", "failed")
    /\ UNCHANGED <<alloc, admLock, host, seen>> /\ Quiet

\* The job is over, or ip_fix destroys its VMs.  Nobody calls remove_vm.
Destroyed(p) ==
    /\ Go(p, "up", "gone")
    /\ UNCHANGED <<alloc, admLock, host, seen>> /\ Quiet

\* systemd kills the scripts of a daemon that has failed.
Killed(p) ==
    /\ stage[p] \in Locked \cup {"reserved"}
    /\ stage' = [stage EXCEPT ![p] = "killed"]
    /\ LetGo(p)
    /\ Forget(p)
    /\ UNCHANGED <<alloc, host>> /\ Quiet

-----------------------------------------------------------------------------
(* The operator's commands *)

scriptVars == <<admLock, stage, host, seen>>

\* remove_vm for a script that is over, called with what add_vm was called with.
RemoveRead(p) ==
    /\ op = Idle /\ table = "filled"
    /\ stage[p] \in {"gone", "failed"} /\ host[p] # NoHost /\ p \notin given
    /\ op' = [Idle EXCEPT !.cmd = "remove", !.script = p, !.row = alloc[host[p]]]
    /\ Overlaps(admLock # NoScript)
    /\ UNCHANGED <<dbVars, alloc, given, scriptVars>>

RemoveWrite ==
    LET p == op.script
    IN  /\ op.cmd = "remove"
        /\ alloc' = [alloc EXCEPT ![host[p]] =
             [cpu |-> op.row.cpu - Cpu[p],
              mem |-> op.row.mem - (Mem[p] + Gigabyte),
              vms |-> op.row.vms - Nodes[p]]]
        /\ given' = given \cup {p}
        /\ op' = Idle
        /\ UNCHANGED <<dbVars, past, scriptVars>>

\* On a table without rows update_from_cluster changes nothing.
UpdateStart ==
    /\ op = Idle /\ table = "filled" /\ "updated" \notin past
    /\ op' = [Idle EXCEPT !.cmd = "update", !.todo = Hosts]
    /\ past' = past \cup {"updated"}
    /\ UNCHANGED <<dbVars, alloc, given, scriptVars>>

\* initdb on a table that has rows says so and leaves it alone.  CREATE TABLE
\* is seen at once; the rows are part of the first host's commit.
InitdbStart ==
    /\ op = Idle /\ table # "filled"
    /\ table' = "empty"
    /\ op' = [Idle EXCEPT !.cmd = "initdb", !.todo = Hosts]
    /\ UNCHANGED <<sized, alloc, given, past, scriptVars>>

\* (mutant: the VMs of every host are counted)
BadOnHost(h) == {p \in Scripts : stage[p] = "up" /\ host[p] # NoHost}

OnHost(h) == {p \in Scripts : stage[p] = "up" /\ host[p] = h}

\* The VMs on a host, as vCenter has them: processors of all, memory of those
\* that are switched on.
Measured(h, on) ==
    [cpu |-> Total(AllCpu, OnHost(h)),
     mem |-> Total(AllMem, on),
     vms |-> Total(Nodes, OnHost(h))]

Measure ==
    /\ op.cmd \in {"update", "initdb"} /\ op.at = NoHost
    /\ \E h \in op.todo : \E on \in SUBSET OnHost(h) :
          op' = [op EXCEPT !.at = h, !.todo = @ \ {h}, !.row = Measured(h, on)]
    /\ UNCHANGED <<dbVars, alloc, given, past, scriptVars>>

\* The two UPDATEs and the commit of one host; the first commit of initdb
\* brings the rows of the other hosts with nothing in them.
WriteHost ==
    /\ op.at # NoHost
    /\ table' = "filled"
    /\ sized' = sized \cup {op.at}
    /\ alloc' = [alloc EXCEPT ![op.at] = op.row]
    /\ op' = IF op.todo = {} THEN Idle ELSE [op EXCEPT !.at = NoHost, !.row = ZeroRow]
    /\ UNCHANGED <<given, past, scriptVars>>

Delete ==
    /\ op = Idle /\ table # "none" /\ "deleted" \notin past
    /\ table' = "none" /\ sized' = {}
    /\ alloc' = [h \in Hosts |-> ZeroRow]
    /\ past' = past \cup {"deleted"}
    /\ UNCHANGED <<op, given, scriptVars>>

\* The operator stops a command, or vCenter does not answer it.
OperatorStops ==
    /\ op # Idle
    /\ op' = Idle
    /\ UNCHANGED <<dbVars, alloc, given, past, scriptVars>>

Operator ==
    \/ \E p \in Scripts : RemoveRead(p)
    \/ RemoveWrite \/ UpdateStart \/ InitdbStart \/ Measure \/ WriteHost
    \/ Delete \/ OperatorStops

-----------------------------------------------------------------------------
\* initdb has read the cluster; the VMs it found are not counted again.
Init ==
    /\ table = "filled" /\ sized = Hosts
    /\ alloc = [h \in Hosts |-> ZeroRow]
    /\ admLock = NoScript
    /\ stage = [p \in Scripts |-> "waiting"]
    /\ host = [p \in Scripts |-> NoHost]
    /\ seen = [p \in Scripts |-> ZeroRow]
    /\ op = Idle
    /\ given = {}
    /\ past = {}

\* What a script does once it has the lock.
Proceed(p) ==
    \/ AnswerInvalid(p) \/ LookForRoom(p) \/ AnswerBusy(p) \/ AnswerHost(p)
    \/ AnswerNothing(p) \/ AddVmRead(p) \/ AddVmWrite(p) \/ AddVmDies(p)
    \/ Unlock(p) \/ CreateVMs(p) \/ CloneFailed(p)

Next ==
    \/ \E p \in Scripts : TakeLock(p) \/ Proceed(p) \/ Destroyed(p) \/ Killed(p)
    \/ Operator

Spec == Init /\ [][Next]_admVars

\* A script that has the lock goes on: none of its commands waits for another
\* script or for the operator.
FairSpec == Spec /\ \A p \in Scripts : WF_admVars(Proceed(p))

-----------------------------------------------------------------------------
(* Properties *)

TypeOK ==
    /\ table \in {"none", "empty", "filled"} /\ sized \in SUBSET Hosts
    /\ alloc \in [Hosts -> Row]
    /\ admLock \in Scripts \cup {NoScript}
    /\ admLock # NoScript => stage[admLock] \in Locked
    /\ stage \in [Scripts -> Stages]
    /\ host \in [Scripts -> Hosts \cup {NoHost}]
    /\ seen \in [Scripts -> Row]
    /\ op \in Commands
    /\ given \in SUBSET Scripts /\ past \in SUBSET Deeds

\* No host is sold beyond its room: between the question (adm_ctrl.py:179)
\* and the answer's being written down (line 305) nobody else is answered,
\* and a remove_vm that takes no lock (line 310) only ever lowers a row,
\* whichever of the two writes what it read too early.  (Rows that
\* update_from_cluster has measured may hold anything.)
\* The last script may take the gigabyte it has not asked for.
NeverOversold ==
    past \subseteq {"overlap"} =>
        \A h \in Hosts :
            /\ alloc[h].cpu <= CpuAvail[h]
            /\ alloc[h].mem <= MemAvail[h] + Gigabyte

\* The scripts whose add_vm for host h has written.
Booked(h) ==
    {p \in Scripts : host[p] = h /\
        stage[p] \in {"added", "reserved", "up", "failed", "gone"}}

\* Those that were killed after they were given host h.
KilledOn(h) == {p \in Scripts : host[p] = h /\ stage[p] = "killed"}

\* The scripts that were given host h and may have been written down.
Taken(h) == Booked(h) \cup KilledOn(h)

\* What add_vm writes for the scripts S.
RowFor(S) == [cpu |-> Total(Cpu, S), mem |-> Total(OneMem, S), vms |-> Total(Nodes, S)]

\* No script's reservation is lost or counted twice: a row of the database
\* holds the sum of what add_vm has written for each of some scripts
\* (adm_ctrl.py:302), all those that went on and perhaps some that were killed,
\* less those that remove_vm has given back (line 327) -- as long as the
\* operator runs it while no script has the lock.
BooksBalance ==
    past = {} =>
        \A h \in Hosts : \E killed \in SUBSET KilledOn(h) :
            LET on == (Booked(h) \cup killed) \ given
            IN  alloc[h] = RowFor(on)

\* However the operator's commands overlap the scripts, what a script was
\* given is never counted twice, booked by add_vm and found by
\* update_from_cluster as well: a row is at most what all the VMs of the
\* scripts that were given the host would take (adm_ctrl.py:269, 305, 330).
\* (Of one job two scripts may each be given room: adm_ctrl.py:302 does not
\* look whether the job has had a host already.)
CountedOnce ==
    \A h \in Hosts :
        /\ alloc[h].cpu <= Total(AllCpu, Taken(h))
        /\ alloc[h].mem <= Total(AllMem, Taken(h))
        /\ alloc[h].vms <= Total(Nodes, Taken(h))

\* A job that is cancelled as incompatible would not fit an empty cluster,
\* unless the table was dropped: while initdb fills it, hosts whose room it
\* has not read yet have none (adm_ctrl.py:71, 273).
InvalidForGood ==
    "deleted" \notin past =>
        \A p \in Scripts : stage[p] = "invalid" =>
            \A h \in Hosts : AskedCpu(p) > CpuAvail[h] \/ AskedMem(p) > MemAvail[h]

\* Whoever asks is answered: no answer, refusal or death keeps the lock.
LockComesBack == \A p \in Scripts : admLock = p ~> admLock # p

=============================================================================
