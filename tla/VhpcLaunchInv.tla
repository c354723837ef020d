--------------------------- MODULE VhpcLaunchInv ---------------------------
(***************************************************************************)
(* Why a job is released only with its VM: the inductive invariant.        *)
(*                                                                         *)
(* A job is in at most one place at a time: with the plugin, in the queue, *)
(* pending, being spawned, spawned, or released.  "In" a file means in the *)
(* file itself, among the lines its loop has yet to read, or in the        *)
(* daemon's hands; while the daemon copies a line from one file to the     *)
(* next the job already counts as being where it goes.                     *)
(***************************************************************************)
EXTENDS VhpcLaunch

SpawnedLoop == {"spawned", "release", "unspawn"}
SpawningHands == {
    "nohost", "requeue", "clonefail", "restub", "incompatible", "scancel",
    "ipfix", "ipcancel", "ipdrop", "addspawned", "tospawned"}
SpawningLoop == SpawningHands \cup {"spawning"}
QueueLoop == {"queued", "dequeue", "launch"}
PendingLoop == {"pending", "unpend", "launchpending"}

InHand(j, points) == cur = Line(j) /\ dpc \in points
Unread(j, loop) == HasLine(todo, Line(j)) /\ dpc \in loop

WithPlugin(j) ==
    pjob = j /\ ppc \in {"vmlock", "queue", "flush", "pendinglock", "append"}

InQueue(j) ==
    \/ HasLine(queued, Line(j)) /\ ~InHand(j, {"dequeue"})
    \/ Unread(j, QueueLoop)

InPending(j) ==
    \/ HasLine(pending, Line(j)) /\ ~InHand(j, {"unpend"})
    \/ Unread(j, PendingLoop)

InSpawning(j) ==
    \/ HasLine(spawning, Line(j))
    \/ Unread(j, SpawningLoop)
    \/ InHand(j, SpawningHands)
    \/ InHand(j, {"dequeue", "launch", "unpend", "launchpending"})

InSpawned(j) ==
    \/ HasLine(spawned, Line(j)) /\ ~InHand(j, {"unspawn"})
    \/ Unread(j, SpawnedLoop)
    \/ InHand(j, {"release"})

Released(j) == job[j] = "released"

Nowhere(j) ==
    /\ ~WithPlugin(j) /\ ~InQueue(j) /\ ~InPending(j)
    /\ ~InSpawning(j) /\ ~InSpawned(j) /\ ~Released(j)

OnePlace(j) ==
    /\ job[j] = "new" => Nowhere(j)
    /\ WithPlugin(j) =>
         ~InQueue(j) /\ ~InPending(j) /\ ~InSpawning(j) /\ ~InSpawned(j) /\ ~Released(j)
    /\ InQueue(j) => ~InPending(j) /\ ~InSpawning(j) /\ ~InSpawned(j) /\ ~Released(j)
    /\ InPending(j) => ~InSpawning(j) /\ ~InSpawned(j) /\ ~Released(j)
    /\ InSpawning(j) => ~InSpawned(j) /\ ~Released(j)
    /\ InHand(j, {"unspawn"}) =>
         /\ job[j] # "new" /\ ~WithPlugin(j)
         /\ ~InQueue(j) /\ ~InPending(j) /\ ~InSpawning(j) /\ ~InSpawned(j)

\* A job that is to be released has not been yet, unless a crash has come
\* between its release and the end of its line.
ReleasedLast(j) == InSpawned(j) => ~Released(j)

\* No file and no loop has two lines for the job, and no loop leaves one unread.
OneLine(j) ==
    /\ \A f \in {queued, pending, spawning, spawned, todo} : f[Line(j)] <= 1
    /\ InHand(j, Handling) => ~HasLine(todo, Line(j))
    /\ HasLine(todo, Line(j)) =>
         dpc \in SpawnedLoop \cup SpawningLoop \cup QueueLoop \cup PendingLoop
    /\ InHand(j, InMemoryOnly) => ~HasLine(spawning, Line(j))

\* Who is at work has something to work on.
AtWork ==
    /\ ppc \notin {"idle", "down"} => pjob \in Jobs /\ job[pjob] = "submitting"
    /\ \A j \in Jobs :
         job[j] = "submitting" => ppc \notin {"idle", "down"} /\ pjob = j
    /\ dpc \in Handling => cur \in Lines
    /\ dpc \notin Handling => cur = NoLine
    /\ dpc \in {"dequeue", "launch", "unpend", "launchpending"} => rate <= Limit

\* Lines without an id are only queued: they are never judged, spawned,
\* released or pending.
WholeHands == SpawningHands \cup {"release", "unspawn", "unpend", "launchpending"}

WholeLines ==
    /\ dpc \in WholeHands => cur.whole
    /\ \A j \in Jobs :
         /\ ~HasLine(spawned, Stub(j)) /\ ~HasLine(pending, Stub(j))
         /\ dpc \in SpawnedLoop \cup PendingLoop => ~HasLine(todo, Stub(j))

\* The daemon has given the job up because its VM has no address.
GivenUp(j) ==
    \/ InHand(j, {"ipcancel", "ipdrop"})
    \/ Nowhere(j) /\ job[j] # "new"

\* Or it has been given up after all, and slurmctld will not run it.
Cancelled(j) == job[j] = "cancelled"

\* What a script, the status file, the daemon and slurmctld take the VM for.
VmKnown(j) ==
    /\ (\E r \in Runs : At(j, r, "addressed")) =>
         vm[j] \in {"cloned", "ready"} \/ GivenUp(j) \/ Cancelled(j)
    /\ (status[j] = Ready \/ \E r \in Runs : At(j, r, "ready")) =>
         vm[j] = "ready" \/ GivenUp(j) \/ Cancelled(j)
    /\ InHand(j, {"addspawned", "tospawned", "unspawn"}) => vm[j] = "ready" \/ Cancelled(j)
    /\ InSpawned(j) => vm[j] = "ready" \/ Cancelled(j)
    /\ Released(j) => vm[j] = "ready"

\* What they take its node for: a node that is in slurm_slaves.conf, and from
\* the restart of slurmctld at the top of the spawned loop one it knows.
NodeKnown(j) ==
    /\ status[j] = Ready \/ (\E r \in Runs : At(j, r, "ready")) => j \in conf
    /\ InHand(j, {"addspawned", "tospawned"}) \/ HasLine(spawned, Line(j)) => j \in conf
    /\ Unread(j, SpawnedLoop) \/ InHand(j, {"release"}) => j \in nodes
    /\ Released(j) => j \in nodes

\* Where a lock is held, and who holds it there.
VmLockPoints == SpawnedLoop \cup SpawningLoop \cup QueueLoop
                \cup {"openspawned", "openspawning", "openqueued"}

LockInv ==
    /\ vmlock = "daemon" <=> dpc \in VmLockPoints
    /\ pendinglock = "daemon" <=> dpc \in PendingLoop
    /\ vmlock = "plugin" <=> ppc = "queue"
    /\ pendinglock = "plugin" <=> ppc = "append"

TypeInv == TypeOK /\ AtWork /\ WholeLines
PlaceInv == \A j \in Jobs : OnePlace(j) /\ ReleasedLast(j) /\ OneLine(j)
VmInv == \A j \in Jobs : VmKnown(j)
NodeInv == nodes \subseteq conf /\ \A j \in Jobs : NodeKnown(j)

\* Nothing is made for a job before it is accepted.
NewInv ==
    \A j \in Jobs :
        job[j] = "new" => vm[j] = "none" /\ \A r \in Runs : At(j, r, "idle")

\* The inductive invariant, checked here before it is proved.
IInv == TypeInv /\ LockInv /\ PlaceInv /\ VmInv /\ NodeInv /\ NewInv

-----------------------------------------------------------------------------
(* What is kept where, when no id and no name occurs in another *)

Collisionless ==
    \A p, j \in Jobs :
        /\ <<p, j>> \in IdInId \/ <<p, j>> \in NameInName => p = j
        /\ <<p, j>> \notin IdInName

\* The daemon has a line in its memory alone only where InMemoryOnly says so,
\* and a line it has yet to read is still in the file its loop reads, but for
\* the lines of the queue loop, which may have gone astray.
Kept(j) ==
    /\ Unread(j, SpawnedLoop) \/ InHand(j, {"release", "unspawn"}) =>
         HasLine(spawned, Line(j))
    /\ Unread(j, SpawningLoop) \/ InHand(j, SpawningHands \ InMemoryOnly) =>
         HasLine(spawning, Line(j))
    /\ Unread(j, PendingLoop) => HasLine(pending, Line(j))
    /\ InHand(j, {"dequeue", "launch", "unpend", "launchpending"}) =>
         HasLine(spawning, Line(j))

KeptInv == Collisionless => \A j \in Jobs : Kept(j)

\* With slurmctld answering while it is there, a job is settled before its
\* line is dropped.
AnsweredInv ==
    "scontrol" \notin Faults /\ ppc # "down" =>
        \A j \in Jobs : InHand(j, {"unspawn", "ipdrop"}) => Settled(j)

\* With VMs always made, no launch reports that there are none.
ClonedInv ==
    "noclone" \notin Faults =>
        dpc \notin {"clonefail", "restub"} /\ \A j \in Jobs : status[j] # NoClone
=============================================================================
