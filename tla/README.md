# Verification of vms-for-slurm

TLA+ models, model checks and proofs for the VM-per-job extension of Slurm: a
job is held when it arrives, VMs are created for it on a vSphere cluster, the
job is released onto them, and they are destroyed when it is over.

Paths are relative to the repository. Short names: *plugin* is
`slurm/plugins/src/hold_wrapper.c`, *daemon* is `daemons/src/vhpcLaunch.sh`,
*script* is `slurm/slurmctld/pending_slave_vm_launch.sh`, *cleanup daemon* is
`daemons/src/vhpcCleanup.sh`.

- [The system](#the-system)
- [Modules](#modules)
- [How the models correspond to the code](#how-the-models-correspond-to-the-code)
- [Runs](#runs)
- [Fairness](#fairness)
- [Proofs](#proofs)
- [Where code and documentation disagree](#where-code-and-documentation-disagree)
- [Not modelled](#not-modelled)
- [Plan](#plan)

## The system

A job passes through these parts, in this order.

| Part | State it keeps | Operations | Talks to |
|---|---|---|---|
| job naming, `job_submit.lua` | `/var/spool/<name>-<second>/` with `job_config`, `job_script` | `slurm_job_submit` | slurmctld, in which it runs; the folder is read by the script |
| plugin, `hold_wrapper.c` | none of its own; appends to `queued_jobs` or `pending_jobs` | `slurm_sched_p_initial_priority`, also called again by every release | the daemon, through files and the flocks `vmlock`, `pendinglock` |
| daemon, `vhpcLaunch.sh` | `queued_jobs`, `pending_jobs`, `spawning_jobs`, `spawned_jobs`, `running_jobs`; a counter of launches per minute | four loops, one per file; `run_job`, `nohost`, `clone_fail`, `incompatible_job`, `ip_fix`, `addSpawned` | starts scripts in the background, reads their status files, calls `scontrol`, `scancel`, restarts slurmctld |
| script, one process per launch | `lock/<jobid>` (status 0 to 4), a line of `slurm_slaves.conf`, the VMs | reserve a host, clone, wait for an address, set up | admission control under `admCtrlLock`, vCenter |
| admission control, `adm_ctrl.py` | one SQLite row per host | `get_compatible_host`, `add_vm`; `remove_vm`, `update_from_cluster`, `initdb`, `delete` for an operator | the scripts; vCenter |
| select/linear, `select_linear.c` | `cr_ptr`: memory, exclusive jobs, jobs per partition of each node; two lists of job ids | `select_p_job_test`, `_begin`, `_fini`, `_suspend`, `_resume`, `_resized`, `_expand`, `_node_init`, `_reconfigure` | slurmctld, in which it runs, under `cr_mutex` |
| epilog, `vhpc.c` and `cleanup.sh` | none; `completed_jobs/<name>` on the controller | `slurm_spank_job_epilog` in every VM of a job | cleanup daemon, through the file |
| cleanup daemon, `vhpcCleanup.sh` | none | a loop over `completed_jobs` | the controller's own `cleanup.sh`, which destroys VMs |

What is hard about it:

- **Interleaving.** Plugin, daemon and up to one script per launch change the
  same files. The plugin may not wait (it runs inside slurmctld), so it tries
  one lock, then another; the daemon holds one while it tries the other.
  `sed -i` replaces a file under a reader or writer that has it open.
- **Stale state.** A status file outlives the launch it speaks of. slurmctld
  knows only the nodes it read at its last restart. The room of a host is read
  by one process and written by another.
- **Requeue.** Every failure puts a job back, and a second script may start
  while the first is alive. Both reserve room.
- **Crash.** systemd restarts both daemons; what was in memory only is gone.
- **Names.** Lines are deleted by patterns (`/$jobid/d`), VMs by the name of a
  folder that ends in a second.
- **An operator.** The commands of `adm_ctrl.py` take no lock and overlap the
  scripts.
- **Books.** The two accounts of capacity, `hosts` and `cr_ptr`, are changed
  call by call and have to agree with what exists.

What makes each part correct:

- launch (plugin, daemon, script): a job is released only with its VM up and
  its node known, once; a recorded job is never lost and is tried again until
  it is settled, or the limit on launches turns it away; locks come back.
- admission control: no host is sold beyond its room, no reservation is lost or
  doubled, a job is refused for good only if it fits nowhere.
- teardown: VMs go after their job and not before; all of them, unless one of
  the job's own notifications or destructions has failed.
- select/linear: the books are those a restart would compute; exclusive jobs
  are alone, memory fits, the sharing limit holds; a start that is promised for
  later comes true; the nodes a job gets are what it asked for, and the best.

`PROJECT.json` lists every hazard at its line and the property that covers it,
or why none does.

## Modules

| Module | What it is |
|---|---|
| `LaunchState` | what plugin, daemon and scripts share: files, locks, statuses, VMs, the states of a job |
| `HoldPlugin` | the plugin, one action per lock or stream operation |
| `LaunchScript` | the script, with admission control as a choice of answers |
| `VhpcLaunch` | the daemon; composes the three into one system, with its properties |
| `VhpcLaunchCrash` | the same with a daemon that dies and is restarted |
| `JobLifecycle` | the abstract promise: wait, get a VM, run on it; `VhpcLaunch` implements it |
| `VhpcLaunchInv` | why the launch is right: its inductive invariant, part by part |
| `VhpcLaunchProofs` | its proof: types and locks, the one place of a job, then VM and node, the promise kept, what can be lost |
| `VhpcLaunchCrashProofs` | what is left of it after any number of crashes |
| `AdmCtrl`, `AdmCtrlProofs` | scripts and an operator against the host database, command by command |
| `Teardown`, `TeardownProofs` | names, epilog, cleanup daemon |
| `SelectLinear`, `SelectLinearProofs` | the books of select/linear; the proofs are also those of `SelectPlan` |
| `Totals`, `TotalsProofs` | sums over finite sets, which both accounts are made of |
| `SelectPlan` | what is tried out on a copy of them: preemption, will-run, test-only |
| `JobTest` | which of the usable nodes a job gets, nodes in a row: `_job_test` |
| `TopoTest` | the same on a tree or a dragonfly of switches |
| `CubeTest` | the same on a hypercube |
| `JobTestProofs`, `CubeTestProofs` | what `_job_test` promises, on a row of nodes and then on any network |
| `MC*` | values of the constants and symmetries for TLC |

`LaunchState <- HoldPlugin, LaunchScript <- VhpcLaunch <- VhpcLaunchInv <-
VhpcLaunchCrash`; `Totals <- AdmCtrl, SelectLinear`; `SelectLinear <-
SelectPlan`; `JobTest <- TopoTest <- CubeTest`.
`AdmCtrl`, `Teardown`, `SelectLinear` and `JobTest` meet the launch and each
other at one point each (the answer `reserve` of the script, the existence of
VMs, the release, the usable nodes), where the other side is a nondeterministic
choice.

Operators called `Bad...` are not part of a model. Each is a mutated form of the
definition after it; with it in place of that definition a property fails, which
shows what the property is worth.

## How the models correspond to the code

`PROJECT.json` maps each definition to its lines. What is not obvious:

**Files.** A job file is a bag of lines and a loop takes them in any order: an
over-approximation that makes the models independent of how lines got where
they are. A line is a job and whether it is `whole`; `clone_fail` leaves lines
`<jobid> ` that are not. Patterns are relations between jobs (`IdInId`,
`NameInName`, ...), reflexive, otherwise free; the proofs hold for every such
relation, so ids may collide in any way. `MaxCopies` caps how many equal lines a
bag is seen to hold.

**Streams.** `inode` says whether the plugin's open stream refers to the file,
to the inode that `sed -i` replaced and the daemon still reads (`old`), or to
nothing. fclose comes after the unlock (`hold_wrapper.c:165-166`), hence two
actions. A line that reaches the replaced inode while the daemon still reads it
is launched like any other, so it is on record (`Recorded`); it has *gone
astray* (`AstrayTurnedAway`) if it is in that inode alone, for the daemon drops
it when the rate is used up.

**slurmctld.** `f >= 0` (`hold_wrapper.c:127`, `161`) is true of NULL, so a file
that cannot be opened takes slurmctld down (`PluginNoFile`): its locks are free,
the job it was about to accept is gone, and it stays away until the daemon
restarts it (`vhpcLaunch.sh:140`); commands fail meanwhile. The other jobs are
taken to have been saved.

**Daemon.** `dpc` names the next command, `cur` the line in hand, `todo` the
unread lines. Each `sed -i`, `echo >>`, `scontrol`, `scancel` is an action: the
daemon may die, and scripts, plugin and users act, between any two.

**Script.** Up to `Runs` scripts per job live at a time; the daemon does not
know about them, nor do they know of each other. The bound is a cap on requeues
that overtake their predecessors. The VMs of a job are none, some (`partial`),
all (`cloned`), or all and set up (`ready`): `cluster --create` may make some
only, which the script notices in its loop over the nodes, at the first one that
has no address. That loop is one action.

**Faults.** What may go wrong is a constant: no room, no clone, no fit, no
address, locks (`open`) or files (`nofile`) that the plugin cannot open, slurmctld not
answering.

**Admission control.** `get_compatible_host` reads the hosts twice, for the two
maxima and for free room, and `add_vm` is a SELECT and an UPDATE that no
transaction spans; under `admCtrlLock` no other script is in between, but an
operator may be. Numbers follow the script: `$CPU` is multiplied by the nodes
once (line 70) and again in the question (line 105), memory is booked with a
gigabyte more than was asked (line 64). Both are kept, so what is proved is what
these figures give. An empty answer is a host to the script; `AnswerNothing` has
what follows. The two reads of a script's `get_compatible_host` and the read and
the write of `add_vm` are apart; the three SELECTs of `add_vm` (lines 292-300)
are one action, so a `remove_vm` that commits between two of them is not
followed.

A script is the process, `JobOf` its job: the daemon may start a script of a job
while another is alive, if one has been refused (`MayStart`; line 169 of the
daemon reads an old status, line 218 starts the next). VMs are created once per
job, since their names are made of its id. The books count per script.

The operator runs one command at a time: `remove_vm` of a job whose VMs are
gone, with the arguments of its `add_vm`; `update_from_cluster` and `initdb`,
which measure and write host by host (`Measure`, `WriteHost`); `delete`. Any of
them may stop between two hosts. vCenter's count of VMs follows the script's
creations and destructions; a VM may be switched off, and then its memory is not
counted. The rows of a SELECT are read in one step. `past` records what the
operator has done, since each property holds up to some of it.

**Sums.** `Total(f, S)` is the number of cells of a table with a row of `f[x]`
cells for each `x` in `S`. A fold would say the same, but its laws would need an
induction over sets, for which the provers have no rule; on the cardinality of a
set they have theorems.

**Crash.** `Crash` puts the daemon back to its start, frees its locks and kills
the scripts; files, statuses, VMs and jobs stay. `doubled` and `deserted` are
history: the jobs a crash has left with two claims on their VM, and those whose
launch it has cut short. A job is doubled if its line is in `spawning_jobs` and
still in the file it comes from, or if the crash is inside `ip_fix` and slurmctld
has not cancelled the job. It is deserted if a script of its own was killed, or
if its line had moved to `spawning_jobs` and the script was about to start.

**Teardown.** A request is a name. `clusterConf` is whose VMs the folder of that
name describes: the last job to write it. The controller's
`/var/spool/cleanup.sh` is not in the repository; it is taken to destroy the VMs
in the `cluster.conf` of the current directory, or fail.

**select/linear.** Every entry point holds `cr_mutex` throughout, so each is one
action. `granted`, `drifted` and `suspends` are history: the nodes a job has
from `select_p_job_test` (and neither from a merge nor back from a suspension),
whether the books were kept through a suspension, a bound.
`Rebuilt` is `_init_node_cr`, which follows a reconfiguration and a restart.
Which usable nodes a job gets is any large enough set: `_job_test` picks one of
them unless it picks nodes that are not usable (see below).

**What-ifs.** `_run_now` with candidates for preemption and `_will_run_test`
work on a copy of the books, so they are operators of `SelectPlan` on a state,
not actions: `Preemption` is the set of answers (nodes and `preemptee_job_list`),
`WillRun` the return code and the jobs that are gone at the time a job is told, if
it is told any; with TEST_NOW_ONLY set or not, and for any active jobs left out
of the copy (no end time, no nodes). `usable_nodes`
keeps what the passes over the list leave in it. `Requeued` are the jobs that
preemption takes everything from; the others it suspends.

**Choice of nodes.** `JobTest` is one call of `_job_test`, an action for what
comes before the loops and one for each round of a loop. The table of
consecutive sets is written down by what it holds (`Record`), not by the pass
that fills it; a set whose nodes are all required leaves no record, as in the
code. A set is known by its first node (`Starts`). The comparison of two sets
keeps its clauses and their order. The nodes of a set are taken up from the
required node, or from the first, and then down: `Place` is where a node comes in
that walk, and `Some` are those before which not enough had come. CPUs per
node are part of the request: `_get_avail_cpus` is a function of job and node.
`JobTestAssumption` says what slurmctld, which is not in the repository, asks
for: `min_nodes <= req_nodes <= max_nodes`, required nodes counted in
`min_nodes`. It also says what its topology plugins set up: the nodes of a switch
are those of the leaves below it, and each curve over a hypercube comes by every
switch once and so by every node; the nodes of each of its switches are numbered
in a row (`Laid`), since `avail_cnt` is taken of a range of numbers
(lines 1516-1522).

`network` says where a call goes (lines 764-780); "row" is also an optional
topology whose job asks for no number of switches. On a tree or dragonfly
(`TopoTest`) an action is one leaf. The two functions differ in how much they
take from it, and in their phases 1 to 3 not at all. On a dragonfly a node may
hang on several leaves; `Stuck` is where the loop then stays. On a hypercube (`CubeTest`) the walk from switch to
switch is followed node by node; the search for where to start weighs distances,
which no property is about, so `Explore` starts at any cluster that fits, and
fails only if the first ones do not. `Endless` is where it finds no end.

## Runs

Expected to pass:

| Run | Instance | What it shows |
|---|---|---|
| `launch_safety` | 2 jobs, 1 script each, 1 launch per window, faults busy, invalid, noip, open, nofile; symmetric | released only with VM (`ReleaseOnlyReady`) and known node (`ReleasedNodeKnown`), for good (`ReleasedNeverRelaunched`); on record once (`RecordedOnce`), and so until settled, while slurmctld is there (`NeverForgotten`) |
| `launch_relaunch` | 1 job, 2 scripts alive, every fault | `KeepsLifecycle`: refinement of `JobLifecycle`; `LostOnlyUnanswered`: what a lost line takes |
| `launch_stranded` | 2 jobs, 1 launch per window, fair and prompt | `NeverStranded`: only the limit keeps a job from being tried, and only if there are more jobs than it lets through |
| `crash_restart` | 1 job, 2 scripts, 2 crashes anywhere, every fault but locks and files that cannot be opened | `CrashForgetsOnlyInMemory`, `NeverLockedOut`, `ReleasedNodeKnown`; `CrashReleaseSafe`: only a job that a crash has left in two files, or inside `ip_fix` with its VM gone and not cancelled, may run without its VM; `NoVainWait`: a script that is waited for exists |
| `adm_reserve` | 2 jobs, one of them with 2 scripts, 2 unequal hosts; room for that job twice, and not beside the other one; scripts die anywhere; `remove_vm` per job, one update, one delete and initdb after it | `NeverOversold`, `BooksBalance`, `CountedOnce`, `InvalidForGood`, `LockComesBack` |
| `teardown` | jobs of 2 and 1 VMs, copies and destructions fail, 1 crash | `DestroyedOnlyWhenOver`, `RequestKept`, `EventuallyDestroyed` |
| `select_books` | 3 jobs, 1 exclusive, 2 nodes, 2 overlapping partitions with limits 1 and 2, 1 suspension, 2 jobs that preemption requeues | `BooksAsRebuilt`, `NeverUnderflows`, `ExclusiveAlone`, `MemoryFits`, `ShareLimit`; in every state, for every pending job and every list of candidates that are requeued, checkpointed or cancelled: `PreemptionLeadsOn`, `WillRunKept`, `WillRunFindsTime` |
| `job_test` | 1 to 5 usable of 5 nodes in rows of several lengths, CPUs 0, 1 or 3, at most 2 required nodes, 4 combinations of counts, 4 of CPUs, contiguous or not; 3 networks as tree and as dragonfly, limits of 0 to 2 switches; 2 hypercubes | `GetsWhatItAsked`, `NeverTurnedAway`, `SmallestSet`, `InARow`, `LowestSwitch`, `FewSwitches`; `Answers`: the loops end, but for `Stuck` and `Endless` |

Why these bounds. In the launch, two jobs are needed for a job to be dropped
with another, for the plugin to be busy with one while the daemon handles the
other, and for the rate limit to keep one out; two scripts for a stale status;
two crashes for one to fall into the recovery from the other. Two of these
together are each other's noise, so the runs split them. The installed daemon's
limit is 10 or 200, so 11 or 201 launches in a minute; what matters is that there
are more jobs than that: with `Limit = 0` one of the two is turned away. The proofs do away with
the bounds for safety: they hold for any number of jobs, scripts and crashes, any
`Limit` and any relation between ids, with the exceptions they name. In
`adm_reserve` two hosts make a choice, and the scripts find room at once, find
none for the other job or for the first script of their own, or find it after a
`remove_vm` or an update; the second script of a job starts once the first has
been refused. Each job fits an empty cluster, so `InvalidForGood` is there that
nobody is turned away for good unless the table was dropped; a second update or
drop of the table starts from what a first may leave. In `teardown` two jobs tell a job's own failure
from another's, two VMs make a request that comes twice. In `select_books` three
jobs are the fewest where one is suspended while two share; `MaxSuspends = 1`
because suspend and resume add to `tot_job_cnt` each time and the state space
is infinite otherwise. In `job_test` five nodes give rows of 1, 2 and 3 nodes, two
rows of one length, and required nodes in one row or in two; the CPU counts make
a request too large for a row and for the cluster. The networks have three levels
(`Deep`), a node with two leaves (`Shared`), and leaves outside any higher switch
(`Apart`); the hypercubes have switches of one size and of several, and one of
them two curves.

`adm_reserve`, `teardown`, `logs_lost` and `names_shared` do not check deadlock,
since every job may be over; `job_test` does not, since a call ends.

Expected to find a counterexample: `clone_fail_requeue`, `id_in_id`, `logs_lost`,
`names_shared`; see [below](#where-code-and-documentation-disagree).

## Fairness

- Processes of one Linux machine go on: weak fairness of the plugin, the daemon
  and each script. Every command of theirs returns; only `flock -x` waits.
- `SF(WindowElapsed)`: minutes pass. The daemon looks at the clock again and
  again, so the action is enabled and disabled as it moves around its loop.
- `Prompt` (in `launch_stranded` only): a script truncates its status file before
  the daemon, which sleeps 5 seconds twice per round, judges the job
  again. Nothing but time enforces it; without it a stale status can send a job
  round for ever, and `launch_relaunch` allows just that.
- `AdmCtrl`: weak fairness of a script that has the lock; none of its commands
  waits for the operator, who is under no obligation. None for taking the
  lock: `flock` promises no order, and no property here says a job gets a turn.
- `JobTest` and its extensions: weak fairness of the only process, a function
  that runs.
- `Teardown`: weak fairness of the cleanup daemon and of every epilog. The clock
  and the users are under no obligation.
- Nothing is assumed of vCenter: it may have no room for ever, and then jobs
  wait for ever.

## Proofs

All constants are arbitrary within the named assumptions of the modules: `Jobs`,
`Hosts`, `Nodes` may be any sets, finite where sums over them are taken (`Scripts`
in `AdmCtrl`, `Jobs`, `Nodes` and `Parts` in `SelectLinear`); `Requests` in `JobTest` is any set of calls that
`JobTestAssumption` allows, on clusters of any size. `tlapm` checks every leaf.

| Theorem | Statement |
|---|---|
| *launch* | |
| `TypeCorrect` | `Spec => []TypeOK`, the cap `Limit + 1` included |
| `InvariantHolds` | `Spec => []IInv` |
| `ReleaseSafe`, `NodeBeforeRelease` | `ReleaseOnlyReady`, `ReleasedNodeKnown` |
| `ReleaseFinal`, `WrittenOnce` | `ReleasedNeverRelaunched`, `RecordedOnce` |
| `LifecycleKept` | `Spec => KeepsLifecycle`: the launch implements `JobLifecycle` |
| `LostOnlyWhereSaid` | under `Collisionless`: `LostOnlyUnanswered` |
| `NoneForgotten` | under `Collisionless` and without the faults `scontrol` and `noclone`: `NeverForgotten` |
| *launch with crashes* | |
| `CrashInvariantHolds` | `CrashSpec => []CrashInv` |
| `CrashNodeBeforeRelease`, `LocksOutliveNobody`, `ReleaseSafeAfterCrash` | `ReleasedNodeKnown`, `NeverLockedOut`, `CrashReleaseSafe` |
| `CrashLosesOnlyMemory`, `NoneWaitsInVain` | under `Collisionless`: `CrashForgetsOnlyInMemory`, `NoVainWait` |
| *admission control* | |
| `AdmTypesHold` | `TypeOK`, measured rows included |
| `AdmInvHolds`, `HostsNotOversold` | the invariant of the reservations; `NeverOversold`, whatever `remove_vm` does meanwhile |
| `InvalidIsForGood` | `InvalidForGood`: who is turned away for good fits no empty host, until the table is dropped |
| `ScriptsCountedOnce` | `CountedOnce`, whatever the operator does meanwhile; two scripts of a job count as two |
| `BooksAlwaysBalance` | `BooksBalance`, as long as `remove_vm` is all the operator runs and no script has the lock then |
| *teardown* | |
| `RunningJobsKeepVMs`, `RequestsAreKept` | if no two jobs have the same name from their users (`OwnNames`): `DestroyedOnlyWhenOver`, `RequestKept` |
| *select/linear* | |
| `SelectTypesHold` | `TypeOK` |
| `BooksLikeRebuilt`, `BooksNeverUnderflow` | `BooksAsRebuilt`, `NeverUnderflows` |
| `ExclusiveAlways`, `MemoryAlwaysFits`, `ShareNeverExceeded` | `ExclusiveAlone`, `MemoryFits`, `ShareLimit` |
| `PreemptionAlwaysLeadsOn` | `PreemptionLeadsOn`, for candidates that are requeued, checkpointed or cancelled |
| `WillRunAlwaysKept` | `WillRunKept`, for such candidates: every time that is told is kept |
| `WillRunFindsTimeHolds` | `WillRunFindsTime`: a time is told, if `TEST_NOW_ONLY` is not set, active jobs have end times and nodes, and the candidates are such |
| *choice of nodes*, for every kind of network | |
| `CubeTypeCorrect` | `CubeSpec => []CubeTypeOK` |
| `GetsWhatItAskedHolds` | `GetsWhatItAsked`: required nodes, usable ones, counts and CPUs, for jobs that are not contiguous and, on unlike nodes in rows, wish for no more nodes than have CPUs |
| `NeverTurnedAwayHolds` | `NeverTurnedAway`: whoever is refused fits no set of usable nodes, with the exceptions stated there (contiguous jobs; unlike nodes on switches; on hypercubes required nodes, or fewer usable nodes than are wished for) |
| `SmallestSetHolds`, `InARowHolds` | `SmallestSet`, `InARow`: on rows of like nodes, for jobs that require none |
| `LowestSwitchHolds`, `FewSwitchesHolds` | `LowestSwitch`, `FewSwitches` |

`Collisionless` says that no id and no name occurs in another, nor an id in a
name. Without it lines do get lost (`id_in_id`). The faults `NoneForgotten` leaves
out are those of `clone_fail_requeue` and of a `scontrol` whose exit status nobody
looks at. Both theorems on lost lines leave out the line that has gone astray.

**Launch.** That a job is released only with its VM up depends on who believes
what: a script at its end, the status file, the daemon with status 0 in hand, a
line in `spawned_jobs`. Each belief is true when formed; what could make it
false later is `ip_fix`, which destroys the VM on status 4 of another run. So
`VmInv` says every belief holds *unless the job is given up*, and to use that
one has to know that a job which is given up is never again launched or
released: `PlaceInv`, a job's line is in at most one place at a time and is
there once. That is an account of all files, all unread lines and the line in
hand, per point of the daemon's program, and is where most of the proof is:
`sed -i` of another job's id may take a line away (a job then is nowhere, which
the invariant allows and `NeverForgotten` forbids), but nothing creates a second
one. No assumption on ids is needed.

`NodeInv` is the same account for nodes: whoever believes the script is done has
its node in `slurm_slaves.conf`, and a line read as spawned has it in what
slurmctld has read, since the restart comes after the loop's lock and before its
first line; `LockInv` says who holds which lock where. For the refinement,
`NewInv` adds that nothing is made for a job before it is accepted; then every
action changes the phase of at most one job, along an arrow of `JobLifecycle`.

`KeptInv` is what "recorded" rests on: except where the daemon has a line in
memory alone (`InMemoryOnly`), a line it has read is still in the file it comes
from or in `spawning_jobs`. With slurmctld answering while it is there, a job is settled before its
line is dropped (`AnsweredInv`); with clones not failing, no line is sent to
`clone_fail` (`ClonedInv`).

**Crash.** Types, locks and nodes survive for every job, places and beliefs for
those that are not `doubled` (`CrashInv`). A crash takes the daemon's memory,
which only moves jobs towards being nowhere. Two parts of `IInv` do not survive.
`ReleasedLast`: a crash between `scontrol release` and its `sed -i` leaves a
released job in `spawned_jobs`; it is released once more and no harm is done.
`NewInv` is not needed. That two claims on a VM also arise inside `ip_fix`, as long as slurmctld has not
cancelled the job whose VM is gone, came out of the attempt to prove this: another
script of the job may have written status 0 meanwhile.
`NoVainWait` needs that a line with an empty status and no script is still to be
launched (`Waited`), unless deserted.

**Admission.** `NeverOversold` says nothing about the time between question and
write. `AdmInv` adds: whoever is between them has the lock; the host that was
answered still has the room; the row that was read is at least the row that is
there. Not equal to it, since a `remove_vm` takes no lock. It lowers the row or,
when it writes what it read before `add_vm` wrote, undoes that one too; the
other half (`OpInv`), that what the operator has read is at most what is there,
holds because nothing lowers a row but himself. What is written is at most what
was asked for, and a gigabyte: this needs that a job has at least one node, since
the question is multiplied by the nodes. `InvalidIsForGood` needs that the rows
have the room of every host as long as the table has not been dropped.

The sums: `CountInv` bounds every copy of a row (in the table, read by a
script, read or measured by the operator) by the jobs that were given the host,
so that it does not matter in which order copies are written back; what is written
grows with the set when a job joins it. `BooksInv` is equality instead, and
needs `Orderly`: a row that a script or `remove_vm` has read is still the row that
is there.

**Teardown.** The daemon acts on a name. `TInv` carries "this name is that of a
job that is over" from the epilog through directory, listing and hand, and "the
`cluster.conf` of a job's folder is the job's", which is where `OwnNames` is
used. `names_shared` shows it is needed.

**select/linear.** The properties speak of nodes whose jobs hold them as they were
granted; none is inductive. The books only have to *cover* what jobs may take off
them (`Covers`): on each node at least their memory, at least the exclusive ones
and at least those in `tot_job_ids`, and exactly those in `run_job_ids`. Every
call keeps this, also a suspension, which leaves memory behind, and a resumption,
which adds to `tot_job_cnt` what is there already. As long as the books have not
drifted they are also no more than that (`Exact`), hence those of `_init_node_cr`.
From the cover and the tests of `_job_count_bitmap` follows what a start adds:
memory that fits, on a node without exclusive jobs, with at most as many running
there as the newcomer tolerates. That is kept for the jobs that hold a node as
granted (`AloneInv`, `FitsInv`, `ShareInv`) whoever else is there, since taking a
job away breaks none of the three; where all jobs on the node are such, it is the
property. `JobsInv`: only active jobs have nodes, and were granted nodes of their
partition. That matters since books have a record of a partition on its own
nodes only, so that a job elsewhere would not be counted.

**What-ifs.** The three properties of `SelectPlan` are of states, and follow from
`SelectInv`. A pass takes jobs off a copy of the books one after the other.
`IsLess(b, c, X)` says that `b` is `c` without the jobs `X`: it covers the others,
and on each node has less by what those of `X` ask for that are booked there; it
does not say in which order they went. With `Covers` nothing stops at zero on the
way, so each removal keeps it (`LessOne`). From it follows that what a job may
have on a node depends only on who is gone *from that node*, and grows with them
(`LessUsable`). So the order in which jobs end does not matter (`WillRunKept`);
with all of them gone exact books are empty (`WillRunFindsTime`); and the
candidate at which a pass stops must itself free a node of the answer, hence has
`usable_nodes` other than 0 and is on the list (`LastIsVictim`). The others on
the nodes of the answer are candidates still: either k can start without them
gone, or another pass over what is left comes to a stop, since with all candidates
gone k can start. That the sort of the candidates has an outcome is proved as
well (`SortedList`).

**Choice of nodes.** All seven theorems are of `CubeSpec`, whose calls are on a
row, a tree, a dragonfly or a hypercube. The properties speak of a call that has
ended; `IInv` says what each round of each loop has kept until then: types, which
loop runs on which network (`CallInv`), one part per loop, and the properties
themselves (`Promises`).

*A row* (`RowInv`). The counters are those of the nodes taken (`RowCounts`). In
the loop over the largest nodes, each node taken has at least the CPUs of each
that is left (`HighestInv`), so that a cluster on which it fails has no set of
`max_nodes` nodes with enough; a node that is not usable comes last and only
where all others did not do (`UsableInv`). In the loop over sets, a record is as
it was built or its nodes are all taken, and every node left has the CPUs that
are wanted of it (`SetsInv`). Then the nodes a job could still have are either
all taken, or the best set has some of them: nothing a greedy choice has taken
is in the way. That the best set is the smallest that is large enough is an
invariant of the pass over the table, from one record to the next.

*Leaves* (`LeafyInv`). The job is under a switch that holds it and than which no
such switch is lower (`BestInv`). What is not taken is still on its leaf, and if
one node more than `max_nodes` was taken then only because the first `max_nodes`
were short of CPUs (`LeavesInv`). Nodes are of as many leaves as are counted,
unless some are required (`FewInv`): the code starts to count after these.

*A hypercube* (`CubeInv`). The walk follows a curve from its start, and the nodes
taken are those before the place it has come to, the last switch in part
(`WalkInv`). Such a walk comes by each free node once, so the sum of what it has
taken is what the counters say, and since the cluster it set out for is still
ahead (`InReach`) it does not end early. If there was no cluster to set out for,
no set of nodes would have done (`WalkedInv`), because all of them together did
not.

Two more assumptions on calls came out of this, both about slurmctld's topology
(see above); nodes without CPUs were added to the run, since the proof had to tell
them from others.

**Recursion.** The provers have no rule of induction, but the library has one for
the least number of a set. `OneByOne` and `StepByStep` (`TotalsProofs`) rest on
it: a set that has 0 and with each number the next has all of them, and a
function that is defined by its value at 0 and by steps exists. With these, the
functions on `0 .. n` that the passes over a table, over leaves, along a curve and
over a list of candidates are written as can be unfolded.

Model-checked only: `NeverStranded`, `LockComesBack`, `EventuallyDestroyed` and
`Answers` (and the properties that are violated). Liveness under fairness is out of the prover's reach.

## Where code and documentation disagree

With a run:

- `clone_fail_requeue`: `clone_fail` is called without the name
  (`vhpcLaunch.sh:178`), so a job whose clone failed is not queued again.
- `id_in_id`: `sed -i "/$jobid/d"` takes other jobs' lines along; a job 12 whose
  line was found without a status is forgotten when job 1 moves on (line 108).
- `logs_lost`: a VM asks for its destruction before copying its logs.
- `names_shared`: names are unique to the second only.

Seen while modelling, without a run:

- The plugin's line is written after `vmlock` is released
  (`hold_wrapper.c:165-166`); with a `sed -i` of the daemon in between it goes to
  the old inode and the held job may be on no record. `LostOnlyUnanswered` and
  `NeverForgotten` leave out these lines (`AstrayTurnedAway`).
- Refused jobs go back to `queued_jobs`, which is served before `pending_jobs`
  from the same limit; `limit + 1` of them starve a pending job, although
  `vhpcLaunch.sh:230-231` says that its loop launches "all jobs". `NeverStranded`
  excuses a job that is turned away while more jobs are on record than a window
  lets through.
- Two scripts of one job both call `add_vm` (`adm_ctrl.py:302`), so the host is
  charged twice for VMs that are created once. The properties of `AdmCtrl` are
  per script for that reason.
- `_will_run_test` returns success whether or not it has found a time
  (`select_linear.c:3540`). `slurm/plugins/README.md:16` speaks of a select plugin
  that returns "True irrespective of whether a node can satisfy the jobs
  requests"; in the code this is so for this mode alone, and contradicts the
  comments on it (lines 3381-3384, 3673). `WillRunFindsTime` says when there is a
  time.
- A dragonfly whose nodes hang on two leaves may keep `_job_test_dfly` in its loop
  for ever (lines 1879-1887: every node of the leaf is taken already), under
  `cr_mutex`. So does a hypercube whose free nodes are short of CPUs
  `_explore_hypercube` (line 1320). `Answers` leaves out both (`Stuck`,
  `Endless`).
- A file that the plugin cannot open takes slurmctld down (`hold_wrapper.c:127`,
  `161`), and line 118 opens `pendinglock` once more for every job it writes to
  `pending_jobs` and never closes it.
- A crash between `echo >> spawning_jobs` and `sed -i` of the other file
  (`vhpcLaunch.sh:216-217`) has the job launched twice; `ip_fix` of the second
  launch then destroys the VM of the first while the job runs. A crash inside
  `ip_fix` (lines 96-98) before `scancel` has been answered leaves the line of a
  job that is still held and whose VM is gone; if its other script has written
  status 0, it is released. A line whose script the
  crash has killed before it wrote a status is skipped for ever (line 170).
- The two maxima of `get_compatible_host` may come from two hosts: a job that
  fits no host is then told to wait, again and again.
- Room is asked for all VMs of a job and booked for one (`adm_ctrl.py:302`),
  on top of the overcommitment that `OVERCOMMITTMENT` (line 31) grants, and nothing calls `remove_vm`. The books run ahead and behind at once.
- `update_from_cluster` overwrites reservations whose VMs do not exist yet;
  `initdb` commits rows of hosts that it has not measured (`adm_ctrl.py:273`), and
  a script that asks then cancels its job as incompatible.
- Suspending and resuming a job adds to `tot_job_cnt` each time, and leaves
  `run_job_cnt` without it (`select_linear.c:2870-2872`): the next job shares a
  node that should be full. `ShareLimit`, `ExclusiveAlone` and `MemoryFits`
  leave out resumed jobs for that reason.
- A job that ends while a user has suspended it stays in the books with its
  memory and its `tot_job_cnt`: `select_p_job_suspend` has taken it out of
  `tot_job_ids`, so `_rm_job_from_nodes` returns at line 2297.
  `BooksAsRebuilt` leaves out books that were kept through a suspension.
- With nodes of different kinds `_job_test` (`select_linear.c:875-896`) goes by
  all nodes of the map, not by the usable ones, so a job that wishes for more
  nodes than are usable gets some that are not. The branch does not look at
  `contiguous` either, although line 3678 says "allocated nodes must be
  sequentially located".
- A contiguous job that requires a whole row of nodes and asks for more gets them
  from another row: the row left no record in the table (lines 830-833).
- `preemptee_job_list`, "jobs whose resources are actually used"
  (`select_linear.c:3334`), may hold jobs that need not go and lack jobs that must:
  it goes by `usable_nodes`, which is 0 for a candidate on whose nodes another
  sat when it was taken off the copy.
- For a job that shares with none `_will_run_test` counts on sharing a node with
  one other (line 3400), which `_run_now` does not grant. A candidate that is to
  be suspended keeps its memory there (lines 3459-3467) and is not among those
  that end, so that no time may be found.
- `leaf_switch_count` starts after the required nodes (line 2231), so that a job
  with required nodes may get more switches than it asked for.
- A hypercube turns away a job that could have `min_nodes` but not the nodes it
  wishes for (line 1484), unless it asks for no CPUs: then it gets all that are
  usable. It overlooks the CPUs of required nodes on a switch that has no other
  free node (line 1525).
- A contiguous job whose best row has its CPUs gets the first nodes of the row
  up to `max_nodes`, whether or not these have its CPUs, and is told that all is
  well (lines 1010-1013).

## Not modelled

- `get_objs.py`, `log.py`: queries to vCenter and logging; no state.
- `slave_setup.sh`: a list of set-up commands inside a VM, part of `Customise`.
- `install_slurm.sh`, `setup.sh`, configuration files, SQL: run once by hand.
- Several VMs of one job one by one, and what `ssh` inside `while read` swallows
  of `slave_list` (`pending_slave_vm_launch.sh:304`): that is up to ssh.
- Jobs that come with an account, which `job_submit.lua:16` leaves without a
  name and a folder.
- The composition of `AdmCtrl` with the launch: its state (rows, two counters per
  host) times that of the launch is beyond TLC, and the one thing they exchange,
  the answer, is a free choice in the launch.
- In select/linear: preemption by suspension in the what-ifs (candidates are those
  of requeue, checkpoint and cancel), generic resources, jobs that are cleaning up
  (`_job_cleaning`, Cray only), which cluster of a hypercube is the best, and the
  pack/unpack and other entry points that keep no state.
- Slurm itself and the virtual-HPC toolkit, of which the code here uses a few
  commands; these are modelled from their use and marked external.

## Plan

Every safety property that a run checks is proved, as far as the table says. What
could come next:

1. `LaunchScript` with the VMs of a job one by one.
2. The composition of `AdmCtrl` with the launch, by proof: what they exchange is
   one answer, and each has its invariant.
3. In `_run_now`, the order of attempts at sharing (`max_run_job` from 0 up), of
   which only the last matters to the properties here.
