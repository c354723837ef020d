---------------------------- MODULE AdmCtrlProofs ----------------------------
(***************************************************************************)
(* No host is oversold, for any cluster and any jobs, and nobody is turned *)
(* away for good who would fit.  NeverOversold is not inductive: that      *)
(* add_vm may write down what it does rests on the answer being still true *)
(* when it writes; that rests on the lock for the other scripts, and for   *)
(* the operator on remove_vm writing less than it has read.                *)
(*                                                                         *)
(* Then the sums: no script is counted twice, whatever overlaps, and as    *)
(* long as nothing does, a row is what add_vm has written, less what       *)
(* remove_vm has given back.                                               *)
(***************************************************************************)
EXTENDS AdmCtrl, TotalsProofs

\* The operator has only run remove_vm so far.
Clean == past \subseteq {"overlap"}

\* Types of all that is not a number, and: a script between its question and
\* the unlock has the lock.
Control ==
    /\ admLock \in Scripts \cup {NoScript}
    /\ stage \in [Scripts -> Stages] /\ host \in [Scripts -> Hosts \cup {NoHost}]
    /\ past \in SUBSET Deeds
    /\ \A p \in Scripts : stage[p] \in Locked => admLock = p

\* Until the table is dropped it has the room of every host.
AllSized == "deleted" \notin past => Hosts \subseteq sized /\ table = "filled"

AtMost(r, s) == r.cpu <= s.cpu /\ r.mem <= s.mem

Rows ==
    /\ alloc \in [Hosts -> Row] /\ seen \in [Scripts -> Row]
    /\ op \in Commands /\ op.cmd \in {"idle", "remove"} /\ op.at = NoHost

\* A host that was answered still has the room ...
RoomInv == \A p \in Scripts :
    stage[p] \in {"chosen", "adding"} => host[p] \in Hosts /\ Fits(p, host[p])

\* ... so has the row that was read, which at worst has been lowered since ...
SeenInv == \A p \in Scripts :
    stage[p] = "adding" =>
        /\ AskedCpu(p) <= CpuAvail[host[p]] - seen[p].cpu
        /\ AskedMem(p) <= MemAvail[host[p]] - seen[p].mem
        /\ AtMost(alloc[host[p]], seen[p])

\* ... and the operator's row at worst has been raised.
OpInv == op.cmd = "remove" =>
    /\ op.script \in Scripts /\ host[op.script] \in Hosts
    /\ stage[op.script] \in {"gone", "failed"}
    /\ AtMost(op.row, alloc[host[op.script]])

Unsold == \A h \in Hosts :
    alloc[h].cpu <= CpuAvail[h] /\ alloc[h].mem <= MemAvail[h] + Gigabyte

Books == Clean => Rows /\ RoomInv /\ SeenInv /\ OpInv /\ Unsold

AdmInv == Control /\ AllSized /\ InvalidForGood /\ Books

LEMMA TimesAtLeast ==
    ASSUME NEW c \in Nat, NEW n \in Nat \ {0} PROVE c <= c * n /\ c * n \in Nat
<1>1. n - 1 \in Nat OBVIOUS
<1>2. c * (n - 1) \in Nat BY <1>1
<1>3. c * n = c * (n - 1) + c OBVIOUS
<1> QED BY <1>2, <1>3

\* What is written down is at most what was asked for, and the gigabyte.
LEMMA AskedIsMore ==
    ASSUME NEW p \in Scripts
    PROVE  /\ Cpu[p] \in Nat /\ Mem[p] \in Nat /\ Nodes[p] \in Nat
           /\ AskedCpu(p) \in Nat /\ Cpu[p] <= AskedCpu(p)
           /\ AskedMem(p) \in Nat /\ Mem[p] <= AskedMem(p)
<1>1. Cpu[p] \in Nat /\ Mem[p] \in Nat /\ Nodes[p] \in Nat \ {0} BY AdmAssumption
<1> QED BY <1>1, TimesAtLeast DEF AskedCpu, AskedMem

LEMMA AdmInitially == Init => AdmInv
<1> SUFFICES ASSUME Init PROVE AdmInv OBVIOUS
<1>1. ZeroRow \in Row BY DEF ZeroRow, Row
<1>2. Idle \in Commands BY <1>1 DEF Idle, Commands
<1>3. Control /\ AllSized /\ InvalidForGood
  BY DEF Init, Control, AllSized, InvalidForGood, Stages, Locked
<1>4. Rows /\ OpInv BY <1>1, <1>2 DEF Init, Rows, OpInv, Idle
<1>5. RoomInv /\ SeenInv BY DEF Init, RoomInv, SeenInv
<1>6. Unsold BY AdmAssumption DEF Init, Unsold, ZeroRow
<1> QED BY <1>3, <1>4, <1>5, <1>6 DEF AdmInv, Books

-----------------------------------------------------------------------------
(* The scripts *)

\* A step of p that writes no row and gives no lock, to a stage that RoomInv
\* and SeenInv do not speak of.
LEMMA QuietStep ==
    ASSUME AdmInv, NEW p \in Scripts, NEW s \in Stages \ {"chosen", "adding"},
           stage[p] \notin {"gone", "failed"},
           stage' = [stage EXCEPT ![p] = s],
           s = "invalid" => TooLarge(p),
           s \in Locked => admLock' = p,
           admLock' \in {admLock, NoScript},
           admLock' = NoScript => admLock \in {p, NoScript},
           seen' = seen \/ Forget(p),
           UNCHANGED <<table, sized, alloc, host, op, given, past>>
    PROVE  AdmInv'
<1>1. stage \in [Scripts -> Stages] /\ admLock \in Scripts \cup {NoScript} BY DEF AdmInv, Control
<1>2. \A k \in Scripts \ {p} : stage'[k] = stage[k] BY <1>1
<1>3. stage'[p] = s BY <1>1
<1>4. Control'
  <2>1. stage' \in [Scripts -> Stages] BY <1>1
  <2>2. ASSUME NEW k \in Scripts, stage'[k] \in Locked PROVE admLock' = k
    <3>1. CASE k = p BY <3>1, <2>2, <1>3
    <3>2. CASE k # p
      <4>1. admLock = k BY <3>2, <2>2, <1>2 DEF AdmInv, Control
      <4> QED BY <4>1, <3>2, AdmAssumption
    <3> QED BY <3>1, <3>2
  <2> QED BY <2>1, <2>2, <1>1 DEF AdmInv, Control
<1>5. AllSized' BY DEF AdmInv, AllSized
<1>6. InvalidForGood'
  <2>1. ASSUME "deleted" \notin past, s = "invalid", NEW h \in Hosts
        PROVE  AskedCpu(p) > CpuAvail[h] \/ AskedMem(p) > MemAvail[h]
    <3>1. AvailCpu(h) = CpuAvail[h] /\ AvailMem(h) = MemAvail[h]
      BY <2>1 DEF AdmInv, AllSized, AvailCpu, AvailMem
    <3> QED BY <2>1, <3>1 DEF TooLarge
  <2> QED BY <2>1, <1>2, <1>3 DEF AdmInv, InvalidForGood, AskedCpu, AskedMem
<1>7. Books'
  <2> SUFFICES ASSUME Clean PROVE (Rows /\ RoomInv /\ SeenInv /\ OpInv /\ Unsold)'
    BY DEF Books, Clean
  <2>1. Rows /\ RoomInv /\ SeenInv /\ OpInv /\ Unsold BY DEF AdmInv, Books
  <2>2. Rows' BY <2>1 DEF Rows, Forget, ZeroRow, Row
  <2>3. RoomInv' BY <1>2, <1>3, <2>1 DEF RoomInv, Fits, AvailCpu, AvailMem, AskedCpu, AskedMem
  <2>4. \A k \in Scripts \ {p} : seen'[k] = seen[k] BY <2>1 DEF Rows, Forget
  <2>5. SeenInv' BY <1>2, <1>3, <2>1, <2>4 DEF SeenInv, AtMost, AskedCpu, AskedMem
  <2>6. OpInv' BY <1>2, <2>1 DEF OpInv, AtMost
  <2>7. Unsold' BY <2>1 DEF Unsold
  <2> QED BY <2>2, <2>3, <2>5, <2>6, <2>7
<1> QED BY <1>4, <1>5, <1>6, <1>7 DEF AdmInv

\* The scripts' steps that are quiet in that sense.
LEMMA QuietActions ==
    ASSUME AdmInv, NEW p \in Scripts,
           \/ AnswerInvalid(p) \/ LookForRoom(p) \/ AnswerBusy(p) \/ AnswerNothing(p)
           \/ AddVmDies(p) \/ Unlock(p) \/ CreateVMs(p) \/ CloneFailed(p)
           \/ Destroyed(p) \/ Killed(p)
    PROVE  AdmInv'
<1>1. admLock \in Scripts \cup {NoScript} /\ NoScript \notin Scripts BY AdmAssumption DEF AdmInv, Control
<1>2. stage[p] \in Locked => admLock = p BY DEF AdmInv, Control
<1>3. CASE AnswerInvalid(p)
  <2>1. stage' = [stage EXCEPT ![p] = "invalid"] /\ stage[p] = "asking" BY <1>3 DEF AnswerInvalid, Go
  <2>2. TooLarge(p) /\ admLock = p /\ admLock' = NoScript
    BY <1>2, <1>3, <2>1 DEF AnswerInvalid, LetGo, Locked
  <2>3. UNCHANGED <<table, sized, alloc, host, seen, op, given, past>>
    BY <1>3 DEF AnswerInvalid, Quiet, dbVars, opVars
  <2> QED BY <2>1, <2>2, <2>3, QuietStep DEF Stages, Locked
<1>4. CASE AnswerBusy(p)
  <2>1. stage' = [stage EXCEPT ![p] = "refused"] /\ stage[p] = "looking" BY <1>4 DEF AnswerBusy, Go
  <2>2. admLock = p /\ admLock' = NoScript BY <1>2, <1>4, <2>1 DEF AnswerBusy, LetGo, Locked
  <2>3. UNCHANGED <<table, sized, alloc, host, seen, op, given, past>>
    BY <1>4 DEF AnswerBusy, Quiet, dbVars, opVars
  <2> QED BY <2>1, <2>2, <2>3, QuietStep DEF Stages, Locked
<1>5. CASE LookForRoom(p)
  <2>1. stage' = [stage EXCEPT ![p] = "looking"] /\ stage[p] = "asking" BY <1>5 DEF LookForRoom, Go
  <2>2. admLock = p /\ admLock' = admLock BY <1>2, <1>5, <2>1 DEF LookForRoom, Locked
  <2>3. UNCHANGED <<table, sized, alloc, host, seen, op, given, past>>
    BY <1>5 DEF LookForRoom, Quiet, dbVars, opVars
  <2> QED BY <1>1, <2>1, <2>2, <2>3, QuietStep DEF Stages
<1>6. CASE AnswerNothing(p)
  <2>1. stage' = [stage EXCEPT ![p] = "added"] /\ stage[p] \in {"asking", "looking"}
    BY <1>6 DEF AnswerNothing, Go
  <2>2. admLock = p /\ admLock' = admLock BY <1>2, <1>6, <2>1 DEF AnswerNothing, Locked
  <2>3. UNCHANGED <<table, sized, alloc, host, seen, op, given, past>>
    BY <1>6 DEF AnswerNothing, Quiet, dbVars, opVars
  <2> QED BY <1>1, <2>1, <2>2, <2>3, QuietStep DEF Stages
<1>7. CASE AddVmDies(p)
  <2>1. stage' = [stage EXCEPT ![p] = "added"] /\ stage[p] \in {"chosen", "adding"}
    BY <1>7 DEF AddVmDies, Go
  <2>2. admLock = p /\ admLock' = admLock BY <1>2, <1>7, <2>1 DEF AddVmDies, Locked
  <2>3. UNCHANGED <<table, sized, alloc, host, op, given, past>> /\ Forget(p)
    BY <1>7 DEF AddVmDies, Quiet, dbVars, opVars
  <2> QED BY <1>1, <2>1, <2>2, <2>3, QuietStep DEF Stages
<1>8. CASE Unlock(p)
  <2>1. stage' = [stage EXCEPT ![p] = "reserved"] /\ stage[p] = "added" BY <1>8 DEF Unlock, Go
  <2>2. admLock = p /\ admLock' = NoScript BY <1>2, <1>8, <2>1 DEF Unlock, LetGo, Locked
  <2>3. UNCHANGED <<table, sized, alloc, host, seen, op, given, past>>
    BY <1>8 DEF Unlock, Quiet, dbVars, opVars
  <2> QED BY <2>1, <2>2, <2>3, QuietStep DEF Stages, Locked
<1>9. CASE CreateVMs(p) \/ CloneFailed(p) \/ Destroyed(p)
  <2>1. PICK s \in {"up", "failed", "gone"} : stage' = [stage EXCEPT ![p] = s]
    BY <1>9 DEF CreateVMs, CloneFailed, Destroyed, Go
  <2>2. stage[p] \in {"reserved", "up"} BY <1>9 DEF CreateVMs, CloneFailed, Destroyed, Go
  <2>3. UNCHANGED <<table, sized, alloc, admLock, host, seen, op, given, past>>
    BY <1>9 DEF CreateVMs, CloneFailed, Destroyed, Quiet, dbVars, opVars
  <2> QED BY <1>1, <2>1, <2>2, <2>3, QuietStep DEF Stages, Locked
<1>10. CASE Killed(p)
  <2>1. stage' = [stage EXCEPT ![p] = "killed"] /\ stage[p] \in Locked \cup {"reserved"}
    BY <1>10 DEF Killed
  <2>2. admLock' \in {admLock, NoScript} /\ (admLock' = NoScript => admLock \in {p, NoScript})
    BY <1>1, <1>10 DEF Killed, LetGo
  <2>3. UNCHANGED <<table, sized, alloc, host, op, given, past>> /\ Forget(p)
    BY <1>10 DEF Killed, Quiet, dbVars, opVars
  <2> QED BY <2>1, <2>2, <2>3, QuietStep DEF Stages, Locked
<1> QED BY <1>3, <1>4, <1>5, <1>6, <1>7, <1>8, <1>9, <1>10

LEMMA AdmTakeLock == ASSUME AdmInv, NEW p \in Scripts, TakeLock(p) PROVE AdmInv'
<1>1. admLock = NoScript /\ stage' = [stage EXCEPT ![p] = "asking"] /\ admLock' = p
  BY DEF TakeLock, Go
<1>2. UNCHANGED <<table, sized, alloc, host, seen, op>> BY DEF TakeLock, dbVars, opVars
<1>3. stage[p] \in {"waiting", "refused"} BY DEF TakeLock, Go
<1>4. past' = past \/ past' = past \cup {"overlap"} BY DEF TakeLock, Overlaps
<1>5. \A k \in Scripts \ {p} : stage'[k] = stage[k] /\ stage'[p] = "asking"
  BY <1>1 DEF AdmInv, Control
<1>6. \A k \in Scripts : stage[k] \notin Locked BY <1>1, AdmAssumption DEF AdmInv, Control
<1>7. Control' BY <1>1, <1>2, <1>4, <1>5, <1>6 DEF AdmInv, Control, Stages, Deeds
<1>8. AllSized' BY <1>2, <1>4 DEF AdmInv, AllSized
<1>9. InvalidForGood' BY <1>4, <1>5, <1>1 DEF AdmInv, InvalidForGood, AskedCpu, AskedMem, Control
<1>10. Books'
  <2> SUFFICES ASSUME Clean' PROVE (Rows /\ RoomInv /\ SeenInv /\ OpInv /\ Unsold)'
    BY DEF Books
  <2>1. Clean BY <1>4 DEF Clean
  <2>2. Rows /\ OpInv /\ Unsold BY <2>1 DEF AdmInv, Books
  <2>3. (Rows /\ Unsold)' BY <2>2, <1>2 DEF Rows, Unsold
  <2>4. \A k \in Scripts : stage'[k] \notin {"chosen", "adding"}
    BY <1>1, <1>5, <1>6 DEF Locked, AdmInv, Control
  <2>5. (RoomInv /\ SeenInv)' BY <2>4 DEF RoomInv, SeenInv
  <2>6. OpInv' BY <2>2, <1>2, <1>3, <1>5 DEF OpInv, AtMost
  <2> QED BY <2>3, <2>5, <2>6
<1> QED BY <1>7, <1>8, <1>9, <1>10 DEF AdmInv

\* A step of the script that has the lock, between its question and its answer
\* being written down, when no row is written.
LEMMA HolderOnly ==
    ASSUME AdmInv, NEW p \in Scripts, stage[p] \in Locked
    PROVE  /\ admLock = p
           /\ \A k \in Scripts \ {p} : stage[k] \notin Locked
           /\ Clean => op.script # p \/ op.cmd # "remove"
<1>1. admLock = p BY DEF AdmInv, Control
<1>2. \A k \in Scripts \ {p} : stage[k] \notin Locked BY <1>1 DEF AdmInv, Control
<1>3. Clean => op.script # p \/ op.cmd # "remove" BY DEF AdmInv, Books, OpInv, Locked
<1> QED BY <1>1, <1>2, <1>3

\* What stays true without looking at the rows.
LEMMA HolderControl ==
    ASSUME AdmInv, NEW p \in Scripts, NEW s \in Locked, stage[p] \in Locked,
           stage' = [stage EXCEPT ![p] = s],
           host' \in [Scripts -> Hosts \cup {NoHost}],
           UNCHANGED <<table, sized, admLock, past>>
    PROVE  (Control /\ AllSized /\ InvalidForGood)'
<1>1. \A k \in Scripts \ {p} : stage'[k] = stage[k] /\ stage'[p] = s BY DEF AdmInv, Control
<1>2. admLock = p BY DEF AdmInv, Control
<1>3. Control' BY <1>1, <1>2 DEF AdmInv, Control, Locked, Stages
<1>4. AllSized' BY DEF AdmInv, AllSized
<1>5. InvalidForGood' BY <1>1 DEF AdmInv, InvalidForGood, AskedCpu, AskedMem, Locked
<1> QED BY <1>3, <1>4, <1>5

LEMMA AdmAnswerHost == ASSUME AdmInv, NEW p \in Scripts, AnswerHost(p) PROVE AdmInv'
<1>1. PICK h \in Hosts : Fits(p, h) /\ host' = [host EXCEPT ![p] = h] BY DEF AnswerHost
<1>2. stage[p] = "looking" /\ stage' = [stage EXCEPT ![p] = "chosen"] BY DEF AnswerHost, Go
<1>3. UNCHANGED <<table, sized, alloc, admLock, seen, op, given, past>>
  BY DEF AnswerHost, Quiet, dbVars, opVars
<1>4. \A k \in Scripts \ {p} : stage'[k] = stage[k] /\ host'[k] = host[k]
  BY <1>1, <1>2 DEF AdmInv, Control
<1>5. stage'[p] = "chosen" /\ host'[p] = h BY <1>1, <1>2 DEF AdmInv, Control
<1>6. (Control /\ AllSized /\ InvalidForGood)'
  BY <1>1, <1>2, <1>3, HolderControl DEF AdmInv, Control, Locked
<1>7. ASSUME Clean PROVE (Rows /\ RoomInv /\ SeenInv /\ OpInv /\ Unsold)'
  <2>1. Rows /\ RoomInv /\ SeenInv /\ OpInv /\ Unsold BY <1>7 DEF AdmInv, Books
  <2>2. (Rows /\ Unsold)' BY <2>1, <1>3 DEF Rows, Unsold
  <2>3. RoomInv' BY <1>1, <1>3, <1>4, <1>5, <2>1
    DEF RoomInv, Fits, AvailCpu, AvailMem, AskedCpu, AskedMem
  <2>4. SeenInv' BY <1>3, <1>4, <1>5, <2>1 DEF SeenInv, AtMost, AskedCpu, AskedMem
  <2>5. OpInv' BY <1>2, <1>3, <1>4, <2>1 DEF OpInv, AtMost
  <2> QED BY <2>2, <2>3, <2>4, <2>5
<1> QED BY <1>3, <1>6, <1>7 DEF AdmInv, Books, Clean

LEMMA AdmAddVmRead == ASSUME AdmInv, NEW p \in Scripts, AddVmRead(p) PROVE AdmInv'
<1>1. stage[p] = "chosen" /\ stage' = [stage EXCEPT ![p] = "adding"] BY DEF AddVmRead, Go
<1>2. seen' = [seen EXCEPT ![p] = alloc[host[p]]] BY DEF AddVmRead
<1>3. UNCHANGED <<table, sized, alloc, admLock, host, op, given, past>>
  BY DEF AddVmRead, Quiet, dbVars, opVars
<1>4. \A k \in Scripts \ {p} : stage'[k] = stage[k] BY <1>1 DEF AdmInv, Control
<1>5. stage'[p] = "adding" BY <1>1 DEF AdmInv, Control
<1>6. (Control /\ AllSized /\ InvalidForGood)'
  BY <1>1, <1>3, HolderControl DEF AdmInv, Control, Locked
<1>7. ASSUME Clean PROVE (Rows /\ RoomInv /\ SeenInv /\ OpInv /\ Unsold)'
  <2>1. Rows /\ RoomInv /\ SeenInv /\ OpInv /\ Unsold BY <1>7 DEF AdmInv, Books
  <2>2. host[p] \in Hosts /\ Fits(p, host[p]) BY <1>1, <2>1 DEF RoomInv
  <2>3. (Rows /\ Unsold)' BY <2>1, <2>2, <1>2, <1>3 DEF Rows, Unsold
  <2>4. RoomInv' BY <1>3, <1>4, <1>5, <2>1, <2>2
    DEF RoomInv, Fits, AvailCpu, AvailMem, AskedCpu, AskedMem
  <2>5. \A k \in Scripts \ {p} : seen'[k] = seen[k] BY <1>2, <2>1 DEF Rows
  <2>6. seen'[p] = alloc[host[p]] BY <1>2, <2>1 DEF Rows
  <2>7. AvailCpu(host[p]) = CpuAvail[host[p]] /\ AvailMem(host[p]) = MemAvail[host[p]]
    BY <2>2, <1>7 DEF AdmInv, AllSized, Clean, AvailCpu, AvailMem
  <2>8. SeenInv' BY <1>3, <1>4, <1>5, <2>1, <2>2, <2>5, <2>6, <2>7
    DEF SeenInv, AtMost, Fits, AskedCpu, AskedMem, Rows, Row
  <2>9. OpInv' BY <1>1, <1>3, <1>4, <2>1 DEF OpInv, AtMost
  <2> QED BY <2>3, <2>4, <2>8, <2>9
<1> QED BY <1>3, <1>6, <1>7 DEF AdmInv, Books, Clean

LEMMA AdmAddVmWrite == ASSUME AdmInv, NEW p \in Scripts, AddVmWrite(p) PROVE AdmInv'
<1> DEFINE h == host[p]
           row == [cpu |-> seen[p].cpu + Cpu[p],
                   mem |-> seen[p].mem + Mem[p] + Gigabyte,
                   vms |-> seen[p].vms + Nodes[p]]
<1>1. stage[p] = "adding" /\ stage' = [stage EXCEPT ![p] = "added"] BY DEF AddVmWrite, Go
<1>2. alloc' = [alloc EXCEPT ![h] = row] BY DEF AddVmWrite
<1>3. UNCHANGED <<table, sized, admLock, host, op, given, past>> /\ Forget(p)
  BY DEF AddVmWrite, Quiet, dbVars, opVars
<1>4. \A k \in Scripts \ {p} : stage'[k] = stage[k] BY <1>1 DEF AdmInv, Control
<1>5. stage'[p] = "added" BY <1>1 DEF AdmInv, Control
<1>6. (Control /\ AllSized /\ InvalidForGood)'
  BY <1>1, <1>3, HolderControl DEF AdmInv, Control, Locked
<1>7. \A k \in Scripts : stage'[k] \notin {"chosen", "adding"}
  BY <1>1, <1>4, <1>5, HolderOnly DEF Locked
<1>8. ASSUME Clean PROVE (Rows /\ RoomInv /\ SeenInv /\ OpInv /\ Unsold)'
  <2>1. Rows /\ RoomInv /\ SeenInv /\ OpInv /\ Unsold BY <1>8 DEF AdmInv, Books
  <2>2. h \in Hosts /\ Fits(p, h) BY <1>1, <2>1 DEF RoomInv
  <2>3. AvailCpu(h) = CpuAvail[h] /\ AvailMem(h) = MemAvail[h]
    BY <2>2, <1>8 DEF AdmInv, AllSized, Clean, AvailCpu, AvailMem
  <2>4. /\ seen[p].cpu \in Int /\ seen[p].mem \in Int /\ seen[p].vms \in Int
        /\ alloc[h].cpu \in Int /\ alloc[h].mem \in Int
    BY <2>1, <2>2 DEF Rows, Row
  <2>5. CpuAvail[h] \in Nat /\ MemAvail[h] \in Nat /\ Gigabyte \in Nat
    BY <2>2, AdmAssumption
  <2>6. row \in Row BY <2>4, <2>5, AskedIsMore DEF Row
  <2>7. Rows'
    <3>1. ZeroRow \in Row BY DEF ZeroRow, Row
    <3>2. alloc' \in [Hosts -> Row] BY <1>2, <2>1, <2>6 DEF Rows
    <3>3. seen' \in [Scripts -> Row] BY <1>3, <2>1, <3>1 DEF Rows, Forget
    <3> QED BY <3>2, <3>3, <1>3, <2>1 DEF Rows
  <2>8. \A g \in Hosts \ {h} : alloc'[g] = alloc[g] BY <1>2, <2>1 DEF Rows
  <2>9. alloc'[h] = row BY <1>2, <2>1, <2>2 DEF Rows
  <2>10. row.cpu <= CpuAvail[h] /\ row.mem <= MemAvail[h] + Gigabyte
    BY <1>1, <2>1, <2>4, <2>5, AskedIsMore DEF SeenInv
  <2>11. Unsold' BY <2>1, <2>8, <2>9, <2>10 DEF Unsold
  <2>12. (RoomInv /\ SeenInv)' BY <1>7 DEF RoomInv, SeenInv
  <2>13. OpInv'
    <3> SUFFICES ASSUME op.cmd = "remove" PROVE OpInv' BY <1>3 DEF OpInv
    <3>1. op.script \in Scripts /\ host[op.script] \in Hosts /\ AtMost(op.row, alloc[host[op.script]])
      BY <2>1 DEF OpInv
    <3>2. stage[op.script] \in {"gone", "failed"} /\ op.script # p BY <1>1, <2>1 DEF OpInv
    <3>3. AtMost(op.row, alloc'[host[op.script]])
      <4>1. CASE host[op.script] # h BY <4>1, <3>1, <2>8
      <4>2. CASE host[op.script] = h
        <5>1. AtMost(alloc[h], seen[p]) BY <1>1, <2>1 DEF SeenInv
        <5>2. op.row \in Row BY <2>1 DEF Rows, Commands
        <5> QED BY <4>2, <3>1, <5>1, <5>2, <2>4, <2>5, <2>9, AskedIsMore DEF AtMost, Row
      <4> QED BY <4>1, <4>2
    <3> QED BY <3>1, <3>2, <3>3, <1>3, <1>4 DEF OpInv
  <2> QED BY <2>7, <2>11, <2>12, <2>13
<1> QED BY <1>3, <1>6, <1>8 DEF AdmInv, Books, Clean

-----------------------------------------------------------------------------
(* The operator *)

\* A command that changes neither rows nor scripts.
LEMMA OperatorQuiet ==
    ASSUME AdmInv, NEW d \in Deeds,
           past' = past \/ past' = past \cup {d},
           d # "overlap" => past' = past \cup {d},
           UNCHANGED <<sized, alloc, scriptVars>>,
           table' = table \/ "deleted" \in past,
           Clean' => op' = Idle \/ (d = "overlap" /\ (OpInv /\ Rows)')
    PROVE  AdmInv'
<1>1. UNCHANGED <<admLock, stage, host, seen>> BY DEF scriptVars
<1>2. Control' BY <1>1 DEF AdmInv, Control
<1>3. AllSized' BY DEF AdmInv, AllSized
<1>4. InvalidForGood' BY <1>1 DEF AdmInv, InvalidForGood, AskedCpu, AskedMem
<1>5. ASSUME Clean' PROVE (Rows /\ RoomInv /\ SeenInv /\ OpInv /\ Unsold)'
  <2>1. Clean BY <1>5 DEF Clean
  <2>2. Rows /\ RoomInv /\ SeenInv /\ OpInv /\ Unsold BY <2>1 DEF AdmInv, Books
  <2>3. (Rows /\ OpInv)'
    <3>1. ASSUME op' = Idle PROVE (Rows /\ OpInv)'
      <4>1. op' \in Commands BY <3>1 DEF Idle, Commands, ZeroRow, Row
      <4> QED BY <4>1, <3>1, <1>1, <2>2 DEF Rows, OpInv, Idle
    <3> QED BY <3>1, <1>5
  <2>4. RoomInv' BY <1>1, <2>2 DEF RoomInv, Fits, AvailCpu, AvailMem, AskedCpu, AskedMem
  <2>5. SeenInv' BY <1>1, <2>2 DEF SeenInv, AtMost, AskedCpu, AskedMem
  <2>6. Unsold' BY <2>2 DEF Unsold
  <2> QED BY <2>3, <2>4, <2>5, <2>6
<1> QED BY <1>2, <1>3, <1>4, <1>5 DEF AdmInv, Books

LEMMA AdmRemoveRead == ASSUME AdmInv, NEW p \in Scripts, RemoveRead(p) PROVE AdmInv'
<1>1. op = Idle /\ stage[p] \in {"gone", "failed"} /\ host[p] # NoHost BY DEF RemoveRead
<1>2. op' = [Idle EXCEPT !.cmd = "remove", !.script = p, !.row = alloc[host[p]]]
  BY DEF RemoveRead
<1>3. past' = past \/ past' = past \cup {"overlap"} BY DEF RemoveRead, Overlaps
<1>4. UNCHANGED <<table, sized, alloc, given, scriptVars>> BY DEF RemoveRead, dbVars
<1>5. host[p] \in Hosts BY <1>1 DEF AdmInv, Control
<1>6. ASSUME Clean' PROVE (OpInv /\ Rows)'
  <2>1. Rows BY <1>3, <1>6 DEF AdmInv, Books, Clean
  <2>2. alloc[host[p]] \in Row BY <2>1, <1>5 DEF Rows
  <2>3. /\ op'.cmd = "remove" /\ op'.script = p /\ op'.at = NoHost
        /\ op'.row = alloc[host[p]] /\ op' \in Commands
    BY <1>2, <2>2 DEF Idle, Commands
  <2>4. Rows' BY <1>4, <2>1, <2>3 DEF Rows, scriptVars
  <2>5. OpInv' BY <1>1, <1>4, <1>5, <2>2, <2>3 DEF OpInv, AtMost, scriptVars, Row
  <2> QED BY <2>4, <2>5
<1> QED BY <1>3, <1>4, <1>6, OperatorQuiet DEF Deeds

LEMMA AdmRemoveWrite == ASSUME AdmInv, RemoveWrite PROVE AdmInv'
<1> DEFINE p == op.script
           h == host[p]
           row == [cpu |-> op.row.cpu - Cpu[p],
                   mem |-> op.row.mem - (Mem[p] + Gigabyte),
                   vms |-> op.row.vms - Nodes[p]]
<1>1. op.cmd = "remove" /\ alloc' = [alloc EXCEPT ![h] = row] /\ op' = Idle
  BY DEF RemoveWrite
<1>2. UNCHANGED <<table, sized, past, admLock, stage, host, seen>>
  BY DEF RemoveWrite, dbVars, scriptVars
<1>3. Control' BY <1>2 DEF AdmInv, Control
<1>4. AllSized' BY <1>2 DEF AdmInv, AllSized
<1>5. InvalidForGood' BY <1>2 DEF AdmInv, InvalidForGood, AskedCpu, AskedMem
<1>6. ASSUME Clean PROVE (Rows /\ RoomInv /\ SeenInv /\ OpInv /\ Unsold)'
  <2>1. Rows /\ RoomInv /\ SeenInv /\ OpInv /\ Unsold BY <1>6 DEF AdmInv, Books
  <2>2. p \in Scripts /\ h \in Hosts /\ AtMost(op.row, alloc[h]) BY <1>1, <2>1 DEF OpInv
  <2>3. op.row \in Row /\ alloc[h] \in Row BY <2>1, <2>2 DEF Rows, Commands
  <2>4. Gigabyte \in Nat BY AdmAssumption
  <2>5. row \in Row /\ AtMost(row, alloc[h])
    <3>1. Cpu[p] \in Nat /\ Mem[p] \in Nat /\ Nodes[p] \in Nat BY <2>2, AskedIsMore
    <3> QED BY <3>1, <2>2, <2>3, <2>4 DEF Row, AtMost
  <2>6. op' \in Commands BY <1>1 DEF Idle, Commands, ZeroRow, Row
  <2>7. Rows' BY <1>1, <1>2, <2>1, <2>5, <2>6 DEF Rows, Idle
  <2>8. \A g \in Hosts : AtMost(alloc'[g], alloc[g])
    <3>1. \A g \in Hosts \ {h} : alloc'[g] = alloc[g] BY <1>1, <2>1 DEF Rows
    <3>2. alloc'[h] = row BY <1>1, <2>1, <2>2 DEF Rows
    <3> QED BY <3>1, <3>2, <2>5, <2>1 DEF AtMost, Rows, Row
  <2>9. \A g \in Hosts : alloc[g] \in Row /\ alloc'[g] \in Row BY <2>1, <2>7 DEF Rows
  <2>10. \A g \in Hosts : AvailCpu(g) \in Nat /\ AvailMem(g) \in Nat
    BY AdmAssumption DEF AvailCpu, AvailMem
  <2>11. RoomInv'
    <3> SUFFICES ASSUME NEW k \in Scripts, stage[k] \in {"chosen", "adding"}
                 PROVE  host[k] \in Hosts /\ Fits(k, host[k])'
      BY <1>2 DEF RoomInv
    <3>1. host[k] \in Hosts /\ Fits(k, host[k]) BY <2>1 DEF RoomInv
    <3>2. AskedCpu(k) \in Nat /\ AskedMem(k) \in Nat BY AskedIsMore
    <3>3. host' = host /\ sized' = sized BY <1>2
    <3>4. /\ AskedCpu(k) <= AvailCpu(host[k]) - alloc'[host[k]].cpu
          /\ AskedMem(k) <= AvailMem(host[k]) - alloc'[host[k]].mem
      BY <3>1, <3>2, <2>8, <2>9, <2>10 DEF Fits, AtMost, Row
    <3> QED BY <3>1, <3>3, <3>4 DEF Fits, AvailCpu, AvailMem, AskedCpu, AskedMem
  <2>12. SeenInv'
    <3> SUFFICES ASSUME NEW k \in Scripts, stage[k] = "adding"
                 PROVE  AtMost(alloc'[host[k]], seen[k])
      BY <1>2, <2>1 DEF SeenInv, AskedCpu, AskedMem
    <3>1. host[k] \in Hosts BY <2>1 DEF RoomInv
    <3>2. AtMost(alloc[host[k]], seen[k]) BY <2>1 DEF SeenInv
    <3>3. seen[k] \in Row BY <2>1 DEF Rows
    <3> QED BY <3>1, <3>2, <3>3, <2>8, <2>9 DEF AtMost, Row
  <2>13. Unsold'
    <3> SUFFICES ASSUME NEW g \in Hosts
                 PROVE  alloc'[g].cpu <= CpuAvail[g] /\ alloc'[g].mem <= MemAvail[g] + Gigabyte
      BY DEF Unsold
    <3>1. CpuAvail[g] \in Nat /\ MemAvail[g] \in Nat BY AdmAssumption
    <3> QED BY <3>1, <2>1, <2>4, <2>8, <2>9 DEF Unsold, AtMost, Row
  <2> QED BY <2>7, <2>11, <2>12, <2>13, <1>1 DEF OpInv, Idle
<1> QED BY <1>2, <1>3, <1>4, <1>5, <1>6 DEF AdmInv, Books, Clean

\* update_from_cluster, initdb, delete: from then on the rows are not Clean.
LEMMA AdmRewrites ==
    ASSUME AdmInv, \/ UpdateStart \/ InitdbStart \/ Measure \/ WriteHost
                   \/ Delete \/ OperatorStops
    PROVE  AdmInv'
<1>1. CASE UpdateStart
  <2>1. past' = past \cup {"updated"} /\ UNCHANGED <<table, sized, alloc, scriptVars>>
    BY <1>1 DEF UpdateStart, dbVars
  <2>2. ~Clean' BY <2>1 DEF Clean
  <2> QED BY <2>1, <2>2, OperatorQuiet DEF Deeds
<1>2. CASE InitdbStart
  <2>1. past' = past /\ UNCHANGED <<sized, alloc, scriptVars>> BY <1>2 DEF InitdbStart
  <2>2. "deleted" \in past BY <1>2 DEF InitdbStart, AdmInv, AllSized
  <2>3. ~Clean' BY <2>1, <2>2 DEF Clean
  <2> QED BY <2>1, <2>2, <2>3, OperatorQuiet DEF Deeds
<1>3. CASE Measure
  <2>1. past' = past /\ UNCHANGED <<table, sized, alloc, scriptVars>> BY <1>3 DEF Measure, dbVars
  <2>2. ~Clean' BY <1>3, <2>1 DEF Measure, Clean, AdmInv, Books, Rows
  <2> QED BY <2>1, <2>2, OperatorQuiet DEF Deeds
<1>4. CASE OperatorStops
  <2>1. past' = past /\ op' = Idle /\ UNCHANGED <<table, sized, alloc, scriptVars>>
    BY <1>4 DEF OperatorStops, dbVars
  <2> QED BY <2>1, OperatorQuiet DEF Deeds
<1>5. CASE WriteHost
  <2>1. past' = past /\ table' = "filled" /\ sized' = sized \cup {op.at}
    BY <1>5 DEF WriteHost
  <2>2. UNCHANGED <<admLock, stage, host, seen>> BY <1>5 DEF WriteHost, scriptVars
  <2>3. ~Clean BY <1>5 DEF WriteHost, AdmInv, Books, Rows
  <2>4. AllSized' BY <2>1 DEF AdmInv, AllSized
  <2>5. Control' /\ InvalidForGood'
    BY <2>1, <2>2 DEF AdmInv, Control, InvalidForGood, AskedCpu, AskedMem
  <2> QED BY <2>1, <2>3, <2>4, <2>5 DEF AdmInv, Books, Clean
<1>6. CASE Delete
  <2>1. past' = past \cup {"deleted"} BY <1>6 DEF Delete
  <2>2. UNCHANGED <<admLock, stage, host, seen>> BY <1>6 DEF Delete, scriptVars
  <2>3. (Control /\ AllSized /\ InvalidForGood /\ Books)'
    BY <2>1, <2>2 DEF AdmInv, Control, Deeds, AllSized, InvalidForGood, Books, Clean
  <2> QED BY <2>3 DEF AdmInv
<1> QED BY <1>1, <1>2, <1>3, <1>4, <1>5, <1>6

LEMMA AdmStep == AdmInv /\ [Next]_admVars => AdmInv'
<1> SUFFICES ASSUME AdmInv, [Next]_admVars PROVE AdmInv' OBVIOUS
<1>1. CASE UNCHANGED admVars
  <2>1. UNCHANGED <<table, sized, alloc, admLock, stage, host, seen, op, given, past>>
    BY <1>1 DEF admVars
  <2>2. (Control /\ AllSized /\ InvalidForGood)'
    BY <2>1 DEF AdmInv, Control, AllSized, InvalidForGood, AskedCpu, AskedMem
  <2>3. Books'
    BY <2>1 DEF AdmInv, Books, Clean, Rows, RoomInv, SeenInv, OpInv, Unsold, AtMost,
                Fits, AvailCpu, AvailMem, AskedCpu, AskedMem
  <2> QED BY <2>2, <2>3 DEF AdmInv
<1>2. CASE Operator
  BY <1>2, AdmRemoveRead, AdmRemoveWrite, AdmRewrites DEF Operator
<1>3. CASE \E p \in Scripts : TakeLock(p) \/ Proceed(p) \/ Destroyed(p) \/ Killed(p)
  BY <1>3, AdmTakeLock, AdmAnswerHost, AdmAddVmRead, AdmAddVmWrite, QuietActions DEF Proceed
<1> QED BY <1>1, <1>2, <1>3 DEF Next

\* What get_compatible_host was asked for is there when add_vm writes: the
\* free room it looks at (adm_ctrl.py:177-179) is at most the room add_vm
\* takes from (line 302), whatever the other scripts and the operator's
\* remove_vm do in between.
THEOREM AdmInvHolds == Spec => []AdmInv
BY AdmInitially, AdmStep, PTL DEF Spec

\* No host is sold beyond its room, for any hosts, jobs and sizes, although
\* the operator's remove_vm takes no lock.
THEOREM HostsNotOversold == Spec => []NeverOversold
<1>1. AdmInv => NeverOversold BY DEF AdmInv, Books, Clean, Unsold, NeverOversold
<1> QED BY <1>1, AdmInvHolds, PTL

\* Whoever is turned away for good (adm_ctrl.py:156) would fit no empty host,
\* as long as the table has not been dropped.
THEOREM InvalidIsForGood == Spec => []InvalidForGood
<1>1. AdmInv => InvalidForGood BY DEF AdmInv
<1> QED BY <1>1, AdmInvHolds, PTL

-----------------------------------------------------------------------------
(* Types, in every state *)

\* A script has its host from the answer on, and not before.
HostInv == \A p \in Scripts :
    /\ stage[p] \in {"waiting", "refused", "asking", "looking", "invalid"} => host[p] = NoHost
    /\ stage[p] \in {"chosen", "adding"} => host[p] # NoHost

\* A command of the operator has what it needs; room is given back for scripts
\* that are over.
CommandInv ==
    /\ op.cmd = "remove" =>
          /\ op.at = NoHost /\ op.script \in Scripts /\ host[op.script] # NoHost
          /\ stage[op.script] \in {"gone", "failed"}
    /\ op.cmd = "idle" => op = Idle
    /\ \A p \in given : stage[p] \in {"gone", "failed"}

HolderInv == \A p \in Scripts : stage[p] \in Locked => admLock = p

AdmTypeInv == TypeOK /\ HostInv /\ CommandInv /\ HolderInv

LEMMA ConstantTypes ==
    /\ IsFiniteSet(Scripts)
    /\ Summable(Cpu, Scripts) /\ Summable(Nodes, Scripts)
    /\ Summable(OneMem, Scripts) /\ Summable(AllCpu, Scripts) /\ Summable(AllMem, Scripts)
<1>1. IsFiniteSet(Scripts) /\ Gigabyte \in Nat BY AdmAssumption
<1>2. \A p \in Scripts : Cpu[p] \in Nat /\ Mem[p] \in Nat /\ Nodes[p] \in Nat BY AdmAssumption
<1>3. \A p \in Scripts : Mem[p] + Gigabyte \in Nat BY <1>1, <1>2
<1>4. \A p \in Scripts : Cpu[p] * Nodes[p] \in Nat /\ (Mem[p] + Gigabyte) * Nodes[p] \in Nat
  BY <1>2, <1>3
<1> QED BY <1>1, <1>2, <1>3, <1>4 DEF Summable, OneMem, AllCpu, AllMem

\* So have all sets of scripts.
LEMMA SummableSubset ==
    ASSUME NEW f, NEW T, Summable(f, T), NEW S \in SUBSET T
    PROVE  Summable(f, S)
BY FS_Subset DEF Summable

LEMMA ZeroTypes == ZeroRow \in Row /\ Idle \in Commands
<1>1. ZeroRow \in Row BY DEF ZeroRow, Row
<1> QED BY <1>1 DEF Idle, Commands

LEMMA TypesInit == Init => AdmTypeInv
<1> SUFFICES ASSUME Init PROVE AdmTypeInv OBVIOUS
<1>1. TypeOK BY ZeroTypes DEF Init, TypeOK, Stages
<1>2. HostInv /\ HolderInv BY DEF Init, HostInv, HolderInv, Locked
<1>3. CommandInv BY DEF Init, CommandInv, Idle
<1> QED BY <1>1, <1>2, <1>3 DEF AdmTypeInv

\* A step of a script: whatever it writes in the rows, the lock is where it
\* belongs, and the scripts that are over are left alone.
LEMMA ScriptTypes ==
    ASSUME AdmTypeInv, NEW p \in Scripts, NEW s \in Stages,
           stage[p] \notin {"gone", "failed"},
           stage' = [stage EXCEPT ![p] = s],
           \/ s \in Locked /\ admLock \in {p, NoScript} /\ admLock' = p
           \/ s \notin Locked /\ LetGo(p),
           NEW h \in Hosts \cup {NoHost}, host' = [host EXCEPT ![p] = h],
           s \in {"waiting", "refused", "asking", "looking", "invalid"} => h = NoHost,
           s \in {"chosen", "adding"} => h # NoHost,
           alloc' \in [Hosts -> Row], seen' \in [Scripts -> Row],
           past' \in SUBSET Deeds,
           UNCHANGED <<table, sized, op, given>>
    PROVE  AdmTypeInv'
<1>1. TypeOK /\ HostInv /\ CommandInv /\ HolderInv BY DEF AdmTypeInv
<1>2. stage \in [Scripts -> Stages] /\ host \in [Scripts -> Hosts \cup {NoHost}]
  BY <1>1 DEF TypeOK
<1>3. stage'[p] = s /\ host'[p] = h BY <1>2
<1>4. \A k \in Scripts \ {p} : stage'[k] = stage[k] /\ host'[k] = host[k] BY <1>2
<1>5. stage' \in [Scripts -> Stages] /\ host' \in [Scripts -> Hosts \cup {NoHost}] BY <1>2
<1>6. admLock \in Scripts \cup {NoScript} /\ NoScript \notin Scripts BY <1>1, AdmAssumption DEF TypeOK
<1>7. admLock' \in Scripts \cup {NoScript} BY <1>6 DEF LetGo
<1>8. admLock' # NoScript => stage'[admLock'] \in Locked
  <2>1. CASE s \in Locked /\ admLock' = p BY <2>1, <1>3
  <2>2. CASE s \notin Locked /\ LetGo(p)
    <3> SUFFICES ASSUME admLock' # NoScript PROVE stage'[admLock'] \in Locked OBVIOUS
    <3>1. admLock' = admLock /\ admLock # p BY <2>2 DEF LetGo
    <3> QED BY <3>1, <1>1, <1>4, <1>6 DEF TypeOK
  <2> QED BY <2>1, <2>2
<1>9. HolderInv'
  <2> SUFFICES ASSUME NEW k \in Scripts, stage'[k] \in Locked PROVE admLock' = k
    BY DEF HolderInv
  <2>1. CASE k = p BY <2>1, <1>3
  <2>2. CASE k # p
    <3>1. admLock = k BY <2>2, <1>1, <1>4 DEF HolderInv
    <3> QED BY <3>1, <2>2, <1>6 DEF LetGo
  <2> QED BY <2>1, <2>2
<1>10. TypeOK' BY <1>1, <1>5, <1>7, <1>8 DEF TypeOK
<1>11. HostInv' BY <1>1, <1>3, <1>4 DEF HostInv
<1>12. CommandInv' BY <1>1, <1>4 DEF CommandInv, TypeOK
<1> QED BY <1>9, <1>10, <1>11, <1>12 DEF AdmTypeInv

\* Such a step that leaves $host and what happened before alone.
LEMMA SameHostTypes ==
    ASSUME AdmTypeInv, NEW p \in Scripts, NEW s \in Stages,
           stage[p] \notin {"gone", "failed"},
           stage' = [stage EXCEPT ![p] = s],
           \/ s \in Locked /\ admLock \in {p, NoScript} /\ admLock' = p
           \/ s \notin Locked /\ LetGo(p),
           s \in {"waiting", "refused", "asking", "looking", "invalid"} => host[p] = NoHost,
           s \in {"chosen", "adding"} => host[p] # NoHost,
           alloc' \in [Hosts -> Row], seen' = seen \/ Forget(p),
           UNCHANGED <<table, sized, host, op, given, past>>
    PROVE  AdmTypeInv'
<1>1. TypeOK BY DEF AdmTypeInv
<1>2. host' = [host EXCEPT ![p] = host[p]] /\ host[p] \in Hosts \cup {NoHost}
  BY <1>1 DEF TypeOK
<1>3. seen' \in [Scripts -> Row] BY <1>1, ZeroTypes DEF TypeOK, Forget
<1>4. past' \in SUBSET Deeds BY <1>1 DEF TypeOK
<1> HIDE DEF AdmTypeInv
<1> QED BY <1>2, <1>3, <1>4, ScriptTypes

LEMMA ScriptTypesStep ==
    ASSUME AdmTypeInv, NEW p \in Scripts,
           TakeLock(p) \/ Proceed(p) \/ Destroyed(p) \/ Killed(p)
    PROVE  AdmTypeInv'
<1>1. TypeOK /\ HostInv /\ CommandInv /\ HolderInv BY DEF AdmTypeInv
<1>2. /\ admLock \in Scripts \cup {NoScript} /\ NoScript \notin Scripts
      /\ stage[p] \in Locked => admLock = p
      /\ admLock = p => stage[p] \in Locked
  BY <1>1, AdmAssumption DEF TypeOK, HolderInv
<1>3. alloc \in [Hosts -> Row] /\ seen \in [Scripts -> Row] BY <1>1 DEF TypeOK
<1>4. CASE TakeLock(p)
  <2>1. /\ stage[p] \in {"waiting", "refused"} /\ stage' = [stage EXCEPT ![p] = "asking"]
        /\ admLock = NoScript /\ admLock' = p
        /\ UNCHANGED <<table, sized, alloc, host, seen, op, given>>
        /\ past' \in {past, past \cup {"overlap"}}
    BY <1>4 DEF TakeLock, Go, Overlaps, dbVars, opVars
  <2>2. host[p] = NoHost /\ host' = [host EXCEPT ![p] = NoHost]
    BY <1>1, <2>1 DEF HostInv, TypeOK
  <2>3. past' \in SUBSET Deeds BY <1>1, <2>1 DEF TypeOK, Deeds
  <2> QED BY <1>3, <2>1, <2>2, <2>3, ScriptTypes DEF Stages, Locked
<1>5. CASE AnswerInvalid(p)
  <2>1. /\ stage[p] = "asking" /\ stage' = [stage EXCEPT ![p] = "invalid"] /\ LetGo(p)
        /\ UNCHANGED <<table, sized, alloc, host, seen, op, given, past>>
    BY <1>5 DEF AnswerInvalid, Go, Quiet, dbVars, opVars
  <2>2. host[p] = NoHost BY <1>1, <2>1 DEF HostInv
  <2> QED BY <1>3, <2>1, <2>2, SameHostTypes DEF Stages, Locked
<1>6. CASE LookForRoom(p)
  <2>1. /\ stage[p] = "asking" /\ stage' = [stage EXCEPT ![p] = "looking"]
        /\ UNCHANGED <<table, sized, alloc, admLock, host, seen, op, given, past>>
    BY <1>6 DEF LookForRoom, Go, Quiet, dbVars, opVars
  <2>2. host[p] = NoHost /\ admLock = p BY <1>1, <2>1 DEF HostInv, HolderInv, Locked
  <2> QED BY <1>3, <2>1, <2>2, SameHostTypes DEF Stages, Locked
<1>7. CASE AnswerBusy(p)
  <2>1. /\ stage[p] = "looking" /\ stage' = [stage EXCEPT ![p] = "refused"] /\ LetGo(p)
        /\ UNCHANGED <<table, sized, alloc, host, seen, op, given, past>>
    BY <1>7 DEF AnswerBusy, Go, Quiet, dbVars, opVars
  <2>2. host[p] = NoHost BY <1>1, <2>1 DEF HostInv
  <2> QED BY <1>3, <2>1, <2>2, SameHostTypes DEF Stages, Locked
<1>8. CASE AnswerHost(p)
  <2>1. PICK h \in Hosts : host' = [host EXCEPT ![p] = h] BY <1>8 DEF AnswerHost
  <2>2. /\ stage[p] = "looking" /\ stage' = [stage EXCEPT ![p] = "chosen"]
        /\ UNCHANGED <<table, sized, alloc, admLock, seen, op, given, past>>
    BY <1>8 DEF AnswerHost, Go, Quiet, dbVars, opVars
  <2>3. admLock = p /\ h # NoHost BY <1>2, <2>2, AdmAssumption DEF Locked
  <2>4. past' \in SUBSET Deeds BY <1>1, <2>2 DEF TypeOK
  <2> QED BY <1>3, <2>1, <2>2, <2>3, <2>4, ScriptTypes DEF Stages, Locked
<1>9. CASE AnswerNothing(p)
  <2>1. /\ stage[p] \in {"asking", "looking"} /\ stage' = [stage EXCEPT ![p] = "added"]
        /\ UNCHANGED <<table, sized, alloc, admLock, host, seen, op, given, past>>
    BY <1>9 DEF AnswerNothing, Go, Quiet, dbVars, opVars
  <2>2. admLock = p BY <1>2, <2>1 DEF Locked
  <2> QED BY <1>3, <2>1, <2>2, SameHostTypes DEF Stages, Locked
<1>10. CASE AddVmRead(p)
  <2>1. /\ stage[p] = "chosen" /\ stage' = [stage EXCEPT ![p] = "adding"]
        /\ seen' = [seen EXCEPT ![p] = alloc[host[p]]]
        /\ UNCHANGED <<table, sized, alloc, admLock, host, op, given, past>>
    BY <1>10 DEF AddVmRead, Go, Quiet, dbVars, opVars
  <2>2. admLock = p /\ host[p] \in Hosts
    BY <1>1, <1>2, <2>1 DEF Locked, HostInv, TypeOK
  <2>3. seen' \in [Scripts -> Row] BY <1>3, <2>1, <2>2
  <2>4. past' \in SUBSET Deeds /\ host' = [host EXCEPT ![p] = host[p]] /\ host[p] # NoHost
    BY <1>1, <2>1 DEF TypeOK, HostInv
  <2> QED BY <1>3, <2>1, <2>2, <2>3, <2>4, ScriptTypes DEF Stages, Locked
<1>11. CASE AddVmWrite(p)
  <2>1. /\ stage[p] = "adding" /\ stage' = [stage EXCEPT ![p] = "added"]
        /\ UNCHANGED <<table, sized, admLock, host, op, given, past>> /\ Forget(p)
    BY <1>11 DEF AddVmWrite, Go, Quiet, dbVars, opVars
  <2>2. admLock = p BY <1>2, <2>1 DEF Locked
  <2>3. alloc' \in [Hosts -> Row]
    <3>1. Cpu[p] \in Nat /\ Mem[p] \in Nat /\ Nodes[p] \in Nat /\ Gigabyte \in Nat
      BY AdmAssumption
    <3>2. [cpu |-> seen[p].cpu + Cpu[p], mem |-> seen[p].mem + Mem[p] + Gigabyte,
           vms |-> seen[p].vms + Nodes[p]] \in Row
      BY <1>3, <3>1 DEF Row
    <3> QED BY <1>3, <1>11, <3>2 DEF AddVmWrite
  <2> QED BY <2>1, <2>2, <2>3, SameHostTypes DEF Stages, Locked
<1>12. CASE AddVmDies(p)
  <2>1. /\ stage[p] \in {"chosen", "adding"} /\ stage' = [stage EXCEPT ![p] = "added"]
        /\ UNCHANGED <<table, sized, alloc, admLock, host, op, given, past>> /\ Forget(p)
    BY <1>12 DEF AddVmDies, Go, Quiet, dbVars, opVars
  <2>2. admLock = p BY <1>2, <2>1 DEF Locked
  <2> QED BY <1>3, <2>1, <2>2, SameHostTypes DEF Stages, Locked
<1>13. CASE Unlock(p)
  <2>1. /\ stage[p] = "added" /\ stage' = [stage EXCEPT ![p] = "reserved"] /\ LetGo(p)
        /\ UNCHANGED <<table, sized, alloc, host, seen, op, given, past>>
    BY <1>13 DEF Unlock, Go, Quiet, dbVars, opVars
  <2> QED BY <1>3, <2>1, SameHostTypes DEF Stages, Locked
<1>14. CASE CreateVMs(p) \/ CloneFailed(p) \/ Destroyed(p)
  <2>1. /\ stage[p] \in {"reserved", "up"}
        /\ UNCHANGED <<table, sized, alloc, admLock, host, seen, op, given, past>>
    BY <1>14 DEF CreateVMs, CloneFailed, Destroyed, Go, Quiet, dbVars, opVars
  <2>2. PICK s \in {"up", "failed", "gone"} : stage' = [stage EXCEPT ![p] = s]
    BY <1>14 DEF CreateVMs, CloneFailed, Destroyed, Go
  <2>3. LetGo(p) BY <1>2, <2>1 DEF LetGo, Locked
  <2> QED BY <1>3, <2>1, <2>2, <2>3, SameHostTypes DEF Stages, Locked
<1>15. CASE Killed(p)
  <2>1. /\ stage[p] \in Locked \cup {"reserved"} /\ stage' = [stage EXCEPT ![p] = "killed"]
        /\ UNCHANGED <<table, sized, alloc, host, op, given, past>> /\ LetGo(p) /\ Forget(p)
    BY <1>15 DEF Killed, Quiet, dbVars, opVars
  <2> QED BY <1>3, <2>1, SameHostTypes DEF Stages, Locked
<1> QED BY <1>4, <1>5, <1>6, <1>7, <1>8, <1>9, <1>10, <1>11, <1>12, <1>13, <1>14, <1>15
        DEF Proceed

\* What vCenter counts on a host is a number, and no more than the host's
\* scripts were given.
LEMMA MeasuredRow ==
    ASSUME AdmTypeInv, NEW h \in Hosts, NEW on \in SUBSET OnHost(h)
    PROVE  /\ Measured(h, on) \in Row
           /\ Measured(h, on).cpu <= Total(AllCpu, Taken(h))
           /\ Measured(h, on).mem <= Total(AllMem, Taken(h))
           /\ Measured(h, on).vms <= Total(Nodes, Taken(h))
<1>1. OnHost(h) \subseteq Taken(h) BY DEF OnHost, Taken, Booked
<1>2. Taken(h) \subseteq Scripts BY DEF Taken, Booked, KilledOn
<1>3. OnHost(h) \subseteq Scripts /\ on \subseteq Scripts /\ on \subseteq Taken(h) BY <1>1, <1>2
<1>4. \A S \in SUBSET Scripts : Summable(AllCpu, S) /\ Summable(AllMem, S) /\ Summable(Nodes, S)
  BY ConstantTypes, SummableSubset
<1>5. Total(AllCpu, OnHost(h)) \in Nat /\ Total(AllMem, on) \in Nat /\ Total(Nodes, OnHost(h)) \in Nat
  BY <1>3, <1>4, TotalType
<1>6. \A x \in Scripts : AllCpu[x] <= AllCpu[x] /\ AllMem[x] <= AllMem[x] /\ Nodes[x] <= Nodes[x]
  BY ConstantTypes DEF Summable
<1>7. Total(AllCpu, OnHost(h)) <= Total(AllCpu, Taken(h)) BY <1>1, <1>2, <1>3, <1>4, <1>6, TotalMonotone
<1>8. Total(AllMem, on) <= Total(AllMem, Taken(h)) BY <1>1, <1>2, <1>3, <1>4, <1>6, TotalMonotone
<1>9. Total(Nodes, OnHost(h)) <= Total(Nodes, Taken(h)) BY <1>1, <1>2, <1>3, <1>4, <1>6, TotalMonotone
<1> QED BY <1>5, <1>7, <1>8, <1>9 DEF Measured, Row

LEMMA OperatorTypes == ASSUME AdmTypeInv, Operator PROVE AdmTypeInv'
<1>1. TypeOK /\ HostInv /\ CommandInv /\ HolderInv BY DEF AdmTypeInv
<1>2. UNCHANGED <<admLock, stage, host, seen>>
  BY DEF Operator, RemoveRead, RemoveWrite, UpdateStart, InitdbStart, Measure, WriteHost,
         Delete, OperatorStops, scriptVars
<1>3. HostInv' /\ HolderInv' BY <1>1, <1>2 DEF HostInv, HolderInv
<1>4. op \in Commands /\ alloc \in [Hosts -> Row] /\ Idle \in Commands /\ ZeroRow \in Row
  BY <1>1, ZeroTypes DEF TypeOK
<1>5. ASSUME table' \in {"none", "empty", "filled"}, sized' \in SUBSET Hosts,
             alloc' \in [Hosts -> Row], op' \in Commands, given' \in SUBSET Scripts,
             past' \in SUBSET Deeds
      PROVE  TypeOK'
  BY <1>1, <1>2, <1>5 DEF TypeOK
<1>6. CASE \E p \in Scripts : RemoveRead(p)
  <2> PICK p \in Scripts : RemoveRead(p) BY <1>6
  <2>1. /\ op' = [Idle EXCEPT !.cmd = "remove", !.script = p, !.row = alloc[host[p]]]
        /\ stage[p] \in {"gone", "failed"} /\ host[p] # NoHost
        /\ past' \in {past, past \cup {"overlap"}}
        /\ UNCHANGED <<table, sized, alloc, given>>
    BY DEF RemoveRead, Overlaps, dbVars
  <2>2. host[p] \in Hosts BY <1>1, <2>1 DEF TypeOK
  <2>3. /\ op'.cmd = "remove" /\ op'.script = p /\ op'.at = NoHost
        /\ op' \in Commands
    BY <1>4, <2>1, <2>2 DEF Idle, Commands
  <2>4. TypeOK' BY <1>1, <1>5, <2>1, <2>3 DEF TypeOK, Deeds
  <2>5. CommandInv' BY <1>1, <1>2, <2>1, <2>3 DEF CommandInv
  <2> QED BY <1>3, <2>4, <2>5 DEF AdmTypeInv
<1>7. CASE RemoveWrite
  <2> DEFINE row == [cpu |-> op.row.cpu - Cpu[op.script],
                     mem |-> op.row.mem - (Mem[op.script] + Gigabyte),
                     vms |-> op.row.vms - Nodes[op.script]]
  <2>1. /\ op.cmd = "remove" /\ op' = Idle /\ given' = given \cup {op.script}
        /\ alloc' = [alloc EXCEPT ![host[op.script]] = row]
        /\ UNCHANGED <<table, sized, past>>
    BY <1>7 DEF RemoveWrite, dbVars
  <2>2. op.script \in Scripts /\ stage[op.script] \in {"gone", "failed"} BY <1>1, <2>1 DEF CommandInv
  <2>3. row \in Row
    <3>1. /\ Cpu[op.script] \in Nat /\ Mem[op.script] \in Nat /\ Nodes[op.script] \in Nat
          /\ Gigabyte \in Nat
      BY <2>2, AdmAssumption
    <3> QED BY <1>4, <3>1 DEF Row, Commands
  <2>4. alloc' \in [Hosts -> Row] BY <1>4, <2>1, <2>3
  <2>5. TypeOK' BY <1>1, <1>4, <1>5, <2>1, <2>2, <2>4 DEF TypeOK
  <2>6. CommandInv' BY <1>1, <1>2, <2>1, <2>2 DEF CommandInv, Idle
  <2> QED BY <1>3, <2>5, <2>6 DEF AdmTypeInv
<1>8. CASE UpdateStart \/ InitdbStart
  <2>1. PICK c \in {"update", "initdb"} : op' = [Idle EXCEPT !.cmd = c, !.todo = Hosts]
    BY <1>8 DEF UpdateStart, InitdbStart
  <2>2. op'.cmd = c /\ op' \in Commands BY <1>4, <2>1 DEF Idle, Commands
  <2>3. /\ table' \in {table, "empty"} /\ past' \in {past, past \cup {"updated"}}
        /\ UNCHANGED <<sized, alloc, given>>
    BY <1>8 DEF UpdateStart, InitdbStart, dbVars
  <2>4. TypeOK' BY <1>1, <1>5, <2>2, <2>3 DEF TypeOK, Deeds
  <2>5. CommandInv' BY <1>1, <1>2, <2>2, <2>3 DEF CommandInv
  <2> QED BY <1>3, <2>4, <2>5 DEF AdmTypeInv
<1>9. CASE Measure
  <2>1. PICK h \in op.todo : \E on \in SUBSET OnHost(h) :
           op' = [op EXCEPT !.at = h, !.todo = @ \ {h}, !.row = Measured(h, on)]
    BY <1>9 DEF Measure
  <2> PICK on \in SUBSET OnHost(h) :
           op' = [op EXCEPT !.at = h, !.todo = @ \ {h}, !.row = Measured(h, on)]
    BY <2>1
  <2>2. op.cmd \in {"update", "initdb"} /\ UNCHANGED <<table, sized, alloc, given, past>>
    BY <1>9 DEF Measure, dbVars
  <2>3. h \in Hosts BY <1>4, <2>1 DEF Commands
  <2>4. Measured(h, on) \in Row BY <2>3, MeasuredRow
  <2>5. op'.cmd = op.cmd /\ op' \in Commands BY <1>4, <2>3, <2>4 DEF Commands
  <2>6. TypeOK' BY <1>1, <1>5, <2>2, <2>5 DEF TypeOK
  <2>7. CommandInv' BY <1>1, <1>2, <2>2, <2>5 DEF CommandInv
  <2> QED BY <1>3, <2>6, <2>7 DEF AdmTypeInv
<1>10. CASE WriteHost
  <2>1. /\ op.at # NoHost /\ table' = "filled" /\ sized' = sized \cup {op.at}
        /\ alloc' = [alloc EXCEPT ![op.at] = op.row]
        /\ op' \in {Idle, [op EXCEPT !.at = NoHost, !.row = ZeroRow]}
        /\ UNCHANGED <<given, past>>
    BY <1>10 DEF WriteHost
  <2>2. op.at \in Hosts /\ op.row \in Row BY <1>4, <2>1 DEF Commands
  <2>3. op.cmd \in {"update", "initdb"} BY <1>1, <1>4, <2>1 DEF CommandInv, Idle, Commands
  <2>4. op' \in Commands /\ (op' = Idle \/ op'.cmd = op.cmd) BY <1>4, <2>1 DEF Commands
  <2>5. alloc' \in [Hosts -> Row] BY <1>4, <2>1, <2>2
  <2>6. TypeOK' BY <1>1, <1>5, <2>1, <2>2, <2>4, <2>5 DEF TypeOK
  <2>7. CommandInv' BY <1>1, <1>2, <2>1, <2>3, <2>4 DEF CommandInv, Idle
  <2> QED BY <1>3, <2>6, <2>7 DEF AdmTypeInv
<1>11. CASE Delete
  <2>1. /\ table' = "none" /\ sized' = {} /\ alloc' = [h \in Hosts |-> ZeroRow]
        /\ past' = past \cup {"deleted"} /\ UNCHANGED <<op, given>>
    BY <1>11 DEF Delete
  <2>2. TypeOK' BY <1>1, <1>4, <1>5, <2>1 DEF TypeOK, Deeds
  <2>3. CommandInv' BY <1>1, <1>2, <2>1 DEF CommandInv
  <2> QED BY <1>3, <2>2, <2>3 DEF AdmTypeInv
<1>12. CASE OperatorStops
  <2>1. op' = Idle /\ UNCHANGED <<table, sized, alloc, given, past>>
    BY <1>12 DEF OperatorStops, dbVars
  <2>2. TypeOK' BY <1>1, <1>4, <1>5, <2>1 DEF TypeOK
  <2>3. CommandInv' BY <1>1, <1>2, <2>1 DEF CommandInv, Idle
  <2> QED BY <1>3, <2>2, <2>3 DEF AdmTypeInv
<1> QED BY <1>6, <1>7, <1>8, <1>9, <1>10, <1>11, <1>12 DEF Operator

LEMMA TypesStep == AdmTypeInv /\ [Next]_admVars => AdmTypeInv'
<1> SUFFICES ASSUME AdmTypeInv, [Next]_admVars PROVE AdmTypeInv' OBVIOUS
<1>1. CASE UNCHANGED admVars
  BY <1>1 DEF admVars, AdmTypeInv, TypeOK, HostInv, CommandInv, HolderInv
<1>2. CASE Next BY <1>2, OperatorTypes, ScriptTypesStep DEF Next
<1> QED BY <1>1, <1>2

\* Every number in the database and in a command's hands is one, every
\* command is about a script and a host that exist, and whoever has the lock is
\* at work under it, for any cluster.
THEOREM AdmTypesHold == Spec => []TypeOK
<1>1. AdmTypeInv => TypeOK BY DEF AdmTypeInv
<1> QED BY <1>1, TypesInit, TypesStep, PTL DEF Spec

-----------------------------------------------------------------------------
(* Nothing is counted twice *)

\* A row that holds no more than all the VMs of the scripts that were given h.
Within(r, h) ==
    /\ r.cpu <= Total(AllCpu, Taken(h))
    /\ r.mem <= Total(AllMem, Taken(h))
    /\ r.vms <= Total(Nodes, Taken(h))

\* Rows that were read or measured stay below that bound while they wait to
\* be written, since a script that was given a host keeps it.
CountInv ==
    /\ \A h \in Hosts : Within(alloc[h], h)
    /\ \A p \in Scripts : stage[p] = "adding" => Within(seen[p], host[p])
    /\ op.cmd = "remove" => Within(op.row, host[op.script])
    /\ op.at # NoHost => Within(op.row, op.at)

LEMMA TakenTotals ==
    ASSUME NEW h
    PROVE  /\ Taken(h) \subseteq Scripts
           /\ Summable(AllCpu, Taken(h)) /\ Total(AllCpu, Taken(h)) \in Nat
           /\ Summable(AllMem, Taken(h)) /\ Total(AllMem, Taken(h)) \in Nat
           /\ Summable(Nodes, Taken(h)) /\ Total(Nodes, Taken(h)) \in Nat
<1>1. Taken(h) \subseteq Scripts BY DEF Taken, Booked, KilledOn
<1>2. Summable(AllCpu, Taken(h)) /\ Summable(AllMem, Taken(h)) /\ Summable(Nodes, Taken(h))
  BY <1>1, ConstantTypes, SummableSubset
<1> QED BY <1>1, <1>2, TotalType

\* A script that was given a host is there for good.
LEMMA TakenGrows ==
    ASSUME AdmTypeInv, Next, NEW h \in Hosts PROVE Taken(h) \subseteq Taken(h)'
<1> DEFINE past_adding == {"added", "reserved", "up", "failed", "gone", "killed"}
<1>1. stage \in [Scripts -> Stages] /\ host \in [Scripts -> Hosts \cup {NoHost}]
  BY DEF AdmTypeInv, TypeOK
<1>2. CASE Operator
  <2>1. UNCHANGED <<stage, host>>
    BY <1>2 DEF Operator, RemoveRead, RemoveWrite, UpdateStart, InitdbStart, Measure,
                WriteHost, Delete, OperatorStops, scriptVars
  <2> QED BY <2>1 DEF Taken, Booked, KilledOn
<1>3. ASSUME NEW p \in Scripts, TakeLock(p) \/ Proceed(p) \/ Destroyed(p) \/ Killed(p)
      PROVE  Taken(h) \subseteq Taken(h)'
  <2>1. PICK s \in Stages : stage' = [stage EXCEPT ![p] = s]
    BY <1>3 DEF TakeLock, Proceed, Destroyed, Killed, AnswerInvalid, LookForRoom, AnswerBusy,
                AnswerHost, AnswerNothing, AddVmRead, AddVmWrite, AddVmDies, Unlock, CreateVMs,
                CloneFailed, Go, Stages
  <2>2. stage[p] \in past_adding => s \in past_adding /\ host' = host
    BY <1>1, <1>3, <2>1
      DEF TakeLock, Proceed, Destroyed, Killed, AnswerInvalid, LookForRoom, AnswerBusy,
          AnswerHost, AnswerNothing, AddVmRead, AddVmWrite, AddVmDies, Unlock, CreateVMs,
          CloneFailed, Go
  <2>3. host' = host \/ \E g \in Hosts : host' = [host EXCEPT ![p] = g]
    BY <1>3 DEF TakeLock, Proceed, Destroyed, Killed, AnswerInvalid, LookForRoom, AnswerBusy,
                AnswerHost, AnswerNothing, AddVmRead, AddVmWrite, AddVmDies, Unlock, CreateVMs,
                CloneFailed
  <2>4. ASSUME NEW k \in Scripts, stage[k] \in past_adding
        PROVE  stage'[k] \in past_adding /\ host'[k] = host[k]
    <3>1. CASE k = p BY <1>1, <2>1, <2>2, <2>4, <3>1
    <3>2. CASE k # p BY <1>1, <2>1, <2>3, <2>4, <3>2
    <3> QED BY <3>1, <3>2
  <2> QED BY <2>4 DEF Taken, Booked, KilledOn
<1> QED BY <1>2, <1>3 DEF Next

LEMMA WithinStays ==
    ASSUME AdmTypeInv, Next, NEW h \in Hosts, NEW r \in Row, Within(r, h)
    PROVE  /\ r.cpu <= Total(AllCpu, Taken(h)')
           /\ r.mem <= Total(AllMem, Taken(h)')
           /\ r.vms <= Total(Nodes, Taken(h)')
<1>1. Taken(h) \subseteq Taken(h)' BY TakenGrows
<1>2. Taken(h)' \subseteq Scripts BY DEF Taken, Booked, KilledOn
<1>3. /\ Summable(AllCpu, Taken(h)') /\ Summable(AllMem, Taken(h)') /\ Summable(Nodes, Taken(h)')
      /\ Total(AllCpu, Taken(h)') \in Nat /\ Total(AllMem, Taken(h)') \in Nat
      /\ Total(Nodes, Taken(h)') \in Nat
  BY <1>2, ConstantTypes, SummableSubset, TotalType
<1>4. \A x \in Scripts : AllCpu[x] <= AllCpu[x] /\ AllMem[x] <= AllMem[x] /\ Nodes[x] <= Nodes[x]
  BY ConstantTypes DEF Summable
<1>5. /\ Total(AllCpu, Taken(h)) <= Total(AllCpu, Taken(h)')
      /\ Total(AllMem, Taken(h)) <= Total(AllMem, Taken(h)')
      /\ Total(Nodes, Taken(h)) <= Total(Nodes, Taken(h)')
  BY <1>1, <1>2, <1>3, <1>4, TakenTotals, TotalMonotone
<1> QED BY <1>3, <1>5, TakenTotals DEF Within, Row

\* What each step does to a row ...
LEMMA AllocSteps ==
    ASSUME AdmTypeInv, Next, NEW h \in Hosts
    PROVE  \/ alloc'[h] = alloc[h]
           \/ \E p \in Scripts :
                 /\ AddVmWrite(p) /\ host[p] = h
                 /\ alloc'[h] = [cpu |-> seen[p].cpu + Cpu[p],
                                 mem |-> seen[p].mem + Mem[p] + Gigabyte,
                                 vms |-> seen[p].vms + Nodes[p]]
           \/ /\ RemoveWrite /\ host[op.script] = h
              /\ alloc'[h] = [cpu |-> op.row.cpu - Cpu[op.script],
                              mem |-> op.row.mem - (Mem[op.script] + Gigabyte),
                              vms |-> op.row.vms - Nodes[op.script]]
           \/ WriteHost /\ op.at = h /\ alloc'[h] = op.row
           \/ Delete /\ alloc'[h] = ZeroRow
<1>1. alloc \in [Hosts -> Row] BY DEF AdmTypeInv, TypeOK
<1>2. CASE Operator
  <2>1. CASE RemoveWrite BY <1>1, <2>1 DEF RemoveWrite
  <2>2. CASE WriteHost BY <1>1, <2>2 DEF WriteHost
  <2>3. CASE Delete BY <2>3 DEF Delete
  <2> QED BY <1>2, <2>1, <2>2, <2>3
        DEF Operator, RemoveRead, UpdateStart, InitdbStart, Measure, OperatorStops
<1>3. ASSUME NEW p \in Scripts, TakeLock(p) \/ Proceed(p) \/ Destroyed(p) \/ Killed(p)
      PROVE  \/ alloc' = alloc
             \/ /\ AddVmWrite(p)
                /\ alloc' = [alloc EXCEPT ![host[p]] =
                      [cpu |-> seen[p].cpu + Cpu[p],
                       mem |-> seen[p].mem + Mem[p] + Gigabyte,
                       vms |-> seen[p].vms + Nodes[p]]]
  BY <1>3 DEF TakeLock, Proceed, Destroyed, Killed, AnswerInvalid, LookForRoom, AnswerBusy,
              AnswerHost, AnswerNothing, AddVmRead, AddVmWrite, AddVmDies, Unlock, CreateVMs,
              CloneFailed
<1> QED BY <1>1, <1>2, <1>3 DEF Next

\* ... to what add_vm has read ...
LEMMA SeenSteps ==
    ASSUME AdmTypeInv, Next, NEW p \in Scripts, stage'[p] = "adding"
    PROVE  /\ host'[p] = host[p] /\ host[p] \in Hosts
           /\ \/ stage[p] = "adding" /\ seen'[p] = seen[p]
              \/ AddVmRead(p) /\ seen'[p] = alloc[host[p]]
<1>1. /\ stage \in [Scripts -> Stages] /\ host \in [Scripts -> Hosts \cup {NoHost}]
      /\ seen \in [Scripts -> Row] /\ HostInv
  BY DEF AdmTypeInv, TypeOK
<1>2. CASE Operator
  <2>1. UNCHANGED <<stage, host, seen>>
    BY <1>2 DEF Operator, RemoveRead, RemoveWrite, UpdateStart, InitdbStart, Measure,
                WriteHost, Delete, OperatorStops, scriptVars
  <2> QED BY <1>1, <2>1 DEF HostInv
<1>3. ASSUME NEW k \in Scripts, TakeLock(k) \/ Proceed(k) \/ Destroyed(k) \/ Killed(k)
      PROVE  /\ host'[p] = host[p] /\ host[p] \in Hosts
             /\ \/ stage[p] = "adding" /\ seen'[p] = seen[p]
                \/ AddVmRead(p) /\ seen'[p] = alloc[host[p]]
  <2>1. CASE AddVmRead(k)
    <3>1. CASE k = p BY <1>1, <2>1, <3>1 DEF AddVmRead, Go, HostInv
    <3>2. CASE k # p BY <1>1, <2>1, <3>2 DEF AddVmRead, Go, HostInv
    <3> QED BY <3>1, <3>2
  <2>2. CASE ~AddVmRead(k)
    <3>1. PICK s \in Stages \ {"adding"} : stage' = [stage EXCEPT ![k] = s]
      BY <1>3, <2>2
        DEF TakeLock, Proceed, Destroyed, Killed, AnswerInvalid, LookForRoom, AnswerBusy,
            AnswerHost, AnswerNothing, AddVmWrite, AddVmDies, Unlock, CreateVMs,
            CloneFailed, Go, Stages
    <3>2. seen' = seen \/ seen' = [seen EXCEPT ![k] = ZeroRow]
      BY <1>3, <2>2
        DEF TakeLock, Proceed, Destroyed, Killed, AnswerInvalid, LookForRoom, AnswerBusy,
            AnswerHost, AnswerNothing, AddVmWrite, AddVmDies, Unlock, CreateVMs,
            CloneFailed, Forget
    <3>3. host' = host \/ \E g \in Hosts : host' = [host EXCEPT ![k] = g]
      BY <1>3, <2>2
        DEF TakeLock, Proceed, Destroyed, Killed, AnswerInvalid, LookForRoom, AnswerBusy,
            AnswerHost, AnswerNothing, AddVmWrite, AddVmDies, Unlock, CreateVMs, CloneFailed
    <3>4. k # p /\ stage[p] = "adding" BY <1>1, <3>1
    <3> QED BY <1>1, <3>2, <3>3, <3>4 DEF HostInv
  <2> QED BY <2>1, <2>2
<1> QED BY <1>2, <1>3 DEF Next

\* ... and to the operator's command.
LEMMA OpSteps ==
    ASSUME AdmTypeInv, Next
    PROVE  \/ op' = op
           \/ op'.cmd # "remove" /\ op'.at = NoHost
           \/ \E p \in Scripts : /\ RemoveRead(p) /\ host[p] \in Hosts
                              /\ op' = [Idle EXCEPT !.cmd = "remove", !.script = p,
                                                    !.row = alloc[host[p]]]
           \/ \E h \in Hosts : \E on \in SUBSET OnHost(h) :
                 /\ Measure /\ op'.cmd # "remove"
                 /\ op'.at = h /\ op'.row = Measured(h, on)
<1>1. op \in Commands /\ host \in [Scripts -> Hosts \cup {NoHost}] /\ CommandInv
  BY DEF AdmTypeInv, TypeOK
<1>2. CASE Operator
  <2>1. CASE \E p \in Scripts : RemoveRead(p) BY <1>1, <2>1 DEF RemoveRead
  <2>2. CASE RemoveWrite \/ UpdateStart \/ InitdbStart \/ OperatorStops
    <3>1. \/ op' = Idle
          \/ \E c \in {"update", "initdb"} : op' = [Idle EXCEPT !.cmd = c, !.todo = Hosts]
      BY <2>2 DEF RemoveWrite, UpdateStart, InitdbStart, OperatorStops
    <3>2. op' = Idle => op'.cmd # "remove" /\ op'.at = NoHost BY DEF Idle
    <3>3. ASSUME NEW c \in {"update", "initdb"}, op' = [Idle EXCEPT !.cmd = c, !.todo = Hosts]
          PROVE  op'.cmd # "remove" /\ op'.at = NoHost
      BY <3>3 DEF Idle
    <3>4. op'.cmd # "remove" /\ op'.at = NoHost BY <3>1, <3>2, <3>3
    <3> QED BY <3>4
  <2>3. CASE WriteHost
    <3>1. op.cmd # "remove" BY <1>1, <2>3 DEF WriteHost, CommandInv
    <3> QED BY <1>1, <2>3, <3>1 DEF WriteHost, Idle, Commands
  <2>4. CASE Measure
    <3>1. PICK h \in op.todo : \E on \in SUBSET OnHost(h) :
             op' = [op EXCEPT !.at = h, !.todo = @ \ {h}, !.row = Measured(h, on)]
      BY <2>4 DEF Measure
    <3>2. PICK on \in SUBSET OnHost(h) :
             op' = [op EXCEPT !.at = h, !.todo = @ \ {h}, !.row = Measured(h, on)]
      BY <3>1
    <3>3. h \in Hosts /\ op.cmd # "remove" BY <1>1, <2>4, <3>1 DEF Measure, Commands
    <3>4. op'.cmd # "remove" /\ op'.at = h /\ op'.row = Measured(h, on)
      BY <1>1, <3>2, <3>3 DEF Commands
    <3> QED BY <2>4, <3>3, <3>4
  <2>5. CASE Delete BY <2>5 DEF Delete
  <2> QED BY <1>2, <2>1, <2>2, <2>3, <2>4, <2>5 DEF Operator
<1>3. ASSUME NEW p \in Scripts, TakeLock(p) \/ Proceed(p) \/ Destroyed(p) \/ Killed(p)
      PROVE  op' = op
  BY <1>3 DEF TakeLock, Proceed, Destroyed, Killed, AnswerInvalid, LookForRoom, AnswerBusy,
              AnswerHost, AnswerNothing, AddVmRead, AddVmWrite, AddVmDies, Unlock, CreateVMs,
              CloneFailed, Quiet, opVars
<1> QED BY <1>2, <1>3 DEF Next

LEMMA CountInit == Init => CountInv
<1> SUFFICES ASSUME Init PROVE CountInv OBVIOUS
<1>1. \A h : Within(ZeroRow, h) BY TakenTotals DEF Within, ZeroRow
<1> QED BY <1>1 DEF Init, CountInv, Idle

LEMMA CountStep == AdmTypeInv /\ CountInv /\ Next => CountInv'
<1> SUFFICES ASSUME AdmTypeInv, CountInv, Next PROVE CountInv' OBVIOUS
<1> DEFINE most == [h \in Hosts |-> [cpu |-> Total(AllCpu, Taken(h)'),
                                    mem |-> Total(AllMem, Taken(h)'),
                                    vms |-> Total(Nodes, Taken(h)')]]
           Below(r, h) == /\ r.cpu <= most[h].cpu
                          /\ r.mem <= most[h].mem
                          /\ r.vms <= most[h].vms
<1>0. \A h \in Hosts : /\ most[h].cpu = Total(AllCpu, Taken(h)') /\ most[h].cpu \in Nat
                      /\ most[h].mem = Total(AllMem, Taken(h)') /\ most[h].mem \in Nat
                      /\ most[h].vms = Total(Nodes, Taken(h)') /\ most[h].vms \in Nat
  <2>1. \A h \in Hosts : Taken(h)' \subseteq Scripts BY DEF Taken, Booked, KilledOn
  <2>2. \A h \in Hosts : /\ Total(AllCpu, Taken(h)') \in Nat /\ Total(AllMem, Taken(h)') \in Nat
                         /\ Total(Nodes, Taken(h)') \in Nat
    BY <2>1, ConstantTypes, SummableSubset, TotalType
  <2> QED BY <2>2
<1> HIDE DEF most
<1>1. /\ alloc \in [Hosts -> Row] /\ op \in Commands /\ seen \in [Scripts -> Row]
      /\ host \in [Scripts -> Hosts \cup {NoHost}] /\ CommandInv /\ HostInv
  BY DEF AdmTypeInv, TypeOK
<1>2. \A h \in Hosts : \A r \in Row : Within(r, h) => Below(r, h)
  <2> SUFFICES ASSUME NEW h \in Hosts, NEW r \in Row, Within(r, h) PROVE Below(r, h) OBVIOUS
  <2>1. /\ r.cpu <= Total(AllCpu, Taken(h)')
        /\ r.mem <= Total(AllMem, Taken(h)')
        /\ r.vms <= Total(Nodes, Taken(h)')
    BY WithinStays
  <2> QED BY <1>0, <2>1
<1>3. \A h \in Hosts : Below(ZeroRow, h)
  <2>1. \A h \in Hosts : Within(ZeroRow, h) BY TakenTotals DEF Within, ZeroRow
  <2> QED BY <1>2, <2>1, ZeroTypes
<1>4. \A h \in Hosts : Below(alloc[h], h) BY <1>1, <1>2 DEF CountInv
<1>5. ASSUME NEW h \in Hosts PROVE Below(alloc'[h], h)
  <2>1. CASE alloc'[h] = alloc[h] BY <2>1, <1>4
  <2>2. ASSUME NEW p \in Scripts, AddVmWrite(p), host[p] = h,
               alloc'[h] = [cpu |-> seen[p].cpu + Cpu[p],
                            mem |-> seen[p].mem + Mem[p] + Gigabyte,
                            vms |-> seen[p].vms + Nodes[p]]
        PROVE  Below(alloc'[h], h)
    <3>1. stage[p] = "adding" /\ stage' = [stage EXCEPT ![p] = "added"] /\ host' = host
      BY <2>2 DEF AddVmWrite, Go
    <3>2. Within(seen[p], h) /\ seen[p] \in Row BY <1>1, <2>2, <3>1 DEF CountInv
    <3>3. stage' \in [Scripts -> Stages] /\ stage \in [Scripts -> Stages] /\ stage'[p] = "added"
      BY <3>1 DEF AdmTypeInv, TypeOK, Stages
    <3>4. p \notin Taken(h) /\ p \in Taken(h)' BY <2>2, <3>1, <3>3 DEF Taken, Booked, KilledOn
    <3>5. Taken(h) \cup {p} \subseteq Taken(h)' BY <3>4, TakenGrows
    <3>6. Taken(h)' \subseteq Scripts BY DEF Taken, Booked, KilledOn
    <3>7. \A S \in SUBSET Scripts : /\ Summable(AllCpu, S) /\ Total(AllCpu, S) \in Nat
                                 /\ Summable(AllMem, S) /\ Total(AllMem, S) \in Nat
                                 /\ Summable(Nodes, S) /\ Total(Nodes, S) \in Nat
      BY ConstantTypes, SummableSubset, TotalType
    <3>8. Taken(h) \cup {p} \in SUBSET Scripts /\ Taken(h) \in SUBSET Scripts /\ Taken(h)' \in SUBSET Scripts
      BY <3>5, <3>6
    <3>9. \A x \in Scripts : AllCpu[x] <= AllCpu[x] /\ AllMem[x] <= AllMem[x] /\ Nodes[x] <= Nodes[x]
      BY ConstantTypes DEF Summable
    <3>10. /\ Total(AllCpu, Taken(h) \cup {p}) = Total(AllCpu, Taken(h)) + AllCpu[p]
           /\ Total(AllMem, Taken(h) \cup {p}) = Total(AllMem, Taken(h)) + AllMem[p]
           /\ Total(Nodes, Taken(h) \cup {p}) = Total(Nodes, Taken(h)) + Nodes[p]
      BY <3>4, <3>7, <3>8, TotalJoin
    <3>11. /\ Total(AllCpu, Taken(h) \cup {p}) <= Total(AllCpu, Taken(h)')
           /\ Total(AllMem, Taken(h) \cup {p}) <= Total(AllMem, Taken(h)')
           /\ Total(Nodes, Taken(h) \cup {p}) <= Total(Nodes, Taken(h)')
      BY <3>5, <3>7, <3>8, <3>9, TotalMonotone
    <3>12. /\ Cpu[p] <= AllCpu[p] /\ Cpu[p] \in Nat /\ AllCpu[p] \in Nat
           /\ Mem[p] + Gigabyte <= AllMem[p] /\ Mem[p] \in Nat /\ AllMem[p] \in Nat
           /\ Nodes[p] \in Nat /\ Gigabyte \in Nat
      <4>1. Cpu[p] \in Nat /\ Mem[p] + Gigabyte \in Nat /\ Nodes[p] \in Nat \ {0}
        BY AdmAssumption
      <4>2. /\ Cpu[p] <= Cpu[p] * Nodes[p] /\ Cpu[p] * Nodes[p] \in Nat
            /\ Mem[p] + Gigabyte <= (Mem[p] + Gigabyte) * Nodes[p]
            /\ (Mem[p] + Gigabyte) * Nodes[p] \in Nat
        BY <4>1, TimesAtLeast
      <4> QED BY <4>1, <4>2, AdmAssumption DEF AllCpu, AllMem
    <3>13. /\ seen[p].cpu <= Total(AllCpu, Taken(h))
           /\ seen[p].mem <= Total(AllMem, Taken(h))
           /\ seen[p].vms <= Total(Nodes, Taken(h))
           /\ seen[p].cpu \in Int /\ seen[p].mem \in Int /\ seen[p].vms \in Int
      BY <3>2 DEF Within, Row
    <3>14. /\ seen[p].cpu + Cpu[p] <= most[h].cpu
           /\ seen[p].mem + Mem[p] + Gigabyte <= most[h].mem
           /\ seen[p].vms + Nodes[p] <= most[h].vms
      BY <1>0, <3>7, <3>8, <3>10, <3>11, <3>12, <3>13
    <3> QED BY <2>2, <3>14
  <2>3. ASSUME RemoveWrite, host[op.script] = h,
               alloc'[h] = [cpu |-> op.row.cpu - Cpu[op.script],
                            mem |-> op.row.mem - (Mem[op.script] + Gigabyte),
                            vms |-> op.row.vms - Nodes[op.script]]
        PROVE  Below(alloc'[h], h)
    <3>1. op.cmd = "remove" /\ op.script \in Scripts BY <1>1, <2>3 DEF RemoveWrite, CommandInv
    <3>2. op.row \in Row /\ Within(op.row, h) BY <1>1, <2>3, <3>1 DEF CountInv, Commands
    <3>3. Below(op.row, h) BY <1>2, <3>2
    <3>4. Cpu[op.script] \in Nat /\ Mem[op.script] \in Nat /\ Nodes[op.script] \in Nat /\ Gigabyte \in Nat
      BY <3>1, AdmAssumption
    <3>5. op.row.cpu \in Int /\ op.row.mem \in Int /\ op.row.vms \in Int BY <3>2 DEF Row
    <3>6. /\ op.row.cpu - Cpu[op.script] <= most[h].cpu
          /\ op.row.mem - (Mem[op.script] + Gigabyte) <= most[h].mem
          /\ op.row.vms - Nodes[op.script] <= most[h].vms
      BY <1>0, <3>3, <3>4, <3>5
    <3> QED BY <2>3, <3>6
  <2>4. ASSUME WriteHost, op.at = h, alloc'[h] = op.row PROVE Below(alloc'[h], h)
    <3>1. op.row \in Row /\ Within(op.row, h) BY <1>1, <2>4 DEF WriteHost, CountInv, Commands
    <3> QED BY <1>2, <2>4, <3>1
  <2>5. CASE Delete /\ alloc'[h] = ZeroRow BY <1>3, <2>5
  <2> QED BY <2>1, <2>2, <2>3, <2>4, <2>5, AllocSteps
<1>6. ASSUME NEW p \in Scripts, stage'[p] = "adding" PROVE Below(seen'[p], host'[p])
  <2>1. host'[p] = host[p] /\ host[p] \in Hosts BY <1>6, SeenSteps
  <2>2. CASE stage[p] = "adding" /\ seen'[p] = seen[p]
    <3>1. Within(seen[p], host[p]) /\ seen[p] \in Row BY <1>1, <2>2 DEF CountInv
    <3> QED BY <1>2, <2>1, <2>2, <3>1
  <2>3. CASE seen'[p] = alloc[host[p]] BY <1>4, <2>1, <2>3
  <2> QED BY <1>6, <2>2, <2>3, SeenSteps
<1>7. op'.cmd = "remove" => Below(op'.row, host'[op'.script])
  <2> SUFFICES ASSUME op'.cmd = "remove" PROVE Below(op'.row, host'[op'.script]) OBVIOUS
  <2>1. CASE op' = op
    <3>1. /\ op.script \in Scripts /\ host[op.script] \in Hosts /\ Within(op.row, host[op.script])
          /\ op.row \in Row
      BY <1>1, <2>1 DEF CommandInv, CountInv, Commands
    <3>2. stage[op.script] \in {"gone", "failed"} BY <1>1, <2>1 DEF CommandInv
    <3>3. host'[op.script] = host[op.script]
      <4> PICK k \in Scripts, h \in Hosts : k = op.script /\ h = host[op.script] BY <3>1
      <4>1. k \in Taken(h) BY <3>1, <3>2 DEF Taken, Booked
      <4>2. k \in Taken(h)' BY <4>1, TakenGrows
      <4> QED BY <4>2 DEF Taken, Booked, KilledOn
    <3> QED BY <1>2, <2>1, <3>1, <3>3
  <2>2. ASSUME NEW p \in Scripts, RemoveRead(p), host[p] \in Hosts,
               op' = [Idle EXCEPT !.cmd = "remove", !.script = p, !.row = alloc[host[p]]]
        PROVE  Below(op'.row, host'[op'.script])
    <3>1. op'.row = alloc[host[p]] /\ op'.script = p /\ host' = host
      BY <2>2 DEF Idle, RemoveRead, scriptVars
    <3> QED BY <1>4, <2>2, <3>1
  <2> QED BY <2>1, <2>2, OpSteps
<1>8. op'.at # NoHost => Below(op'.row, op'.at)
  <2> SUFFICES ASSUME op'.at # NoHost PROVE Below(op'.row, op'.at) OBVIOUS
  <2>1. CASE op' = op
    <3>1. op.at \in Hosts /\ op.row \in Row /\ Within(op.row, op.at)
      BY <1>1, <2>1 DEF CountInv, Commands
    <3> QED BY <1>2, <2>1, <3>1
  <2>2. ASSUME NEW p \in Scripts,
               op' = [Idle EXCEPT !.cmd = "remove", !.script = p, !.row = alloc[host[p]]]
        PROVE  FALSE
    BY <2>2 DEF Idle
  <2>3. ASSUME NEW h \in Hosts, NEW on \in SUBSET OnHost(h),
               op'.at = h, op'.row = Measured(h, on)
        PROVE  Below(op'.row, op'.at)
    <3>1. Measured(h, on) \in Row /\ Within(Measured(h, on), h) BY MeasuredRow DEF Within
    <3> QED BY <1>2, <2>3, <3>1
  <2> QED BY <2>1, <2>2, <2>3, OpSteps
<1>9. \A p \in Scripts : stage'[p] = "adding" => host'[p] \in Hosts BY SeenSteps
<1>10. /\ op'.cmd = "remove" => host'[op'.script] \in Hosts
       /\ op'.at # NoHost => op'.at \in Hosts
  <2>1. AdmTypeInv' BY TypesStep
  <2> QED BY <2>1 DEF AdmTypeInv, TypeOK, CommandInv, Commands
<1>11. CountInv'
  <2>1. \A h \in Hosts : Within(alloc[h], h)' BY <1>0, <1>5 DEF Within
  <2>2. \A p \in Scripts : (stage[p] = "adding" => Within(seen[p], host[p]))'
    BY <1>0, <1>6, <1>9 DEF Within
  <2>3. (op.cmd = "remove" => Within(op.row, host[op.script]))' BY <1>0, <1>7, <1>10 DEF Within
  <2>4. (op.at # NoHost => Within(op.row, op.at))' BY <1>0, <1>8, <1>10 DEF Within
  <2> QED BY <2>1, <2>2, <2>3, <2>4 DEF CountInv
<1> QED BY <1>11

\* However many commands of the operator overlap the scripts, vCenter's counts
\* included, a row never holds more than all the VMs of the scripts that were
\* given the host: add_vm (adm_ctrl.py:302) and update_from_cluster (line 269)
\* never both count what one script was given.  (Two scripts of a job are two
\* here: each of them books the job's VMs.)
THEOREM ScriptsCountedOnce == Spec => []CountedOnce
<1>1. AdmTypeInv /\ CountInv /\ UNCHANGED admVars => CountInv'
  BY DEF CountInv, Within, Taken, Booked, KilledOn, admVars
<1>2. AdmTypeInv /\ CountInv /\ [Next]_admVars => CountInv' BY <1>1, CountStep
<1>3. CountInv => CountedOnce BY DEF CountInv, CountedOnce, Within
<1> QED BY <1>2, <1>3, TypesInit, TypesStep, CountInit, PTL DEF Spec

-----------------------------------------------------------------------------
(* The books balance *)

\* As long as remove_vm keeps out of the way of the scripts, what a command
\* has read is what the row still holds.
Orderly == past = {} =>
    /\ table = "filled"
    /\ op.cmd \in {"idle", "remove"}
    /\ op.cmd = "remove" =>
          admLock = NoScript /\ op.script \notin given /\ op.row = alloc[host[op.script]]
    /\ \A p \in Scripts : stage[p] = "adding" => seen[p] = alloc[host[p]]

BooksInv == AdmTypeInv /\ Orderly /\ BooksBalance

LEMMA BooksInit == Init => Orderly /\ BooksBalance
<1> SUFFICES ASSUME Init PROVE Orderly /\ BooksBalance OBVIOUS
<1>1. Orderly BY DEF Init, Orderly, Idle
<1>2. \A h \in Hosts : Booked(h) = {}
  BY AdmAssumption DEF Init, Booked
<1>3. RowFor({}) = ZeroRow BY TotalEmpty DEF RowFor, ZeroRow
<1>4. BooksBalance
  <2> SUFFICES ASSUME NEW h \in Hosts
               PROVE  \E killed \in SUBSET KilledOn(h) :
                         alloc[h] = RowFor((Booked(h) \cup killed) \ given)
    BY DEF BooksBalance
  <2>1. (Booked(h) \cup {}) \ given = {} BY <1>2
  <2>2. alloc[h] = RowFor((Booked(h) \cup {}) \ given) BY <1>3, <2>1 DEF Init
  <2> QED BY <2>2
<1> QED BY <1>1, <1>4

\* Only add_vm's write books a script on a host, and a script that was killed
\* stays so.
LEMMA BookedSteps ==
    ASSUME AdmTypeInv, table = "filled", NEW h \in Hosts, NEW p \in Scripts,
           TakeLock(p) \/ Proceed(p) \/ Destroyed(p) \/ Killed(p)
    PROVE  /\ KilledOn(h) \subseteq KilledOn(h)'
           /\ \A k \in Booked(h)' :
                 k \in Booked(h) \/ (k = p /\ AddVmWrite(p) /\ host[p] = h)
<1>1. /\ stage \in [Scripts -> Stages] /\ host \in [Scripts -> Hosts \cup {NoHost}] /\ HostInv
      /\ NoHost \notin Hosts
  BY AdmAssumption DEF AdmTypeInv, TypeOK
<1>2. stage[p] # "killed"
  BY DEF TakeLock, Proceed, Destroyed, Killed, AnswerInvalid, LookForRoom, AnswerBusy,
         AnswerHost, AnswerNothing, AddVmRead, AddVmWrite, AddVmDies, Unlock, CreateVMs,
         CloneFailed, Go, Locked
<1>3. PICK s \in Stages : stage' = [stage EXCEPT ![p] = s]
  BY DEF TakeLock, Proceed, Destroyed, Killed, AnswerInvalid, LookForRoom, AnswerBusy,
         AnswerHost, AnswerNothing, AddVmRead, AddVmWrite, AddVmDies, Unlock, CreateVMs,
         CloneFailed, Go, Stages
<1>4. host' = host \/ \E g \in Hosts : host' = [host EXCEPT ![p] = g]
  BY DEF TakeLock, Proceed, Destroyed, Killed, AnswerInvalid, LookForRoom, AnswerBusy,
         AnswerHost, AnswerNothing, AddVmRead, AddVmWrite, AddVmDies, Unlock, CreateVMs,
         CloneFailed
<1>5. \A k \in Scripts \ {p} : stage'[k] = stage[k] /\ host'[k] = host[k] BY <1>1, <1>3, <1>4
<1>6. KilledOn(h) \subseteq KilledOn(h)' BY <1>2, <1>5 DEF KilledOn
<1>7. ASSUME p \in Booked(h)' PROVE p \in Booked(h) \/ (AddVmWrite(p) /\ host[p] = h)
  <2>1. stage'[p] \in {"added", "reserved", "up", "failed", "gone"} /\ host'[p] = h
    BY <1>7 DEF Booked
  <2>2. CASE AddVmWrite(p) BY <2>1, <2>2 DEF AddVmWrite
  <2>3. CASE Unlock(p) \/ CreateVMs(p) \/ CloneFailed(p) \/ Destroyed(p)
    BY <2>1, <2>3 DEF Unlock, CreateVMs, CloneFailed, Destroyed, Go, Booked
  <2>4. CASE AnswerNothing(p) BY <1>1, <2>1, <2>4 DEF AnswerNothing, Go, HostInv
  <2>5. CASE AddVmDies(p) BY <2>5 DEF AddVmDies
  <2>6. CASE \/ TakeLock(p) \/ AnswerInvalid(p) \/ LookForRoom(p) \/ AnswerBusy(p)
             \/ AnswerHost(p) \/ AddVmRead(p) \/ Killed(p)
    BY <1>1, <2>1, <2>6
      DEF TakeLock, Killed, AnswerInvalid, LookForRoom, AnswerBusy, AnswerHost, AddVmRead, Go
  <2> QED BY <2>2, <2>3, <2>4, <2>5, <2>6 DEF Proceed
<1>8. ASSUME NEW k \in Booked(h)', k # p PROVE k \in Booked(h) BY <1>5, <1>8 DEF Booked
<1> QED BY <1>6, <1>7, <1>8

\* A script joins or leaves those that a row stands for.
LEMMA RowJoins ==
    ASSUME NEW S \in SUBSET Scripts, NEW p \in Scripts \ S
    PROVE  /\ RowFor(S) \in Row
           /\ RowFor(S \cup {p}) = [cpu |-> RowFor(S).cpu + Cpu[p],
                                    mem |-> RowFor(S).mem + Mem[p] + Gigabyte,
                                    vms |-> RowFor(S).vms + Nodes[p]]
<1>1. \A T \in SUBSET Scripts : /\ Summable(Cpu, T) /\ Total(Cpu, T) \in Nat
                             /\ Summable(OneMem, T) /\ Total(OneMem, T) \in Nat
                             /\ Summable(Nodes, T) /\ Total(Nodes, T) \in Nat
  BY ConstantTypes, SummableSubset, TotalType
<1>2. S \cup {p} \in SUBSET Scripts OBVIOUS
<1>3. /\ Total(Cpu, S \cup {p}) = Total(Cpu, S) + Cpu[p]
      /\ Total(OneMem, S \cup {p}) = Total(OneMem, S) + OneMem[p]
      /\ Total(Nodes, S \cup {p}) = Total(Nodes, S) + Nodes[p]
  BY <1>1, <1>2, TotalJoin
<1>4. OneMem[p] = Mem[p] + Gigabyte /\ Mem[p] \in Nat /\ Gigabyte \in Nat
  BY AdmAssumption DEF OneMem
<1>5. Total(OneMem, S) + OneMem[p] = Total(OneMem, S) + Mem[p] + Gigabyte BY <1>1, <1>4
<1> QED BY <1>1, <1>3, <1>5 DEF RowFor, Row

\* A script's step while no command of the operator has spoilt the order.
LEMMA ScriptBooks ==
    ASSUME BooksInv, NEW p \in Scripts, past' = {},
           TakeLock(p) \/ Proceed(p) \/ Destroyed(p) \/ Killed(p)
    PROVE  Orderly' /\ BooksBalance'
<1>1. /\ AdmTypeInv /\ NoScript \notin Scripts /\ alloc \in [Hosts -> Row]
      /\ stage \in [Scripts -> Stages] /\ CommandInv /\ HolderInv
  BY AdmAssumption DEF BooksInv, AdmTypeInv, TypeOK
<1>2. past = {} /\ (TakeLock(p) => op.cmd # "remove")
  BY DEF TakeLock, Proceed, Destroyed, Killed, AnswerInvalid, LookForRoom, AnswerBusy,
         AnswerHost, AnswerNothing, AddVmRead, AddVmWrite, AddVmDies, Unlock, CreateVMs,
         CloneFailed, Quiet, Overlaps
<1>3. /\ table = "filled" /\ op.cmd \in {"idle", "remove"}
      /\ op.cmd = "remove" =>
            admLock = NoScript /\ op.script \notin given /\ op.row = alloc[host[op.script]]
      /\ \A k \in Scripts : stage[k] = "adding" => seen[k] = alloc[host[k]]
      /\ BooksBalance
  BY <1>2 DEF BooksInv, Orderly
<1>4. Next BY DEF Next
<1>5. UNCHANGED <<table, op, given>>
  BY DEF TakeLock, Proceed, Destroyed, Killed, AnswerInvalid, LookForRoom, AnswerBusy,
         AnswerHost, AnswerNothing, AddVmRead, AddVmWrite, AddVmDies, Unlock, CreateVMs,
         CloneFailed, Quiet, opVars, dbVars
<1>6. \/ alloc' = alloc
      \/ /\ AddVmWrite(p) /\ stage[p] = "adding" /\ stage'[p] = "added"
         /\ alloc' = [alloc EXCEPT ![host[p]] =
               [cpu |-> seen[p].cpu + Cpu[p],
                mem |-> seen[p].mem + Mem[p] + Gigabyte,
                vms |-> seen[p].vms + Nodes[p]]]
  BY <1>1 DEF TakeLock, Proceed, Destroyed, Killed, AnswerInvalid, LookForRoom, AnswerBusy,
         AnswerHost, AnswerNothing, AddVmRead, AddVmWrite, AddVmDies, Unlock, CreateVMs,
         CloneFailed, Go
<1>7. AddVmWrite(p) => admLock = p BY <1>1 DEF AddVmWrite, Go, HolderInv, Locked
<1>8. Orderly'
  <2>1. ASSUME op.cmd = "remove"
        PROVE  admLock' = NoScript /\ alloc'[host'[op.script]] = alloc[host[op.script]]
    <3>1. admLock = NoScript /\ stage[p] \notin Locked BY <1>1, <1>3, <2>1 DEF HolderInv
    <3>2. alloc' = alloc BY <1>1, <1>6, <1>7, <3>1
    <3>3. host' = host /\ admLock' = NoScript
      BY <1>2, <2>1, <3>1
        DEF Proceed, Destroyed, Killed, AnswerInvalid, LookForRoom, AnswerBusy,
            AnswerHost, AnswerNothing, AddVmRead, AddVmWrite, AddVmDies, Unlock, CreateVMs,
            CloneFailed, Go, Locked, LetGo
    <3> QED BY <3>2, <3>3
  <2>2. ASSUME NEW k \in Scripts, stage'[k] = "adding" PROVE seen'[k] = alloc'[host'[k]]
    <3>1. host'[k] = host[k] BY <1>1, <1>4, <2>2, SeenSteps
    <3>2. CASE stage[k] = "adding" /\ seen'[k] = seen[k]
      <4>1. admLock = k BY <1>1, <3>2 DEF HolderInv, Locked
      <4>2. alloc' = alloc BY <1>6, <1>7, <2>2, <4>1
      <4> QED BY <1>3, <3>1, <3>2, <4>2
    <3>3. CASE AddVmRead(k) /\ seen'[k] = alloc[host[k]] BY <3>1, <3>3 DEF AddVmRead
    <3> QED BY <1>1, <1>4, <2>2, <3>2, <3>3, SeenSteps
  <2> QED BY <1>3, <1>5, <2>1, <2>2 DEF Orderly
<1>9. ASSUME NEW h \in Hosts
      PROVE  \E killed \in SUBSET KilledOn(h)' :
                alloc'[h] = RowFor((Booked(h)' \cup killed) \ given)
  <2>1. PICK old \in SUBSET KilledOn(h) : alloc[h] = RowFor((Booked(h) \cup old) \ given)
    BY <1>2, <1>3 DEF BooksBalance
  <2> DEFINE on == (Booked(h) \cup old) \ given
             new == old \cup (Booked(h) \ Booked(h)')
  <2>2. /\ KilledOn(h) \subseteq KilledOn(h)'
        /\ \A k \in Booked(h)' : k \in Booked(h) \/ (k = p /\ AddVmWrite(p) /\ host[p] = h)
    BY <1>1, <1>3, BookedSteps
  <2>3. Booked(h) \subseteq Booked(h)' \cup KilledOn(h)'
    BY <1>1, <1>4, TakenGrows DEF Taken
  <2>4. new \in SUBSET KilledOn(h)' BY <2>2, <2>3
  <2>5. CASE AddVmWrite(p) /\ host[p] = h
    <3>1. stage[p] = "adding" /\ stage' = [stage EXCEPT ![p] = "added"] /\ host' = host
      BY <2>5 DEF AddVmWrite, Go
    <3>2. p \in Booked(h)' BY <1>1, <2>5, <3>1 DEF Booked
    <3>3. p \notin Booked(h) /\ p \notin KilledOn(h) /\ p \notin given
      BY <1>1, <3>1 DEF Booked, KilledOn, CommandInv
    <3>4. (Booked(h)' \cup new) \ given = on \cup {p} BY <2>2, <3>2, <3>3
    <3>5. on \in SUBSET Scripts /\ p \in Scripts \ on BY <3>3 DEF Booked, KilledOn
    <3>6. seen[p] = RowFor(on) BY <1>3, <2>1, <2>5, <3>1
    <3>7. alloc'[h] = [cpu |-> seen[p].cpu + Cpu[p],
                       mem |-> seen[p].mem + Mem[p] + Gigabyte,
                       vms |-> seen[p].vms + Nodes[p]]
      BY <1>1, <2>5 DEF AddVmWrite
    <3> HIDE DEF on
    <3>8. alloc'[h] = RowFor(on \cup {p}) BY <3>5, <3>6, <3>7, RowJoins
    <3> QED BY <2>4, <3>4, <3>8
  <2>6. CASE ~(AddVmWrite(p) /\ host[p] = h)
    <3>1. alloc'[h] = alloc[h] BY <1>1, <1>6, <2>6
    <3>2. (Booked(h)' \cup new) \ given = on BY <2>2, <2>6
    <3> QED BY <2>1, <2>4, <3>1, <3>2
  <2> QED BY <2>5, <2>6
<1>10. BooksBalance' BY <1>5, <1>9 DEF BooksBalance
<1> QED BY <1>8, <1>10

\* A command of the operator that does not spoil it.
LEMMA OperatorBooks ==
    ASSUME BooksInv, Operator, past' = {} PROVE Orderly' /\ BooksBalance'
<1>1. /\ AdmTypeInv /\ NoScript \notin Scripts /\ alloc \in [Hosts -> Row]
      /\ op \in Commands /\ CommandInv /\ host \in [Scripts -> Hosts \cup {NoHost}]
  BY AdmAssumption DEF BooksInv, AdmTypeInv, TypeOK
<1>2. past = {}
  BY DEF Operator, RemoveRead, RemoveWrite, UpdateStart, InitdbStart, Measure, WriteHost,
         Delete, OperatorStops, Overlaps
<1>3. /\ table = "filled" /\ op.cmd \in {"idle", "remove"}
      /\ op.cmd = "remove" =>
            admLock = NoScript /\ op.script \notin given /\ op.row = alloc[host[op.script]]
      /\ \A k \in Scripts : stage[k] = "adding" => seen[k] = alloc[host[k]]
      /\ BooksBalance
  BY <1>2 DEF BooksInv, Orderly
<1>4. UNCHANGED <<admLock, stage, host, seen>>
  BY DEF Operator, RemoveRead, RemoveWrite, UpdateStart, InitdbStart, Measure, WriteHost,
         Delete, OperatorStops, scriptVars
<1>5. op.at = NoHost BY <1>1, <1>3 DEF CommandInv, Idle
<1>6. ~UpdateStart /\ ~InitdbStart /\ ~Measure /\ ~WriteHost /\ ~Delete
  BY <1>3, <1>5 DEF UpdateStart, InitdbStart, Measure, WriteHost, Delete
<1>7. \A h : Booked(h)' = Booked(h) /\ KilledOn(h)' = KilledOn(h)
  BY <1>4 DEF Booked, KilledOn
<1>8. CASE OperatorStops
  <2>1. op' = Idle /\ UNCHANGED <<table, sized, alloc, given, past>>
    BY <1>8 DEF OperatorStops, dbVars
  <2>2. Orderly' BY <1>3, <1>4, <2>1 DEF Orderly, Idle
  <2>3. BooksBalance' BY <1>2, <1>3, <1>7, <2>1 DEF BooksBalance
  <2> QED BY <2>2, <2>3
<1>9. CASE \E p \in Scripts : RemoveRead(p)
  <2> PICK p \in Scripts : RemoveRead(p) BY <1>9
  <2>1. /\ op' = [Idle EXCEPT !.cmd = "remove", !.script = p, !.row = alloc[host[p]]]
        /\ p \notin given /\ admLock = NoScript
        /\ UNCHANGED <<table, alloc, given>>
    BY DEF RemoveRead, Overlaps, dbVars
  <2>2. op'.cmd = "remove" /\ op'.script = p /\ op'.row = alloc[host[p]] BY <2>1 DEF Idle
  <2>3. Orderly' BY <1>3, <1>4, <2>1, <2>2 DEF Orderly
  <2>4. BooksBalance' BY <1>2, <1>3, <1>7, <2>1 DEF BooksBalance
  <2> QED BY <2>3, <2>4
<1>10. CASE RemoveWrite
  <2>1. /\ op.cmd = "remove" /\ op' = Idle /\ given' = given \cup {op.script}
        /\ alloc' = [alloc EXCEPT ![host[op.script]] =
              [cpu |-> op.row.cpu - Cpu[op.script],
               mem |-> op.row.mem - (Mem[op.script] + Gigabyte),
               vms |-> op.row.vms - Nodes[op.script]]]
        /\ table' = table
    BY <1>10 DEF RemoveWrite, dbVars
  <2> PICK p \in Scripts : p = op.script BY <1>1, <2>1 DEF CommandInv
  <2>2. /\ p \notin given /\ host[p] \in Hosts /\ stage[p] \in {"gone", "failed"}
        /\ op.row = alloc[host[p]] /\ admLock = NoScript
    BY <1>1, <1>3, <2>1 DEF CommandInv
  <2>3. Orderly'
    <3>1. \A k \in Scripts : stage[k] # "adding"
      BY <1>1, <2>2 DEF AdmTypeInv, HolderInv, Locked
    <3> QED BY <1>3, <1>4, <2>1, <3>1 DEF Orderly, Idle
  <2>4. ASSUME NEW h \in Hosts
        PROVE  \E killed \in SUBSET KilledOn(h) :
                  alloc'[h] = RowFor((Booked(h) \cup killed) \ given')
    <3>1. PICK killed \in SUBSET KilledOn(h) : alloc[h] = RowFor((Booked(h) \cup killed) \ given)
      BY <1>2, <1>3 DEF BooksBalance
    <3> DEFINE on == (Booked(h) \cup killed) \ given
    <3>2. (Booked(h) \cup killed) \ given' = on \ {p} BY <2>1
    <3>3. CASE host[p] = h
      <4>1. p \in on BY <2>2, <3>3 DEF Booked
      <4>2. on \in SUBSET Scripts BY DEF Booked, KilledOn
      <4>3. alloc[h] = RowFor(on) BY <3>1
      <4> HIDE DEF on
      <4>4. on = (on \ {p}) \cup {p} /\ on \ {p} \in SUBSET Scripts /\ p \in Scripts \ (on \ {p})
        BY <4>1, <4>2
      <4>5. /\ RowFor(on \ {p}) \in Row
            /\ RowFor(on) = [cpu |-> RowFor(on \ {p}).cpu + Cpu[p],
                             mem |-> RowFor(on \ {p}).mem + Mem[p] + Gigabyte,
                             vms |-> RowFor(on \ {p}).vms + Nodes[p]]
        BY <4>4, RowJoins
      <4>6. Cpu[p] \in Nat /\ Mem[p] \in Nat /\ Gigabyte \in Nat /\ Nodes[p] \in Nat
        BY AdmAssumption
      <4> PICK less \in Row : less = RowFor(on \ {p}) BY <4>5
      <4>7. less = [cpu |-> alloc[h].cpu - Cpu[p],
                    mem |-> alloc[h].mem - (Mem[p] + Gigabyte),
                    vms |-> alloc[h].vms - Nodes[p]]
        <5>1. less.cpu \in Int /\ less.mem \in Int /\ less.vms \in Int BY DEF Row
        <5>2. /\ alloc[h].cpu = less.cpu + Cpu[p]
              /\ alloc[h].mem = less.mem + Mem[p] + Gigabyte
              /\ alloc[h].vms = less.vms + Nodes[p]
          BY <4>3, <4>5
        <5>3. /\ less.cpu = alloc[h].cpu - Cpu[p]
              /\ less.mem = alloc[h].mem - (Mem[p] + Gigabyte)
              /\ less.vms = alloc[h].vms - Nodes[p]
          BY <4>6, <5>1, <5>2
        <5>4. less = [cpu |-> less.cpu, mem |-> less.mem, vms |-> less.vms] BY DEF Row
        <5> QED BY <5>3, <5>4
      <4>8. alloc'[h] = RowFor(on \ {p}) BY <1>1, <2>1, <2>2, <3>3, <4>7
      <4> QED BY <3>2, <4>8
    <3>4. CASE host[p] # h
      <4>1. p \notin on BY <3>4 DEF Booked, KilledOn
      <4>2. alloc'[h] = alloc[h] BY <1>1, <2>1, <3>4
      <4> QED BY <3>1, <3>2, <4>1, <4>2
    <3> QED BY <3>3, <3>4
  <2>5. BooksBalance' BY <1>7, <2>4 DEF BooksBalance
  <2> QED BY <2>3, <2>5
<1> QED BY <1>6, <1>8, <1>9, <1>10 DEF Operator

LEMMA BooksStep == BooksInv /\ [Next]_admVars => BooksInv'
<1> SUFFICES ASSUME BooksInv, [Next]_admVars PROVE Orderly' /\ BooksBalance'
  BY TypesStep DEF BooksInv
<1>1. CASE past' # {} BY <1>1 DEF Orderly, BooksBalance
<1>2. CASE UNCHANGED admVars
  <2>1. /\ UNCHANGED <<table, alloc, admLock, stage, host, seen, op, given, past>>
        /\ Orderly /\ BooksBalance
    BY <1>2 DEF BooksInv, admVars
  <2>2. \A h : Booked(h)' = Booked(h) /\ KilledOn(h)' = KilledOn(h)
    BY <2>1 DEF Booked, KilledOn
  <2> QED BY <2>1, <2>2 DEF Orderly, BooksBalance
<1>3. CASE past' = {} /\ Next BY <1>3, ScriptBooks, OperatorBooks DEF Next
<1> QED BY <1>1, <1>2, <1>3

\* No script's reservation is lost or counted twice, for any hosts and jobs: while
\* remove_vm and the scripts keep out of each other's way, a row is the sum
\* of what add_vm wrote for scripts that are still to be given back.
THEOREM BooksAlwaysBalance == Spec => []BooksBalance
<1>1. Init => BooksInv BY TypesInit, BooksInit DEF BooksInv
<1>2. BooksInv => BooksBalance BY DEF BooksInv
<1> QED BY <1>1, <1>2, BooksStep, PTL DEF Spec

=============================================================================
