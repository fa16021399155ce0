------------------------------- MODULE Process -------------------------------
(***************************************************************************)
(* The process table of the kernel, its round-robin scheduler, the system  *)
(* calls exec, exit and wait, and the wait() loop of the user library      *)
(* (kernel/process.cpp, kernel/syscall.cpp, stdlib/stdlib.c).              *)
(*                                                                         *)
(* Everything runs in ring 0 on the stack of the running program. A system *)
(* call runs with interrupts off, so it is one step; the exceptions are    *)
(* exec, which executes sti before it launches the new program, and the    *)
(* scheduler, which is one step per slot it visits (nothing can interleave *)
(* with it, but it need not terminate). A timer tick may come between any  *)
(* two instructions of a program, also inside the wait() loop, whose three *)
(* points are modelled one by one because the scheduler writes the         *)
(* registers of a waiting program wherever it was interrupted.             *)
(***************************************************************************)
EXTENDS Integers, FiniteSets

CONSTANTS
  NProcess,   \* n_process, the number of slots of tab_process
  FileKinds,  \* what the name given to exec may designate
  IrqPoints   \* where, between sti and the jump, a tick may come in a launch

ASSUME ProcessAssumption ==
  /\ NProcess \in Nat \ {0}
  /\ FileKinds \subseteq {"elf", "other", "absent"}
  /\ IrqPoints \subseteq {"launch_pid", "launch_proc", "launch_jump"}

Pid   == 0 .. NProcess - 1
None  == -1                   \* (uint32)-1
Retry == -2                   \* what wait answers to a process it suspends
SysExec == 6  SysExit == 8  SysWait == 9
Word  == (-2 .. 9) \cup Pid   \* what eax may hold in the wait() loop

VARIABLES
  state,            \* process.state
  ppid,             \* process.ppid
  sp, bp,           \* where the saved esp, and the saved ebp/ebx, point to
  upc,              \* the point of the program: in its own code or in wait()
  eax,              \* the register, from "mov $9" to the store in wait()
  ret,              \* sys_wait_ret of the wait() loop
  reaped,           \* history: the sons reaped for the current call of wait()
  mode,             \* what the processor executes
  current_pid, current_proc, current_directory, global_save_pid

table == <<state, ppid>>
saved == <<sp, bp>>
user  == <<upc, eax, ret, reaped>>
cpu   == <<mode, current_pid, current_proc, current_directory, global_save_pid>>
vars  == <<table, saved, user, cpu>>

TypeOK ==
  /\ state \in [Pid -> {"WAITING", "RUNNABLE", "ZOMBIE", "FREE"}]
  /\ ppid \in [Pid -> Pid \cup {None}]
  /\ sp \in [Pid -> {"none", "user", "kernel"}]
  /\ bp \in [Pid -> {"none", "user", "syscall", "kernel"}]
  /\ upc \in [Pid -> {"user", "int", "ret", "test"}]
  /\ eax \in [Pid -> Word] /\ ret \in [Pid -> Word]
  /\ reaped \in [Pid -> SUBSET Pid]
  /\ mode \in {"boot", "user", "sched", "launch_pid", "launch_proc",
               "launch_jump", "crash", "halt"}
  /\ current_pid \in Pid \cup {None} /\ current_proc \in Pid \cup {None}
  /\ current_directory \in Pid \cup {None}
  /\ global_save_pid \in Pid \cup {None}

\* init_process_tab; the boot code has not launched anything yet, current_proc
\* is NULL and the kernel directory is in use.
Init ==
  /\ state = [p \in Pid |-> "FREE"] /\ ppid = [p \in Pid |-> None]
  /\ sp = [p \in Pid |-> "none"] /\ bp = [p \in Pid |-> "none"]
  /\ upc = [p \in Pid |-> "user"] /\ eax = [p \in Pid |-> 0]
  /\ ret = [p \in Pid |-> 0] /\ reaped = [p \in Pid |-> {}]
  /\ mode = "boot" /\ current_pid = None /\ current_proc = None
  /\ current_directory = None /\ global_save_pid = None

-----------------------------------------------------------------------------
(* sys_wait: the first zombie son is freed and its number is the answer; a *)
(* process with no zombie or runnable son is answered -1; any other one is *)
(* suspended.                                                              *)

First(i, S) == i \in S /\ \A j \in S : i <= j

InState(st) == {i \in Pid : state[i] = st}

ZombieSons(p) == {i \in InState("ZOMBIE") : ppid[i] = p}

\* Faulty: suspended sons count as sons to wait for.
SonsCountingWaiting(p) == {i \in Pid : state[i] # "FREE" /\ ppid[i] = p}

Sons(p) == {i \in InState("ZOMBIE") \cup InState("RUNNABLE") : ppid[i] = p}

Reaps(p, i) ==
  /\ First(i, ZombieSons(p))
  /\ state' = [state EXCEPT ![i] = "FREE", ![p] = "RUNNABLE"]

Alone(p) ==
  /\ Sons(p) = {}
  /\ state' = [state EXCEPT ![p] = "RUNNABLE"]

Suspends(p) ==
  /\ ZombieSons(p) = {} /\ Sons(p) # {}
  /\ state' = [state EXCEPT ![p] = "WAITING"]

-----------------------------------------------------------------------------
(* The running program.                                                    *)

\* Enters wait(): the loop of the stub moves 9 to eax.
CallWait(p) ==
  /\ upc[p] = "user"
  /\ upc' = [upc EXCEPT ![p] = "int"] /\ eax' = [eax EXCEPT ![p] = SysWait]
  /\ reaped' = [reaped EXCEPT ![p] = {}]
  /\ UNCHANGED <<table, saved, ret, cpu>>

\* The system call that the next int 0x42 of p executes. Outside wait() the
\* program chooses it; in wait() it is what eax holds, and the scheduler may have
\* written it since "mov $9".
Asks(p, n) ==
  \/ upc[p] = "user" /\ n # SysWait
  \/ upc[p] = "int" /\ eax[p] = n

\* Back from the interrupt: a call made from the wait() loop returns to its
\* store of eax.
Returns(p, value) ==
  /\ upc' = [upc EXCEPT ![p] = IF @ = "int" THEN "ret" ELSE "user"]
  /\ eax' = [eax EXCEPT ![p] = IF upc[p] = "int" THEN value ELSE 0]

SyscallWait(p) ==
  /\ Asks(p, SysWait)
  /\ \/ \E i \in Pid : /\ Reaps(p, i) /\ Returns(p, i)
                       /\ reaped' = [reaped EXCEPT ![p] = @ \cup {i}]
     \/ Alone(p) /\ Returns(p, None) /\ UNCHANGED reaped
     \/ Suspends(p) /\ Returns(p, Retry) /\ UNCHANGED reaped
  /\ UNCHANGED <<ppid, saved, ret, cpu>>

\* Any other system call; what it does to the files is not this module's.
SyscallOther(p) ==
  /\ \E n \in Word \ {SysExec, SysExit, SysWait} : Asks(p, n)
  /\ \E value \in Pid \cup {None} : Returns(p, value)
  /\ UNCHANGED <<table, saved, ret, reaped, cpu>>

\* The answer is stored in sys_wait_ret.
WaitStore(p) ==
  /\ upc[p] = "ret"
  /\ upc' = [upc EXCEPT ![p] = "test"]
  /\ ret' = [ret EXCEPT ![p] = eax[p]] /\ eax' = [eax EXCEPT ![p] = 0]
  /\ UNCHANGED <<table, saved, reaped, cpu>>

\* Faulty: wait() does not loop on -2.
WaitTestOnce(p) ==
  /\ upc[p] = "test"
  /\ upc' = [upc EXCEPT ![p] = "user"]
  /\ UNCHANGED <<table, saved, eax, ret, reaped, cpu>>

\* The loop asks again as long as the answer is -2.
WaitTest(p) ==
  /\ upc[p] = "test"
  /\ IF ret[p] = Retry
     THEN /\ upc' = [upc EXCEPT ![p] = "int"]
          /\ eax' = [eax EXCEPT ![p] = SysWait]
          /\ UNCHANGED <<ret, reaped>>
     ELSE /\ upc' = [upc EXCEPT ![p] = "user"]
          /\ ret' = [ret EXCEPT ![p] = 0]
          /\ reaped' = [reaped EXCEPT ![p] = {}]
          /\ UNCHANGED eax
  /\ UNCHANGED <<table, saved, cpu>>

\* exit: the memory is freed from the kernel's directory, the slot becomes a
\* zombie, and the scheduler is called on the kernel stack as if by a tick.
SyscallExit(p) ==
  /\ Asks(p, SysExit)
  /\ state' = [state EXCEPT ![p] = "ZOMBIE"]
  /\ sp' = [sp EXCEPT ![p] = "user"] /\ bp' = [bp EXCEPT ![p] = "kernel"]
  /\ upc' = [upc EXCEPT ![p] = "user"] /\ eax' = [eax EXCEPT ![p] = 0]
  /\ ret' = [ret EXCEPT ![p] = 0] /\ reaped' = [reaped EXCEPT ![p] = {}]
  /\ mode' = "sched" /\ current_directory' = None /\ global_save_pid' = p
  /\ UNCHANGED <<ppid, current_pid, current_proc>>

-----------------------------------------------------------------------------
(* exec: the file is found, loaded in a slot, and the new program is run at *)
(* once in place of its father.                                            *)

\* Faulty: zombies are recycled before free slots.
SlotZombieFirst(i) ==
  \/ First(i, InState("ZOMBIE"))
  \/ InState("ZOMBIE") = {} /\ First(i, InState("FREE"))

\* The slot load_process takes: the first free one, or else the first zombie,
\* whose status is lost.
Slot(i) ==
  \/ First(i, InState("FREE"))
  \/ InState("FREE") = {} /\ First(i, InState("ZOMBIE"))

\* The name is not in the directory, or the table is full of living processes.
ExecFails(p) ==
  /\ Asks(p, SysExec)
  /\ \/ "absent" \in FileKinds
     \/ InState("FREE") \cup InState("ZOMBIE") = {}
  /\ Returns(p, IF upc[p] = "int" THEN eax[p] ELSE 0)
  /\ global_save_pid' = None
  /\ UNCHANGED <<table, saved, ret, reaped,
                 mode, current_pid, current_proc, current_directory>>

\* The file is not an ELF one: load_process answers -1 in the address space of
\* the slot, and exec returns to a stack which that space does not map.
ExecOther(p) ==
  /\ Asks(p, SysExec) /\ "other" \in FileKinds
  /\ \E i \in Pid :
       /\ Slot(i)
       /\ state' = [state EXCEPT ![i] = "FREE"]
       /\ current_directory' = i
  /\ mode' = "crash" /\ current_pid' = None /\ global_save_pid' = None
  /\ UNCHANGED <<ppid, saved, user, current_proc>>

\* load_process fills slot i for the father p (None at boot). The saved
\* registers are left as they are: nothing of the new process is saved.
Load(i, p) ==
  /\ Slot(i)
  /\ state' = [state EXCEPT ![i] = "RUNNABLE"]
  /\ ppid' = [ppid EXCEPT ![i] = p]
  /\ sp' = [sp EXCEPT ![i] = "none"]
  /\ current_directory' = i
  /\ global_save_pid' = i /\ current_pid' = None
  /\ mode' = "launch_pid"

\* The father's registers are saved so that it leaves the system call through
\* return_proc when it is resumed; then sti.
Exec(p) ==
  /\ Asks(p, SysExec) /\ "elf" \in FileKinds
  /\ \E i \in Pid :
       /\ Load(i, p)
       /\ bp' = [bp EXCEPT ![i] = "none", ![p] = "syscall"]
       /\ upc' = [upc EXCEPT ![i] = "user",
                             ![p] = IF @ = "int" THEN "ret" ELSE "user"]
       /\ eax' = [eax EXCEPT ![i] = 0]
       /\ ret' = [ret EXCEPT ![i] = 0]
       /\ reaped' = [reaped EXCEPT ![i] = {}]
  /\ UNCHANGED current_proc

\* kernel_main launches the shell, or loops for ever.
BootShell ==
  /\ mode = "boot" /\ "elf" \in FileKinds
  /\ \E i \in Pid : Load(i, None)
  /\ UNCHANGED <<bp, user, current_proc>>

BootFails ==
  /\ mode = "boot" /\ FileKinds \cap {"other", "absent"} # {}
  /\ mode' = "halt"
  /\ \/ "absent" \in FileKinds /\ UNCHANGED current_directory
     \/ "other" \in FileKinds /\ \E i \in Pid : Slot(i) /\ current_directory' = i
  /\ UNCHANGED <<table, saved, user, current_pid, current_proc, global_save_pid>>

\* Faulty: off by one.
LaunchPidPastSlot ==
  /\ mode = "launch_pid"
  /\ current_pid' = global_save_pid + 1
  /\ mode' = "launch_proc"
  /\ UNCHANGED <<table, saved, user, current_proc, current_directory, global_save_pid>>

\* run_process, one store at a time: interrupts are on.
LaunchPid ==
  /\ mode = "launch_pid"
  /\ current_pid' = global_save_pid
  /\ mode' = "launch_proc"
  /\ UNCHANGED <<table, saved, user, current_proc, current_directory, global_save_pid>>

LaunchProc ==
  /\ mode = "launch_proc"
  /\ current_proc' = global_save_pid
  /\ mode' = "launch_jump"
  /\ UNCHANGED <<table, saved, user, current_pid, current_directory, global_save_pid>>

LaunchJump ==
  /\ mode = "launch_jump"
  /\ mode' = "user"
  /\ UNCHANGED <<table, saved, user, current_pid, current_proc, current_directory, global_save_pid>>

-----------------------------------------------------------------------------
(* The timer: switch_context saves where the interrupted code is, and looks *)
(* for the next process to run.                                            *)

\* Faulty: a suspended process is not saved.
SaveRunnableTo(p, where) ==
  /\ sp' = IF p # None /\ state[p] = "RUNNABLE" THEN [sp EXCEPT ![p] = where] ELSE sp
  /\ bp' = IF p # None /\ state[p] = "RUNNABLE" THEN [bp EXCEPT ![p] = where] ELSE bp

\* The context goes to current_proc, wherever the processor really is. The
\* pointer is NULL at boot: low memory is overwritten.
SaveTo(p, where) ==
  /\ sp' = IF p = None THEN sp ELSE [sp EXCEPT ![p] = where]
  /\ bp' = IF p = None THEN bp ELSE [bp EXCEPT ![p] = where]

Tick(p) ==
  /\ SaveTo(p, "user")
  /\ mode' = "sched"
  /\ UNCHANGED <<table, user, current_pid, current_proc, current_directory, global_save_pid>>

\* Faulty: the test of current_pid is left out.
NeverInSyscall == FALSE

\* What switch_context tests before it schedules.
InSyscall == current_pid = None

\* During a launch the code interrupted is the kernel's. Until current_pid is
\* set, a tick only overwrites the saved esp of current_proc.
TickInLaunch ==
  /\ mode \in IrqPoints
  /\ IF InSyscall
     THEN /\ sp' = IF current_proc = None THEN sp
                   ELSE [sp EXCEPT ![current_proc] = "kernel"]
          /\ UNCHANGED <<bp, mode>>
     ELSE /\ SaveTo(current_proc, "kernel")
          /\ mode' = "sched"
  /\ UNCHANGED <<table, user, current_pid, current_proc, current_directory, global_save_pid>>


NextSlot(c) == (c + 1) % NProcess

\* One turn of the loop of switch_context visits the next slot.
Visits(c, st) ==
  /\ mode = "sched" /\ c = NextSlot(current_pid)
  /\ state[c] = st
  /\ current_pid' = c

\* Faulty: the address space is not changed.
ResumeInOldSpace(c) ==
  /\ current_proc' = c
  /\ mode' = IF bp[c] \in {"user", "syscall"} THEN "user" ELSE "crash"
  /\ UNCHANGED <<ppid, saved, ret, current_directory, global_save_pid>>

\* The saved registers of c are restored and its interrupted code goes on. The
\* kernel's stack is used afresh at each switch: what was interrupted on it is
\* lost, and so is a process of which nothing was ever saved.
Resume(c) ==
  /\ current_proc' = c /\ current_directory' = c
  /\ mode' = IF bp[c] \in {"user", "syscall"} THEN "user" ELSE "crash"
  /\ UNCHANGED <<ppid, saved, ret, global_save_pid>>

VisitFree(c) ==
  /\ Visits(c, "FREE")
  /\ UNCHANGED <<table, saved, user, mode, current_proc, current_directory, global_save_pid>>

\* The sons of a zombie become orphans; an orphan zombie is freed.
VisitZombie(c) ==
  /\ Visits(c, "ZOMBIE")
  /\ ppid' = [i \in Pid |-> IF state[i] # "FREE" /\ ppid[i] = c THEN None ELSE ppid[i]]
  /\ state' = IF ppid'[c] = None THEN [state EXCEPT ![c] = "FREE"] ELSE state
  /\ UNCHANGED <<saved, user, mode, current_proc, current_directory, global_save_pid>>

\* The answer is written where the interrupted program will find its eax.
Answer(c, value) ==
  eax' = [eax EXCEPT ![c] = IF upc[c] \in {"int", "ret"} THEN value ELSE @]


VisitWaiting(c) ==
  /\ Visits(c, "WAITING")
  /\ \/ \E i \in Pid : /\ Reaps(c, i) /\ Answer(c, i) /\ Resume(c)
                       /\ reaped' = [reaped EXCEPT ![c] = @ \cup {i}]
     \/ Alone(c) /\ Answer(c, None) /\ Resume(c) /\ UNCHANGED reaped
     \/ Suspends(c) /\ UNCHANGED <<ppid, saved, eax, ret, reaped, mode, current_proc,
                                   current_directory, global_save_pid>>
  /\ UNCHANGED upc

VisitRunnable(c) ==
  /\ Visits(c, "RUNNABLE")
  /\ Resume(c)
  /\ UNCHANGED <<state, upc, eax, reaped>>

-----------------------------------------------------------------------------
Program(p) ==
  /\ mode = "user" /\ p = current_proc
  /\ \/ CallWait(p) \/ SyscallWait(p) \/ WaitStore(p) \/ WaitTest(p)
     \/ SyscallOther(p) \/ SyscallExit(p)
     \/ Exec(p) \/ ExecFails(p) \/ ExecOther(p)

TimerTick(p) == mode = "user" /\ p = current_proc /\ Tick(p)

Launch == LaunchPid \/ LaunchProc \/ LaunchJump

Visit(c) == VisitFree(c) \/ VisitZombie(c) \/ VisitWaiting(c) \/ VisitRunnable(c)

Next ==
  \/ BootShell \/ BootFails \/ Launch \/ TickInLaunch
  \/ \E p \in Pid : Program(p) \/ TimerTick(p) \/ Visit(p)

Spec == Init /\ [][Next]_vars

-----------------------------------------------------------------------------
(* Safety.                                                                 *)

\* While a program runs, the three records of who runs agree and name a slot that
\* is neither free nor a zombie, so that a system call acts on the process that
\* made it, in its own memory.
RunningIsCurrent ==
  mode = "user" =>
    /\ current_proc \in Pid
    /\ current_pid = current_proc /\ current_directory = current_proc
    /\ state[current_proc] \in {"RUNNABLE", "WAITING"}

\* A suspended process is inside the loop of wait(), about to ask again, and the
\* frame in which the scheduler will write its answer is one saved from there.
WaitingFrameOwned ==
  \A p \in InState("WAITING") :
    /\ \/ upc[p] = "int" /\ eax[p] = SysWait
       \/ upc[p] = "ret" /\ eax[p] = Retry
       \/ upc[p] = "test" /\ ret[p] = Retry
    /\ \/ mode = "user" /\ current_proc = p
       \/ sp[p] = "user" /\ bp[p] = "user"

\* The state of a process changes along its life only: a suspended process wakes
\* before anything else happens to it, a slot in use becomes a zombie before it
\* is free, and a slot is filled only when no other program is in it.
LifeCycle ==
  [][\A p \in Pid : state'[p] # state[p] =>
       <<state[p], state'[p]>> \in
         {<<"FREE", "RUNNABLE">>, <<"RUNNABLE", "WAITING">>, <<"WAITING", "RUNNABLE">>,
          <<"RUNNABLE", "ZOMBIE">>, <<"ZOMBIE", "FREE">>, <<"ZOMBIE", "RUNNABLE">>}]_vars

\* A zombie is kept, with its status, until its own father collects it in wait,
\* it has no father left, or exec finds no free slot.
ZombieKept ==
  [][\A z \in InState("ZOMBIE") : state'[z] # "ZOMBIE" =>
       \/ ppid'[z] = None
       \/ \E f \in Pid : f = ppid[z] /\ z \in reaped'[f] /\ state'[f] = "RUNNABLE"
       \/ InState("FREE") = {}]_vars

\* Where no tick falls between the stores of run_process, and exec is given
\* programs only, every switch resumes a context that was really saved.
NeverCrashes == mode # "crash"

\* What the code says of wait ("s'il y a une valeur de retour, elle est passee dans
\* eax"): a call of wait() that is over answered the one son that was reaped for
\* it, or -1 if there was none.
WaitReportsReapedChild ==
  \A p \in Pid : upc[p] = "test" /\ ret[p] # Retry =>
    reaped[p] = {ret[p]} \ {None}

\* What the code says of the scheduler's turn over the zombies ("pour liberer
\* leurs fils"): no process keeps as its father a slot that is free.
DeadFatherReleasesSons ==
  \A p \in Pid : state[p] # "FREE" /\ ppid[p] # None => state[ppid[p]] # "FREE"

-----------------------------------------------------------------------------
(* Liveness. The scheduler and the launch run with nothing to hold them     *)
(* back, hence weak fairness. The timer interrupts a program that keeps     *)
(* coming back to its own code; as exec replaces the running process        *)
(* without a tick, this takes strong fairness for each process.             *)

Fairness ==
  /\ WF_vars(Launch)
  /\ WF_vars(\E c \in Pid : Visit(c))
  /\ \A p \in Pid : SF_vars(TimerTick(p))

FairSpec == Spec /\ Fairness

\* As long as some process lives, the loop of switch_context ends: no set of
\* processes can wait for each other in such a way that none is runnable.
SchedulerFindsWork ==
  mode = "sched" /\ InState("RUNNABLE") \cup InState("WAITING") # {} ~> mode = "user"


=============================================================================
