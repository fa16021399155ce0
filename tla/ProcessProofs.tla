---------------------------- MODULE ProcessProofs ----------------------------
(***************************************************************************)
(* What holds of the process table for every number of slots.              *)
(*                                                                         *)
(* The argument: a suspended process is stuck in the wait() loop, where the *)
(* only system call it can make is wait, so it can neither exec nor exit    *)
(* before it is woken; hence the father of a launch is never suspended, and *)
(* a tick during a launch never overwrites the frame of a suspended one.    *)
(***************************************************************************)
EXTENDS Process, TLAPS

Launching == mode \in {"launch_pid", "launch_proc", "launch_jump"}

\* What run_process relies on between its stores.
LaunchInv ==
  /\ Launching =>
       /\ global_save_pid \in Pid /\ state[global_save_pid] = "RUNNABLE"
       /\ current_directory = global_save_pid
       /\ current_proc # None => state[current_proc] = "RUNNABLE"
  /\ mode = "boot" => current_proc = None
  /\ mode = "launch_pid" => current_pid = None
  /\ mode \in {"launch_proc", "launch_jump"} => current_pid = global_save_pid
  /\ mode = "launch_jump" => current_proc = global_save_pid

\* The scheduler never starts from -1.
SchedInv == mode = "sched" => current_pid \in Pid

IInv == TypeOK /\ RunningIsCurrent /\ WaitingFrameOwned /\ LaunchInv /\ SchedInv

-----------------------------------------------------------------------------
(* The step lemmas. *)

LEMMA PidFacts ==
  /\ None \notin Pid
  /\ SysExec \in Word /\ SysExit \in Word /\ SysWait \in Word
  /\ Retry \in Word /\ None \in Word /\ 0 \in Word
  /\ Pid \subseteq Word
  /\ 0 \in Pid
  /\ \A c \in Pid : NextSlot(c) \in Pid
BY ProcessAssumption DEF Pid, None, Word, Retry, SysExec, SysExit, SysWait, NextSlot

LEMMA InitIInv == Init => IInv
BY PidFacts DEF Init, IInv, TypeOK, RunningIsCurrent, WaitingFrameOwned, LaunchInv,
   Launching, SchedInv, InState

LEMMA BootShellStep == ASSUME IInv, BootShell PROVE IInv'
<1> USE PidFacts DEF IInv, TypeOK
<1>1. PICK i \in Pid : Load(i, None) BY DEF BootShell
<1>2. TypeOK' BY <1>1 DEF BootShell, Load, user
<1>3. WaitingFrameOwned'
  BY <1>1 DEF BootShell, Load, user, WaitingFrameOwned, InState
<1>4. RunningIsCurrent' /\ LaunchInv' /\ SchedInv'
  BY <1>1 DEF BootShell, Load, RunningIsCurrent, LaunchInv, Launching, SchedInv
<1> QED BY <1>2, <1>3, <1>4

LEMMA BootFailsStep == ASSUME IInv, BootFails PROVE IInv'
BY PidFacts DEF IInv, TypeOK, RunningIsCurrent, WaitingFrameOwned, LaunchInv,
   Launching, SchedInv, InState, BootFails, table, saved, user

LEMMA LaunchStep == ASSUME IInv, Launch PROVE IInv'
BY PidFacts DEF IInv, TypeOK, RunningIsCurrent, WaitingFrameOwned, LaunchInv,
   Launching, SchedInv, InState, Launch, LaunchPid, LaunchProc, LaunchJump,
   table, saved, user, cpu

LEMMA TickInLaunchStep == ASSUME IInv, TickInLaunch PROVE IInv'
BY PidFacts, ProcessAssumption DEF IInv, TypeOK, RunningIsCurrent, WaitingFrameOwned,
   LaunchInv, Launching, SchedInv, InState, TickInLaunch, InSyscall, SaveTo,
   table, saved, user, cpu

LEMMA TimerTickStep == ASSUME IInv, NEW p \in Pid, TimerTick(p) PROVE IInv'
BY PidFacts DEF IInv, TypeOK, RunningIsCurrent, WaitingFrameOwned,
   LaunchInv, Launching, SchedInv, InState, TimerTick, Tick, SaveTo,
   table, saved, user, cpu

LEMMA VisitFreeStep == ASSUME IInv, NEW c \in Pid, VisitFree(c) PROVE IInv'
BY PidFacts DEF IInv, TypeOK, RunningIsCurrent, WaitingFrameOwned,
   LaunchInv, Launching, SchedInv, InState, VisitFree, Visits, table, saved, user, cpu

LEMMA VisitZombieStep == ASSUME IInv, NEW c \in Pid, VisitZombie(c) PROVE IInv'
BY PidFacts DEF IInv, TypeOK, RunningIsCurrent, WaitingFrameOwned,
   LaunchInv, Launching, SchedInv, InState, VisitZombie, Visits, table, saved, user, cpu

LEMMA VisitRunnableStep == ASSUME IInv, NEW c \in Pid, VisitRunnable(c) PROVE IInv'
BY PidFacts DEF IInv, TypeOK, RunningIsCurrent, WaitingFrameOwned,
   LaunchInv, Launching, SchedInv, InState, VisitRunnable, Visits, Resume,
   table, saved, user, cpu

\* What the program does is done in user mode; only the running process changes.
LEMMA VisitWaitingStep == ASSUME IInv, NEW c \in Pid, VisitWaiting(c) PROVE IInv'
<1> USE PidFacts DEF IInv, TypeOK, VisitWaiting, Visits
<1>1. CASE \E i \in Pid : Reaps(c, i) /\ Answer(c, i) /\ Resume(c)
                          /\ reaped' = [reaped EXCEPT ![c] = @ \cup {i}]
  <2>1. PICK i \in Pid : Reaps(c, i) /\ Answer(c, i) /\ Resume(c)
                          /\ reaped' = [reaped EXCEPT ![c] = @ \cup {i}]
    BY <1>1
  <2>2. state[i] = "ZOMBIE" BY <2>1 DEF Reaps, First, ZombieSons, InState
  <2>3. TypeOK' BY <2>1 DEF Reaps, Answer, Resume, saved
  <2>4. WaitingFrameOwned'
    BY <2>1, <2>2 DEF Reaps, Answer, Resume, saved, WaitingFrameOwned, InState
  <2>5. RunningIsCurrent' /\ LaunchInv' /\ SchedInv'
    BY <2>1, <2>2 DEF Reaps, Resume, RunningIsCurrent, LaunchInv, Launching, SchedInv
  <2> QED BY <2>3, <2>4, <2>5
<1>2. CASE Alone(c) /\ Answer(c, None) /\ Resume(c) /\ UNCHANGED reaped
  <2>1. TypeOK' BY <1>2 DEF Alone, Answer, Resume, saved
  <2>2. WaitingFrameOwned'
    BY <1>2 DEF Alone, Answer, Resume, saved, WaitingFrameOwned, InState
  <2>3. RunningIsCurrent' /\ LaunchInv' /\ SchedInv'
    BY <1>2 DEF Alone, Resume, RunningIsCurrent, LaunchInv, Launching, SchedInv
  <2> QED BY <2>1, <2>2, <2>3
<1>3. CASE Suspends(c) /\ UNCHANGED <<ppid, saved, eax, ret, reaped, mode, current_proc,
                                     current_directory, global_save_pid>>
  BY <1>3 DEF Suspends, saved, WaitingFrameOwned, InState, RunningIsCurrent,
     LaunchInv, Launching, SchedInv
<1> QED BY <1>1, <1>2, <1>3

-----------------------------------------------------------------------------
(* The steps of the running program p.                                     *)

Running(p) == mode = "user" /\ p = current_proc

\* A suspended program can only ask for wait.
LEMMA SuspendedOnlyWaits ==
  ASSUME IInv, NEW p \in Pid, state[p] = "WAITING", NEW n, Asks(p, n)
  PROVE  n = SysWait
BY DEF IInv, WaitingFrameOwned, InState, Asks

LEMMA CallStep ==
  ASSUME IInv, NEW p \in Pid, Running(p),
         CallWait(p) \/ WaitStore(p) \/ WaitTest(p) \/ SyscallOther(p) \/ ExecFails(p)
  PROVE  IInv'
<1> USE PidFacts DEF IInv, TypeOK, Running, cpu, saved, table
<1>1. CASE CallWait(p)
  BY <1>1 DEF CallWait, WaitingFrameOwned, InState, RunningIsCurrent, LaunchInv,
     Launching, SchedInv
<1>2. CASE WaitStore(p)
  BY <1>2 DEF WaitStore, WaitingFrameOwned, InState, RunningIsCurrent, LaunchInv,
     Launching, SchedInv
<1>3. CASE WaitTest(p)
  BY <1>3 DEF WaitTest, WaitingFrameOwned, InState, RunningIsCurrent, LaunchInv,
     Launching, SchedInv
<1>4. CASE SyscallOther(p)
  <2>1. state[p] # "WAITING" BY <1>4, SuspendedOnlyWaits DEF SyscallOther
  <2>2. TypeOK' BY <1>4 DEF SyscallOther, Returns
  <2> QED BY <1>4, <2>1, <2>2 DEF SyscallOther, Returns, WaitingFrameOwned, InState,
     RunningIsCurrent, LaunchInv, Launching, SchedInv
<1>5. CASE ExecFails(p)
  <2>1. state[p] # "WAITING"
    BY <1>5, SuspendedOnlyWaits DEF ExecFails, SysExec, SysWait
  <2>2. TypeOK' BY <1>5 DEF ExecFails, Returns
  <2> QED BY <1>5, <2>1, <2>2 DEF ExecFails, Returns, WaitingFrameOwned, InState,
     RunningIsCurrent, LaunchInv, Launching, SchedInv
<1> QED BY <1>1, <1>2, <1>3, <1>4, <1>5

LEMMA SyscallWaitStep ==
  ASSUME IInv, NEW p \in Pid, Running(p), SyscallWait(p)
  PROVE  IInv'
<1> USE PidFacts DEF IInv, TypeOK, Running, cpu, saved, SyscallWait, Returns
<1>1. upc[p] = "int" BY DEF Asks
<1>2. CASE \E i \in Pid : /\ Reaps(p, i) /\ Returns(p, i)
                          /\ reaped' = [reaped EXCEPT ![p] = @ \cup {i}]
  <2>1. PICK i \in Pid : /\ Reaps(p, i) /\ Returns(p, i)
                        /\ reaped' = [reaped EXCEPT ![p] = @ \cup {i}]
    BY <1>2
  <2>2. state[i] = "ZOMBIE" BY <2>1 DEF Reaps, First, ZombieSons, InState
  <2>3. TypeOK' BY <1>1, <2>1 DEF Reaps
  <2> QED BY <2>1, <2>2, <2>3 DEF Reaps, WaitingFrameOwned, InState,
     RunningIsCurrent, LaunchInv, Launching, SchedInv
<1>3. CASE Alone(p) /\ Returns(p, None) /\ UNCHANGED reaped
  BY <1>1, <1>3 DEF Alone, WaitingFrameOwned, InState, RunningIsCurrent, LaunchInv,
     Launching, SchedInv
<1>4. CASE Suspends(p) /\ Returns(p, Retry) /\ UNCHANGED reaped
  BY <1>1, <1>4 DEF Suspends, WaitingFrameOwned, InState, RunningIsCurrent, LaunchInv,
     Launching, SchedInv
<1> QED BY <1>2, <1>3, <1>4

LEMMA SyscallExitStep ==
  ASSUME IInv, NEW p \in Pid, Running(p), SyscallExit(p)
  PROVE  IInv'
BY PidFacts DEF IInv, TypeOK, Running, SyscallExit, WaitingFrameOwned, InState,
   RunningIsCurrent, LaunchInv, Launching, SchedInv

LEMMA ExecStep ==
  ASSUME IInv, NEW p \in Pid, Running(p), Exec(p) \/ ExecOther(p)
  PROVE  IInv'
<1> USE PidFacts DEF IInv, TypeOK, Running, Slot, First, InState
<1>1. state[p] = "RUNNABLE"
  BY SuspendedOnlyWaits DEF Exec, ExecOther, SysExec, SysWait, RunningIsCurrent
<1>2. CASE Exec(p)
  <2>1. PICK i \in Pid :
       /\ Load(i, p)
       /\ bp' = [bp EXCEPT ![i] = "none", ![p] = "syscall"]
       /\ upc' = [upc EXCEPT ![i] = "user",
                             ![p] = IF @ = "int" THEN "ret" ELSE "user"]
       /\ eax' = [eax EXCEPT ![i] = 0]
       /\ ret' = [ret EXCEPT ![i] = 0]
       /\ reaped' = [reaped EXCEPT ![i] = {}]
    BY <1>2 DEF Exec
  <2>2. i # p BY <1>1, <2>1 DEF Load
  <2>3. TypeOK' BY <1>2, <2>1 DEF Exec, Load
  <2>4. WaitingFrameOwned' BY <1>1, <2>1, <2>2 DEF Load, WaitingFrameOwned
  <2>5. RunningIsCurrent' /\ LaunchInv' /\ SchedInv'
    BY <1>1, <1>2, <2>1, <2>2 DEF Exec, Load, RunningIsCurrent, LaunchInv, Launching,
       SchedInv
  <2> QED BY <2>3, <2>4, <2>5
<1>3. CASE ExecOther(p)
  BY <1>1, <1>3 DEF ExecOther, saved, user, WaitingFrameOwned, RunningIsCurrent,
     LaunchInv, Launching, SchedInv
<1> QED BY <1>2, <1>3

-----------------------------------------------------------------------------
LEMMA NextIInv == IInv /\ [Next]_vars => IInv'
<1> SUFFICES ASSUME IInv, [Next]_vars PROVE IInv'
  OBVIOUS
<1>1. CASE BootShell BY <1>1, BootShellStep
<1>2. CASE BootFails BY <1>2, BootFailsStep
<1>3. CASE Launch BY <1>3, LaunchStep
<1>4. CASE TickInLaunch BY <1>4, TickInLaunchStep
<1>5. ASSUME NEW p \in Pid, Program(p) PROVE IInv'
  <2>1. Running(p) BY <1>5 DEF Program, Running
  <2> QED BY <1>5, <2>1, CallStep, SyscallWaitStep, SyscallExitStep, ExecStep DEF Program
<1>6. ASSUME NEW p \in Pid, TimerTick(p) PROVE IInv' BY <1>6, TimerTickStep
<1>7. ASSUME NEW c \in Pid, Visit(c) PROVE IInv'
  BY <1>7, VisitFreeStep, VisitZombieStep, VisitWaitingStep, VisitRunnableStep DEF Visit
<1>8. CASE UNCHANGED vars
  BY <1>8 DEF vars, table, saved, user, cpu, IInv, TypeOK, RunningIsCurrent,
     WaitingFrameOwned, InState, LaunchInv, Launching, SchedInv
<1> QED BY <1>1, <1>2, <1>3, <1>4, <1>5, <1>6, <1>7, <1>8 DEF Next

\* Type correctness.
THEOREM Typing == Spec => []TypeOK
<1>1. IInv => TypeOK BY DEF IInv
<1> QED BY InitIInv, NextIInv, <1>1, PTL DEF Spec

\* A system call acts on the process that made it (process.cpp, syscall.cpp).
THEOREM Running_Is_Current == Spec => []RunningIsCurrent
<1>1. IInv => RunningIsCurrent BY DEF IInv
<1> QED BY InitIInv, NextIInv, <1>1, PTL DEF Spec

\* The scheduler writes the answer of wait in a frame of the wait() loop.
THEOREM Waiting_Frame_Owned == Spec => []WaitingFrameOwned
<1>1. IInv => WaitingFrameOwned BY DEF IInv
<1> QED BY InitIInv, NextIInv, <1>1, PTL DEF Spec

-----------------------------------------------------------------------------
(* No context is lost when the timer spares the stores of run_process.      *)

NoLostTick == IrqPoints \subseteq {"launch_pid"} /\ "other" \notin FileKinds

\* A living process that neither runs nor is being launched has a saved context.
ContextInv ==
  /\ NeverCrashes
  /\ \A p \in Pid : state[p] \in {"RUNNABLE", "WAITING"} =>
       \/ bp[p] \in {"user", "syscall"}
       \/ mode = "user" /\ current_proc = p
       \/ Launching /\ global_save_pid = p

LEMMA VisitContext ==
  ASSUME IInv, ContextInv, NEW c \in Pid, Visit(c)
  PROVE  ContextInv'
<1> USE DEF IInv, TypeOK, ContextInv, NeverCrashes, Launching, Visits
<1>1. CASE VisitFree(c) BY <1>1 DEF VisitFree, table, saved
<1>2. CASE VisitZombie(c) BY <1>2 DEF VisitZombie, saved
<1>3. CASE VisitWaiting(c)
  BY <1>3 DEF VisitWaiting, Reaps, Alone, Suspends, Resume, saved, First, ZombieSons, InState
<1>4. CASE VisitRunnable(c) BY <1>4 DEF VisitRunnable, Resume, saved
<1> QED BY <1>1, <1>2, <1>3, <1>4 DEF Visit

LEMMA ProgramContext ==
  ASSUME IInv, ContextInv, NoLostTick, NEW p \in Pid, Program(p)
  PROVE  ContextInv'
<1> USE PidFacts DEF IInv, TypeOK, ContextInv, NeverCrashes, Launching, Program
<1>1. CASE CallWait(p) \/ WaitStore(p) \/ WaitTest(p) \/ SyscallOther(p) \/ ExecFails(p)
  BY <1>1 DEF CallWait, WaitStore, WaitTest, SyscallOther, ExecFails, cpu, saved, table
<1>2. CASE SyscallWait(p)
  BY <1>2 DEF SyscallWait, Reaps, Alone, Suspends, First, ZombieSons, InState, cpu, saved
<1>3. CASE SyscallExit(p) BY <1>3 DEF SyscallExit
<1>4. CASE Exec(p)
  <2>1. PICK i \in Pid : Load(i, p) /\ bp' = [bp EXCEPT ![i] = "none", ![p] = "syscall"]
    BY <1>4 DEF Exec
  <2> QED BY <2>1 DEF Load
<1>5. CASE ExecOther(p) BY <1>5 DEF ExecOther, NoLostTick
<1> QED BY <1>1, <1>2, <1>3, <1>4, <1>5

\* run_process and switch_context never lose a context, if no tick falls between
\* the store of current_pid and the jump, and exec is given programs only.
THEOREM Never_Crashes == NoLostTick => (Spec => []NeverCrashes)
<1> SUFFICES ASSUME NoLostTick PROVE Spec => []NeverCrashes
  OBVIOUS
<1>1. Init => ContextInv
  BY DEF Init, ContextInv, NeverCrashes
<1>2. IInv /\ ContextInv /\ [Next]_vars => ContextInv'
  <2> SUFFICES ASSUME IInv, ContextInv, [Next]_vars PROVE ContextInv'
    OBVIOUS
  <2> USE DEF IInv, TypeOK, ContextInv, NeverCrashes, Launching
  <2>1. CASE BootShell BY <2>1, PidFacts DEF BootShell, Load
  <2>2. CASE BootFails BY <2>2 DEF BootFails, table, saved, user
  <2>3. CASE Launch
    BY <2>3 DEF Launch, LaunchPid, LaunchProc, LaunchJump, LaunchInv, table, saved, user
  <2>4. CASE TickInLaunch
    BY <2>4 DEF TickInLaunch, NoLostTick, InSyscall, LaunchInv, table, user
  <2>5. ASSUME NEW p \in Pid, Program(p) PROVE ContextInv' BY <2>5, ProgramContext
  <2>6. ASSUME NEW p \in Pid, TimerTick(p) PROVE ContextInv'
    BY <2>6, PidFacts DEF TimerTick, Tick, SaveTo, table, user
  <2>7. ASSUME NEW c \in Pid, Visit(c) PROVE ContextInv' BY <2>7, VisitContext
  <2>8. CASE UNCHANGED vars BY <2>8 DEF vars, table, saved, user, cpu
  <2> QED BY <2>1, <2>2, <2>3, <2>4, <2>5, <2>6, <2>7, <2>8 DEF Next
<1>3. ContextInv => NeverCrashes BY DEF ContextInv
<1> QED BY InitIInv, NextIInv, <1>1, <1>2, <1>3, PTL DEF Spec

-----------------------------------------------------------------------------
(* What a step may do to the table.                                        *)

LEMMA StepLifeCycle ==
  ASSUME IInv, [Next]_vars, NEW q \in Pid, state'[q] # state[q]
  PROVE  <<state[q], state'[q]>> \in
           {<<"FREE", "RUNNABLE">>, <<"RUNNABLE", "WAITING">>, <<"WAITING", "RUNNABLE">>,
            <<"RUNNABLE", "ZOMBIE">>, <<"ZOMBIE", "FREE">>, <<"ZOMBIE", "RUNNABLE">>}
<1> USE DEF IInv, TypeOK, Slot, First, InState
<1>1. CASE BootShell BY <1>1 DEF BootShell, Load
<1>2. CASE BootFails BY <1>2 DEF BootFails, table
<1>3. CASE Launch BY <1>3 DEF Launch, LaunchPid, LaunchProc, LaunchJump, table
<1>4. CASE TickInLaunch BY <1>4 DEF TickInLaunch, table
<1>5. ASSUME NEW p \in Pid, Program(p)
      PROVE  <<state[q], state'[q]>> \in
           {<<"FREE", "RUNNABLE">>, <<"RUNNABLE", "WAITING">>, <<"WAITING", "RUNNABLE">>,
            <<"RUNNABLE", "ZOMBIE">>, <<"ZOMBIE", "FREE">>, <<"ZOMBIE", "RUNNABLE">>}
  <2>1. state[p] \in {"RUNNABLE", "WAITING"} BY <1>5 DEF Program, RunningIsCurrent
  <2>2. CASE SyscallWait(p)
    BY <2>1, <2>2 DEF SyscallWait, Reaps, Alone, Suspends, ZombieSons
  <2>3. CASE SyscallExit(p)
    BY <2>1, <2>3, SuspendedOnlyWaits DEF SyscallExit, SysExit, SysWait
  <2>4. CASE Exec(p) BY <2>4 DEF Exec, Load
  <2>5. CASE ExecOther(p) BY <2>5 DEF ExecOther
  <2> QED BY <1>5, <2>2, <2>3, <2>4, <2>5
      DEF Program, CallWait, WaitStore, WaitTest, SyscallOther, ExecFails, table
<1>6. ASSUME NEW p \in Pid, TimerTick(p) PROVE FALSE BY <1>6 DEF TimerTick, Tick, table
<1>7. ASSUME NEW c \in Pid, Visit(c)
      PROVE  <<state[q], state'[q]>> \in
           {<<"FREE", "RUNNABLE">>, <<"RUNNABLE", "WAITING">>, <<"WAITING", "RUNNABLE">>,
            <<"RUNNABLE", "ZOMBIE">>, <<"ZOMBIE", "FREE">>, <<"ZOMBIE", "RUNNABLE">>}
  BY <1>7 DEF Visit, VisitFree, VisitZombie, VisitWaiting, VisitRunnable, Visits, table,
     Reaps, Alone, Suspends, ZombieSons
<1> QED BY <1>1, <1>2, <1>3, <1>4, <1>5, <1>6, <1>7 DEF Next, vars, table

\* The state of a process changes along its life only (process.cpp, syscall.cpp).
THEOREM Life_Cycle == Spec => LifeCycle
<1>1. IInv /\ [Next]_vars =>
        [\A p \in Pid : state'[p] # state[p] =>
           <<state[p], state'[p]>> \in
             {<<"FREE", "RUNNABLE">>, <<"RUNNABLE", "WAITING">>, <<"WAITING", "RUNNABLE">>,
              <<"RUNNABLE", "ZOMBIE">>, <<"ZOMBIE", "FREE">>, <<"ZOMBIE", "RUNNABLE">>}]_vars
  BY StepLifeCycle
<1> QED BY InitIInv, NextIInv, <1>1, PTL DEF Spec, LifeCycle

\* Only a step of wait, of the scheduler over a zombie, or of exec on a full table ends
\* a zombie.
LEMMA StepZombie ==
  ASSUME IInv, [Next]_vars, NEW z \in Pid, state[z] = "ZOMBIE", state'[z] # "ZOMBIE"
  PROVE  \/ ppid'[z] = None
         \/ \E f \in Pid : f = ppid[z] /\ z \in reaped'[f] /\ state'[f] = "RUNNABLE"
         \/ InState("FREE") = {}
<1> DEFINE Kept == \/ ppid'[z] = None
                   \/ \E f \in Pid : f = ppid[z] /\ z \in reaped'[f] /\ state'[f] = "RUNNABLE"
                   \/ InState("FREE") = {}
<1> USE DEF IInv, TypeOK, Slot, First, InState
<1>1. CASE BootShell BY <1>1 DEF BootShell, Load
<1>2. CASE BootFails \/ Launch \/ TickInLaunch
  BY <1>2 DEF BootFails, Launch, LaunchPid, LaunchProc, LaunchJump, TickInLaunch, table
<1>3. ASSUME NEW p \in Pid, p # z, NEW i \in Pid, Reaps(p, i),
             reaped' = [reaped EXCEPT ![p] = @ \cup {i}]
      PROVE  Kept
  BY <1>3 DEF Reaps, ZombieSons
<1>4. ASSUME NEW p \in Pid, Program(p) PROVE Kept
  <2>1. state[p] \in {"RUNNABLE", "WAITING"} BY <1>4 DEF Program, RunningIsCurrent
  <2>2. CASE SyscallWait(p)
    BY <2>1, <2>2, <1>3 DEF SyscallWait, Alone, Suspends
  <2>3. CASE SyscallExit(p) BY <2>1, <2>3 DEF SyscallExit
  <2>4. CASE Exec(p) BY <2>4 DEF Exec, Load
  <2>5. CASE ExecOther(p) BY <2>5 DEF ExecOther
  <2> QED BY <1>4, <2>2, <2>3, <2>4, <2>5
      DEF Program, CallWait, WaitStore, WaitTest, SyscallOther, ExecFails, table
<1>5. ASSUME NEW c \in Pid, Visit(c) PROVE Kept
  <2>1. CASE VisitWaiting(c)
    BY <2>1, <1>3 DEF VisitWaiting, Visits, Alone, Suspends
  <2>2. CASE VisitZombie(c) BY <2>2 DEF VisitZombie, Visits
  <2> QED BY <1>5, <2>1, <2>2 DEF Visit, VisitFree, VisitRunnable, table
<1>6. CASE UNCHANGED vars \/ \E p \in Pid : TimerTick(p)
  BY <1>6 DEF vars, table, TimerTick, Tick
<1> QED BY <1>1, <1>2, <1>4, <1>5, <1>6 DEF Next

\* A zombie keeps its slot and its status until its own father collects it in wait, it
\* has no father left, or exec finds no free slot (process.cpp, syscall.cpp).
THEOREM Zombie_Kept == Spec => ZombieKept
<1>1. IInv /\ [Next]_vars =>
        [\A z \in InState("ZOMBIE") : state'[z] # "ZOMBIE" =>
           \/ ppid'[z] = None
           \/ \E f \in Pid : f = ppid[z] /\ z \in reaped'[f] /\ state'[f] = "RUNNABLE"
           \/ InState("FREE") = {}]_vars
  BY StepZombie DEF InState
<1> QED BY InitIInv, NextIInv, <1>1, PTL DEF Spec, ZombieKept
=============================================================================
