------------------------------ MODULE GpuQueue ------------------------------
(***************************************************************************)
(* The GPU queue: agents have no GPU in their sandbox, so submit_gpu.py    *)
(* leaves a job in pending/ and polls done/, and gpu_manager.py, which a   *)
(* person starts in a terminal and stops with Ctrl-C, runs the jobs.       *)
(*                                                                         *)
(* A job is named by the time it was stamped with, so the sorted listing   *)
(* of pending/ is the order of the numbers here.  A job's command runs as  *)
(* a process group of its own: the shell the manager waits for, and what   *)
(* the shell started (here its tail), which may outlive the shell when the *)
(* group is only asked to terminate.                                       *)
(***************************************************************************)
EXTENDS Naturals, FiniteSets, FiniteSetsExt

CONSTANTS
    GpuJobs,        \* the jobs, by their stamps
    Unrunnable,     \* jobs whose file or whose cwd makes run_job raise
    MaxManagerDeaths

ASSUME GpuAssumption == GpuJobs \subseteq Nat \ {0} /\ MaxManagerDeaths \in Nat

VARIABLES
    gpuPending, gpuRunning,     \* the files in pending/ and in running/
    gpuDone,                    \* done/: the run whose result is published
    manager,    \* the daemon: what it is doing, with which job
    gpuRuns,    \* how often each job was started
    shells,     \* <<job, run>> whose shell is alive
    tails,      \* <<job, run>> that has another live process
    submits,    \* each submit() call
    answers,    \* the run whose result submit() returned, 0 before
    managerDeaths

gpuVars == <<gpuPending, gpuRunning, gpuDone, manager, gpuRuns, shells, tails,
             submits, answers, managerDeaths>>

Phases == {"down", "idle", "claimed", "waiting", "over", "published"}
RunNos == 0 .. MaxManagerDeaths + 1

GpuTypeOK ==
    /\ gpuPending \subseteq GpuJobs /\ gpuRunning \subseteq GpuJobs
    /\ gpuDone \in [GpuJobs -> RunNos] /\ answers \in [GpuJobs -> RunNos]
    /\ manager \in [phase : Phases, job : GpuJobs \cup {0}]
    /\ gpuRuns \in [GpuJobs -> RunNos]
    /\ shells \subseteq GpuJobs \X RunNos /\ tails \subseteq GpuJobs \X RunNos
    /\ submits \in [GpuJobs -> {"not_yet", "polling", "answered", "gave_up"}]
    /\ managerDeaths \in 0 .. MaxManagerDeaths

GpuInit ==
    /\ gpuPending = {} /\ gpuRunning = {}
    /\ gpuDone = [j \in GpuJobs |-> 0]
    /\ manager = [phase |-> "down", job |-> 0]
    /\ gpuRuns = [j \in GpuJobs |-> 0]
    /\ shells = {} /\ tails = {}
    /\ submits = [j \in GpuJobs |-> "not_yet"]
    /\ answers = [j \in GpuJobs |-> 0]
    /\ managerDeaths = 0

Manager(from, to, j) ==
    /\ manager.phase = from
    /\ manager' = [phase |-> to, job |-> j]

\* The run of j that was started last.
Latest(j) == <<j, gpuRuns[j]>>

queueFiles == <<gpuPending, gpuRunning, gpuDone>>
processes  == <<gpuRuns, shells, tails>>
submitters == <<submits, answers>>

-----------------------------------------------------------------------------
(* submit_gpu.py.                                                          *)

\* Written beside its place and renamed into it.
SubmitGpu(j) ==
    /\ submits[j] = "not_yet"
    /\ submits' = [submits EXCEPT ![j] = "polling"]
    /\ gpuPending' = gpuPending \cup {j}
    /\ UNCHANGED <<gpuRunning, gpuDone, manager, processes, answers, managerDeaths>>

Answer(j) ==
    /\ submits[j] = "polling" /\ gpuDone[j] # 0
    /\ submits' = [submits EXCEPT ![j] = "answered"]
    /\ answers' = [answers EXCEPT ![j] = gpuDone[j]]
    /\ UNCHANGED <<queueFiles, manager, processes, managerDeaths>>

\* timeout + 600 s without a result: the job itself is not withdrawn.
GiveUp(j) ==
    /\ submits[j] = "polling" /\ gpuDone[j] = 0
    /\ submits' = [submits EXCEPT ![j] = "gave_up"]
    /\ UNCHANGED <<queueFiles, manager, processes, answers, managerDeaths>>

-----------------------------------------------------------------------------
(* gpu_manager.py.                                                         *)

\* main(): what an earlier manager left in running/ goes back to pending/.
ManagerStart ==
    /\ Manager("down", "idle", 0)
    /\ gpuPending' = gpuPending \cup gpuRunning
    /\ gpuRunning' = {}
    /\ UNCHANGED <<gpuDone, processes, submitters, managerDeaths>>

\* claim() of the first file of the sorted listing.
Claim ==
    /\ gpuPending # {}
    /\ LET j == Min(gpuPending)
       IN /\ Manager("idle", "claimed", j)
          /\ gpuPending' = gpuPending \ {j}
          /\ gpuRunning' = gpuRunning \cup {j}
    /\ UNCHANGED <<gpuDone, processes, submitters, managerDeaths>>

\* run_job up to Popen.  The command may be one that the shell becomes, or one
\* with a process of its own beside the shell's.
Launch(j) ==
    /\ j \notin Unrunnable
    /\ manager.job = j /\ Manager("claimed", "waiting", j)
    /\ gpuRuns' = [gpuRuns EXCEPT ![j] = @ + 1]
    /\ shells' = shells \cup {Latest(j)'}
    /\ tails' \in {tails, tails \cup {Latest(j)'}}
    /\ UNCHANGED <<queueFiles, submitters, managerDeaths>>

PutBack(j) ==                                                    \* mutant
    /\ j \in Unrunnable
    /\ manager.job = j /\ Manager("claimed", "idle", 0)
    /\ gpuPending' = gpuPending \cup {j} /\ gpuRunning' = gpuRunning \ {j}
    /\ UNCHANGED <<gpuDone, processes, submitters, managerDeaths>>

\* run_job raises: the loop goes on and the file stays in running/.
Quarantine(j) ==
    /\ j \in Unrunnable
    /\ manager.job = j /\ Manager("claimed", "idle", 0)
    /\ UNCHANGED <<queueFiles, processes, submitters, managerDeaths>>

\* The processes of a command end by themselves, in either order.
Exit ==
    /\ \/ \E p \in shells : shells' = shells \ {p} /\ UNCHANGED tails
       \/ \E p \in tails : tails' = tails \ {p} /\ UNCHANGED shells
    /\ UNCHANGED <<queueFiles, manager, gpuRuns, submitters, managerDeaths>>

WaitedUnlinked(j) ==                                             \* mutant
    /\ manager.job = j /\ Latest(j) \notin shells /\ Manager("waiting", "over", j)
    /\ gpuRunning' = gpuRunning \ {j}
    /\ UNCHANGED <<gpuPending, gpuDone, processes, submitters, managerDeaths>>

\* proc.wait returns: the shell is what it waits for.
Waited(j) ==
    /\ manager.job = j /\ Latest(j) \notin shells /\ Manager("waiting", "over", j)
    /\ UNCHANGED <<queueFiles, processes, submitters, managerDeaths>>

\* SIGTERM to the group, and SIGKILL only when the shell is still there ten
\* seconds later: a tail that handles SIGTERM survives a shell that does not.
KillGroup(p) ==
    /\ shells' = shells \ {p}
    /\ tails' \in {tails, tails \ {p}}

TimeOut(j) ==
    /\ manager.job = j /\ Latest(j) \in shells /\ Manager("waiting", "over", j)
    /\ KillGroup(Latest(j))
    /\ UNCHANGED <<queueFiles, gpuRuns, submitters, managerDeaths>>

Publish(j) ==
    /\ manager.job = j /\ Manager("over", "published", j)
    /\ gpuDone' = [gpuDone EXCEPT ![j] = gpuRuns[j]]
    /\ UNCHANGED <<gpuPending, gpuRunning, processes, submitters, managerDeaths>>

Unlink(j) ==
    /\ manager.job = j /\ Manager("published", "idle", 0)
    /\ gpuRunning' = gpuRunning \ {j}
    /\ UNCHANGED <<gpuPending, gpuDone, processes, submitters, managerDeaths>>

\* Ctrl-C or a kill at any point.  The job is in a session of its own, so it
\* does not get the terminal's signal.
ManagerDies ==
    /\ manager.phase # "down" /\ managerDeaths < MaxManagerDeaths
    /\ manager' = [phase |-> "down", job |-> 0]
    /\ managerDeaths' = managerDeaths + 1
    /\ UNCHANGED <<queueFiles, processes, submitters>>

ManagerStep ==
    \/ Claim
    \/ \E j \in GpuJobs : \/ Launch(j) \/ Quarantine(j) \/ Waited(j)
                          \/ Publish(j) \/ Unlink(j)

GpuNext ==
    \/ \E j \in GpuJobs : SubmitGpu(j) \/ Answer(j) \/ GiveUp(j) \/ TimeOut(j)
    \/ ManagerStart \/ ManagerStep \/ ManagerDies \/ Exit

\* The manager's loop goes on by itself, and every command ends or is timed out.
GpuSpec ==
    /\ GpuInit /\ [][GpuNext]_gpuVars
    /\ WF_gpuVars(ManagerStep) /\ WF_gpuVars(Exit)

-----------------------------------------------------------------------------
(* Properties.                                                             *)

\* A job that was submitted is in one of the three directories, whenever the
\* manager is killed: claim moves it, and its file goes only after its result
\* is in done/.
GpuJobKept ==
    \A j \in GpuJobs :
        submits[j] # "not_yet" => j \in gpuPending \cup gpuRunning \/ gpuDone[j] # 0

\* A job that a running manager could run gets its result, or the manager is
\* killed: not even one that run_job cannot digest holds up the queue.
GpuServed ==
    \A j \in GpuJobs \ Unrunnable :
        (j \in gpuPending /\ manager.phase # "down")
            ~> (gpuDone[j] # 0 \/ manager.phase = "down")

=============================================================================
