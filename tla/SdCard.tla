------------------------------- MODULE SdCard -------------------------------
(***************************************************************************)
(* sdcard.c: the interrupt of the detect pin starts a debounce timer, the  *)
(* timer starts a thread that mounts or unmounts the card, by the pin and  *)
(* by the flag sdcard_mounted.  app_sdcard_init does the same once in its  *)
(* own thread.  Each change gets a thread of its own, so two may overlap.  *)
(***************************************************************************)
EXTENDS Naturals

CONSTANTS
    Mounters,     \* the threads that may run sdcard_mount at the same time
    InitThread,   \* the one of them that runs app_sdcard_init
    MaxEdges      \* bound on the edges of the detect pin

ASSUME MountersAssumption == InitThread \in Mounters
ASSUME EdgesAssumption == MaxEdges \in Nat

VARIABLES
    card,               \* SD_DETECT_PIN is low: a card is in the slot
    edges,              \* how often it has changed
    sdcard_change_tim,  \* the debounce timer runs
    in_timer,           \* its callback is between rt_thread_startup and rt_timer_stop
    job,                \* where each thread is in sdcard_mount
    sdcard_mounted,
    sd_on,              \* SD_ON_PIN: the card has power
    sd_fs,              \* the file system is mounted
    sd_failed,          \* a mount failed with a card in the slot, or no thread (history)
    unmount_failed,     \* dfs_unmount failed (history)
    overlapped,         \* two threads were in sdcard_mount at once (history)
    clashed             \* another one was mounting or unmounting during an unmount (history)

pinVars == <<card, edges>>
timerVars == <<sdcard_change_tim, in_timer>>
mountVars == <<sdcard_mounted, sd_on, sd_fs>>
histVars == <<sd_failed, unmount_failed, overlapped, clashed>>
sdVars == <<pinVars, timerVars, mountVars, job, histVars>>

\* app_sdcard_init has enabled the interrupt and calls sdcard_mount.
SdInit == /\ card \in BOOLEAN /\ edges = 0
          /\ sdcard_change_tim = FALSE /\ in_timer = FALSE
          /\ job = [m \in Mounters |-> IF m = InitThread THEN "detect" ELSE "none"]
          /\ sdcard_mounted = FALSE /\ sd_on = FALSE /\ sd_fs = FALSE
          /\ sd_failed = FALSE /\ unmount_failed = FALSE
          /\ overlapped = FALSE /\ clashed = FALSE
-----------------------------------------------------------------------------
\* The card is put in or taken out, or its contacts bounce: sdcard_change_handler
\* starts the timer, from the beginning if it runs.
Edge == /\ edges < MaxEdges
        /\ edges' = edges + 1
        /\ card' = ~card
        /\ sdcard_change_tim' = TRUE
        /\ UNCHANGED <<in_timer, mountVars, job, histVars>>

\* sdcard_change_thread, in the timer thread: a one-shot timer that has expired does
\* not run.  Without memory there is no thread, and nothing is mounted or unmounted.
TimerExpires ==
    /\ sdcard_change_tim /\ ~in_timer
    /\ sdcard_change_tim' = FALSE
    /\ in_timer' = TRUE
    /\ \/ \E m \in Mounters : /\ job[m] = "none"
                              /\ job' = [job EXCEPT ![m] = "detect"]
                              /\ overlapped' = (overlapped \/ \E o \in Mounters : job[o] # "none")
                              /\ UNCHANGED sd_failed
       \/ sd_failed' = TRUE /\ UNCHANGED <<job, overlapped>>
    /\ UNCHANGED <<pinVars, mountVars, unmount_failed, clashed>>

\* rt_timer_stop also stops the timer that an edge has started meanwhile.
TimerStop == /\ in_timer
             /\ in_timer' = FALSE
             /\ sdcard_change_tim' = FALSE
             /\ UNCHANGED <<pinVars, mountVars, job, histVars>>
-----------------------------------------------------------------------------
\* sdcard_mount.  The timer thread has the higher priority (4, mounters 5), and does
\* not wait between the two calls of its callback: no mounter runs in between.

\* Mutant of SdGoto: mounters of a priority above that of the timer thread.
SdGotoAnyTime(m, from, to) == /\ job[m] = from
                              /\ job' = [job EXCEPT ![m] = to]

SdGoto(m, from, to) == /\ ~in_timer
                       /\ job[m] = from
                       /\ job' = [job EXCEPT ![m] = to]

\* Where a thread is that mounts, and one that unmounts.
Mounting == {"power_on", "init", "mount", "set"}
Unmounting == {"unmount", "power_off"}

Detect(m) == /\ SdGoto(m, "detect", IF card /\ ~sdcard_mounted THEN "power_on"
                                    ELSE IF ~card /\ sdcard_mounted THEN "unmount"
                                    ELSE "none")
             /\ clashed' = (clashed \/ \E n \in Mounters : \E o \in Mounters \ {n} :
                                  job'[n] \in Unmounting /\ job'[o] \in Unmounting \cup Mounting)
             /\ UNCHANGED <<pinVars, timerVars, mountVars, sd_failed, unmount_failed, overlapped>>

PowerOn(m) == /\ SdGoto(m, "power_on", "init")
              /\ sd_on' = TRUE
              /\ UNCHANGED <<pinVars, timerVars, sdcard_mounted, sd_fs, histVars>>

\* rt_hw_spi_device_attach, msd_init or dfs_mount fails: the thread returns and leaves
\* the power on.  Any of them may fail; without a card msd_init and dfs_mount do.
MountFails(m) == /\ SdGoto(m, "init", "none") \/ SdGoto(m, "mount", "none")
                 /\ sd_failed' = (sd_failed \/ card)
                 /\ UNCHANGED <<pinVars, timerVars, mountVars, unmount_failed, overlapped, clashed>>

InitCard(m) == /\ SdGoto(m, "init", "mount")
               /\ card /\ sd_on
               /\ UNCHANGED <<pinVars, timerVars, mountVars, histVars>>

DfsMount(m) == /\ SdGoto(m, "mount", "set")
               /\ card /\ sd_on /\ ~sd_fs
               /\ sd_fs' = TRUE
               /\ UNCHANGED <<pinVars, timerVars, sdcard_mounted, sd_on, histVars>>

SetMounted(m) == /\ SdGoto(m, "set", "none")
                 /\ sdcard_mounted' = TRUE
                 /\ UNCHANGED <<pinVars, timerVars, sd_on, sd_fs, histVars>>

Mount(m) == PowerOn(m) \/ InitCard(m) \/ DfsMount(m) \/ SetMounted(m) \/ MountFails(m)

\* dfs_unmount may fail, and leaves the file system mounted then.
DfsUnmount == \/ sd_fs' = FALSE /\ UNCHANGED unmount_failed
              \/ sd_fs /\ UNCHANGED sd_fs /\ unmount_failed' = TRUE

\* Mutant of Unmount: the power goes before the file system.
UnmountLate(m) == \/ /\ SdGoto(m, "unmount", "power_off")
                     /\ sd_on' = FALSE
                     /\ UNCHANGED <<pinVars, timerVars, sdcard_mounted, sd_fs, histVars>>
                  \/ /\ SdGoto(m, "power_off", "none")
                     /\ DfsUnmount
                     /\ sdcard_mounted' = FALSE
                     /\ UNCHANGED <<pinVars, timerVars, sd_on, sd_failed, overlapped, clashed>>

\* dfs_unmount, and after a delay the power and the flag, whatever its result.
Unmount(m) == \/ /\ SdGoto(m, "unmount", "power_off")
                 /\ DfsUnmount
                 /\ UNCHANGED <<pinVars, timerVars, sdcard_mounted, sd_on,
                                sd_failed, overlapped, clashed>>
              \/ /\ SdGoto(m, "power_off", "none")
                 /\ sd_on' = FALSE /\ sdcard_mounted' = FALSE
                 /\ UNCHANGED <<pinVars, timerVars, sd_fs, histVars>>

Mounter(m) == Detect(m) \/ Mount(m) \/ Unmount(m)

SdNext == Edge \/ TimerExpires \/ TimerStop \/ \E m \in Mounters : Mounter(m)

SdSpec == SdInit /\ [][SdNext]_sdVars
-----------------------------------------------------------------------------
SdTypeOK == /\ {card, sdcard_change_tim, in_timer, sdcard_mounted, sd_on, sd_fs,
                sd_failed, unmount_failed, overlapped, clashed} \subseteq BOOLEAN
            /\ edges \in 0..MaxEdges
            /\ job \in [Mounters -> {"none", "detect"} \cup Mounting \cup Unmounting]

\* As long as no other thread is at work during an unmount, and however many mount at
\* once: the user interface is told of a card only while the slot has power and until its
\* file system goes, and the file system has power until a dfs_unmount fails, whose result
\* is not looked at.  After that it stays mounted without power, and the user interface is
\* told of no card again, since dfs_mount fails on a path that is taken.
MountedHasPower ==
    ~clashed => /\ sdcard_mounted => sd_on /\ (sd_fs \/ \E m \in Mounters : job[m] = "power_off")
                /\ sd_fs => sd_on \/ unmount_failed
                /\ unmount_failed => /\ sd_fs
                                     /\ sdcard_mounted => \E m \in Mounters : job[m] = "power_off"

\* In the end sdcard_mounted says whether a card is in the slot, although an edge may
\* come between any two steps and rt_timer_stop may cancel the timer it started,
\* unless a mount failed or two threads overlapped.
MountedFollowsCard ==
    \A present \in BOOLEAN :
        card = present ~> \/ sdcard_mounted = present \/ card # present
                          \/ sd_failed \/ overlapped
=============================================================================
