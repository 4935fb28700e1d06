--------------------------- MODULE MemoryWatermark ---------------------------
(***************************************************************************)
(* The host's memory monitor (server.rs: memory_watermark and              *)
(* tune_smr_parameters).  Once a second a thread reads the available       *)
(* memory, classifies it against two watermarks, keeps the previous level  *)
(* when the pressure has dropped by less than a gap, and sets how many     *)
(* workers an app may have.                                                *)
(***************************************************************************)
EXTENDS Naturals

CONSTANTS
    CriticalWm,  \* --mem-critical-watermark-kb
    HighWm,      \* --mem-high-watermark-kb
    MinGap,      \* MIN_GAP_KB
    MaxMem,      \* bound on the readings
    Unset

ASSUME WatermarkAssumption ==
    CriticalWm \in Nat /\ HighWm \in Nat /\ MinGap \in Nat /\ MaxMem \in Nat

ASSUME UnsetAssumption == Unset \notin {"Normal", "High", "Critical", 1, 4}

VARIABLES
    last,        \* last_wm: Unset before the first reading
    avail,       \* the reading it was set by
    maxWorkers   \* smr::config::MAX_WORKERS_PER_APP; Unset is smr's default

monitorVars == <<last, avail, maxWorkers>>

Levels == {"Normal", "High", "Critical"}

\* The derived order of enum MemoryWatermark
Rank(wm) == CASE wm = "Normal" -> 0 [] wm = "High" -> 1 [] wm = "Critical" -> 2

MonitorTypeOK ==
    /\ last \in Levels \cup {Unset}
    /\ avail \in 0..MaxMem
    /\ maxWorkers \in {1, 4, Unset}
    /\ last = Unset <=> maxWorkers = Unset

MonitorInit == last = Unset /\ avail = 0 /\ maxWorkers = Unset

\* cg_limit.saturating_sub(cg_usage)
Monus(a, b) == IF a > b THEN a - b ELSE 0

\* sys_avail_mem.min(cg_avail_mem); without a readable cgroup the system's
Available(sys, cg) ==
    IF cg = Unset THEN sys
    ELSE LET free == Monus(cg.limit, cg.usage) IN IF free < sys THEN free ELSE sys

\* The level of a reading
Level(mem) ==
    CASE mem < CriticalWm -> "Critical"
      [] mem >= CriticalWm /\ mem < HighWm -> "High"
      [] OTHER -> "Normal"

\* faulty variant: the gap is measured from zero at every level
Gap_FromZero(mem) == mem

\* How far a reading is above the lower end of its level
Gap(mem) ==
    CASE Level(mem) = "Critical" -> mem
      [] Level(mem) = "High"     -> mem - CriticalWm
      [] Level(mem) = "Normal"   -> mem - HighWm

\* "We are lowering the watermark - let's stablize it."
Stabilize(wm, mem) ==
    IF last # Unset /\ Rank(last) > Rank(wm) /\ Gap(mem) < MinGap THEN last ELSE wm

\* tune_smr_parameters
WorkersPerApp(wm) == IF wm = "Critical" THEN 1 ELSE 4

\* One round of the monitor thread
Tick(mem) ==
    LET wm == Stabilize(Level(mem), mem)
    IN  /\ last' = wm
        /\ maxWorkers' = WorkersPerApp(wm)
        /\ avail' = mem

\* The readings a machine can give: of the system, and of a cgroup or none
Readings ==
    {Available(sys, cg) : sys \in 0..MaxMem,
                          cg \in [limit : {MaxMem}, usage : 0..(MaxMem + 1)] \cup {Unset}}

MonitorNext == \E mem \in Readings : Tick(mem)

MonitorSpec == MonitorInit /\ [][MonitorNext]_monitorVars

-----------------------------------------------------------------------------
(* Properties.                                                             *)

\* Hysteresis: apps get their workers back only at a reading that is at least
\* the gap above the critical watermark, so that the limit does not flap.
NoFlapping ==
    [][maxWorkers = 1 /\ maxWorkers' = 4 => avail' >= CriticalWm + MinGap]_monitorVars

=============================================================================
