------------------------------ MODULE Recovery ------------------------------
(***************************************************************************)
(* The runtime (runtime.cpp) and its files (persistence.cpp): the boot     *)
(* marker, the live snapshot, its backup and the temporary file.  A        *)
(* process is one run of the daemon or one command of drainctl.  Every     *)
(* file operation that a kill can leave half done is a step of its own;    *)
(* reads change nothing and are part of the step that uses them.  The      *)
(* engine is its authority line and the content a snapshot carries: 0 is   *)
(* the empty engine, and every change of the engine is a content not seen  *)
(* before.                                                                 *)
(***************************************************************************)
EXTENDS Naturals, FiniteSets

CONSTANTS None, Torn,      \* a file that is missing; one its reader rejects
          BootIds,         \* values of the option boot_id
          MaxLine, MaxContents   \* bounds on both parts of a line, and on changes

Line == [incarnation : Nat, epoch : Nat]
Engine == [incarnation : Nat, epoch : Nat, content : Nat]
Snapshot == [header : Nat, incarnation : Nat, epoch : Nat, content : Nat]

ASSUME RecoveryAssumption ==
  /\ BootIds \subseteq Nat
  /\ MaxLine \in Nat
  /\ MaxContents \in Nat
  /\ None # Torn
  /\ {None, Torn} \cap (Line \cup Snapshot) = {}

VARIABLES pc, ending,      \* where the process is; whether it ends when save returns
          line,            \* the line start() chose: boot_id_ and the new epoch
          engine,
          marker, live, backup, temporary,
          contents,        \* history: contents produced so far
          durable,         \* history: the content of the last save that succeeded
          installed,       \* history: the highest line a start has recorded
          faults           \* history: what went wrong outside the program

diskVars == <<marker, live, backup, temporary>>
historyVars == <<contents, durable, installed, faults>>
recoveryVars == <<pc, ending, line, engine, diskVars, historyVars>>

Phases == {"down", "marking", "up", "writing", "written", "rotating", "rotated",
           "replacing", "resetting", "clearing"}

Faults == {"marker", "io", "rename", "damage", "foreign"}

NoLine == [incarnation |-> 0, epoch |-> 0]
EmptyEngine == [incarnation |-> 0, epoch |-> 1, content |-> 0]

RecoveryTypeOK ==
  /\ pc \in Phases
  /\ ending \in BOOLEAN
  /\ line \in Line
  /\ engine \in Engine
  /\ marker \in Line \cup {None, Torn}
  /\ {live, backup, temporary} \subseteq Snapshot \cup {None, Torn}
  /\ contents \in Nat
  /\ durable \in Nat
  /\ installed \in Line
  /\ faults \subseteq Faults

RecoveryInit ==
  /\ pc = "down"
  /\ ending = FALSE
  /\ line = NoLine
  /\ engine = EmptyEngine
  /\ marker = None
  /\ live = None
  /\ backup = None
  /\ temporary = None
  /\ contents = 0
  /\ durable = 0
  /\ installed = NoLine
  /\ faults = {}

Larger(a, b) == IF a >= b THEN a ELSE b

\* Persistence::load: the live file or, when it is rejected, the backup.
load == IF live # Torn THEN live ELSE backup

\* Runtime::peek_boot_record: a missing marker reads as zeros.
peek_boot_record == IF marker = None THEN NoLine ELSE marker

\* DrainEngine::restore accepts a payload that names the header's incarnation.
Restorable(f) == f \notin {None, Torn} /\ f.header = f.incarnation

Loads(load_on_start) == load_on_start /\ live # None

CanStart(load_on_start) == marker # Torn /\ (Loads(load_on_start) => Restorable(load))

Restored(load_on_start) ==
  IF Loads(load_on_start)
  THEN [incarnation |-> load.incarnation, epoch |-> load.epoch, content |-> load.content]
  ELSE EmptyEngine

\* Slip: a start that recovers a snapshot trusts it and leaves the marker out.
NextLineOfSnapshot(load_on_start, boot_id) ==
  LET seen == IF Loads(load_on_start) THEN load ELSE peek_boot_record
  IN  [incarnation |-> Larger(seen.incarnation, boot_id) + 1, epoch |-> seen.epoch + 1]

NextLine(load_on_start, boot_id) ==
  LET seen == Larger(boot_id, peek_boot_record.incarnation) IN
  [incarnation |->
     (IF Loads(load_on_start) THEN Larger(seen, load.header) ELSE seen) + 1,
   epoch |->
     (IF Loads(load_on_start) THEN Larger(peek_boot_record.epoch, load.epoch)
      ELSE peek_boot_record.epoch) + 1]

\* start(): read the marker and the snapshot, choose the line, truncate the marker.
start(load_on_start, boot_id) ==
  /\ pc = "down"
  /\ CanStart(load_on_start)
  /\ line' = NextLine(load_on_start, boot_id)
  /\ line'.incarnation <= MaxLine /\ line'.epoch <= MaxLine
  /\ pc' = "marking"
  /\ engine' = Restored(load_on_start)
  /\ marker' = Torn
  /\ UNCHANGED <<ending, live, backup, temporary, historyVars>>

\* write_boot_marker returns; install_authority_line follows in memory.
install ==
  /\ pc = "marking"
  /\ engine.incarnation # 0 => line.incarnation > engine.incarnation
  /\ line.epoch >= engine.epoch
  /\ pc' = "up"
  /\ marker' = line
  /\ engine' = [engine EXCEPT !.incarnation = line.incarnation, !.epoch = line.epoch]
  /\ installed' = line
  /\ UNCHANGED <<ending, line, live, backup, temporary, contents, durable, faults>>

\* Any engine operation that changes what a snapshot would carry.
operate ==
  /\ pc = "up"
  /\ contents < MaxContents
  /\ contents' = contents + 1
  /\ engine' = [engine EXCEPT !.content = contents']
  /\ UNCHANGED <<pc, ending, line, diskVars, durable, installed, faults>>

\* DrainEngine::install_incarnation (no epoch) and begin_new_epoch (one): the engine's line
\* moves, the runtime's does not.  Once.
move_line(epochs) ==
  /\ pc = "up"
  /\ "foreign" \notin faults
  /\ engine.incarnation < MaxLine /\ engine.epoch + epochs <= MaxLine
  /\ engine' = [engine EXCEPT !.incarnation = @ + 1, !.epoch = @ + epochs]
  /\ faults' = faults \cup {"foreign"}
  /\ UNCHANGED <<pc, ending, line, diskVars, contents, durable, installed>>

Written ==
  [header |-> line.incarnation, incarnation |-> engine.incarnation,
   epoch |-> engine.epoch, content |-> engine.content]

\* Slip: the snapshot is written over the live file.
SaveInPlace ==
  /\ pc = "up"
  /\ pc' = "writing"
  /\ live' = Torn
  /\ UNCHANGED <<ending, line, engine, marker, temporary, backup, historyVars>>

\* Persistence::save, to the opening of the temporary file.
save ==
  /\ pc = "up"
  /\ pc' = "writing"
  /\ temporary' = Torn
  /\ UNCHANGED <<ending, line, engine, marker, live, backup, historyVars>>

\* Runtime::stop revokes the tokens, saves, and the process ends.
stop ==
  /\ pc = "up"
  /\ contents < MaxContents
  /\ contents' = contents + 1
  /\ engine' = [engine EXCEPT !.content = contents']
  /\ ending' = TRUE
  /\ pc' = "writing"
  /\ temporary' = Torn
  /\ UNCHANGED <<line, marker, live, backup, durable, installed, faults>>

\* What is left of a process that returns from save, stop or reset_state.
Return ==
  /\ pc' = IF ending THEN "down" ELSE "up"
  /\ ending' = FALSE
  /\ line' = IF ending THEN NoLine ELSE line
  /\ engine' = IF ending THEN EmptyEngine ELSE engine

\* write_whole_file returns: the temporary file is complete and flushed.
write_whole_file ==
  /\ pc = "writing"
  /\ pc' = IF live = None THEN "rotated" ELSE "written"
  /\ temporary' = Written
  /\ UNCHANGED <<ending, line, engine, marker, live, backup, historyVars>>

\* The old backup is removed and the copy of the live file begins ...
remove_backup ==
  /\ pc = "written"
  /\ pc' = "rotating"
  /\ backup' = Torn
  /\ UNCHANGED <<ending, line, engine, marker, live, temporary, historyVars>>

\* Slip: the live file is moved to the backup, not copied.
MoveFile ==
  /\ pc = "rotating"
  /\ pc' = "rotated"
  /\ backup' = live
  /\ live' = None
  /\ UNCHANGED <<ending, line, engine, marker, temporary, historyVars>>

\* ... and is complete.
copy_file ==
  /\ pc = "rotating"
  /\ pc' = "rotated"
  /\ backup' = live
  /\ UNCHANGED <<ending, line, engine, marker, live, temporary, historyVars>>

Saved ==
  /\ live' = temporary
  /\ temporary' = None
  /\ durable' = engine.content
  /\ Return
  /\ UNCHANGED <<marker, backup, contents, installed>>

rename == pc = "rotated" /\ Saved /\ UNCHANGED faults

\* A rename that cannot replace: the live file is removed and the rename is tried again.
rename_fails ==
  /\ pc = "rotated"
  /\ pc' = "replacing"
  /\ live' = None
  /\ faults' = faults \cup {"rename"}
  /\ UNCHANGED <<ending, line, engine, marker, backup, temporary, contents, durable, installed>>

rename_again == pc = "replacing" /\ Saved /\ UNCHANGED faults

\* An error of the write (the temporary file stays), of the copy or of the second rename.
save_fails ==
  /\ pc \in {"writing", "rotating", "replacing"}
  /\ temporary' = IF pc = "writing" THEN Torn ELSE None
  /\ faults' = faults \cup {"io"}
  /\ Return
  /\ UNCHANGED <<marker, live, backup, contents, durable, installed>>

\* Runtime::reset_state, of a running or a stopped runtime: Persistence::reset removes the
\* live file ...
reset ==
  /\ pc \in {"up", "down"}
  /\ pc' = "resetting"
  /\ ending' = (pc = "down")
  /\ live' = None
  /\ durable' = 0
  /\ UNCHANGED <<line, engine, marker, backup, temporary, contents, installed, faults>>

\* ... then the backup and the temporary file ...
reset_backup ==
  /\ pc = "resetting"
  /\ pc' = "clearing"
  /\ backup' = None
  /\ temporary' = None
  /\ UNCHANGED <<ending, line, engine, marker, live, historyVars>>

\* ... and reset_state the marker.
reset_state ==
  /\ pc = "clearing"
  /\ marker' = None
  /\ installed' = NoLine
  /\ Return
  /\ UNCHANGED <<live, backup, temporary, contents, durable, faults>>

\* A hard kill, or a command that ends without saving.
Kill ==
  /\ pc # "down"
  /\ pc' = "down"
  /\ ending' = FALSE
  /\ line' = NoLine
  /\ engine' = EmptyEngine
  /\ faults' = IF pc = "marking" THEN faults \cup {"marker"} ELSE faults
  /\ UNCHANGED <<diskVars, contents, durable, installed>>

\* The medium damages a file, once; every reader checks lengths and checksums.
Damage ==
  /\ "damage" \notin faults
  /\ faults' = faults \cup {"damage"}
  /\ \/ marker # None /\ marker' = Torn /\ UNCHANGED <<live, backup>>
     \/ live # None /\ live' = Torn /\ UNCHANGED <<marker, backup>>
     \/ backup # None /\ backup' = Torn /\ UNCHANGED <<marker, live>>
  /\ UNCHANGED <<pc, ending, line, engine, temporary, contents, durable, installed>>

RecoveryNext ==
  \/ \E l \in BOOLEAN, b \in BootIds : start(l, b)
  \/ install \/ operate
  \/ \E epochs \in {0, 1} : move_line(epochs)
  \/ save \/ stop \/ write_whole_file \/ remove_backup \/ copy_file
  \/ rename \/ rename_fails \/ rename_again \/ save_fails
  \/ reset \/ reset_backup \/ reset_state \/ Kill \/ Damage

RecoverySpec == RecoveryInit /\ [][RecoveryNext]_recoveryVars

\* A start never reuses a line: whatever was saved, lost or damaged before, the incarnation
\* and the epoch it is about to record exceed those of every earlier start since the last
\* reset (runtime.cpp:132-195), and the engine it recovered accepts them.
LinesAdvance ==
  pc = "marking" =>
    /\ line.incarnation > installed.incarnation
    /\ line.epoch > installed.epoch
    /\ line.incarnation > engine.incarnation
    /\ line.epoch >= engine.epoch

\* A save is all or nothing: between runs, a start would recover exactly what the last save
\* that succeeded wrote, wherever a later save was killed or failed, and whatever a run that
\* did not load left behind.  Not so once a rename has failed, a file was damaged, or the
\* engine's line was moved under the runtime (persistence.cpp:158-214).
SaveIsAllOrNothing ==
  pc = "down" /\ faults \cap {"rename", "damage", "foreign"} = {} =>
    Restored(TRUE).content = durable

\* A start is refused only for a cause outside the normal course: a marker cut short, a
\* damaged file, or a snapshot whose payload names another incarnation than its header.
\* Kills at any other moment, failed writes and failed renames leave files that a start
\* accepts (runtime.cpp:59-110, persistence.cpp:283-303, engine.cpp:2096-2101).
RefusalHasCause ==
  pc = "down" /\ faults \subseteq {"io", "rename"} => CanStart(TRUE)

\* operations.md:113-115: the marker records the line "so a hard kill that happens before
\* any snapshot is written still advances both": kills alone never keep a runtime from
\* starting under a newer line.
HardKillStillAdvances ==
  pc = "down" /\ faults \subseteq {"marker"} => CanStart(TRUE)
=============================================================================
