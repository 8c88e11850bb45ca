--------------------------- MODULE MCSpillStorage ---------------------------
(***************************************************************************)
(* The two levels of the spill storage for TLC: a behaviour is about the    *)
(* regions of one open file, or about the directory of all files of the     *)
(* origin.  The levels share no state; one runs, the other stays as it is.  *)
(***************************************************************************)
EXTENDS PayloadSpill

CONSTANTS Worker, Nil

VARIABLES
  level,  \* file or directory
  phase, files, aged, sweep, checked

Directory == INSTANCE SpillFiles

directory == <<phase, files, aged, sweep, checked>>

FileStep == level = "file" /\ Next /\ UNCHANGED <<level, directory>>
DirectoryStep == level = "directory" /\ Directory!Next /\ UNCHANGED <<level, vars>>

OneLevel == level \in {"file", "directory"} /\ Init /\ Directory!Init

StorageSpec ==
  /\ OneLevel
  /\ [][FileStep \/ DirectoryStep]_<<level, vars, directory>>
  /\ Directory!Fairness

\* The instance's properties, under the names the configuration checks.  A
\* sweep spares the file of a worker that boots.
SweepSparesBooting == Directory!SweepSparesBooting

\* The file of an ended worker is reclaimed while another stays open.
EndedFilesReclaimed == Directory!EndedFilesReclaimed
=============================================================================
