------------------------------ MODULE MCDownload ------------------------------
(***************************************************************************)
(* Small downloads for TLC: ELF files of one or two segments with and      *)
(* without bss and profiling, truncated files, and raw data files.         *)
(***************************************************************************)
EXTENDS Download, ElfPlan

PH(off, filesz, memsz) ==
  [type |-> PTLoad, offset |-> off, paddr |-> 16 * off, filesz |-> filesz, memsz |-> memsz]

\* Two segments, the second with bss; the whole file is there, or it is cut off
\* in the middle of the first segment.
TwoSegments == ElfActions(<<PH(0, 3, 3), PH(4, 1, 3)>>, TRUE, 0, TRUE)

\* A profile of one gmon section, configured in the run that opens the file, or in a
\* later one, which the copies before it make necessary.
ProfiledAtOnce == ElfActions(<<PH(0, 1, 1)>>, FALSE, 1, TRUE)
ProfiledLater == ElfActions(<<PH(0, 1, 2)>>, TRUE, 1, TRUE)

\* No segment, and the entry point is not set.
NoSegments == ElfActions(<<>>, TRUE, 0, FALSE)

ElfJobs ==
  { FileJob(TwoSegments, 5, TRUE, FALSE),
    FileJob(TwoSegments, 2, TRUE, FALSE),
    FileJob(ProfiledAtOnce, 1, TRUE, FALSE),
    FileJob(ProfiledLater, 1, TRUE, FALSE),
    FileJob(NoSegments, 0, TRUE, FALSE) }

\* A data file, and one that was cut short after its length was taken.
DataJobs ==
  { FileJob(DataActions(0, 4), 4, TRUE, TRUE),
    FileJob(DataActions(0, 5), 3, FALSE, TRUE) }

MCJobs == ElfJobs \cup DataJobs

\* A download of an empty data file.
EmptyDataJobs ==
  { FileJob(DataActions(0, 0), 0, FALSE, TRUE),
    FileJob(DataActions(0, 3), 3, FALSE, TRUE) }

AllJobs == MCJobs \cup EmptyDataJobs

=============================================================================
