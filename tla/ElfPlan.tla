-------------------------------- MODULE ElfPlan --------------------------------
(***************************************************************************)
(* How the "open" action of download_cache_client turns the program        *)
(* headers of an ELF file, or a raw data file, into the copy, clear,       *)
(* profile and setpc actions of the download, and their total_bytes.       *)
(***************************************************************************)
EXTENDS Integers, Sequences, SequencesExt

\* A program header is a record [type, offset, paddr, filesz, memsz]; PT_LOAD is 1.
PTLoad == 1

CopyAction(off, addr, size) == [op |-> "copy", off |-> off, addr |-> addr, size |-> size]
ClearAction(addr, size) == [op |-> "clear", off |-> 0, addr |-> addr, size |-> size]

\* Faulty SegmentActions: the clear range starts where the segment does.
SegmentActionsFromStart(ph, clear) ==
  (IF ph.type = PTLoad /\ ph.filesz > 0
   THEN <<CopyAction(ph.offset, ph.paddr, ph.filesz)>> ELSE <<>>)
  \o
  (IF ph.type = PTLoad /\ clear /\ ph.filesz < ph.memsz
   THEN <<ClearAction(ph.paddr, ph.memsz - ph.filesz)>> ELSE <<>>)

\* The actions of one program header.
SegmentActions(ph, clear) ==
  (IF ph.type = PTLoad /\ ph.filesz > 0
   THEN <<CopyAction(ph.offset, ph.paddr, ph.filesz)>> ELSE <<>>)
  \o
  (IF ph.type = PTLoad /\ clear /\ ph.filesz < ph.memsz
   THEN <<ClearAction(ph.paddr + ph.filesz, ph.memsz - ph.filesz)>> ELSE <<>>)

\* The actions of an ELF file.  profile is the number of gmon sections to set up,
\* 0 when profiling is not configured or the ELF is not built for it.
ElfActions(phlist, clear, profile, setEntry) ==
  FlattenSeq([i \in DOMAIN phlist |-> SegmentActions(phlist[i], clear)])
  \o (IF profile > 0
      THEN <<[op |-> "profile", off |-> 0, addr |-> 0, size |-> profile]>> ELSE <<>>)
  \o (IF setEntry
      THEN <<[op |-> "setpc", off |-> 0, addr |-> 0, size |-> 0]>> ELSE <<>>)

\* The single action of a data file of len bytes.
DataActions(addr, len) == <<CopyAction(0, addr, len)>>

TotalBytes(actions) ==
  FoldLeft(LAMBDA sum, a : IF a.op \in {"copy", "clear"} THEN sum + a.size ELSE sum,
           0, actions)

\* The job the download transaction works on, for a file of flen bytes: of a copy
\* action only the bytes that lie inside the file can be read.
FileJob(actions, flen, autostop, data) ==
  [ body |-> [i \in DOMAIN actions |->
               LET a == actions[i]
                   inFile == IF a.op # "copy" \/ flen - a.off >= a.size THEN a.size
                             ELSE IF flen > a.off THEN flen - a.off ELSE 0
               IN [op |-> a.op, size |-> a.size, avail |-> inFile]],
    total |-> TotalBytes(actions),
    autostop |-> autostop,
    data |-> data ]
=============================================================================
