----------------------------- MODULE BodyBuffer -----------------------------
(***************************************************************************)
(* The buffer of a request or response body (internal/corazawaf,           *)
(* body_buffer.go): bytes are kept in memory up to MemoryLimit and then in *)
(* a temporary file; readers opened at any time read on while more is      *)
(* written, while the bytes move to the file, and until Reset.  Opening,   *)
(* writing, closing and removing the file can fail.  The build with file   *)
(* system access is modelled.                                              *)
(***************************************************************************)
EXTENDS Integers, SequenceTheorems, TLAPS

CONSTANTS
  Slices,       \* the slices (sequences of bytes) that are written
  Limit,        \* options.Limit
  MemoryLimit,  \* options.MemoryLimit
  Readers       \* names for the readers

VARIABLES
  buffer,    \* br.buffer
  file,      \* what is in the temporary file
  writer,    \* br.writer is not nil
  length,    \* br.length
  pos,       \* the position of each reader, Closed before Reader and after Reset
  out,       \* what the last Read delivered
  files,     \* temporary files there are
  leaked,    \* history: a Reset could not close or remove its file
  accepted,  \* history: the bytes of the writes that succeeded since Reset
  failed     \* history: a write failed in the file system since Reset

vars == <<buffer, file, writer, length, pos, out, files, leaked, accepted, failed>>

Closed == -1

ASSUME BufferAssumption ==
  /\ Slices \subseteq Seq(Nat) /\ <<>> \notin Slices
  /\ Limit \in Nat /\ MemoryLimit \in Nat

Init ==
  /\ buffer = <<>> /\ file = <<>> /\ writer = FALSE /\ length = 0
  /\ pos = [r \in Readers |-> Closed] /\ out = <<>>
  /\ files = 0 /\ leaked = FALSE /\ accepted = <<>> /\ failed = FALSE

BeyondLimit(n) == length > Limit - n

\* A write beyond the limit is refused and changes nothing.
RefuseWrite(data) ==
  /\ BeyondLimit(Len(data))
  /\ UNCHANGED vars

Spills(data) == ~BeyondLimit(Len(data)) /\ length + Len(data) > MemoryLimit

WriteMemory(data) ==
  /\ ~BeyondLimit(Len(data)) /\ length + Len(data) <= MemoryLimit
  /\ buffer' = buffer \o data
  /\ length' = length + Len(data)
  /\ accepted' = accepted \o data
  /\ UNCHANGED <<file, writer, pos, out, files, leaked, failed>>

\* Mutant: the bytes in memory are not copied to the new file.
DumpedNot == <<>>
Dumped == buffer

\* The first write beyond the memory limit moves everything to the file.
WriteFile(data) ==
  /\ Spills(data)
  /\ file' = (IF writer THEN file ELSE Dumped) \o data
  /\ buffer' = IF writer THEN buffer ELSE <<>>
  /\ writer' = TRUE
  /\ files' = IF writer THEN files ELSE files + 1
  /\ length' = length + Len(data)
  /\ accepted' = accepted \o data
  /\ UNCHANGED <<pos, out, leaked, failed>>

\* Mutant: the file whose dump failed is forgotten.
KeepWriterNot == writer' = FALSE
KeepWriter == writer' = TRUE

\* os.CreateTemp fails, the dump is cut short, or the data is; the length is
\* already updated in the last case.
FailWrite(data) ==
  /\ Spills(data)
  /\ \/ ~writer /\ UNCHANGED <<buffer, file, writer, length, files>>
     \/ /\ ~writer /\ KeepWriter /\ files' = files + 1
        /\ \E k \in 0..Len(buffer) : file' = SubSeq(buffer, 1, k)
        /\ UNCHANGED <<buffer, length>>
     \/ /\ \E k \in 0..(Len(data) - 1) :
             file' = (IF writer THEN file ELSE buffer) \o SubSeq(data, 1, k)
        /\ buffer' = IF writer THEN buffer ELSE <<>>
        /\ writer' = TRUE
        /\ files' = IF writer THEN files ELSE files + 1
        /\ length' = length + Len(data)
  /\ failed' = TRUE
  /\ UNCHANGED <<pos, out, leaked, accepted>>

----------------------------------------------------------------------------
Reader(r) ==
  /\ pos[r] = Closed
  /\ pos' = [pos EXCEPT ![r] = 0]
  /\ UNCHANGED <<buffer, file, writer, length, out, files, leaked, accepted, failed>>

\* What the readers read from.
Content == IF writer THEN file ELSE buffer

\* Mutant: every Read starts at the beginning.
FirstByteAgain(r) == 1
FirstByte(r) == pos[r] + 1

\* bodyBufferReader.Read into a slice of n bytes; at the end it delivers nothing.
Read(r, n) ==
  /\ pos[r] # Closed
  /\ LET end == IF pos[r] + n > Len(Content) THEN Len(Content) ELSE pos[r] + n
     IN /\ out' = SubSeq(Content, FirstByte(r), end)
        /\ pos' = [pos EXCEPT ![r] = end]
  /\ UNCHANGED <<buffer, file, writer, length, files, leaked, accepted, failed>>

\* Mutant: Reset keeps the readers of the previous transaction.
CloseReadersNot == UNCHANGED pos

CloseReaders == pos' = [r \in Readers |-> Closed]
ForgetFile == writer' = FALSE /\ file' = <<>>

\* Closing the file or removing it may fail, which leaves it behind (once: a bound).
Reset ==
  /\ buffer' = <<>> /\ length' = 0
  /\ CloseReaders
  /\ ForgetFile
  /\ \/ files' = (IF writer THEN files - 1 ELSE files) /\ UNCHANGED leaked
     \/ writer /\ ~leaked /\ leaked' = TRUE /\ UNCHANGED files
  /\ accepted' = <<>> /\ failed' = FALSE
  /\ UNCHANGED out

Next ==
  \/ \E data \in Slices : RefuseWrite(data) \/ WriteMemory(data) \/ WriteFile(data)
                          \/ FailWrite(data)
  \/ \E r \in Readers : Reader(r) \/ \E n \in 1..Limit : Read(r, n)
  \/ Reset

Spec == Init /\ [][Next]_vars

----------------------------------------------------------------------------
\* Type invariant of the buffer; no reader is beyond the end, where Read would
\* slice out of range.
TypeOK ==
  /\ buffer \in Seq(Nat) /\ file \in Seq(Nat) /\ accepted \in Seq(Nat)
  /\ out \in Seq(Nat) /\ writer \in BOOLEAN /\ failed \in BOOLEAN
  /\ length \in Nat /\ files \in Int /\ leaked \in BOOLEAN
  /\ pos \in [Readers -> Nat \cup {Closed}]
  /\ ~failed => \A r \in Readers : pos[r] <= Len(Content)

\* The buffer holds no more than Limit bytes, also after failed writes.
WithinLimit == length <= Limit

\* There is a temporary file exactly while the buffer refers to it, however a write
\* failed, unless Reset could not close or remove one.
FilesAccounted == files = (IF writer THEN 1 ELSE 0) + (IF leaked THEN 1 ELSE 0)

\* As long as the file system did not fail, the buffer holds exactly the bytes of
\* the successful writes, in order, wherever they are kept.
HoldsAccepted == ~failed => Content = accepted /\ length = Len(accepted)

\* A reader delivers the accepted bytes from its position on, without gap or
\* repetition, although writes and the move to the file happen between two reads.
ReadsAccepted ==
  [][\A r \in Readers :
        ~failed /\ pos[r] # Closed /\ pos'[r] \notin {Closed, pos[r]}
          => out' = SubSeq(accepted, pos[r] + 1, pos'[r])]_vars

\* No reader and no byte of a closed transaction is there for the next: a buffer
\* that Reset left is empty, and a connector's old reader delivers nothing.
ResetIsClean ==
  [][accepted # <<>> /\ accepted' = <<>>
       => Content' = <<>> /\ \A r \in Readers : pos'[r] = Closed]_vars

----------------------------------------------------------------------------
(***************************************************************************)
(* Proofs, for every limit and all slices and readers.                     *)
(***************************************************************************)
\* Without a failure the file is in use only once the memory limit was passed, so
\* that no later write goes back to memory.
SpilledInv == ~failed /\ writer => length > MemoryLimit

\* The inductive invariant.
Inv == TypeOK /\ WithinLimit /\ FilesAccounted /\ HoldsAccepted /\ SpilledInv

LEMMA SliceType ==
  ASSUME NEW data \in Slices
  PROVE  data \in Seq(Nat) /\ Len(data) \in Nat /\ Len(data) > 0
  BY BufferAssumption, EmptySeq, LenProperties

\* A prefix of a sequence of bytes is one.
LEMMA PrefixType ==
  ASSUME NEW s \in Seq(Nat), NEW m \in Nat, NEW n \in 0..Len(s)
  PROVE  SubSeq(s, m + 1, n) \in Seq(Nat)
<1>1. \A i \in (m + 1)..n : s[i] \in Nat
  BY ElementOfSeq, LenProperties
<1> QED
  BY <1>1, SubSeqProperties, LenProperties

\* A reader that was not beyond the end is not after the content has grown.
LEMMA ReadersWithin ==
  ASSUME NEW p \in [Readers -> Nat \cup {Closed}], NEW m \in Nat, NEW n \in Nat, m <= n,
         \A r \in Readers : p[r] <= m
  PROVE  \A r \in Readers : p[r] <= n
  BY DEF Closed

\* The buffer before the first write, and after Reset.
EmptyState ==
  /\ buffer = <<>> /\ file = <<>> /\ writer = FALSE /\ length = 0
  /\ failed = FALSE /\ accepted = <<>> /\ pos = [r \in Readers |-> Closed]
  /\ out \in Seq(Nat) /\ leaked \in BOOLEAN /\ files = IF leaked THEN 1 ELSE 0

LEMMA EmptyBuffer == EmptyState => Inv
<1> SUFFICES ASSUME EmptyState PROVE Inv
  OBVIOUS
<1> USE DEF EmptyState
<1>1. <<>> \in Seq(Nat) /\ Len(<<>>) = 0 /\ Closed \in Int /\ Closed <= 0
  BY EmptySeq DEF Closed
<1>2. Content = <<>>
  BY DEF Content
<1>3. \A r \in Readers : pos[r] <= Len(Content)
  BY <1>1, <1>2
<1>4. pos \in [Readers -> Nat \cup {Closed}] /\ length \in Nat /\ files \in Int
  BY DEF Closed
<1>5. TypeOK
  BY <1>1, <1>3, <1>4, Zenon DEF TypeOK
<1>6. WithinLimit /\ FilesAccounted
  BY BufferAssumption DEF WithinLimit, FilesAccounted
<1>7. HoldsAccepted /\ SpilledInv
  BY <1>1, <1>2, Zenon DEF HoldsAccepted, SpilledInv
<1> QED
  BY <1>5, <1>6, <1>7, Zenon DEF Inv

LEMMA InitInv == Init => Inv
  BY EmptyBuffer, EmptySeq, Zenon DEF Init, EmptyState

LEMMA WriteMemoryInv ==
  ASSUME Inv, NEW data \in Slices, WriteMemory(data)
  PROVE  Inv'
<1>0. data \in Seq(Nat) /\ Len(data) \in Nat
  BY SliceType
<1>1. /\ buffer' \in Seq(Nat) /\ accepted' \in Seq(Nat)
      /\ Len(buffer') = Len(buffer) + Len(data) /\ Len(accepted') = Len(accepted) + Len(data)
  BY <1>0, ConcatProperties DEF WriteMemory, Inv, TypeOK
<1>2. length' \in Nat /\ length' = length + Len(data) /\ length' <= Limit
  BY <1>0, BufferAssumption DEF WriteMemory, BeyondLimit, Inv, TypeOK
<1>3. ~failed => ~writer
  BY <1>0, BufferAssumption DEF WriteMemory, Inv, TypeOK, SpilledInv
<1>4. HoldsAccepted'
  BY <1>1, <1>2, <1>3, Zenon DEF WriteMemory, Inv, HoldsAccepted, Content
<1>5. \A r \in Readers : ~failed' => pos'[r] <= Len(Content')
  <2>1. SUFFICES ASSUME ~failed'
                 PROVE  \A r \in Readers : pos'[r] <= Len(Content')
    BY Zenon
  <2>2. ~failed /\ pos' = pos /\ pos \in [Readers -> Nat \cup {Closed}]
        /\ (\A r \in Readers : pos[r] <= Len(Content)) /\ buffer \in Seq(Nat)
        /\ writer' = writer
    BY <2>1, Zenon DEF WriteMemory, Inv, TypeOK
  <2>3. Content = buffer /\ Content' = buffer'
    BY <1>3, <2>2, Zenon DEF Content
  <2>4. Len(Content) \in Nat /\ Len(Content') \in Nat /\ Len(Content) <= Len(Content')
    BY <1>0, <1>1, <2>2, <2>3, LenProperties
  <2> QED
    BY <2>2, <2>4, ReadersWithin
<1>6. TypeOK'
  BY <1>1, <1>2, <1>5 DEF WriteMemory, Inv, TypeOK
<1> QED
  BY <1>2, <1>3, <1>4, <1>6 DEF WriteMemory, Inv, WithinLimit, FilesAccounted, SpilledInv

LEMMA WriteFileInv ==
  ASSUME Inv, NEW data \in Slices, WriteFile(data)
  PROVE  Inv'
<1> DEFINE old == IF writer THEN file ELSE buffer
<1>0. data \in Seq(Nat) /\ Len(data) \in Nat /\ old \in Seq(Nat) /\ old = Content
  BY SliceType DEF Inv, TypeOK, Content
<1>1. /\ file' = old \o data /\ file' \in Seq(Nat) /\ Len(file') = Len(old) + Len(data)
      /\ accepted' \in Seq(Nat) /\ Len(accepted') = Len(accepted) + Len(data)
  BY <1>0, ConcatProperties DEF WriteFile, Dumped, Inv, TypeOK
<1>2. /\ length' \in Nat /\ length' = length + Len(data)
      /\ length' <= Limit /\ length' > MemoryLimit
  BY <1>0, BufferAssumption, SMTT(30) DEF WriteFile, Spills, BeyondLimit, Inv, TypeOK
<1>3. Content' = old \o data
  BY <1>1, Zenon DEF WriteFile, Content
<1>4. HoldsAccepted'
  BY <1>0, <1>1, <1>2, <1>3, Zenon DEF WriteFile, Inv, HoldsAccepted
<1>5. \A r \in Readers : ~failed' => pos'[r] <= Len(Content')
  <2>1. SUFFICES ASSUME ~failed'
                 PROVE  \A r \in Readers : pos'[r] <= Len(Content')
    BY Zenon
  <2>2. ~failed /\ pos' = pos /\ pos \in [Readers -> Nat \cup {Closed}]
        /\ (\A r \in Readers : pos[r] <= Len(Content))
    BY <2>1, Zenon DEF WriteFile, Inv, TypeOK
  <2>3. Content \in Seq(Nat) /\ Len(Content') = Len(Content) + Len(data)
    BY <1>0, <1>1, <1>3, Zenon
  <2>4. Len(Content) \in Nat /\ Len(Content') \in Nat /\ Len(Content) <= Len(Content')
    BY <1>0, <2>3, LenProperties
  <2> QED
    BY <2>2, <2>4, ReadersWithin
<1>6. buffer' \in Seq(Nat) /\ files' \in Int /\ writer' = TRUE
  BY DEF WriteFile, Inv, TypeOK
<1>7. TypeOK'
  BY <1>1, <1>2, <1>5, <1>6, SMTT(30) DEF WriteFile, Inv, TypeOK
<1>8. FilesAccounted'
  BY <1>6 DEF WriteFile, Inv, TypeOK, FilesAccounted
<1> QED
  BY <1>2, <1>4, <1>7, <1>8 DEF Inv, WithinLimit, SpilledInv

LEMMA FailWriteInv ==
  ASSUME Inv, NEW data \in Slices, FailWrite(data)
  PROVE  Inv'
<1> DEFINE old == IF writer THEN file ELSE buffer
<1>0. data \in Seq(Nat) /\ Len(data) \in Nat /\ old \in Seq(Nat)
  BY SliceType DEF Inv, TypeOK
<1>1. length' \in Nat /\ length' <= Limit
  <2>1. length \in Nat /\ length <= Limit /\ ~(length > Limit - Len(data))
        /\ (length' = length \/ length' = length + Len(data))
    BY Zenon DEF FailWrite, Spills, BeyondLimit, Inv, TypeOK, WithinLimit
  <2> QED
    BY <1>0, <2>1, BufferAssumption
<1>2. file' \in Seq(Nat)
  <2>1. CASE UNCHANGED file
    BY <2>1 DEF Inv, TypeOK
  <2>2. ASSUME NEW k \in 0..Len(buffer), file' = SubSeq(buffer, 1, k)
        PROVE  file' \in Seq(Nat)
    <3>1. SubSeq(buffer, 0 + 1, k) \in Seq(Nat)
      BY PrefixType DEF Inv, TypeOK
    <3> QED
      BY <2>2, <3>1
  <2>3. ASSUME NEW k \in 0..(Len(data) - 1), file' = old \o SubSeq(data, 1, k)
        PROVE  file' \in Seq(Nat)
    <3>1. k \in 0..Len(data)
      BY <1>0
    <3>2. SubSeq(data, 0 + 1, k) \in Seq(Nat)
      BY <1>0, <3>1, PrefixType
    <3> QED
      BY <1>0, <2>3, <3>2, ConcatProperties
  <2> QED
    BY <2>1, <2>2, <2>3, Zenon DEF FailWrite
<1>3. /\ buffer' \in Seq(Nat) /\ writer' \in BOOLEAN /\ files' \in Int /\ failed' = TRUE
      /\ UNCHANGED <<pos, out, leaked, accepted>>
  <2>1. /\ failed' = TRUE /\ UNCHANGED <<pos, out, leaked, accepted>>
        /\ (buffer' = buffer \/ buffer' = <<>>) /\ (writer' = writer \/ writer' = TRUE)
        /\ (files' = files \/ files' = files + 1)
    BY Zenon DEF FailWrite, KeepWriter
  <2>2. buffer \in Seq(Nat) /\ writer \in BOOLEAN /\ files \in Int
    BY Zenon DEF Inv, TypeOK
  <2>3. buffer' \in Seq(Nat) /\ files' \in Int
    <3>1. files + 1 \in Int
      BY <2>2
    <3> QED
      BY <2>1, <2>2, <3>1, EmptySeq, Zenon
  <2> QED
    BY <2>1, <2>2, <2>3, Zenon
<1>4. FilesAccounted'
  <2>1. files \in Int /\ files = (IF writer THEN 1 ELSE 0) + (IF leaked THEN 1 ELSE 0)
    BY Zenon DEF Inv, TypeOK, FilesAccounted
  <2>2. /\ leaked' <=> leaked
        /\ \/ files' = files /\ (writer' <=> writer)
           \/ ~writer /\ writer' /\ files' = files + 1
    <3>1. leaked' <=> leaked
      BY Zenon DEF FailWrite
    <3>2. CASE writer
      <4>1. files' = files /\ writer' = TRUE
        BY <3>2, Zenon DEF FailWrite
      <4> QED
        BY <3>1, <3>2, <4>1, Zenon
    <3>3. CASE ~writer
      <4>1. (files' = files /\ writer' = writer) \/ (files' = files + 1 /\ writer' = TRUE)
        BY <3>3, Zenon DEF FailWrite, KeepWriter
      <4> QED
        BY <3>1, <3>3, <4>1
    <3> QED
      BY <3>2, <3>3, Zenon
  <2> QED
    BY <2>1, <2>2 DEF FilesAccounted
<1>5. TypeOK'
  BY <1>1, <1>2, <1>3 DEF Inv, TypeOK
<1> QED
  BY <1>1, <1>3, <1>4, <1>5 DEF Inv, WithinLimit, HoldsAccepted, SpilledInv

LEMMA ReaderInv ==
  ASSUME Inv, NEW r \in Readers, Reader(r)
  PROVE  Inv'
<1>1. Content' = Content /\ Len(Content) \in Nat
  BY LenProperties DEF Reader, Content, Inv, TypeOK
<1>2. TypeOK'
  BY <1>1 DEF Reader, Inv, TypeOK
<1> QED
  BY <1>1, <1>2 DEF Reader, Inv, WithinLimit, FilesAccounted, HoldsAccepted, SpilledInv

\* What a Read delivers is the content between its old and its new position.
LEMMA ReadEffect ==
  ASSUME Inv, NEW r \in Readers, NEW n \in 1..Limit, Read(r, n)
  PROVE  /\ pos[r] \in Nat /\ out' = SubSeq(Content, pos[r] + 1, pos'[r])
         /\ pos'[r] \in 0..Len(Content) /\ pos' = [pos EXCEPT ![r] = pos'[r]]
<1>1. pos[r] \in Nat /\ Len(Content) \in Nat /\ n \in Nat
  BY LenProperties, BufferAssumption DEF Read, Content, Inv, TypeOK
<1> DEFINE end == IF pos[r] + n > Len(Content) THEN Len(Content) ELSE pos[r] + n
<1>2. end \in 0..Len(Content)
  BY <1>1
<1>3. out' = SubSeq(Content, pos[r] + 1, end) /\ pos' = [pos EXCEPT ![r] = end]
  BY DEF Read, FirstByte
<1>4. pos'[r] = end
  BY <1>3 DEF Inv, TypeOK
<1> QED
  BY <1>1, <1>2, <1>3, <1>4, Zenon

LEMMA ReadInv ==
  ASSUME Inv, NEW r \in Readers, NEW n \in 1..Limit, Read(r, n)
  PROVE  Inv'
<1>1. /\ pos[r] \in Nat /\ out' = SubSeq(Content, pos[r] + 1, pos'[r])
      /\ pos'[r] \in 0..Len(Content) /\ pos' = [pos EXCEPT ![r] = pos'[r]]
  BY ReadEffect
<1>2. Content' = Content /\ Content \in Seq(Nat) /\ Len(Content) \in Nat
  BY LenProperties DEF Read, Content, Inv, TypeOK
<1>3. out' \in Seq(Nat)
  BY <1>1, <1>2, PrefixType
<1>4. TypeOK'
  BY <1>1, <1>2, <1>3, SMTT(30) DEF Read, Inv, TypeOK
<1> QED
  BY <1>2, <1>4 DEF Read, Inv, WithinLimit, FilesAccounted, HoldsAccepted, SpilledInv

LEMMA ResetInv ==
  ASSUME Inv, Reset
  PROVE  Inv'
<1>1. /\ buffer' = <<>> /\ file' = <<>> /\ writer' = FALSE /\ length' = 0
      /\ failed' = FALSE /\ accepted' = <<>> /\ pos' = [r \in Readers |-> Closed]
  BY Zenon DEF Reset, CloseReaders, ForgetFile
<1>2. out' \in Seq(Nat) /\ leaked' \in BOOLEAN
  BY Zenon DEF Reset, Inv, TypeOK
<1>3. files' = IF leaked' THEN 1 ELSE 0
  <2>1. files = (IF writer THEN 1 ELSE 0) + (IF leaked THEN 1 ELSE 0)
    BY Zenon DEF Inv, FilesAccounted
  <2>2. \/ writer /\ files' = files - 1 /\ leaked' = leaked
        \/ ~writer /\ files' = files /\ leaked' = leaked
        \/ writer /\ ~leaked /\ leaked' /\ files' = files
    BY Zenon DEF Reset
  <2> QED
    BY <2>1, <2>2
<1>4. EmptyState'
  BY <1>1, <1>2, <1>3, Zenon DEF EmptyState
<1> QED
  BY <1>4, EmptyBuffer, PTL

LEMMA Invariance == Spec => []Inv
<1>1. ASSUME Inv, [Next]_vars
      PROVE  Inv'
  <2>1. ASSUME NEW data \in Slices, RefuseWrite(data) PROVE Inv'
    BY <1>1, <2>1 DEF RefuseWrite, vars, Inv, TypeOK, WithinLimit, FilesAccounted,
       HoldsAccepted, SpilledInv, Content
  <2>2. CASE UNCHANGED vars
    BY <1>1, <2>2 DEF vars, Inv, TypeOK, WithinLimit, FilesAccounted, HoldsAccepted,
       SpilledInv, Content
  <2> QED
    BY <1>1, <2>1, <2>2, WriteMemoryInv, WriteFileInv, FailWriteInv, ReaderInv, ReadInv,
       ResetInv DEF Next
<1> QED
  BY <1>1, InitInv, PTL DEF Spec

\* Every reachable state of the buffer is well typed, and no reader is beyond the
\* end of what it reads.
THEOREM TypeCorrect == Spec => []TypeOK
<1>1. Inv => TypeOK
  BY DEF Inv
<1> QED
  BY <1>1, Invariance, PTL

\* The limit check of Write holds for all sequences of writes, failed ones included.
THEOREM LimitCorrect == Spec => []WithinLimit
<1>1. Inv => WithinLimit
  BY DEF Inv
<1> QED
  BY <1>1, Invariance, PTL

\* Temporary files are created, kept and removed in step with br.writer.
THEOREM FilesCorrect == Spec => []FilesAccounted
<1>1. Inv => FilesAccounted
  BY DEF Inv
<1> QED
  BY <1>1, Invariance, PTL

\* Without file system failures the buffer holds the accepted bytes, in memory or in
\* the file.
THEOREM ContentCorrect == Spec => []HoldsAccepted
<1>1. Inv => HoldsAccepted
  BY DEF Inv
<1> QED
  BY <1>1, Invariance, PTL

\* Readers deliver the accepted bytes from their position on, whatever is written
\* and moved between two reads.
THEOREM ReadsCorrect == Spec => ReadsAccepted
<1>1. ASSUME Inv, [Next]_vars
      PROVE  [\A r \in Readers :
                ~failed /\ pos[r] # Closed /\ pos'[r] \notin {Closed, pos[r]}
                  => out' = SubSeq(accepted, pos[r] + 1, pos'[r])]_vars
  <2> SUFFICES ASSUME NEW r \in Readers, ~failed, pos[r] # Closed,
                      pos'[r] \notin {Closed, pos[r]}
               PROVE  out' = SubSeq(accepted, pos[r] + 1, pos'[r])
    OBVIOUS
  <2>1. Content = accepted
    BY <1>1 DEF Inv, HoldsAccepted
  <2>2. ASSUME NEW q \in Readers, NEW n \in 1..Limit, Read(q, n)
        PROVE  out' = SubSeq(accepted, pos[r] + 1, pos'[r])
    <3>1. out' = SubSeq(Content, pos[q] + 1, pos'[q]) /\ pos' = [pos EXCEPT ![q] = pos'[q]]
      BY <1>1, <2>2, ReadEffect
    <3>2. q = r
      BY <1>1, <3>1 DEF Inv, TypeOK
    <3> QED
      BY <2>1, <3>1, <3>2
  <2>3. ASSUME NEW q \in Readers, Reader(q)
        PROVE  FALSE
    <3>1. pos' = [pos EXCEPT ![q] = 0] /\ pos[q] = Closed
      BY <2>3 DEF Reader
    <3> QED
      BY <1>1, <3>1 DEF Inv, TypeOK
  <2>4. CASE Reset
    BY <2>4 DEF Reset, CloseReaders
  <2>5. CASE UNCHANGED pos
    BY <2>5
  <2> QED
    BY <1>1, <2>2, <2>3, <2>4, <2>5, Zenon
       DEF Next, RefuseWrite, WriteMemory, WriteFile, FailWrite, vars
<1> QED
  BY <1>1, Invariance, PTL DEF Spec, ReadsAccepted
=============================================================================
