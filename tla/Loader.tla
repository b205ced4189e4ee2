------------------------------- MODULE Loader --------------------------------
(***************************************************************************)
(* The program loader (src/src/kernel/rivendell.c), as                     *)
(* scheduler_create_process runs it: the ELF header, the table of program  *)
(* headers, the image and its segments.  A read answers with all bytes or  *)
(* fewer, with 0, which the loader takes for a failure (a segment with no  *)
(* bytes in the file fails by that), or with a negated error number, which *)
(* it takes for a success.                                                 *)
(***************************************************************************)
EXTENDS Integers, Sequences

CONSTANTS Addresses, Sizes,  \* virtual addresses and segment sizes, in the file
          Modulus,           \* 2^32: addresses are uint32_t
          MaxHeaders         \* bound: program headers in a file

VARIABLES pc,       \* "header", "table", "image", "copy" or "done"
          file,     \* the file's program headers
          i,        \* headers read, then segments copied
          segments, \* phlptr: the loadable segments found
          low, high,
          image,    \* the image's bytes, offset by the lowest address
          held,     \* blocks of memory allocated and not freed
          good,     \* history: every read gave what was asked for
          result    \* what elf_load returns

vars == <<pc, file, i, segments, low, high, image, held, good, result>>

Phdr == [load : BOOLEAN, vaddr : Addresses, filesz : Sizes, memsz : Sizes]

\* The j-th byte of a segment in the file, a cleared byte, and one not written.
FileByte(s, j) == <<s.vaddr, j>>
Null == <<Modulus, 0>>
Raw == <<Modulus, 1>>

Min(a, b) == IF a < b THEN a ELSE b
Max(a, b) == IF a > b THEN a ELSE b

Init ==
  /\ pc = "header" /\ i = 1 /\ segments = <<>> /\ image = <<>>
  /\ file \in UNION {[1 .. n -> Phdr] : n \in 0 .. MaxHeaders}
  /\ low = Modulus - 1 /\ high = 0
  /\ held = {} /\ good = TRUE /\ result = "none"

Fail(error) == pc' = "done" /\ result' = error

\* elf_load up to elf_segments: the header is read and its fields checked; a
\* header that was not read is whatever the stack held, checked all the same.
Refuse ==
  /\ pc = "header"
  /\ \E e \in {"read", "ident", "machine", "header"} : Fail(e)
  /\ UNCHANGED <<file, i, segments, low, high, image, held, good>>

Accept ==
  /\ pc = "header" /\ pc' = "table"
  /\ held' = held \cup {"table"}
  /\ UNCHANGED <<file, i, segments, low, high, image, good, result>>

\* The loop of elf_segments on the header e.
Record(e) ==
  IF e.load
    THEN /\ segments' = Append(segments, e)
         /\ low' = Min(e.vaddr, low)
         /\ high' = Max((e.vaddr + e.memsz) % Modulus, high)
    ELSE UNCHANGED <<segments, low, high>>

ReadHeader ==
  /\ pc = "table" /\ i <= Len(file)
  /\ \/ /\ Record(file[i]) /\ good' = good
     \/ /\ \E e \in Phdr : Record(e)      \* an error or a short read: not all filled
        /\ good' = FALSE
  /\ i' = i + 1
  /\ UNCHANGED <<pc, file, image, held, result>>

HeaderFails ==
  /\ pc = "table" /\ i <= Len(file)
  /\ Fail("read")                          \* the table is not freed
  /\ UNCHANGED <<file, i, segments, low, high, image, held, good>>

Allocate ==
  /\ pc = "table" /\ i > Len(file)
  /\ pc' = "copy" /\ i' = 1
  /\ image' = [a \in 0 .. ((high - low) % Modulus) - 1 |-> Raw]
  /\ held' = held \cup {"image"}
  /\ UNCHANGED <<file, segments, low, high, good, result>>

---------------------------------------------------------------------------
(* elf_segcpy *)

Content(s) == Min(s.filesz, s.memsz)
Padding(s) == Max(0, s.memsz - s.filesz)
Offset(s) == (s.vaddr - low) % Modulus

\* vfs_read at the segment's place, then memset from the same place.
Filled(m, s, read) ==
  [a \in DOMAIN m |->
     IF a \in Offset(s) .. Offset(s) + read - 1 THEN FileByte(s, a - Offset(s)) ELSE m[a]]
Cleared(m, s) ==
  [a \in DOMAIN m |-> IF a \in Offset(s) .. Offset(s) + Padding(s) - 1 THEN Null ELSE m[a]]

CopySegment ==
  /\ pc = "copy" /\ i <= Len(segments)
  /\ \E read \in 0 .. Content(segments[i]) :    \* 0: an error, nothing is filled
       /\ image' = Cleared(Filled(image, segments[i], read), segments[i])
       /\ good' = (good /\ read > 0 /\ read = Content(segments[i]))
  /\ i' = i + 1
  /\ UNCHANGED <<pc, file, segments, low, high, held, result>>

CopyFails ==
  /\ pc = "copy" /\ i <= Len(segments)
  /\ Fail("read")                          \* the image is not freed
  /\ held' = held \ {"table"}
  /\ UNCHANGED <<file, i, segments, low, high, image, good>>

Finish ==
  /\ pc = "copy" /\ i > Len(segments)
  /\ pc' = "done" /\ result' = "success"
  /\ held' = held \ {"table"}
  /\ UNCHANGED <<file, i, segments, low, high, image, good>>

Next == Refuse \/ Accept \/ ReadHeader \/ HeaderFails \/ Allocate
        \/ CopySegment \/ CopyFails \/ Finish
Spec == Init /\ [][Next]_vars

---------------------------------------------------------------------------
(* Properties *)

\* Segments of a file that can be loaded: they end in the address space and
\* share no address.
Places(s) == s.vaddr .. s.vaddr + s.memsz - 1
WellFormed ==
  /\ \A k \in 1 .. Len(segments) : segments[k].vaddr + segments[k].memsz < Modulus
  /\ \A k, l \in 1 .. Len(segments) :
       k # l => Places(segments[k]) \cap Places(segments[l]) = {}

(* A loaded segment is the file's bytes followed by null bytes: what       *)
(* elf_segcpy announces it copies (rivendell.c:133).                       *)
SegmentsLoaded ==
  result = "success" /\ good /\ WellFormed =>
    \A k \in 1 .. Len(segments) : \A j \in 0 .. segments[k].memsz - 1 :
      /\ Offset(segments[k]) + j \in DOMAIN image
      /\ image[Offset(segments[k]) + j] =
           IF j < segments[k].filesz THEN FileByte(segments[k], j) ELSE Null
=============================================================================
