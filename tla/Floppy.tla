------------------------------- MODULE Floppy --------------------------------
(***************************************************************************)
(* The floppy driver (src/src/kernel/floppy.c): start-up, and reads and    *)
(* writes of byte ranges, sector by sector, with seeks that are repeated   *)
(* and a controller that may not answer in time, stop in the middle of a   *)
(* transfer or report an error at any of the driver's waits.  The driver   *)
(* polls: one request runs at a time and nothing else runs meanwhile.  The *)
(* controller and the drive are external; they are modelled from what the  *)
(* driver expects of them.                                                 *)
(***************************************************************************)
EXTENDS Integers

CONSTANTS SectorSize,     \* bytes in a sector, 512 in the code
          PerTrack,       \* sectors in a track, 18 in the code
          Sectors,        \* sectors on the disk
          MaxTries,       \* the seeks of one floppy_seek, 10 in the code
          CylinderMod,    \* 256: a cylinder number is a uint8_t
          MaxRequests     \* bound: requests made

ASSUME FloppyAssumption ==
  /\ {SectorSize, PerTrack, MaxTries, CylinderMod} \subseteq Nat \ {0}
  /\ {Sectors, MaxRequests} \subseteq Nat
  /\ Sectors < 2 * PerTrack * CylinderMod

VARIABLES pc,       \* what the driver is about to do
          req,      \* the request: its kind, address, size and preserve flag
          lba,      \* the sector at hand
          index,    \* bytes moved between the caller's buffer and tmp
          tmp,      \* tmp_buffer, a sector
          tries,    \* the loop counter of floppy_seek
          arm,      \* the cylinder the drive's arm is on
          disk,     \* the bytes on the disk
          out,      \* the caller's buffer of a read
          result,   \* what the last call returned
          before,   \* history: the disk when the request was made
          late,     \* history: a sector of this request was taken for written
                    \* after the controller had not answered
          served    \* bound: requests made so far

vars == <<pc, req, lba, index, tmp, tries, arm, disk, out, result, before, late, served>>

Bytes == 0 .. Sectors * SectorSize - 1
InSector == 0 .. SectorSize - 1

\* The k-th byte a writer hands in, unlike anything the disk holds at first,
\* and what tmp_buffer holds before anything is put in it.
Given(k) == -(k + 1)
Garbage == Sectors * SectorSize

First == req.address \div SectorSize
End == (req.address + req.size) \div SectorSize       \* start_lba and end_lba
Start(l) == IF l = First THEN req.address % SectorSize ELSE 0
Stop(l) == IF l = End THEN (req.address + req.size) % SectorSize ELSE SectorSize

\* lba_to_chs
Cylinder(l) == (l \div (2 * PerTrack)) % CylinderMod
Head(l) == (l % (2 * PerTrack)) \div PerTrack
Sector(l) == ((l % (2 * PerTrack)) % PerTrack) + 1

\* The place on the disk that the head and the sector number of l name when
\* the arm is on cylinder c: nothing but the driver's seeks puts it there.
Place(c, l) == (2 * c + Head(l)) * PerTrack + Sector(l) - 1

Init ==
  /\ pc = "off"
  /\ req = [kind |-> "read", address |-> 0, size |-> 0, preserve |-> TRUE]
  /\ lba = 0 /\ index = 0 /\ tries = 0 /\ arm = 0
  /\ tmp = [i \in InSector |-> Garbage]
  /\ disk = [b \in Bytes |-> b]
  /\ out = [b \in {} |-> 0]
  /\ result = "none"
  /\ before = disk /\ late = FALSE /\ served = 0

---------------------------------------------------------------------------
(* Start-up.                                                               *)

Return(r) == pc' = "idle" /\ result' = r

\* floppy_init up to the reset: the version and the answer to the lock.
Identify(ok) ==
  /\ pc = "off"
  /\ IF ok THEN pc' = "reset" /\ UNCHANGED result ELSE pc' = "off" /\ result' = "false"
  /\ UNCHANGED <<req, lba, index, tmp, tries, arm, disk, out, before, late, served>>

\* floppy_reset: four sense interrupts, the drive's parameters, and the
\* calibration, which brings the arm to cylinder 0 or fails.
Reset(ok) ==
  /\ pc = "reset"
  /\ arm' = IF ok THEN 0 ELSE arm
  /\ IF ok THEN Return("true") ELSE pc' = "off" /\ result' = "false"
  /\ UNCHANGED <<req, lba, index, tmp, tries, disk, out, before, late, served>>

---------------------------------------------------------------------------
(* Requests.                                                               *)

\* floppy_read or floppy_write is called; a write that preserves, and every
\* read, begins a sector by reading it.
Request(kind, address, size, preserve) ==
  /\ pc = "idle" /\ served < MaxRequests
  /\ req' = [kind |-> kind, address |-> address, size |-> size, preserve |-> preserve]
  /\ lba' = address \div SectorSize
  /\ pc' = IF kind = "read" \/ preserve THEN "seek read" ELSE "fill"
  /\ index' = 0 /\ tries' = 0 /\ result' = "none" /\ late' = FALSE
  /\ tmp' = [i \in InSector |-> Garbage]
  /\ before' = disk /\ out' = [b \in {} |-> 0]
  /\ served' = served + 1
  /\ UNCHANGED <<arm, disk>>

Seeking == pc \in {"seek read", "seek write"}

SeekToUncounted(c) ==
  /\ Seeking
  /\ arm' = c
  /\ pc' = IF c = Cylinder(lba) THEN IF pc = "seek read" THEN "read" ELSE "write" ELSE pc
  /\ UNCHANGED <<req, lba, index, tmp, tries, disk, out, result, before, late, served>>

SeekToGivesIn(c) ==
  /\ Seeking
  /\ arm' = c
  /\ IF c = Cylinder(lba) \/ tries + 1 = MaxTries
     THEN pc' = (IF pc = "seek read" THEN "read" ELSE "write") /\ tries' = 0
     ELSE tries' = tries + 1 /\ UNCHANGED pc
  /\ UNCHANGED <<req, lba, index, tmp, disk, out, result, before, late, served>>

\* One turn of the loop of floppy_seek: the arm ends up on some cylinder, and
\* the driver is content when it is the one it asked for.
SeekTo(c) ==
  /\ Seeking
  /\ arm' = c
  /\ CASE c = Cylinder(lba) ->
            pc' = (IF pc = "seek read" THEN "read" ELSE "write") /\ tries' = 0 /\ UNCHANGED result
       [] c # Cylinder(lba) /\ tries + 1 < MaxTries ->
            tries' = tries + 1 /\ UNCHANGED <<pc, result>>
       [] OTHER -> tries' = 0 /\ Return("false")
  /\ UNCHANGED <<req, lba, index, tmp, disk, out, before, late, served>>

SeekTimeout ==
  /\ Seeking
  /\ tries' = 0 /\ Return("false")
  /\ UNCHANGED <<req, lba, index, tmp, arm, disk, out, before, late, served>>

\* What a transfer of the sector at hand meets, wherever the arm is.
Under == Place(arm, lba)
OnDisk == Under < Sectors
Content == [i \in InSector |-> disk[Under * SectorSize + i]]

\* floppy_read_sector: 512 bytes came and the result names the sector.
ReadSector ==
  /\ pc = "read" /\ OnDisk
  /\ tmp' = Content
  /\ pc' = IF req.kind = "read" THEN "copy" ELSE "fill"
  /\ UNCHANGED <<req, lba, index, tries, arm, disk, out, result, before, late, served>>

\* No answer, fewer than 512 bytes or an error in the result: of the sector,
\* some bytes may have reached tmp.
ReadFails(n) ==
  /\ pc = "read"
  /\ tmp' = [i \in InSector |-> IF i < n /\ OnDisk THEN Content[i] ELSE tmp[i]]
  /\ Return("false")
  /\ UNCHANGED <<req, lba, index, tries, arm, disk, out, before, late, served>>

NextSectorUnread ==
  IF lba = End THEN Return("true") /\ UNCHANGED <<lba, tries>>
  ELSE /\ lba' = lba + 1 /\ tries' = 0
       /\ pc' = IF req.kind = "read" THEN "seek read" ELSE "fill"
       /\ UNCHANGED result

NextSector ==
  IF lba = End THEN Return("true") /\ UNCHANGED <<lba, tries>>
  ELSE /\ lba' = lba + 1 /\ tries' = 0
       /\ pc' = IF req.kind = "read" \/ req.preserve THEN "seek read" ELSE "fill"
       /\ UNCHANGED result

\* The end of a turn of floppy_read's loop: the sector's part is handed out.
Copy ==
  /\ pc = "copy"
  /\ out' = [k \in 0 .. index + Stop(lba) - Start(lba) - 1 |->
               IF k < index THEN out[k] ELSE tmp[k - index + Start(lba)]]
  /\ index' = index + Stop(lba) - Start(lba)
  /\ NextSector
  /\ UNCHANGED <<req, tmp, arm, disk, before, late, served>>

FillFromStart ==
  /\ pc = "fill"
  /\ tmp' = [i \in InSector |-> IF Start(lba) <= i /\ i < Stop(lba)
                                THEN Given(i - Start(lba)) ELSE tmp[i]]
  /\ index' = index + Stop(lba) - Start(lba)
  /\ pc' = "seek write" /\ tries' = 0
  /\ UNCHANGED <<req, lba, arm, disk, out, result, before, late, served>>

\* floppy_write puts the caller's bytes over those of the sector.
Fill ==
  /\ pc = "fill"
  /\ tmp' = [i \in InSector |-> IF Start(lba) <= i /\ i < Stop(lba)
                                THEN Given(index + i - Start(lba)) ELSE tmp[i]]
  /\ index' = index + Stop(lba) - Start(lba)
  /\ pc' = "seek write" /\ tries' = 0
  /\ UNCHANGED <<req, lba, arm, disk, out, result, before, late, served>>

\* The disk with the bytes of the sector in "taken" replaced from tmp.
Put(taken) ==
  [b \in Bytes |-> IF OnDisk /\ b \div SectorSize = Under /\ b % SectorSize \in taken
                   THEN tmp[b % SectorSize] ELSE disk[b]]

\* floppy_write_sector with a good result.
WriteSector ==
  /\ pc = "write" /\ OnDisk
  /\ disk' = Put(InSector)
  /\ NextSector
  /\ UNCHANGED <<req, index, tmp, arm, out, before, late, served>>

\* No answer to the command, a transfer that stops, or an error in the result.
WriteFails(taken) ==
  /\ pc = "write"
  /\ disk' = Put(taken)
  /\ Return("false")
  /\ UNCHANGED <<req, lba, index, tmp, tries, arm, out, before, late, served>>

\* The controller took 512 bytes and is not ready after them: it is reset,
\* whatever it was doing, and the sector counts as written.
WriteLate(taken, calibrated) ==
  /\ pc = "write"
  /\ disk' = Put(taken)
  /\ arm' = IF calibrated THEN 0 ELSE arm
  /\ late' = TRUE
  /\ NextSector
  /\ UNCHANGED <<req, index, tmp, out, before, served>>

Halves == {{}, {i \in InSector : 2 * i < SectorSize}, InSector}

Next ==
  \/ \E ok \in BOOLEAN : Identify(ok) \/ Reset(ok)
  \/ \E kind \in {"read", "write"}, preserve \in BOOLEAN :
     \E address \in Bytes : \E size \in 0 .. Sectors * SectorSize - address :
        Request(kind, address, size, preserve)
  \/ \E c \in 0 .. CylinderMod - 1 : SeekTo(c)
  \/ SeekTimeout
  \/ ReadSector
  \/ \E n \in {0, SectorSize \div 2, SectorSize} : ReadFails(n)
  \/ Copy
  \/ Fill
  \/ WriteSector
  \/ \E taken \in Halves : WriteFails(taken)
  \/ \E taken \in Halves, calibrated \in BOOLEAN : WriteLate(taken, calibrated)

\* The driver never stops in the middle of a request: its waits are counted.
Fairness == WF_vars(\/ Seeking /\ Next
                    \/ pc \in {"read", "copy", "fill", "write"} /\ Next)

Spec == Init /\ [][Next]_vars /\ Fairness

---------------------------------------------------------------------------
Range == req.address .. req.address + req.size - 1

\* Whatever fails on the way, a write that preserves changes no byte outside
\* the range it was given: not around it in the first and the last sector,
\* not in the sector after a range that ends on a sector's end.
Preserved ==
  (req.kind = "write" /\ req.preserve) => \A b \in Bytes \ Range : disk[b] = before[b]

\* A read that returns true has filled the caller's buffer with exactly the
\* bytes of its range, in order, however many seeks and sectors it took.
ReadExact ==
  (pc = "idle" /\ req.kind = "read" /\ result = "true" /\ served > 0) =>
     out = [k \in 0 .. req.size - 1 |-> disk[req.address + k]]

\* A write that returns true, and during which the controller never failed to
\* answer after the data, has put every byte of its range on the disk.
WriteExact ==
  (pc = "idle" /\ req.kind = "write" /\ result = "true" /\ served > 0 /\ ~late) =>
     \A k \in 0 .. req.size - 1 : disk[req.address + k] = Given(k)

\* Every request comes to an end: ten seeks that miss end floppy_seek, and no
\* wait is without a limit.
RequestEnds == (pc \in {"seek read", "fill"}) ~> (pc = "idle")
=============================================================================
