---------------------------- MODULE Floppy_proofs ----------------------------
(***************************************************************************)
(* The floppy driver's reads and writes are exact, for every size of a     *)
(* sector, of a track and of the disk, for every number of requests and    *)
(* however the controller fails.                                           *)
(***************************************************************************)
EXTENDS Floppy, TLAPS

(* Where the part of the range that lies in a sector begins and ends,      *)
(* counted from the range's first byte.                                    *)
Origin(l) == (l * SectorSize + Start(l)) - req.address
Reach(l) == (l * SectorSize + Stop(l)) - req.address

InPart(i) == Start(lba) <= i /\ i < Stop(lba)

(* The request stays on the disk, and the sector at hand in the request.   *)
RequestInv ==
  /\ req.address \in Nat /\ req.size \in Nat
  /\ req.address + req.size <= Sectors * SectorSize
  /\ req.kind \in {"read", "write"}

PositionInv ==
  /\ pc \in {"off", "reset"} => served = 0
  /\ pc \in {"seek read", "read", "copy", "fill", "seek write", "write"} =>
       lba \in First .. End

(* A transfer begins only with the arm on the cylinder of its sector. *)
ArmInv == pc \in {"read", "write"} => arm = Cylinder(lba)

(* A read has handed out the range up to the sector at hand. *)
ReadInv ==
  req.kind = "read" =>
    /\ pc \notin {"fill", "seek write", "write"}
    /\ pc \in {"seek read", "read", "copy"} =>
         /\ index = Origin(lba)
         /\ out = [k \in 0 .. index - 1 |-> disk[req.address + k]]
    /\ pc = "copy" => \A i \in InSector : tmp[i] = disk[lba * SectorSize + i]

(* A write has put the range up to the sector at hand on the disk, and     *)
(* tmp_buffer holds the caller's bytes from fill on.                       *)
WriteInv ==
  req.kind = "write" =>
    /\ pc # "copy"
    /\ pc \in {"seek read", "read", "fill"} => index = Origin(lba)
    /\ pc \in {"seek write", "write"} =>
         /\ index = Reach(lba)
         /\ \A i \in InSector :
              InPart(i) => tmp[i] = Given((lba * SectorSize + i) - req.address)
    /\ (pc \in {"seek read", "read", "fill", "seek write", "write"} /\ ~late) =>
         \A k \in 0 .. Origin(lba) - 1 : disk[req.address + k] = Given(k)

(* Around them tmp_buffer holds what the disk does, if it is to preserve.  *)
KeepInv ==
  (req.kind = "write" /\ req.preserve) =>
    /\ pc = "fill" => \A i \in InSector : tmp[i] = disk[lba * SectorSize + i]
    /\ pc \in {"seek write", "write"} =>
         \A i \in InSector : ~InPart(i) => tmp[i] = disk[lba * SectorSize + i]

TransferInv == RequestInv /\ PositionInv /\ ArmInv /\ ReadInv /\ WriteInv /\ KeepInv
FloppyInv == TransferInv /\ Preserved /\ ReadExact /\ WriteExact

-----------------------------------------------------------------------------
(* Sectors and bytes. *)
LEMMA Sizes ==
  /\ SectorSize \in Nat /\ SectorSize >= 1 /\ PerTrack \in Nat /\ PerTrack >= 1
  /\ CylinderMod \in Nat /\ CylinderMod >= 1 /\ MaxTries \in Nat
  /\ Sectors \in Nat /\ MaxRequests \in Nat
  /\ Sectors < 2 * PerTrack * CylinderMod
<1>1. /\ {SectorSize, PerTrack, MaxTries, CylinderMod} \subseteq Nat \ {0}
      /\ {Sectors, MaxRequests} \subseteq Nat
      /\ Sectors < 2 * PerTrack * CylinderMod
  BY FloppyAssumption, Zenon
<1>2. SectorSize \in Nat \ {0} /\ PerTrack \in Nat \ {0} /\ CylinderMod \in Nat \ {0}
  BY <1>1
<1> QED BY <1>1, <1>2

LEMMA Division ==
  ASSUME NEW a \in Nat, NEW b \in Nat, b >= 1
  PROVE  /\ a \div b \in Nat /\ a % b \in Nat /\ a % b < b
         /\ a = (a \div b) * b + (a % b)
OBVIOUS

LEMMA SmallMod ==
  ASSUME NEW a \in Nat, NEW b \in Nat, a < b
  PROVE  a % b = a
OBVIOUS

LEMMA NoneBelow == 0 .. 0 - 1 = {}
OBVIOUS

LEMMA Times ==
  ASSUME NEW m \in Int, NEW n \in Int, NEW b \in Nat
  PROVE  /\ m * b \in Int
         /\ (m + 1) * b = m * b + b
         /\ m <= n => m * b <= n * b
<1>1. m * b \in Int /\ n * b \in Int /\ (m + 1) * b = m * b + b
  BY Z3
<1>2. ASSUME m <= n PROVE m * b <= n * b
  <2>1. (n - m) * b >= 0
    BY <1>2, Z3
  <2>2. (n - m) * b = n * b - m * b
    BY Z3
  <2> QED BY <1>1, <2>1, <2>2
<1> QED BY <1>1, <1>2

(* The quotient is the only number that brackets its multiple. *)
LEMMA Bracket ==
  ASSUME NEW a \in Int, NEW m \in Int, NEW n \in Int, NEW b \in Nat, b >= 1,
         m * b <= a, a < n * b + b
  PROVE  m <= n
<1> SUFFICES ASSUME m > n PROVE FALSE
  OBVIOUS
<1>1. (n + 1) * b = n * b + b /\ n * b \in Int /\ m * b \in Int
  BY Times
<1>2. (n + 1) * b <= m * b
  BY Times
<1> QED BY <1>1, <1>2

(* lba_to_chs and the drive's way back from the right cylinder: with fewer sectors than a uint8_t  *)
(* of cylinders can hold, the sector that is addressed is the one asked    *)
(* for, also the one right behind the disk.                                *)
LEMMA PlaceIsIdentity ==
  ASSUME NEW l \in Nat, l <= Sectors
  PROVE  Place(Cylinder(l), l) = l
<1> DEFINE track2 == 2 * PerTrack
           c == l \div track2
           r == l % track2
<1>1. track2 \in Nat /\ track2 >= 1 /\ track2 = 2 * PerTrack
  BY Sizes
<1>2. track2 * CylinderMod = 2 * PerTrack * CylinderMod /\ track2 * CylinderMod \in Nat
  BY Sizes, <1>1
<1>3. c \in Nat /\ r \in Nat /\ r < track2 /\ l = c * track2 + r
  BY <1>1, Division
<1>4. c < CylinderMod
  <2> SUFFICES ASSUME CylinderMod <= c PROVE FALSE
    BY <1>3, Sizes
  <2>1. CylinderMod * track2 <= c * track2 /\ c * track2 \in Int
    BY <1>1, <1>3, Sizes, Times
  <2>2. CylinderMod * track2 = track2 * CylinderMod
    BY <1>1, Sizes, Z3
  <2> HIDE DEF track2, c, r
  <2> QED BY <1>2, <1>3, <2>1, <2>2, Sizes
<1>5. Cylinder(l) = c
  <2>1. Cylinder(l) = c % CylinderMod
    BY DEF Cylinder
  <2> HIDE DEF c
  <2> QED BY <1>3, <1>4, <2>1, Sizes, SmallMod
<1>6. /\ Head(l) = r \div PerTrack /\ Sector(l) = (r % PerTrack) + 1
      /\ r \div PerTrack \in Nat /\ r % PerTrack \in Nat
      /\ r = (r \div PerTrack) * PerTrack + (r % PerTrack)
  BY <1>3, Sizes, Division DEF Head, Sector
<1> HIDE DEF c, r
<1>7. (2 * c + Head(l)) * PerTrack = c * track2 + Head(l) * PerTrack
  BY <1>3, <1>6, Sizes, Z3
<1>8. c * track2 \in Int /\ Head(l) * PerTrack \in Int
  BY <1>1, <1>3, <1>6, Sizes, Times
<1> HIDE DEF track2
<1> QED BY <1>3, <1>5, <1>6, <1>7, <1>8 DEF Place

LEMMA RequestNat ==
  ASSUME RequestInv
  PROVE  /\ req.address \in Nat /\ req.size \in Nat
         /\ req.address + req.size \in Nat
         /\ req.address + req.size <= Sectors * SectorSize
         /\ Sectors * SectorSize \in Nat
<1>1. /\ req.address \in Nat /\ req.size \in Nat
      /\ req.address + req.size <= Sectors * SectorSize
  BY Zenon DEF RequestInv
<1>2. req.address + req.size \in Nat
  BY <1>1
<1>3. Sectors * SectorSize \in Nat
  BY Sizes, Z3
<1> QED BY <1>1, <1>2, <1>3, Zenon

(* The range, sector by sector: its parts follow one another from its      *)
(* first byte to its last.                                                 *)
LEMMA Geometry ==
  ASSUME RequestInv
  PROVE  /\ First \in Nat /\ End \in Nat /\ First <= End /\ End <= Sectors
         /\ First * SectorSize + Start(First) = req.address
         /\ End * SectorSize + Stop(End) = req.address + req.size
         /\ Origin(First) = 0 /\ Reach(End) = req.size
<1> DEFINE a == req.address
           e == req.address + req.size
<1>1. a \in Nat /\ e \in Nat /\ a <= e /\ e <= Sectors * SectorSize
  <2>1. req.address \in Nat /\ req.size \in Nat /\ e <= Sectors * SectorSize
    BY RequestNat, Zenon
  <2>2. e \in Nat /\ a <= e
    BY <2>1
  <2> QED BY <2>1, <2>2, Zenon
<1>2. /\ First \in Nat /\ a % SectorSize \in Nat /\ a % SectorSize < SectorSize
      /\ a = First * SectorSize + (a % SectorSize)
  BY <1>1, Sizes, Division DEF First
<1>3. /\ End \in Nat /\ e % SectorSize \in Nat /\ e % SectorSize < SectorSize
      /\ e = End * SectorSize + (e % SectorSize)
  BY <1>1, Sizes, Division DEF End
<1>4. Start(First) = a % SectorSize /\ Stop(End) = e % SectorSize
  BY DEF Start, Stop
<1>5. /\ First * SectorSize \in Int /\ End * SectorSize \in Int
      /\ Sectors * SectorSize \in Int
  BY <1>2, <1>3, Sizes, Times
<1>6. First * SectorSize <= e /\ e < End * SectorSize + SectorSize
  <2> HIDE DEF a, e
  <2> QED BY <1>1, <1>2, <1>3, <1>5, Sizes
<1>7. First <= End
  <2>1. First \in Int /\ End \in Int /\ e \in Int
    BY <1>1, <1>2, <1>3
  <2> QED BY <1>6, <2>1, Sizes, Bracket, Zenon
<1>8. End <= Sectors
  <2>1. End * SectorSize <= e /\ e < Sectors * SectorSize + SectorSize
    <3> HIDE DEF a, e
    <3> QED BY <1>1, <1>3, <1>5, Sizes
  <2>2. Sectors \in Int /\ End \in Int /\ e \in Int
    BY <1>1, <1>3, Sizes
  <2> QED BY <2>1, <2>2, Sizes, Bracket, Zenon
<1>9. First * SectorSize + Start(First) = a /\ End * SectorSize + Stop(End) = e
  BY <1>2, <1>3, <1>4
<1>10. Origin(First) = 0
  <2>1. Origin(First) = a - a
    BY <1>9, Zenon DEF Origin
  <2> QED BY <1>1, <2>1
<1>11. Reach(End) = req.size
  <2>1. Reach(End) = e - a
    BY <1>9, Zenon DEF Reach
  <2>2. req.address \in Nat /\ req.size \in Nat
    BY RequestNat, Zenon
  <2> QED BY <2>1, <2>2
<1> QED BY <1>2, <1>3, <1>7, <1>8, <1>9, <1>10, <1>11

LEMMA Parts ==
  ASSUME RequestInv, NEW l \in First .. End
  PROVE  /\ l \in Nat /\ l <= Sectors /\ l * SectorSize \in Int
         /\ Start(l) \in Nat /\ Start(l) < SectorSize
         /\ Stop(l) \in Nat /\ Stop(l) <= SectorSize
         /\ Origin(l) \in Nat /\ Origin(l) <= req.size
         /\ Reach(l) \in Int /\ Reach(l) = Origin(l) + Stop(l) - Start(l)
         /\ l # End => l + 1 \in First .. End /\ Reach(l) = Origin(l + 1)
<1>1. /\ First \in Nat /\ End \in Nat /\ First <= End /\ End <= Sectors
      /\ First * SectorSize + Start(First) = req.address
      /\ End * SectorSize + Stop(End) = req.address + req.size
  BY Geometry
<1>2. l \in Nat /\ First <= l /\ l <= End /\ l <= Sectors
  BY <1>1, Sizes
<1>3. req.address \in Nat /\ req.size \in Nat /\ req.address + req.size \in Nat
  BY RequestNat, Zenon
<1>4. Start(l) \in Nat /\ Start(l) < SectorSize
  BY <1>3, Sizes, Division DEF Start
<1>5. Stop(l) \in Nat /\ Stop(l) <= SectorSize
  BY <1>3, Sizes, Division DEF Stop
<1>6. /\ l * SectorSize \in Int /\ First * SectorSize \in Int /\ End * SectorSize \in Int
      /\ (l + 1) * SectorSize = l * SectorSize + SectorSize
      /\ (First + 1) * SectorSize = First * SectorSize + SectorSize
  BY <1>1, <1>2, Sizes, Times
<1>7. l # First => Start(l) = 0 /\ req.address <= l * SectorSize
  <2> SUFFICES ASSUME l # First PROVE Start(l) = 0 /\ req.address <= l * SectorSize
    OBVIOUS
  <2>1. (First + 1) * SectorSize <= l * SectorSize
    BY <1>1, <1>2, Sizes, Times
  <2>2. Start(First) \in Nat /\ Start(First) < SectorSize
    BY <1>3, Sizes, Division DEF Start
  <2> QED BY <1>1, <1>3, <1>6, <2>1, <2>2, Sizes DEF Start
<1>8. l # End => Stop(l) = SectorSize /\ l * SectorSize + SectorSize <= req.address + req.size
  <2> SUFFICES ASSUME l # End
               PROVE  Stop(l) = SectorSize /\ l * SectorSize + SectorSize <= req.address + req.size
    OBVIOUS
  <2>1. (l + 1) * SectorSize <= End * SectorSize
    BY <1>1, <1>2, Sizes, Times
  <2>2. Stop(End) \in Nat
    BY <1>3, Sizes, Division DEF Stop
  <2> QED BY <1>1, <1>3, <1>6, <2>1, <2>2, Sizes DEF Stop
<1>9. Origin(l) \in Nat
  BY <1>1, <1>3, <1>4, <1>6, <1>7 DEF Origin
<1>10. Origin(l) <= req.size
  <2>1. CASE l # End
    BY <1>3, <1>4, <1>6, <1>8, <2>1, Sizes DEF Origin
  <2>2. CASE l = End /\ l # First
    BY <1>1, <1>3, <1>5, <1>6, <1>7, <2>2, Sizes DEF Origin
  <2>3. CASE l = First
    BY <1>1, <1>3, <1>4, <1>6, <2>3 DEF Origin
  <2> QED BY <2>1, <2>2, <2>3
<1>11. Reach(l) \in Int /\ Reach(l) = Origin(l) + Stop(l) - Start(l)
  BY <1>3, <1>4, <1>5, <1>6 DEF Origin, Reach
<1>12. ASSUME l # End PROVE l + 1 \in First .. End /\ Reach(l) = Origin(l + 1)
  <2>1. l + 1 # First /\ Start(l + 1) = 0
    BY <1>1, <1>2 DEF Start
  <2> QED BY <1>1, <1>2, <1>3, <1>6, <1>8, <1>12, <2>1, Sizes DEF Origin, Reach
<1> QED BY <1>2, <1>4, <1>5, <1>6, <1>9, <1>10, <1>11, <1>12

(* A byte of a sector of the range lies in the range just when it lies in  *)
(* the part of the sector that start and stop delimit.                     *)
LEMMA PartIsInRange ==
  ASSUME RequestInv, lba \in First .. End, NEW i \in InSector
  PROVE  /\ lba * SectorSize + i \in Int
         /\ InPart(i) <=> lba * SectorSize + i \in Range
<1>1. /\ First \in Nat /\ End \in Nat /\ First <= End
      /\ First * SectorSize + Start(First) = req.address
      /\ End * SectorSize + Stop(End) = req.address + req.size
  BY Geometry
<1>2. /\ lba * SectorSize \in Int /\ Start(lba) \in Nat /\ Stop(lba) \in Nat
      /\ req.address \in Nat /\ req.size \in Nat
      /\ Origin(lba) \in Nat
      /\ lba # End => Reach(lba) = Origin(lba + 1)
      /\ lba # End => lba + 1 \in First .. End
  BY Parts, RequestNat, Zenon
<1>3. i \in Int /\ 0 <= i /\ i < SectorSize
  BY Sizes DEF InSector
<1>4. Start(lba) <= i <=> req.address <= lba * SectorSize + i
  <2>1. CASE lba = First
    BY <1>1, <1>2, <1>3, <2>1
  <2>2. CASE lba # First
    <3>1. Start(lba) = 0
      BY <2>2 DEF Start
    <3> QED BY <1>2, <1>3, <3>1 DEF Origin
  <2> QED BY <2>1, <2>2
<1>5. i < Stop(lba) <=> lba * SectorSize + i < req.address + req.size
  <2>1. CASE lba = End
    BY <1>1, <1>2, <1>3, <2>1
  <2>2. CASE lba # End
    <3>1. Stop(lba) = SectorSize
      BY <2>2 DEF Stop
    <3>2. Origin(lba + 1) <= req.size
      BY <1>2, <2>2, Parts
    <3> QED BY <1>2, <1>3, <2>2, <3>1, <3>2, Sizes DEF Reach
  <2> QED BY <2>1, <2>2
<1> QED BY <1>2, <1>3, <1>4, <1>5 DEF InPart, Range

-----------------------------------------------------------------------------
(* The steps. *)
LEMMA SameRequest ==
  ASSUME req' = req
  PROVE  /\ First' = First /\ End' = End /\ Range' = Range
         /\ Start(lba)' = Start(lba') /\ Stop(lba)' = Stop(lba')
         /\ Origin(lba)' = Origin(lba') /\ Reach(lba)' = Reach(lba')
         /\ lba' = lba => \A i : InPart(i)' <=> InPart(i)
<1>1. First' = First /\ End' = End /\ Range' = Range
  BY DEF First, End, Range
<1>2. Start(lba)' = Start(lba') /\ Stop(lba)' = Stop(lba')
  BY <1>1 DEF Start, Stop
<1>3. Origin(lba)' = Origin(lba') /\ Reach(lba)' = Reach(lba')
  BY <1>2 DEF Origin, Reach
<1>4. ASSUME lba' = lba, NEW i PROVE InPart(i)' <=> InPart(i)
  BY <1>2, <1>4 DEF InPart
<1> QED BY <1>1, <1>2, <1>3, <1>4

(* A call that gives up leaves a disk that was preserved, and no promise   *)
(* about the buffers.                                                      *)
LEMMA GivesUp ==
  ASSUME FloppyInv, UNCHANGED <<req, before>>, pc' = "idle", result' = "false",
         Preserved'
  PROVE  FloppyInv'
<1>1. RequestInv' /\ PositionInv'
  BY Zenon DEF FloppyInv, TransferInv, RequestInv, PositionInv
<1>2. ReadInv' /\ WriteInv' /\ KeepInv'
  BY DEF ReadInv, WriteInv, KeepInv
<1>3. ReadExact' /\ WriteExact'
  BY DEF ReadExact, WriteExact
<1>4. ArmInv'
  BY DEF ArmInv
<1> QED BY <1>1, <1>2, <1>3, <1>4 DEF FloppyInv, TransferInv

LEMMA SameDiskPreserved ==
  ASSUME Preserved, UNCHANGED <<req, before, disk>>
  PROVE  Preserved'
<1>1. Range' = Range
  BY SameRequest
<1> QED BY <1>1 DEF Preserved

(* What starts the drive, and what moves the arm. *)
LEMMA StartUpStep ==
  ASSUME FloppyInv, NEW ok \in BOOLEAN, Identify(ok) \/ Reset(ok)
  PROVE  FloppyInv'
<1>1. /\ UNCHANGED <<req, lba, disk, before, served>> /\ served = 0
      /\ pc' \in {"off", "reset", "idle"}
  BY DEF Identify, Reset, Return, FloppyInv, TransferInv, PositionInv
<1>2. RequestInv' /\ PositionInv'
  BY <1>1, Zenon DEF FloppyInv, TransferInv, RequestInv, PositionInv
<1>3. ReadInv' /\ WriteInv' /\ KeepInv'
  BY <1>1 DEF ReadInv, WriteInv, KeepInv
<1>4. ReadExact' /\ WriteExact'
  BY <1>1 DEF ReadExact, WriteExact
<1>5. Preserved'
  BY <1>1, SameDiskPreserved DEF FloppyInv
<1>6. ArmInv'
  BY <1>1 DEF ArmInv
<1> QED BY <1>2, <1>3, <1>4, <1>5, <1>6 DEF FloppyInv, TransferInv

LEMMA SeekStep ==
  ASSUME FloppyInv, SeekTimeout \/ \E c \in 0 .. CylinderMod - 1 : SeekTo(c)
  PROVE  FloppyInv'
<1>1. /\ pc \in {"seek read", "seek write"}
      /\ UNCHANGED <<req, lba, index, tmp, disk, out, before, late, served>>
      /\ \/ pc' = "idle" /\ result' = "false"
         \/ pc' = pc
         \/ pc = "seek read" /\ pc' = "read" /\ arm' = Cylinder(lba)
         \/ pc = "seek write" /\ pc' = "write" /\ arm' = Cylinder(lba)
  BY DEF SeekTimeout, SeekTo, Seeking, Return
<1>2. Preserved'
  BY <1>1, SameDiskPreserved DEF FloppyInv
<1>3. CASE pc' = "idle" /\ result' = "false"
  BY <1>1, <1>2, <1>3, GivesUp
<1>4. CASE pc' # "idle"
  <2>1. /\ First' = First /\ End' = End
        /\ Origin(lba)' = Origin(lba) /\ Reach(lba)' = Reach(lba)
        /\ \A i : InPart(i)' <=> InPart(i)
    BY <1>1, SameRequest
  <2>2. RequestInv' /\ PositionInv'
    BY <1>1, <1>4, <2>1, Zenon DEF FloppyInv, TransferInv, RequestInv, PositionInv
  <2>3. ReadInv'
    BY <1>1, <1>4, <2>1 DEF FloppyInv, TransferInv, ReadInv
  <2>4. WriteInv'
    BY <1>1, <1>4, <2>1 DEF FloppyInv, TransferInv, WriteInv
  <2>5. KeepInv'
    BY <1>1, <1>4, <2>1 DEF FloppyInv, TransferInv, KeepInv
  <2>6. ReadExact' /\ WriteExact'
    BY <1>4 DEF ReadExact, WriteExact
  <2>7. ArmInv'
    BY <1>1, <1>4 DEF ArmInv, Cylinder
  <2> QED BY <1>2, <2>2, <2>3, <2>4, <2>5, <2>6, <2>7 DEF FloppyInv, TransferInv
<1> QED BY <1>1, <1>3, <1>4

LEMMA StutterStep == FloppyInv /\ UNCHANGED vars => FloppyInv'
<1> SUFFICES ASSUME FloppyInv, UNCHANGED vars PROVE FloppyInv'
  OBVIOUS
<1>1. UNCHANGED <<pc, req, lba, index, tmp, arm, disk, out, result, before, late, served>>
  BY DEF vars
<1>2. /\ First' = First /\ End' = End /\ Range' = Range
      /\ Origin(lba)' = Origin(lba) /\ Reach(lba)' = Reach(lba)
      /\ \A i : InPart(i)' <=> InPart(i)
  BY <1>1, SameRequest
<1>3. ArmInv'
  BY <1>1 DEF FloppyInv, TransferInv, ArmInv, Cylinder
<1>4. RequestInv' /\ PositionInv'
  BY <1>1, <1>2, Zenon DEF FloppyInv, TransferInv, RequestInv, PositionInv
<1>5. ReadInv'
  BY <1>1, <1>2 DEF FloppyInv, TransferInv, ReadInv
<1>6. WriteInv'
  BY <1>1, <1>2 DEF FloppyInv, TransferInv, WriteInv
<1>7. KeepInv'
  BY <1>1, <1>2 DEF FloppyInv, TransferInv, KeepInv
<1>8. Preserved' /\ ReadExact' /\ WriteExact'
  BY <1>1, <1>2 DEF FloppyInv, Preserved, ReadExact, WriteExact
<1> QED BY <1>3, <1>4, <1>5, <1>6, <1>7, <1>8 DEF FloppyInv, TransferInv

(* A new request. *)
LEMMA RequestStep ==
  ASSUME FloppyInv, NEW kind \in {"read", "write"}, NEW preserve \in BOOLEAN,
         NEW address \in Bytes, NEW size \in 0 .. Sectors * SectorSize - address,
         Request(kind, address, size, preserve)
  PROVE  FloppyInv'
<1>1. /\ req' = [kind |-> kind, address |-> address, size |-> size, preserve |-> preserve]
      /\ lba' = address \div SectorSize
      /\ pc' = IF kind = "read" \/ preserve THEN "seek read" ELSE "fill"
      /\ index' = 0 /\ result' = "none" /\ late' = FALSE
      /\ before' = disk /\ out' = [b \in {} |-> 0] /\ disk' = disk
  BY DEF Request
<1>2. /\ req'.kind = kind /\ req'.address = address /\ req'.size = size
      /\ req'.preserve = preserve
  BY <1>1
<1>3. address \in Nat /\ size \in Nat /\ address + size <= Sectors * SectorSize
  <2>1. Sectors * SectorSize \in Nat
    BY Sizes, Z3
  <2> DEFINE all == Sectors * SectorSize
  <2>2. all \in Nat /\ address \in 0 .. all - 1 /\ size \in 0 .. all - address
    BY <2>1 DEF Bytes
  <2> HIDE DEF all
  <2>3. address \in Nat /\ size \in Nat /\ address + size <= all
    BY <2>2
  <2> QED BY <2>3 DEF all
<1>4. lba' = First'
  BY <1>1, <1>2 DEF First
<1>5. RequestInv'
  BY <1>2, <1>3, Zenon DEF RequestInv
<1>6. (First \in Nat /\ End \in Nat /\ First <= End /\ Origin(First) = 0)'
  BY <1>5, Geometry, PTL
<1>7. PositionInv'
  <2>1. lba' \in First' .. End'
    BY <1>4, <1>6
  <2>2. pc' \notin {"off", "reset"}
    BY <1>1
  <2> QED BY <2>1, <2>2, Zenon DEF PositionInv
<1>8. Origin(lba)' = 0
  BY <1>4, <1>6
<1>9. ReadInv'
  <2>1. index' = 0 /\ 0 .. 0 - 1 = {}
    BY <1>1, Zenon, NoneBelow
  <2>2. out' = [k \in 0 .. index' - 1 |-> disk'[req'.address + k]]
    BY <1>1, <2>1
  <2>3. req'.kind = "read" => pc' = "seek read"
    BY <1>1, <1>2
  <2> QED BY <1>1, <1>8, <2>2, <2>3 DEF ReadInv
<1>10. WriteInv'
  <2>1. pc' \in {"seek read", "fill"}
    BY <1>1
  <2>2. 0 .. Origin(lba)' - 1 = {}
    BY <1>8
  <2> QED BY <1>1, <1>8, <2>1, <2>2 DEF WriteInv
<1>11. KeepInv'
  BY <1>1, <1>2 DEF KeepInv
<1>12. ReadExact' /\ WriteExact'
  BY <1>1 DEF ReadExact, WriteExact
<1>13. Preserved'
  BY <1>1 DEF Preserved
<1>14. ArmInv'
  BY <1>1 DEF ArmInv
<1> QED BY <1>5, <1>7, <1>9, <1>10, <1>11, <1>12, <1>13, <1>14 DEF FloppyInv, TransferInv

(* Reading a sector. *)
LEMMA UnderTheArm ==
  ASSUME TransferInv, pc \in {"read", "write"}
  PROVE  Under = lba
<1>1. lba \in First .. End /\ RequestInv /\ arm = Cylinder(lba)
  BY Zenon DEF TransferInv, PositionInv, ArmInv
<1>2. lba \in Nat /\ lba <= Sectors
  BY <1>1, Parts
<1> QED BY <1>1, <1>2, PlaceIsIdentity, Zenon DEF Under

LEMMA ContentIsSector ==
  ASSUME TransferInv, pc = "read", NEW i \in InSector
  PROVE  Content[i] = disk[lba * SectorSize + i]
<1>1. Under = lba
  BY UnderTheArm
<1> QED BY <1>1 DEF Content

LEMMA ReadSectorStep ==
  ASSUME FloppyInv, ReadSector
  PROVE  FloppyInv'
<1>1. /\ pc = "read" /\ tmp' = Content
      /\ pc' = IF req.kind = "read" THEN "copy" ELSE "fill"
      /\ UNCHANGED <<req, lba, index, disk, out, result, before, late, served>>
  BY DEF ReadSector
<1>2. /\ First' = First /\ End' = End
      /\ Origin(lba)' = Origin(lba) /\ Reach(lba)' = Reach(lba)
  BY <1>1, SameRequest
<1>3. \A i \in InSector : tmp'[i] = disk[lba * SectorSize + i]
  BY <1>1, ContentIsSector DEF FloppyInv
<1>4. RequestInv' /\ PositionInv'
  BY <1>1, <1>2, Zenon DEF FloppyInv, TransferInv, RequestInv, PositionInv
<1>5. ArmInv'
  BY <1>1 DEF ArmInv
<1>6. ReadInv'
  BY <1>1, <1>2, <1>3 DEF FloppyInv, TransferInv, ReadInv
<1>7. WriteInv'
  BY <1>1, <1>2 DEF FloppyInv, TransferInv, WriteInv, RequestInv
<1>8. KeepInv'
  BY <1>1, <1>3 DEF KeepInv
<1>9. ReadExact' /\ WriteExact'
  BY <1>1 DEF ReadExact, WriteExact
<1>10. Preserved'
  BY <1>1, SameDiskPreserved DEF FloppyInv
<1> QED BY <1>4, <1>5, <1>6, <1>7, <1>8, <1>9, <1>10 DEF FloppyInv, TransferInv

LEMMA ReadFailsStep ==
  ASSUME FloppyInv, NEW n, ReadFails(n)
  PROVE  FloppyInv'
<1>1. pc' = "idle" /\ result' = "false" /\ UNCHANGED <<req, before, disk>>
  BY DEF ReadFails, Return
<1> QED BY <1>1, GivesUp, SameDiskPreserved DEF FloppyInv

(* Going on to the next sector, or returning. *)
LEMMA NextSectorPosition ==
  ASSUME TransferInv, req' = req, served' = served, NextSector,
         pc \in {"copy", "write"}
  PROVE  /\ RequestInv' /\ PositionInv'
         /\ \/ lba = End /\ pc' = "idle" /\ result' = "true" /\ Reach(lba) = req.size
            \/ /\ pc' = IF req.kind = "read" \/ req.preserve THEN "seek read" ELSE "fill"
               /\ Origin(lba)' = Reach(lba)
<1>1. RequestInv /\ lba \in First .. End
  BY DEF TransferInv, PositionInv
<1>2. RequestInv'
  BY <1>1, Zenon DEF RequestInv
<1>3. CASE lba = End
  <2>1. pc' = "idle" /\ result' = "true"
    BY <1>3 DEF NextSector, Return
  <2>2. Reach(lba) = req.size
    BY <1>1, <1>3, Geometry
  <2>3. PositionInv'
    BY <2>1 DEF PositionInv
  <2> QED BY <1>2, <1>3, <2>1, <2>2, <2>3
<1>4. CASE lba # End
  <2>1. /\ lba' = lba + 1
        /\ pc' = IF req.kind = "read" \/ req.preserve THEN "seek read" ELSE "fill"
    BY <1>4 DEF NextSector
  <2>2. lba + 1 \in First .. End /\ Reach(lba) = Origin(lba + 1)
    BY <1>1, <1>4, Parts
  <2>3. First' = First /\ End' = End /\ Origin(lba)' = Origin(lba + 1)
    BY <2>1, SameRequest
  <2>4. lba' \in First' .. End'
    BY <2>1, <2>2, <2>3
  <2>5. pc' \in {"seek read", "fill"}
    BY <2>1
  <2>6. PositionInv'
    BY <2>4, <2>5, Zenon DEF PositionInv
  <2> QED BY <1>2, <2>1, <2>2, <2>3, <2>6
<1> QED BY <1>3, <1>4

LEMMA CopyStep ==
  ASSUME FloppyInv, Copy
  PROVE  FloppyInv'
<1>1. /\ pc = "copy"
      /\ out' = [k \in 0 .. index + Stop(lba) - Start(lba) - 1 |->
                   IF k < index THEN out[k] ELSE tmp[k - index + Start(lba)]]
      /\ index' = index + Stop(lba) - Start(lba)
      /\ NextSector /\ UNCHANGED <<req, tmp, disk, before, late, served>>
  BY DEF Copy
<1>2. req.kind = "read" /\ TransferInv /\ RequestInv /\ lba \in First .. End
  BY <1>1 DEF FloppyInv, TransferInv, WriteInv, RequestInv, PositionInv
<1>13. \A i \in InSector : tmp[i] = disk[lba * SectorSize + i]
  BY <1>1, <1>2 DEF FloppyInv, TransferInv, ReadInv
<1>3. /\ index = Origin(lba)
      /\ out = [k \in 0 .. index - 1 |-> disk[req.address + k]]
  BY <1>1, <1>2 DEF FloppyInv, TransferInv, ReadInv
<1>4. /\ lba \in Nat /\ lba <= Sectors /\ lba * SectorSize \in Int
      /\ Start(lba) \in Nat /\ Start(lba) < SectorSize
      /\ Stop(lba) \in Nat /\ Stop(lba) <= SectorSize
      /\ Origin(lba) \in Nat
      /\ Reach(lba) \in Int /\ Reach(lba) = Origin(lba) + Stop(lba) - Start(lba)
      /\ req.address \in Nat /\ req.size \in Nat
  BY <1>2, Parts, RequestNat
<1>5. index' = Reach(lba)
  BY <1>1, <1>3, <1>4
<1>6. out' = [k \in 0 .. Reach(lba) - 1 |-> disk[req.address + k]]
  <2>1. index + Stop(lba) - Start(lba) - 1 = Reach(lba) - 1
    BY <1>3, <1>4
  <2>2. ASSUME NEW k \in 0 .. Reach(lba) - 1, ~(k < index)
        PROVE  tmp[k - index + Start(lba)] = disk[req.address + k]
    <3> DEFINE i == k - index + Start(lba)
    <3>1. i \in InSector
      <4> DEFINE start == Start(lba)
                 stop == Stop(lba)
                 reach == Reach(lba)
      <4>1. /\ index \in Nat /\ start \in Nat /\ stop \in Nat /\ stop <= SectorSize
            /\ reach = index + stop - start /\ SectorSize \in Nat
        BY <1>3, <1>4, Sizes, Zenon
      <4>2. k \in 0 .. reach - 1 /\ ~(k < index)
        BY <2>2
      <4> HIDE DEF start, stop, reach
      <4>3. k - index + start \in 0 .. SectorSize - 1
        BY <4>1, <4>2
      <4> QED BY <4>3 DEF InSector, start
    <3>2. tmp[i] = disk[lba * SectorSize + i]
      <4> HIDE DEF i
      <4> QED BY <1>13, <3>1, Zenon
    <3>3. lba * SectorSize + i = req.address + k
      <4>1. index = (lba * SectorSize + Start(lba)) - req.address
        BY <1>3, Zenon DEF Origin
      <4>2. k \in Int /\ index \in Int
        BY <1>3, <1>4
      <4> DEFINE base == lba * SectorSize
      <4> HIDE DEF base
      <4>3. base + ((k - index) + Start(lba)) = req.address + k
        BY <1>4, <4>1, <4>2 DEF base
      <4> QED BY <4>3, Zenon DEF base
    <3> QED BY <3>2, <3>3
  <2>3. ASSUME NEW k \in 0 .. Reach(lba) - 1, k < index
        PROVE  out[k] = disk[req.address + k]
    BY <1>3, <1>4, <2>3
  <2> QED BY <1>1, <2>1, <2>2, <2>3
<1>7. /\ RequestInv' /\ PositionInv'
      /\ \/ pc' = "idle" /\ result' = "true" /\ Reach(lba) = req.size
         \/ /\ pc' = "seek read" /\ Origin(lba)' = Reach(lba)
  BY <1>1, <1>2, NextSectorPosition
<1>8. ReadInv'
  <2>1. out' = [k \in 0 .. index' - 1 |-> disk'[req'.address + k]]
    BY <1>1, <1>5, <1>6
  <2> QED BY <1>5, <1>7, <2>1 DEF ReadInv
<1>9. WriteInv' /\ KeepInv' /\ WriteExact'
  BY <1>1, <1>2 DEF WriteInv, KeepInv, WriteExact
<1>10. ReadExact'
  BY <1>1, <1>6, <1>7 DEF ReadExact
<1>11. Preserved'
  BY <1>1, SameDiskPreserved DEF FloppyInv
<1>12. ArmInv'
  BY <1>7 DEF ArmInv
<1> QED BY <1>7, <1>8, <1>9, <1>10, <1>11, <1>12 DEF FloppyInv, TransferInv

(* Filling tmp_buffer. *)
LEMMA FillStep ==
  ASSUME FloppyInv, Fill
  PROVE  FloppyInv'
<1>1. /\ pc = "fill"
      /\ tmp' = [i \in InSector |-> IF Start(lba) <= i /\ i < Stop(lba)
                                    THEN Given(index + i - Start(lba)) ELSE tmp[i]]
      /\ index' = index + Stop(lba) - Start(lba)
      /\ pc' = "seek write"
      /\ UNCHANGED <<req, lba, disk, out, result, before, late, served>>
  BY DEF Fill
<1>2. req.kind = "write" /\ RequestInv /\ lba \in First .. End
  BY <1>1 DEF FloppyInv, TransferInv, ReadInv, RequestInv, PositionInv
<1>3. index = Origin(lba)
  BY <1>1, <1>2 DEF FloppyInv, TransferInv, WriteInv
<1>4. /\ lba * SectorSize \in Int /\ Start(lba) \in Nat /\ Stop(lba) \in Nat
      /\ Origin(lba) \in Nat /\ Reach(lba) = Origin(lba) + Stop(lba) - Start(lba)
      /\ req.address \in Nat /\ req.size \in Nat
  BY <1>2, Parts, RequestNat
<1>5. /\ First' = First /\ End' = End
      /\ Origin(lba)' = Origin(lba) /\ Reach(lba)' = Reach(lba)
      /\ \A i : InPart(i)' <=> InPart(i)
  BY <1>1, SameRequest
<1>6. index' = Reach(lba)
  BY <1>1, <1>3, <1>4
<1>7. ASSUME NEW i \in InSector, InPart(i)
      PROVE  tmp'[i] = Given((lba * SectorSize + i) - req.address)
  <2>1. tmp'[i] = Given(index + i - Start(lba))
    BY <1>1, <1>7 DEF InPart
  <2>2. index = (lba * SectorSize + Start(lba)) - req.address
    BY <1>3 DEF Origin
  <2>3. i \in Int
    BY Sizes DEF InSector
  <2>4. index + i - Start(lba) = (lba * SectorSize + i) - req.address
    BY <1>3, <1>4, <2>2, <2>3
  <2> QED BY <2>1, <2>4
<1>8. ASSUME NEW i \in InSector, ~InPart(i)
      PROVE  tmp'[i] = tmp[i]
  BY <1>1, <1>8 DEF InPart
<1>9. RequestInv' /\ PositionInv'
  BY <1>1, <1>2, <1>5, Zenon DEF RequestInv, PositionInv
<1>10. ReadInv' /\ ReadExact' /\ WriteExact'
  BY <1>1, <1>2 DEF ReadInv, ReadExact, WriteExact
<1>11. WriteInv'
  <2>1. ~late => \A k \in 0 .. Origin(lba) - 1 : disk[req.address + k] = Given(k)
    BY <1>1, <1>2 DEF FloppyInv, TransferInv, WriteInv
  <2> QED BY <1>1, <1>5, <1>6, <1>7, <2>1 DEF WriteInv
<1>12. KeepInv'
  <2>1. req.preserve => \A i \in InSector : tmp[i] = disk[lba * SectorSize + i]
    BY <1>1, <1>2 DEF FloppyInv, TransferInv, KeepInv
  <2> QED BY <1>1, <1>5, <1>8, <2>1 DEF KeepInv
<1>13. Preserved'
  BY <1>1, SameDiskPreserved DEF FloppyInv
<1>14. ArmInv'
  BY <1>1 DEF ArmInv
<1> QED BY <1>9, <1>10, <1>11, <1>12, <1>13, <1>14 DEF FloppyInv, TransferInv

(* What a transfer to the disk changes, complete or not: bytes of the      *)
(* range, if the write is to preserve, and these to what the caller gave.  *)
LEMMA ByteOfSector ==
  ASSUME NEW b \in Nat
  PROVE  /\ b % SectorSize \in InSector /\ b \div SectorSize \in Nat
         /\ b = (b \div SectorSize) * SectorSize + (b % SectorSize)
BY Division, Sizes DEF InSector

LEMMA PutKeepsOutside ==
  ASSUME TransferInv, pc = "write", req.preserve, NEW taken, NEW b \in Bytes \ Range
  PROVE  Put(taken)[b] = disk[b]
<1>1. req.kind = "write" /\ RequestInv /\ lba \in First .. End
  BY DEF TransferInv, ReadInv, RequestInv, PositionInv
<1>2. lba \in Nat /\ lba <= Sectors
  BY <1>1, Parts
<1>3. Under = lba
  BY UnderTheArm
<1>4. b \in Nat /\ b \in Bytes
  BY DEF Bytes
<1>5. CASE b \div SectorSize = lba
  <2> DEFINE i == b % SectorSize
  <2>1. i \in InSector /\ b = lba * SectorSize + i
    BY <1>4, <1>5, ByteOfSector
  <2>2. ~InPart(i)
    BY <1>1, <2>1, PartIsInRange
  <2>3. tmp[i] = disk[b]
    BY <1>1, <2>1, <2>2 DEF TransferInv, KeepInv
  <2> QED BY <1>4, <2>3 DEF Put
<1>6. CASE b \div SectorSize # lba
  BY <1>3, <1>4, <1>6 DEF Put
<1> QED BY <1>5, <1>6

LEMMA PutPreserves ==
  ASSUME FloppyInv, pc = "write", NEW taken, disk' = Put(taken), UNCHANGED <<req, before>>
  PROVE  Preserved'
<1>1. Range' = Range
  BY SameRequest
<1>2. ASSUME req.kind = "write", req.preserve, NEW b \in Bytes \ Range
      PROVE  disk'[b] = before[b]
  <2>1. disk'[b] = disk[b]
    BY <1>2, PutKeepsOutside DEF FloppyInv
  <2> QED BY <1>2, <2>1 DEF FloppyInv, Preserved
<1> QED BY <1>1, <1>2 DEF Preserved

LEMMA PutWritten ==
  ASSUME TransferInv, pc = "write", ~late, OnDisk, disk' = Put(InSector),
         NEW k \in 0 .. Reach(lba) - 1
  PROVE  disk'[req.address + k] = Given(k)
<1> DEFINE b == req.address + k
<1>1. req.kind = "write" /\ RequestInv /\ lba \in First .. End
  BY DEF TransferInv, ReadInv, RequestInv, PositionInv
<1>2. /\ lba \in Nat /\ lba <= Sectors /\ lba * SectorSize \in Int
      /\ Start(lba) \in Nat /\ Start(lba) < SectorSize
      /\ Stop(lba) \in Nat /\ Stop(lba) <= SectorSize
      /\ Origin(lba) \in Nat /\ Reach(lba) \in Int
      /\ lba # End => lba + 1 \in First .. End /\ Reach(lba) = Origin(lba + 1)
      /\ req.address \in Nat /\ req.size \in Nat
      /\ req.address + req.size <= Sectors * SectorSize
      /\ Sectors * SectorSize \in Nat
  BY <1>1, Parts, RequestNat, Zenon
<1>3. Under = lba
  BY UnderTheArm
<1>4. Reach(lba) <= req.size
  <2>1. CASE lba = End
    BY <1>1, <1>2, <2>1, Geometry
  <2>2. CASE lba # End
    BY <1>1, <1>2, <2>2, Parts
  <2> QED BY <2>1, <2>2
<1>5. k \in Nat /\ k < req.size /\ b \in Nat
  BY <1>2, <1>4
<1>6. b \in Bytes
  <2> DEFINE all == Sectors * SectorSize
  <2>1. all \in Nat /\ req.address + req.size <= all
    BY <1>2, Zenon
  <2> HIDE DEF all
  <2>2. b \in 0 .. all - 1
    BY <1>2, <1>5, <2>1
  <2> QED BY <2>2 DEF Bytes, all
<1>7. CASE b \div SectorSize = lba
  <2> DEFINE i == b % SectorSize
  <2>1. i \in InSector /\ b = lba * SectorSize + i
    BY <1>5, <1>7, ByteOfSector
  <2>2. b \in Range
    BY <1>2, <1>5 DEF Range
  <2>3. InPart(i)
    BY <1>1, <2>1, <2>2, PartIsInRange
  <2>4. tmp[i] = Given((lba * SectorSize + i) - req.address)
    BY <1>1, <2>1, <2>3 DEF TransferInv, WriteInv
  <2>5. (lba * SectorSize + i) - req.address = b - req.address /\ b - req.address = k
    BY <1>2, <1>5, <2>1
  <2>6. disk'[b] = tmp[i]
    BY <1>3, <1>6, <1>7, <2>1 DEF Put
  <2> QED BY <2>4, <2>5, <2>6
<1>8. CASE b \div SectorSize # lba
  <2> DEFINE q == b \div SectorSize
             i == b % SectorSize
  <2>1. /\ q \in Nat /\ i \in Nat /\ i < SectorSize /\ b = q * SectorSize + i
        /\ q * SectorSize \in Int
    <3>1. q \in Nat /\ i \in InSector /\ b = q * SectorSize + i
      BY <1>5, ByteOfSector, Zenon
    <3> HIDE DEF q, i
    <3>2. i \in Nat /\ i < SectorSize
      BY <3>1, Sizes DEF InSector
    <3> QED BY <3>1, <3>2, Sizes, Times
  <2>2. b < lba * SectorSize + SectorSize
    BY <1>2, <1>5, Sizes DEF Reach
  <2> HIDE DEF q, i
  <2>3. q <= lba
    <3>1. q * SectorSize <= b /\ b \in Int /\ q \in Int /\ lba \in Int
      BY <1>2, <1>5, <2>1
    <3> QED BY <2>2, <3>1, Sizes, Bracket, Zenon
  <2>4. q + 1 <= lba
    BY <1>2, <1>8, <2>1, <2>3 DEF q
  <2>5. (q + 1) * SectorSize = q * SectorSize + SectorSize
        /\ (q + 1) * SectorSize <= lba * SectorSize
    BY <1>2, <2>1, <2>4, Sizes, Times
  <2>6. k < Origin(lba)
    <3>1. b < lba * SectorSize
      BY <1>2, <2>1, <2>5, Sizes
    <3> QED BY <1>2, <1>5, <3>1 DEF Origin
  <2>7. disk[b] = Given(k)
    <3>1. k \in 0 .. Origin(lba) - 1
      BY <1>2, <1>5, <2>6
    <3> QED BY <1>1, <3>1 DEF TransferInv, WriteInv
  <2>8. disk'[b] = disk[b]
    BY <1>3, <1>6, <1>8 DEF Put
  <2> QED BY <2>7, <2>8
<1> QED BY <1>7, <1>8

LEMMA WriteFailsStep ==
  ASSUME FloppyInv, NEW taken, WriteFails(taken)
  PROVE  FloppyInv'
<1>1. /\ pc = "write" /\ disk' = Put(taken) /\ pc' = "idle" /\ result' = "false"
      /\ UNCHANGED <<req, before>>
  BY DEF WriteFails, Return
<1> QED BY <1>1, GivesUp, PutPreserves

(* A sector taken for written, and the next one. *)
LEMMA WrittenStep ==
  ASSUME FloppyInv, pc = "write", NEW taken, disk' = Put(taken), NextSector,
         UNCHANGED <<req, index, before, served>>,
         ~late' => ~late /\ OnDisk /\ taken = InSector
  PROVE  FloppyInv'
<1>1. TransferInv /\ req.kind = "write" /\ index = Reach(lba)
  BY DEF FloppyInv, TransferInv, ReadInv, WriteInv, RequestInv
<1>2. /\ RequestInv' /\ PositionInv'
      /\ \/ pc' = "idle" /\ result' = "true" /\ Reach(lba) = req.size
         \/ /\ pc' = IF req.preserve THEN "seek read" ELSE "fill"
            /\ Origin(lba)' = Reach(lba)
  BY <1>1, NextSectorPosition
<1>3. ASSUME ~late', NEW k \in 0 .. Reach(lba) - 1
      PROVE  disk'[req'.address + k] = Given(k)
  BY <1>1, <1>3, PutWritten
<1>4. Preserved'
  BY PutPreserves
<1>5. ReadInv' /\ ReadExact'
  BY <1>1 DEF ReadInv, ReadExact
<1>6. WriteExact'
  BY <1>2, <1>3 DEF WriteExact
<1>7. WriteInv'
  BY <1>1, <1>2, <1>3 DEF WriteInv
<1>8. KeepInv'
  BY <1>2 DEF KeepInv
<1>9. ArmInv'
  BY <1>2 DEF ArmInv
<1> QED BY <1>2, <1>4, <1>5, <1>6, <1>7, <1>8, <1>9 DEF FloppyInv, TransferInv

LEMMA WriteSectorStep ==
  ASSUME FloppyInv,
         \/ WriteSector
         \/ \E taken \in Halves, calibrated \in BOOLEAN : WriteLate(taken, calibrated)
  PROVE  FloppyInv'
<1>1. CASE WriteSector
  <2>1. /\ pc = "write" /\ OnDisk /\ disk' = Put(InSector) /\ NextSector
        /\ UNCHANGED <<req, index, before, late, served>>
    BY <1>1 DEF WriteSector
  <2> QED BY <2>1, WrittenStep
<1>2. ASSUME NEW taken \in Halves, NEW calibrated \in BOOLEAN, WriteLate(taken, calibrated)
      PROVE  FloppyInv'
  <2>1. /\ pc = "write" /\ disk' = Put(taken) /\ late' = TRUE /\ NextSector
        /\ UNCHANGED <<req, index, before, served>>
    BY <1>2 DEF WriteLate
  <2> QED BY <2>1, WrittenStep
<1> QED BY <1>1, <1>2

-----------------------------------------------------------------------------
LEMMA FloppyInit == Init => FloppyInv
<1> SUFFICES ASSUME Init PROVE FloppyInv
  OBVIOUS
<1>1. /\ req.kind = "read" /\ req.address = 0 /\ req.size = 0
      /\ pc = "off" /\ served = 0
  BY DEF Init
<1>2. RequestInv
  <2>1. Sectors * SectorSize \in Nat
    BY Sizes, Z3
  <2> DEFINE all == Sectors * SectorSize
  <2>2. all \in Nat
    BY <2>1
  <2> HIDE DEF all
  <2>3. req.address + req.size <= all
    BY <1>1, <2>2
  <2> QED BY <1>1, <2>3 DEF RequestInv, all
<1>3. PositionInv /\ ArmInv /\ ReadInv /\ WriteInv /\ KeepInv
  BY <1>1 DEF PositionInv, ArmInv, ReadInv, WriteInv, KeepInv
<1>4. Preserved /\ ReadExact /\ WriteExact
  BY <1>1 DEF Preserved, ReadExact, WriteExact
<1> QED BY <1>2, <1>3, <1>4 DEF FloppyInv, TransferInv

LEMMA FloppyStep == FloppyInv /\ [Next]_vars => FloppyInv'
<1> SUFFICES ASSUME FloppyInv, [Next]_vars PROVE FloppyInv'
  OBVIOUS
<1>1. ASSUME NEW n \in {0, SectorSize \div 2, SectorSize}, ReadFails(n) PROVE FloppyInv'
  BY <1>1, ReadFailsStep
<1>2. ASSUME NEW taken \in Halves, WriteFails(taken) PROVE FloppyInv'
  BY <1>2, WriteFailsStep
<1>3. ASSUME NEW kind \in {"read", "write"}, NEW preserve \in BOOLEAN, NEW address \in Bytes,
             NEW size \in 0 .. Sectors * SectorSize - address,
             Request(kind, address, size, preserve)
      PROVE  FloppyInv'
  BY <1>3, RequestStep
<1> QED BY <1>1, <1>2, <1>3, StartUpStep, SeekStep, ReadSectorStep, CopyStep, FillStep,
           WriteSectorStep, StutterStep, Zenon
        DEF Next

(* What the driver has moved at every one of its waits: the inductive      *)
(* invariant behind the next three.                                        *)
THEOREM TransfersInductive == Spec => []FloppyInv
BY FloppyInit, FloppyStep, PTL DEF Spec

(* floppy_write with preserve set leaves alone what it was not given,      *)
(* wherever it gives up and whatever part of a sector reached the disk.    *)
THEOREM WritesPreserve == Spec => []Preserved
<1>1. FloppyInv => Preserved
  BY DEF FloppyInv
<1> QED BY <1>1, TransfersInductive, PTL

(* floppy_read returns true only with the whole range, in order, in the    *)
(* caller's buffer.                                                        *)
THEOREM ReadsAreExact == Spec => []ReadExact
<1>1. FloppyInv => ReadExact
  BY DEF FloppyInv
<1> QED BY <1>1, TransfersInductive, PTL

(* floppy_write returns true, with the controller always answering after   *)
(* the data, only with the whole range on the disk.                        *)
THEOREM WritesAreExact == Spec => []WriteExact
<1>1. FloppyInv => WriteExact
  BY DEF FloppyInv
<1> QED BY <1>1, TransfersInductive, PTL

=============================================================================
