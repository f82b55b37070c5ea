--------------------------- MODULE VolumeReport ----------------------------
(***************************************************************************)
(* main of DiskInfo, DiskCheck, FloppyTest and TrackInfo: Lock, Info and   *)
(* UnLock of one path, and what each tool makes of the InfoData.  Its      *)
(* fields are signed words a handler may fill with anything.               *)
(***************************************************************************)
EXTENDS Startup

CONSTANTS Figures,     \* the values of a LONG field that are tried, but -1
          MaxWord      \* 0xffffffff

ASSUME VolumeAssumption == Figures \subseteq Nat /\ MaxWord \in Nat

VARIABLES info,        \* info_data
          informed,    \* Info has filled it
          lock,
          bytes,       \* what DiskInfo prints for total and free
          sectors      \* what TrackInfo infers

volume == <<info, informed, lock, bytes, sectors>>

VolumeTools == {"DiskInfo", "DiskCheck", "FloppyTest", "TrackInfo"}
Longs == Figures \cup {-1}
InfoData == [blocks : Longs, used : Longs, size : Longs]
Zero == [blocks |-> 0, used |-> 0, size |-> 0]
Overflow == -1

VolumeTypeOK ==
  /\ info \in InfoData \cup {Zero} /\ {informed, lock} \subseteq BOOLEAN
  /\ bytes \in [total : Overflow..MaxWord, free : Overflow..MaxWord]
  /\ sectors \in Nat

VolumeInit ==
  /\ info = Zero /\ informed = FALSE /\ lock = FALSE
  /\ bytes = [total |-> 0, free |-> 0] /\ sectors = 0

-----------------------------------------------------------------------------
\* A negative field counts as 0.
Unsigned(n) == Max({n, 0})

FreeBlocks(d) == Unsigned(Unsigned(d.blocks) - Unsigned(d.used))

\* The test for an overflow lets the first product through that wraps around.
PutByteCount_OneMore(blocks, size) ==
  IF size # 0 /\ blocks > MaxWord \div size + 1 THEN Overflow
  ELSE (blocks * size) % (MaxWord + 1)

\* put_byte_count: the product, or the word OVERFLOW.
PutByteCount(blocks, size) ==
  IF size # 0 /\ blocks > MaxWord \div size THEN Overflow
  ELSE (blocks * size) % (MaxWord + 1)

Where(test, problem) == IF test THEN {problem} ELSE {}

\* DiskCheck takes a block size of 0 for granted.
Problems_SizeZero(d) ==
  Where(d.blocks < 0, "negative total") \cup Where(d.used < 0, "negative used")
    \cup Where(d.size < 0, "negative size") \cup Where(d.blocks <= 0, "zero total")
    \cup Where(d.blocks >= 0 /\ d.used >= 0 /\ d.used > d.blocks, "used > total")

\* What DiskCheck complains about; a negative field counts as 0, too.
Problems(d) ==
  Where(d.blocks < 0, "negative total") \cup Where(d.used < 0, "negative used")
    \cup Where(d.size < 0, "negative size") \cup Where(d.size <= 0, "zero size")
    \cup Where(d.blocks <= 0, "zero total")
    \cup Where(d.blocks >= 0 /\ d.used >= 0 /\ d.used > d.blocks, "used > total")

\* FloppyTest's test of the InfoData.
MediaValid(d) == d.blocks > 0 /\ d.used >= 0 /\ d.used <= d.blocks /\ d.size > 0

\* Sectors per track, for the two sizes of floppy disks; 0 if unknown.
Geometry(d) ==
  CASE d.blocks = 1760 /\ d.size = 512 -> 11
    [] d.blocks = 3520 /\ d.size = 512 -> 22
    [] OTHER -> 0

-----------------------------------------------------------------------------
VolumeArgs ==
  /\ pc = "main" /\ tool \in VolumeTools
  /\ IF argc > 2 THEN Return(10) ELSE Goto("lock")
  /\ UNCHANGED <<tool, startup, volume>>

LockPath ==
  /\ pc = "lock"
  /\ \/ lock' = TRUE /\ Goto("info")
     \/ UNCHANGED lock /\ Return(5)
  /\ UNCHANGED <<tool, startup, info, informed, bytes, sectors>>

\* Info and UnLock.
ReadInfo ==
  /\ pc = "info" /\ lock' = FALSE
  /\ \/ info' \in InfoData /\ informed' = TRUE /\ Goto("report")
     \/ UNCHANGED <<info, informed>> /\ Return(5)
  /\ UNCHANGED <<tool, startup, bytes, sectors>>

DiskInfo ==
  /\ pc = "report" /\ tool = "DiskInfo"
  /\ bytes' = [total |-> PutByteCount(Unsigned(info.blocks), Unsigned(info.size)),
               free |-> PutByteCount(FreeBlocks(info), Unsigned(info.size))]
  /\ Return(IF Overflow \in {bytes'.total, bytes'.free} THEN 5 ELSE 0)
  /\ UNCHANGED <<tool, startup, info, informed, lock, sectors>>

DiskCheck ==
  /\ pc = "report" /\ tool = "DiskCheck"
  /\ Return(IF Problems(info) = {} THEN 0 ELSE 5)
  /\ UNCHANGED <<tool, startup, volume>>

FloppyTest ==
  /\ pc = "report" /\ tool = "FloppyTest"
  /\ Return(IF MediaValid(info) THEN 0 ELSE 5)
  /\ UNCHANGED <<tool, startup, volume>>

TrackInfo ==
  /\ pc = "report" /\ tool = "TrackInfo"
  /\ IF info.blocks <= 0 \/ info.size <= 0
     THEN Return(5) /\ UNCHANGED sectors
     ELSE Return(0) /\ sectors' = Geometry(info)
  /\ UNCHANGED <<tool, startup, info, informed, lock, bytes>>

Volume ==
  \/ VolumeArgs \/ LockPath \/ ReadInfo
  \/ DiskInfo \/ DiskCheck \/ FloppyTest \/ TrackInfo

-----------------------------------------------------------------------------
Reported == pc = "done" /\ informed

\* A number of bytes DiskInfo prints is the true product; OVERFLOW, and return
\* code 5, is for products that do not fit a word.
BytesExactOrOverflow ==
  LET size == Unsigned(info.size)
      True(blocks) == IF blocks * size > MaxWord THEN Overflow ELSE blocks * size
  IN  /\ bytes = [total |-> True(Unsigned(info.blocks)), free |-> True(FreeBlocks(info))]
      /\ rc = 5 <=> bytes.total = Overflow

\* What the four tools say of one InfoData is true and fits together.  DiskInfo's
\* products are exact.  DiskCheck, which collects problems, and FloppyTest, which
\* asks for one sane set of figures, pass exactly the same disks; the figures of
\* a disk that passes add up: free and used blocks make the total.  TrackInfo
\* refuses none of these disks, and a geometry it infers has as many blocks as
\* the disk.
FiguresAreTrue ==
  Reported =>
    /\ tool = "DiskInfo" => BytesExactOrOverflow
    /\ tool \in {"DiskCheck", "FloppyTest"} =>
         /\ rc = 0 <=> Problems(info) = {}
         /\ rc = 0 <=> MediaValid(info)
         /\ rc = 0 => FreeBlocks(info) + info.used = info.blocks
    /\ tool = "TrackInfo" =>
         /\ MediaValid(info) => rc = 0
         /\ sectors # 0 => 80 * 2 * sectors = info.blocks
=============================================================================
