-------------------------- MODULE CompactionProofs --------------------------
(***************************************************************************)
(* Compaction keeps its promises for any IDs, whatever fails and whenever   *)
(* the process ends; and its packed pages hold every vector once.           *)
(***************************************************************************)
EXTENDS Compaction, Packing, TLAPS

Stages == {"close", "backup", "install", "reopen", "unlink"}

\* What the variables outside TypeOK hold.
Shapes ==
    /\ status \in {"open", "down"} /\ handle \in {"open", "closed"} /\ versions \in {"open", "closed"}
    /\ job \in {Idle} \cup [stage : Stages, tmp : FileTypes, found : SUBSET Ids]
    /\ tx \in {NoTx} \cup [stage : {"versions", "page", "index"}, id : Ids, kind : {"store", "remove"}]
    /\ acked \subseteq Ids /\ clobbered \subseteq Ids /\ purged \subseteq Ids
    /\ orphaned \in BOOLEAN
    /\ status = "down" => index = {} /\ uncovered = {} /\ job = Idle /\ tx = NoTx /\ walBuffer = {}

\* Where the files are at each stage.
FilesInPlace ==
    /\ path = Missing => bak # Missing /\ ~orphaned
    /\ status = "open" /\ handle = "open" => path # Missing
    /\ job # Idle =>
          /\ job.tmp = File(index, index)
          /\ job.found \subseteq index
    /\ job.stage \in {"backup", "install", "reopen"} => handle = "closed"
    /\ job.stage = "install" => path = Missing
    /\ job.stage \in {"reopen", "unlink"} => path = job.tmp /\ ~orphaned
    /\ status = "open" /\ handle = "open" => index \subseteq path.vectors \cup uncovered

\* What was acknowledged is live, unless it lies in an abandoned .bak.
AcknowledgedLive ==
    status = "open" =>
        \A i \in acked \ clobbered : i \in index \/ (orphaned /\ i \in bak.vectors)

\* What was purged is in no log, on no page to be covered, and in no file that may
\* become the database again.
PurgedGone ==
    /\ purged \cap (wal \cup walBuffer \cup uncovered) = {}
    /\ job.stage = "install" => bak.vectors \cap purged = {}

IInv ==
    /\ TypeOK /\ Shapes /\ FilesInPlace
    /\ AcknowledgedLive /\ AcknowledgedSurvive /\ CrashLosesNothing
    /\ PurgedGone /\ PurgedStayAway

-----------------------------------------------------------------------------
\* The file of a new database.
LEMMA EmptyFile ==
    /\ File({}, NoRoot) \in FileTypes /\ File({}, NoRoot) # Missing
    /\ File({}, NoRoot).vectors = {} /\ File({}, NoRoot).root = NoRoot
  <1>1. File({}, NoRoot) \in FileTypes
    <2>1. {} \in SUBSET Ids
      OBVIOUS
    <2>2. NoRoot \in (SUBSET Ids) \cup {NoRoot}
      OBVIOUS
    <2> QED
      BY <2>1, <2>2 DEF File, FileTypes
  <1>2. File({}, NoRoot) # Missing
    BY <1>1, ConstantsAssumption
  <1>3. File({}, NoRoot).vectors = {} /\ File({}, NoRoot).root = NoRoot
    BY DEF File
  <1> QED
    BY <1>1, <1>2, <1>3

LEMMA InitIInv == Init => IInv
  <1> SUFFICES ASSUME Init
               PROVE  IInv
    OBVIOUS
  <1> USE DEF Init, Idle, NoTx
  <1>1. path \in FileTypes /\ path # Missing /\ path.vectors = {} /\ path.root = NoRoot
    BY EmptyFile
  <1>2. TypeOK /\ Shapes
    BY <1>1 DEF TypeOK, Shapes
  <1>3. FilesInPlace /\ AcknowledgedLive /\ AcknowledgedSurvive /\ CrashLosesNothing
    BY <1>1 DEF FilesInPlace, AcknowledgedLive, AcknowledgedSurvive, CrashLosesNothing
  <1>4. PurgedGone /\ PurgedStayAway
    BY <1>1 DEF PurgedGone, PurgedStayAway
  <1> QED
    BY <1>2, <1>3, <1>4 DEF IInv

LEMMA StepIInv == IInv /\ [Next]_vars => IInv'
  <1> SUFFICES ASSUME IInv, [Next]_vars
               PROVE  IInv'
    OBVIOUS
  <1> USE ConstantsAssumption
      DEF IInv, TypeOK, Shapes, FilesInPlace, AcknowledgedLive, AcknowledgedSurvive,
          CrashLosesNothing, PurgedGone, PurgedStayAway, FileTypes, File, Idle, NoTx, Findable,
          Loaded, Stages, files, logs, memory, versionVars, bounds, history
  <1>1. ASSUME NEW i \in Ids, Store(i)
        PROVE  IInv'
    BY <1>1 DEF Store, Write, LockFree, HeaderWritten
  <1>2. ASSUME NEW i \in Ids, NEW kind \in {"store", "remove"}, CommitLog(i, kind)
        PROVE  IInv'
    BY <1>2 DEF CommitLog, Write
  <1>3. CASE CommitAllocate
    BY <1>3 DEF CommitAllocate
  <1>4. CASE CommitVersion
    BY <1>4 DEF CommitVersion
  <1>5. CASE CommitIndex
    BY <1>5 DEF CommitIndex, CommitLock, LockFree, HeaderWritten
  <1>6. CASE Checkpoint
    BY <1>6 DEF Checkpoint, LockFree
  <1>7. CASE GarbageCollect
    BY <1>7 DEF GarbageCollect, LockFree
  <1>8. CASE Close
    BY <1>8 DEF Close, LockFree, Forget
  <1>9. CASE CompactTmp
    BY <1>9 DEF CompactTmp, LockFree, LiveVectors
  <1>10. CASE CompactClose
    BY <1>10 DEF CompactClose, ClosedVersions
  <1>11. CASE CompactBackup
    <2>0. /\ job \in [stage : Stages, tmp : FileTypes, found : SUBSET Ids]
          /\ job # Idle /\ job.stage = "backup"
          /\ job.tmp = File(index, index) /\ job.found \subseteq index
      BY <1>11 DEF CompactBackup
    <2>c. orphaned => bak.vectors \subseteq Ids
      OBVIOUS
    <2>a. ASSUME path # Missing, job' = [job EXCEPT !.stage = "install"], path' = Missing,
                 orphaned' = FALSE
          PROVE  TypeOK' /\ Shapes' /\ FilesInPlace'
      <3>1. job' \in [stage : Stages, tmp : FileTypes, found : SUBSET Ids]
        <4> HIDE DEF FileTypes, File
        <4> QED
          BY <2>0, <2>a DEF Stages
      <3>2. job'.stage = "install" /\ job'.tmp = job.tmp /\ job'.found = job.found
        <4> HIDE DEF FileTypes, File
        <4> QED
          BY <2>0, <2>a DEF Stages
      <3>3. TypeOK'
        BY <1>11, <2>a, <3>2 DEF CompactBackup
      <3>4. Shapes'
        <4> HIDE DEF FileTypes, File
        <4> QED
          BY <1>11, <2>0, <2>a, <2>c, <3>1 DEF CompactBackup
      <3>5. FilesInPlace'
        <4> HIDE DEF FileTypes, File
        <4> QED
          BY <1>11, <2>0, <2>a, <3>2 DEF CompactBackup
      <3> QED
        BY <3>3, <3>4, <3>5
    <2>b. ASSUME job' = Idle, UNCHANGED <<files, orphaned, clobbered>>
          PROVE  TypeOK' /\ Shapes' /\ FilesInPlace'
      BY <1>11, <2>b DEF CompactBackup
    <2>1. TypeOK' /\ Shapes' /\ FilesInPlace'
      BY <1>11, <2>a, <2>b DEF CompactBackup
    <2>4. AcknowledgedLive'
      BY <1>11 DEF CompactBackup
    <2>5. AcknowledgedSurvive'
      BY <1>11 DEF CompactBackup
    <2>6. CrashLosesNothing'
      BY <1>11 DEF CompactBackup
    <2>7. PurgedGone'
      BY <1>11 DEF CompactBackup
    <2>8. PurgedStayAway'
      BY <1>11 DEF CompactBackup
    <2> QED
      BY <2>1, <2>4, <2>5, <2>6, <2>7, <2>8
  <1>12. CASE CompactInstall
    BY <1>12 DEF CompactInstall
  <1>13. CASE CompactReopen
    BY <1>13 DEF CompactReopen
  <1>14. CASE CompactUnlink
    BY <1>14 DEF CompactUnlink
  <1>15. CASE Crash
    BY <1>15 DEF Crash, Forget
  <1>16. CASE Panic
    BY <1>16 DEF Panic, Forget, LockFree
  <1>17. CASE OpenExisting
    BY <1>17 DEF OpenExisting
  <1>18. CASE OpenNew
    <2>1. path' \in FileTypes /\ path' # Missing /\ path'.vectors = {} /\ path'.root = NoRoot
      <3> HIDE DEF File, FileTypes
      <3> QED
        BY <1>18, EmptyFile DEF OpenNew
    <2>2. TypeOK' /\ Shapes'
      <3> HIDE DEF File, FileTypes
      <3> QED
        BY <1>18, <2>1 DEF OpenNew
    <2>3. FilesInPlace'
      <3> HIDE DEF File, FileTypes
      <3> QED
        BY <1>18, <2>1 DEF OpenNew
    <2>4. AcknowledgedLive'
      BY <1>18 DEF OpenNew
    <2>5. AcknowledgedSurvive'
      BY <1>18 DEF OpenNew
    <2>6. CrashLosesNothing'
      BY <1>18 DEF OpenNew
    <2>7. PurgedGone'
      BY <1>18 DEF OpenNew
    <2>8. PurgedStayAway'
      BY <1>18 DEF OpenNew
    <2> QED
      BY <2>2, <2>3, <2>4, <2>5, <2>6, <2>7, <2>8
  <1>19. CASE UNCHANGED vars
    BY <1>19 DEF vars
  <1> HIDE DEF IInv
  <1> QED
    BY <1>1, <1>2, <1>3, <1>4, <1>5, <1>6, <1>7, <1>8, <1>9, <1>10, <1>11, <1>12, <1>13, <1>14, <1>15, <1>16, <1>17, <1>18, <1>19 DEF Next, Compact

-----------------------------------------------------------------------------
LEMMA Inductive == Spec => []IInv
  <1>1. Init => IInv
    BY InitIInv
  <1>2. IInv /\ [Next]_vars => IInv'
    BY StepIInv
  <1> QED
    BY <1>1, <1>2, PTL DEF Spec

\* However compactions, commits, failures and crashes interleave, each file has the
\* vectors its persisted index names, and MVCCStorage's Storage is closed whenever
\* Nest.storage is (compact.go:128-173).
THEOREM TypeCorrect == Spec => []TypeOK
  <1>1. IInv => TypeOK
    BY DEF IInv
  <1> QED
    BY <1>1, Inductive, PTL

\* A crash at any step of CompactInternal (compact.go:15-180) leaves every live vector
\* that was findable when the compaction began where the next Open, or between the two
\* renames .bak, has it.
THEOREM CompactionIsCrashSafe == Spec => []CrashLosesNothing
  <1>1. IInv => CrashLosesNothing
    BY DEF IInv
  <1> QED
    BY <1>1, Inductive, PTL

\* However many compactions fail or are interrupted, an acknowledged vector is in the
\* file, or in a .bak that took the file's place or was renamed over (compact.go:141).
THEOREM AcknowledgedAreKept == Spec => []AcknowledgedSurvive
  <1>1. IInv => AcknowledgedSurvive
    BY DEF IInv
  <1> QED
    BY <1>1, Inductive, PTL

\* What a compaction has dropped (compact.go:184-212) and no log entry names is in no
\* file, and in no index, that a later session can open.
THEOREM PurgedIsGone == Spec => []PurgedStayAway
  <1>1. IInv => PurgedStayAway
    BY DEF IInv
  <1> QED
    BY <1>1, Inductive, PTL

-----------------------------------------------------------------------------
(* The pages it writes hold every vector once, and whole up to a length. *)

\* What the quotient of Go's integer division is good for.
LEMMA DivisionBounds ==
    ASSUME NEW a \in Nat, NEW b \in Nat \ {0}
    PROVE  /\ a \div b \in Nat
           /\ (a \div b) * b <= a
           /\ a < (a \div b) * b + b
  OBVIOUS

LEMMA PerPagePositive ==
    ASSUME NEW d \in Nat \ {0}
    PROVE  VectorsPerPage(d) \in Nat \ {0}
  BY DivisionBounds DEF VectorsPerPage, PageSize, HeaderSize, CountSize, EntrySize, VectorSize

\* The order of multiples decides the order of factors.
LEMMA Cancellation ==
    ASSUME NEW a \in Int, NEW b \in Int, NEW c \in Nat \ {0}, a * c < b * c + c
    PROVE  a <= b
  <1> SUFFICES ASSUME a > b
               PROVE  FALSE
    OBVIOUS
  <1>1. a - b - 1 \in Nat
    OBVIOUS
  <1>2. (a - b - 1) * c >= 0
    BY <1>1
  <1>3. (a - b - 1) * c = a * c - b * c - c
    OBVIOUS
  <1> QED
    BY <1>2, <1>3

\* PackVectorsIntoPages loses no vector, writes none twice, and writes no page without
\* one: each of the n vectors lies on one page, and each page holds one at least.
THEOREM EveryVectorOnOnePage ==
    ASSUME NEW d \in Nat \ {0}, NEW n \in Nat \ {0}
    PROVE  /\ \A i \in 0..(n - 1) : \E p \in 0..(NumPages(n, d) - 1) :
                  /\ OnPage(i, n, p, d)
                  /\ \A q \in 0..(NumPages(n, d) - 1) : OnPage(i, n, q, d) => q = p
           /\ \A p \in 0..(NumPages(n, d) - 1) : OnPage(PageStart(p, d), n, p, d)
  <1> DEFINE per == VectorsPerPage(d)
             pages == (n + per - 1) \div per
  <1>1. per \in Nat \ {0}
    BY PerPagePositive
  <1>2. n + per - 1 \in Nat
    BY <1>1
  <1> HIDE DEF per
  <1>3. pages \in Nat /\ pages * per <= n + per - 1 /\ n + per - 1 < pages * per + per
    BY <1>1, <1>2, DivisionBounds
  <1> HIDE DEF pages
  <1>4. NumPages(n, d) = pages /\ PageStart(0, d) = 0 * per
    BY DEF NumPages, pages, per, PageStart
  <1>5. \A p \in Int : PageStart(p, d) = p * per
    BY DEF PageStart, per
  <1>6. \A i \in Int, p \in Int : OnPage(i, n, p, d) <=> p * per <= i /\ i < n /\ i < p * per + per
    <2> SUFFICES ASSUME NEW i \in Int, NEW p \in Int
                 PROVE  OnPage(i, n, p, d) <=> p * per <= i /\ i < n /\ i < p * per + per
      OBVIOUS
    <2>1. PageEnd(n, p, d) = IF p * per + per > n THEN n ELSE p * per + per
      BY <1>5 DEF PageEnd, per
    <2>2. p * per \in Int
      BY <1>1
    <2> QED
      BY <1>1, <1>5, <2>1, <2>2 DEF OnPage
  <1>7. ASSUME NEW i \in 0..(n - 1)
        PROVE  \E p \in 0..(NumPages(n, d) - 1) :
                  /\ OnPage(i, n, p, d)
                  /\ \A q \in 0..(NumPages(n, d) - 1) : OnPage(i, n, q, d) => q = p
    <2> DEFINE p == i \div per
    <2>1. p \in Nat /\ p * per <= i /\ i < p * per + per
      BY <1>1, DivisionBounds
    <2> HIDE DEF p
    <2>2. p < pages
      <3>1. (p + 1) * per = p * per + per
        BY <1>1, <2>1
      <3>2. (p + 1) * per < pages * per + per
        BY <1>1, <1>3, <2>1, <3>1
      <3>3. p + 1 <= pages
        BY <1>1, <1>3, <2>1, <3>2, Cancellation
      <3> QED
        BY <3>3, <1>3, <2>1
    <2>3. OnPage(i, n, p, d)
      BY <1>6, <2>1
    <2>4. ASSUME NEW q \in 0..(NumPages(n, d) - 1), OnPage(i, n, q, d)
          PROVE  q = p
      <3>1. q \in Int /\ q * per <= i /\ i < q * per + per
        BY <1>3, <1>4, <1>6, <2>4
      <3>2. q * per < p * per + per /\ p * per < q * per + per
        BY <1>1, <2>1, <3>1
      <3>3. q <= p /\ p <= q
        BY <1>1, <2>1, <3>1, <3>2, Cancellation
      <3> QED
        BY <3>1, <3>3, <2>1
    <2>5. p \in 0..(NumPages(n, d) - 1)
      BY <1>3, <1>4, <2>1, <2>2
    <2> QED
      BY <2>3, <2>4, <2>5
  <1>8. ASSUME NEW p \in 0..(NumPages(n, d) - 1)
        PROVE  OnPage(PageStart(p, d), n, p, d)
    <2>1. p \in Nat /\ p <= pages - 1
      BY <1>3, <1>4
    <2>2. pages - 1 - p \in Nat
      BY <1>3, <2>1
    <2>3. (pages - 1 - p) * per >= 0
      BY <1>1, <2>2
    <2>4. (pages - 1 - p) * per = pages * per - per - p * per
      BY <1>1, <1>3, <2>1
    <2>5. p * per \in Int /\ p * per < n
      BY <1>1, <1>3, <2>1, <2>3, <2>4
    <2> QED
      BY <1>1, <1>5, <1>6, <2>1, <2>5
  <1> QED
    BY <1>7, <1>8

\* What compaction writes is whole up to LongestPacked numbers a vector, and cut at the
\* page's end beyond, although writeVectorToPage stores one number more.
THEOREM PagesHoldTheirVectors ==
    ASSUME NEW d \in Nat \ {0}
    PROVE  /\ d <= LongestPacked => \A m \in 1..VectorsPerPage(d) : PageFits(m, d)
           /\ d > LongestPacked => VectorsPerPage(d) = 1 /\ ~PageFits(1, d)
  <1> DEFINE entry == 80 + 4 * d
             fitting == 4030 \div entry
  <1>1. entry \in Nat \ {0} /\ fitting \in Nat /\ fitting * entry <= 4030 /\ 4030 < fitting * entry + entry
    BY DivisionBounds
  <1>2. VectorsPerPage(d) = IF fitting < 1 THEN 1 ELSE fitting
    BY DEF VectorsPerPage, PageSize, HeaderSize, CountSize, EntrySize, VectorSize
  <1>3. \A m \in Nat : PageFits(m, d) <=> m * entry <= 4030
    <2> SUFFICES ASSUME NEW m \in Nat
                 PROVE  PageFits(m, d) <=> m * entry <= 4030
      OBVIOUS
    <2>1. m * entry = 80 * m + 4 * d * m
      OBVIOUS
    <2>2. m * entry \in Nat /\ 80 * m \in Nat /\ 4 * d * m \in Nat
      OBVIOUS
    <2> QED
      BY <2>1, <2>2 DEF PageFits, DataOffset, PageSize, HeaderSize, CountSize, EntrySize, VectorSize
  <1> HIDE DEF fitting
  <1>4. ASSUME d <= LongestPacked, NEW m \in 1..VectorsPerPage(d)
        PROVE  PageFits(m, d)
    <2>1. fitting >= 1
      BY <1>1, <1>4 DEF LongestPacked
    <2>2. m \in Nat /\ fitting - m \in Nat
      BY <1>1, <1>2, <2>1
    <2> HIDE DEF entry
    <2>3. (fitting - m) * entry >= 0
      BY <1>1, <2>2
    <2>4. (fitting - m) * entry = fitting * entry - m * entry
      BY <1>1, <2>2
    <2>5. m * entry \in Int /\ fitting * entry \in Int
      BY <1>1, <2>2
    <2> QED
      BY <1>1, <1>3, <2>2, <2>3, <2>4, <2>5
  <1>5. ASSUME d > LongestPacked
        PROVE  VectorsPerPage(d) = 1 /\ ~PageFits(1, d)
    <2>1. entry > 4030
      BY <1>5 DEF LongestPacked
    <2>2. fitting < 1
      <3> SUFFICES ASSUME fitting >= 1
                   PROVE  FALSE
        BY <1>1
      <3>1. fitting - 1 \in Nat
        BY <1>1
      <3> HIDE DEF entry
      <3>2. (fitting - 1) * entry >= 0 /\ (fitting - 1) * entry = fitting * entry - entry
        BY <1>1, <3>1
      <3> QED
        BY <1>1, <2>1, <3>2
    <2> QED
      BY <1>2, <1>3, <2>1, <2>2
  <1> QED
    BY <1>4, <1>5
=============================================================================
