-------------------------------- MODULE Log --------------------------------
(***************************************************************************)
(* The write-ahead log (wal.go) on a disk that fails: writes that stop half *)
(* way, syncs that fail, and power losses that cut off whatever was not yet *)
(* synced.  Module Durability takes the log as a sequence that never fails; *)
(* this one says when that is right, and what Open does when it is not.     *)
(*                                                                         *)
(* The file is a sequence of records.  A record that was cut is what is     *)
(* left of it: a part of its length prefix, the bare prefix, or the prefix  *)
(* with a part of its data.  A step is a call of the log, under WAL.mu.     *)
(***************************************************************************)
EXTENDS Integers, Sequences, SequencesExt

CONSTANTS
    FlushAt,       \* entries that fill the buffer, 100 in the code
    MaxCalls,      \* bound: calls of Append
    MaxFaults,     \* bound: writes and syncs that fail
    MaxCrashes     \* bound: crashes

ASSUME ConstantsAssumption ==
    /\ FlushAt \in Nat \ {0}
    /\ MaxCalls \in Nat /\ MaxFaults \in Nat /\ MaxCrashes \in Nat

VARIABLES
    file,       \* the records in the log's file
    synced,     \* how many of them a power loss cannot take
    buffer,     \* WAL.buffer
    seq,        \* WAL.seq
    status,     \* "open", "checkpoint" between its two calls, "replaying" inside Open,
                \* "down", "refused": Open failed
    reads,      \* what ReadAll gave replayWAL
    calls,      \* calls of Append so far
    faults,     \* failed writes and syncs so far
    crashes,    \* crashes so far
    flushed,    \* history: entries a flush has reported as written since the last truncation
    blame       \* history: what has happened to the file that a reader may stumble over

vars == <<file, synced, buffer, seq, status, reads, calls, faults, crashes, flushed, blame>>

\* A WALEntry: its number, the call it is from, and whether its metadata is the same
\* after it was marshalled and unmarshalled (large integers and structs are not).
Entry(n, c, exact) == [seq |-> n, call |-> c, exact |-> exact]

Whole(e) == [kind |-> "whole", entry |-> e]
CutParts == {"length", "prefix", "data"}
CutTo(part, e) == [kind |-> part, entry |-> e]

Records(entries) == [k \in DOMAIN entries |-> Whole(entries[k])]

Init ==
    /\ file = <<>> /\ synced = 0 /\ buffer = <<>> /\ seq = 0
    /\ status = "open" /\ reads = <<>>
    /\ calls = 0 /\ faults = 0 /\ crashes = 0
    /\ flushed = {} /\ blame = {}

-----------------------------------------------------------------------------
(* Writing. *)

\* What a write that stops half way may leave of some records: a number of whole
\* ones, then perhaps a part of the next.
Cuts(records) ==
    {SubSeq(records, 1, n) : n \in 0..(Len(records) - 1)} \cup
    UNION {{Append(SubSeq(records, 1, n - 1), CutTo(part, records[n].entry)) : part \in CutParts} :
               n \in {m \in DOMAIN records : records[m].kind = "whole"}}

\* Mutant of Sync: the file is not synced.
SyncLater == UNCHANGED synced
Sync == synced' = Len(file')

\* flushLocked: one write for all entries, then a sync.  When either fails the call
\* returns an error and the entries stay in the buffer, to be written again.
FlushEntries(entries) ==
    \/ /\ file' = file \o Records(entries)
       /\ Sync
       /\ buffer' = <<>>
       /\ flushed' = flushed \cup ToSet(entries)
       /\ UNCHANGED <<faults, blame>>
    \/ /\ faults < MaxFaults
       /\ faults' = faults + 1
       /\ buffer' = entries
       /\ \/ file' = file \o Records(entries) /\ UNCHANGED blame
          \/ /\ \E left \in Cuts(Records(entries)) : file' = file \o left
             /\ blame' = blame \cup {"partial write"}
       /\ UNCHANGED <<synced, flushed>>

NextNumber == seq + 1

\* Called by Nest.Store and by commits, also while a checkpoint is under way.  Metadata
\* that cannot be marshalled costs a number.
AppendEntry(metadata) ==
    /\ status \in {"open", "checkpoint"}
    /\ calls < MaxCalls
    /\ calls' = calls + 1
    /\ seq' = NextNumber
    /\ LET full == Append(buffer, Entry(NextNumber, calls + 1, metadata = "exact")) IN
       \/ /\ metadata = "invalid"
          /\ UNCHANGED <<file, synced, buffer, faults, flushed, blame>>
       \/ /\ metadata # "invalid" /\ Len(full) < FlushAt
          /\ buffer' = full
          /\ UNCHANGED <<file, synced, faults, flushed, blame>>
       \/ /\ metadata # "invalid" /\ Len(full) >= FlushAt
          /\ FlushEntries(full)
    /\ UNCHANGED <<status, reads, crashes>>

\* Called by a commit.
Flush ==
    /\ status \in {"open", "checkpoint"}
    /\ buffer # <<>>
    /\ FlushEntries(buffer)
    /\ UNCHANGED <<seq, status, reads, calls, crashes>>

\* The checkpoint worker goes on when its flush has succeeded.
CheckpointFlush ==
    /\ status = "open"
    /\ \/ buffer = <<>> /\ UNCHANGED <<file, synced, buffer, flushed, faults, blame>>
       \/ buffer # <<>> /\ FlushEntries(buffer)
    /\ status' = IF faults' = faults THEN "checkpoint" ELSE "open"
    /\ UNCHANGED <<seq, reads, calls, crashes>>

\* The file and the buffer are emptied, the numbers run on.
Emptied ==
    /\ file' = <<>> /\ synced' = 0
    /\ buffer' = <<>>
    /\ flushed' = {} /\ blame' = {}

Truncate ==
    /\ status = "checkpoint"
    /\ Emptied
    /\ status' = "open"
    /\ UNCHANGED <<seq, reads, calls, faults, crashes>>

\* Nest.Close, whose pages are written, truncates and closes.
Close ==
    /\ status = "open"
    /\ Emptied
    /\ seq' = 0
    /\ status' = "down"
    /\ UNCHANGED <<reads, calls, faults, crashes>>

-----------------------------------------------------------------------------
(* Crashes, and reading the file again. *)

\* A power loss may take what was not synced, also of a write that is under way.
Crash ==
    /\ status \in {"open", "checkpoint", "replaying"}
    /\ crashes < MaxCrashes
    /\ crashes' = crashes + 1
    /\ \E written \in {file, file \o Records(buffer)} :
           \E left \in {written} \cup Cuts(written) :
               /\ Len(left) >= synced
               /\ \A k \in 1..synced : left[k] = file[k]
               /\ file' = left
               /\ synced' = Len(left)
    /\ buffer' = <<>> /\ seq' = 0 /\ reads' = <<>>
    /\ status' = "down"
    /\ UNCHANGED <<calls, faults, flushed, blame>>

\* The records before the first one that is cut, or whose checksum does not match:
\* it was computed over the metadata as given and is compared with one over the
\* metadata as read back.
Readable(records) ==
    Max({n \in 0..Len(records) :
        \A k \in 1..n : records[k].kind = "whole" /\ records[k].entry.exact})

EntriesIn(records, n) == [k \in 1..n |-> records[k].entry]

\* Mutant of LastNumber: it is not looked for in the file.
LastNumberForgotten(records) == 0
\* readLastSequenceLocked stops at the first record it cannot read.
LastNumber(records) ==
    IF Readable(records) = 0 THEN 0 ELSE records[Readable(records)].entry.seq

\* readAllLocked stops without an error at the end of the file, and at a record that
\* was cut there, unless its length prefix is all that is left.  What lies behind a
\* cut is read as part of it: as luck has it as a length no record has or one the
\* file is too short for, which ends the log there, or as an entry that is none.
ReadsOn(records) ==
    Readable(records) < Len(records) =>
        LET stop == Readable(records) + 1 IN
        /\ records[stop].kind # "whole"
        /\ stop = Len(records) => records[stop].kind # "prefix"

\* Mutant of Fails: an incomplete entry is an error wherever it is.
FailsOnAnyCut(records) == Readable(records) < Len(records)
\* ... or as an error, or a panic when the bytes are taken for the length of a name.
Fails(records) ==
    /\ Readable(records) < Len(records)
    /\ LET stop == Readable(records) + 1 IN
       stop < Len(records) \/ records[stop].kind \in {"whole", "prefix"}

\* Open of a database that exists: replayWAL reads the log.
Open ==
    /\ status \in {"down", "refused"}
    /\ \/ /\ ReadsOn(file)
          /\ reads' = EntriesIn(file, Readable(file))
          /\ status' = "replaying"
       \/ /\ Fails(file)
          /\ status' = "refused"
          /\ UNCHANGED reads
    /\ UNCHANGED <<file, synced, buffer, seq, calls, faults, crashes, flushed, blame>>

\* The entries are applied, the log is emptied, closed and opened for writing.
ReplayEnd ==
    /\ status = "replaying"
    /\ Emptied
    /\ seq' = LastNumber(file')
    /\ reads' = <<>>
    /\ status' = "open"
    /\ UNCHANGED <<calls, faults, crashes>>

\* Open where there is a log but no database (its file was renamed or removed): the
\* log is not replayed, new entries go behind the old ones.
OpenNew ==
    /\ status \in {"down", "refused"}
    /\ seq' = LastNumber(file)
    /\ blame' = IF Readable(file) = Len(file) THEN blame ELSE blame \cup {"taken over"}
    /\ status' = "open"
    /\ UNCHANGED <<file, synced, buffer, reads, calls, faults, crashes, flushed>>

-----------------------------------------------------------------------------
Next ==
    \/ \E metadata \in {"exact", "inexact", "invalid"} : AppendEntry(metadata)
    \/ Flush \/ CheckpointFlush \/ Truncate \/ Close
    \/ Crash \/ Open \/ ReplayEnd \/ OpenNew

Spec == Init /\ [][Next]_vars

-----------------------------------------------------------------------------
(* Properties. *)

\* Every entry a flush has reported as written is given to replay, whatever was cut
\* off behind it; unless a process went on writing after a write that had stopped
\* half way, or a new database took over a log with a cut end.
FlushedIsRead ==
    status = "replaying" /\ blame = {} => flushed \subseteq ToSet(reads)

\* Replay gets the entries in the order they were appended in, the repetitions of
\* failed flushes aside; and without such a failure under ascending numbers, also
\* from a log that several processes have written.
ReadsInOrder ==
    \A j, k \in DOMAIN reads : j < k =>
        /\ faults = 0 => reads[j].seq < reads[k].seq
        /\ \/ reads[j].call < reads[k].call
           \/ \E l \in 1..(j - 1) : reads[l] = reads[k]
           \/ reads[j] = reads[k]

\* Open refuses a database for its log only after a write that had stopped half way in
\* a process that went on, a log taken over by a new database, metadata that
\* does not survive JSON, or a power loss that left a bare length at the end.
RefusedForAReason ==
    status = "refused" =>
        \/ blame # {}
        \/ \E k \in DOMAIN file : ~file[k].entry.exact
        \/ file[Len(file)].kind = "prefix"
=============================================================================
