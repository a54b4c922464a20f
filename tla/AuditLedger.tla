---------------------------- MODULE AuditLedger ----------------------------
(***************************************************************************)
(* The two files behind write_live_action: audit.jsonl, to which each      *)
(* record is appended without a lock, and the hash chain, to which         *)
(* append_record appends it under a lock on the file it has opened, after  *)
(* it has verified all that the file holds.  rotate_if_needed seals the    *)
(* chain into an archive with a rename and takes no lock.                  *)
(*                                                                         *)
(* A lock and the lines read belong to the file that was opened, a rename  *)
(* to its name: `active' is the file the ledger path names, `archive' the  *)
(* sealed ones in order.  A record commits to all before it, so that its   *)
(* hash is modelled as the sequence of the entries up to its own.          *)
(***************************************************************************)
EXTENDS Integers, Sequences, FiniteSets, SequencesExt

CONSTANTS
    Processes,      \* threads and processes that record live actions
    None,           \* no file, no holder, no entry
    MaxEntries,     \* bound: calls of write_live_action
    MaxRotations,   \* bound: rotations by the one operator
    MaxFaults       \* bound: writes that fail and processes that die

ASSUME LedgerAssumption ==
    /\ MaxEntries \in Nat /\ MaxRotations \in Nat /\ MaxFaults \in Nat
    /\ None \notin Processes \cup Int

VARIABLES
    plain,      \* audit.jsonl
    file,       \* the files of the chain, in the order they were created
    active,     \* the file that has the name of the ledger, or None
    archive,    \* the sealed files, by their number
    lock,       \* per file: the process that holds its lock, or None
    proc,       \* per process: how far its call has come
    rotor,      \* the rotation under way: the number it will give, or 0
    last,       \* the last entry given out
    faults,     \* faults so far
    answered,   \* history: entries whose append_record returned
    returned,   \* history: entries whose write_live_action returned
    raced,      \* history: a rename met an append that had opened the file, or one
                \* that had torn it since the operator verified it
    strays      \* history: rests of failed writes that met the append of another

disk == <<plain, file, active, archive, lock>>
told == <<answered, returned>>
history == <<told, raced, strays>>
vars == <<disk, proc, rotor, last, faults, history>>

Entries == 1..MaxEntries
Files == 1..(MaxRotations + 1)
Torn == [past |-> << >>, entry |-> None]
Lines == {Torn} \cup [past : Seq(Entries), entry : Entries]
Contents == [lines : Seq(Lines), ended : BOOLEAN, size : Nat]
Empty == [lines |-> << >>, ended |-> TRUE, size |-> 0]
Stages == {"idle", "chaining", "opened", "admitted", "failed"}
Idle == [stage |-> "idle", entry |-> None, on |-> None, past |-> << >>,
         found |-> Empty, cut |-> "nothing"]

(***************************************************************************)
(* A write may fail (a full disk, a crash of the host) before its first    *)
(* byte, within the line, or before the newline alone.  What follows a     *)
(* line without a newline lands on that line, which then parses no more.   *)
(* The size of a file is counted in writes.                                *)
(***************************************************************************)
Cuts == {"nothing", "part", "newline"}

Put(f, line, how) ==
    IF how = "nothing" THEN f
    ELSE [lines |-> IF f.ended
                    THEN Append(f.lines, IF how = "part" THEN Torn ELSE line)
                    ELSE [f.lines EXCEPT ![Len(f.lines)] = Torn],
          ended |-> how = "whole",
          size |-> f.size + 1]

Hash(line) == Append(line.past, line.entry)

\* _walk_chain: every line parses and continues the one before it.
Linked(lines, start) ==
    \A i \in DOMAIN lines :
        /\ lines[i] # Torn
        /\ lines[i].past = IF i = 1 THEN start ELSE Hash(lines[i - 1])

\* _read_raw_records: what can be read up to the first line that cannot.
Readable(lines) ==
    SubSeq(lines, 1, SelectInSeq(lines \o <<Torn>>, LAMBDA x : x = Torn) - 1)

\* Where the records of the active file have to start: after the last one sealed.
Start ==
    LET sealed == IF archive = << >> THEN << >>
                  ELSE Readable(file[Last(archive)].lines)
    IN  IF sealed = << >> THEN << >> ELSE Hash(Last(sealed))

Tip(lines, start) == IF lines = << >> THEN start ELSE Hash(Last(lines))

\* What verify_chain_with_archives reads, and its answer.
Segments == archive \o (IF active = None THEN << >> ELSE <<active>>)
History == FlattenSeq([i \in DOMAIN Segments |-> file[Segments[i]].lines])
Verified == Linked(History, << >>)

EntriesIn(lines) == {lines[i].entry : i \in DOMAIN lines} \ {None}

Init ==
    /\ plain = Empty
    /\ file = << >>
    /\ active = None
    /\ archive = << >>
    /\ lock = << >>
    /\ proc = [p \in Processes |-> Idle]
    /\ rotor = 0
    /\ last = 0
    /\ faults = 0
    /\ answered = {} /\ returned = {}
    /\ raced = FALSE
    /\ strays = 0

Fault == faults < MaxFaults /\ faults' = faults + 1

At(p, stage) == proc[p].stage = stage

\* The call is over: its error, if any, was logged, and the caller gets the record.
Return(p) ==
    /\ returned' = returned \cup {proc[p].entry}
    /\ proc' = [proc EXCEPT ![p] = Idle]

(***************************************************************************)
(* write_live_action: the plain line first, whose failure reaches the      *)
(* caller, then append_record.                                             *)
(***************************************************************************)
Record(p) ==
    /\ At(p, "idle") /\ last < MaxEntries
    /\ last' = last + 1
    /\ plain' = Put(plain, [past |-> << >>, entry |-> last + 1], "whole")
    /\ proc' = [proc EXCEPT ![p] = [Idle EXCEPT !.stage = "chaining", !.entry = last + 1]]
    /\ UNCHANGED <<file, active, archive, lock, rotor, faults, history>>

\* Fault: an error of the plain line is logged like one of the chain.
RecordFailsQuietly(p) ==
    /\ At(p, "idle") /\ last < MaxEntries /\ Fault
    /\ last' = last + 1
    /\ \E how \in Cuts :
          plain' = Put(plain, [past |-> << >>, entry |-> last + 1], how)
    /\ proc' = [proc EXCEPT ![p] = [Idle EXCEPT !.stage = "chaining", !.entry = last + 1]]
    /\ UNCHANGED <<file, active, archive, lock, rotor, history>>

\* The line is cut, or the close of the file has written it after all.  (A rest that the
\* close adds behind the line of another is one more line that cannot be read.)
RecordFails(p) ==
    /\ At(p, "idle") /\ last < MaxEntries /\ Fault
    /\ last' = last + 1
    /\ \E how \in Cuts \cup {"whole"} :
          plain' = Put(plain, [past |-> << >>, entry |-> last + 1], how)
    /\ UNCHANGED <<file, active, archive, lock, proc, rotor, history>>

\* Fault: the file is opened with "w+b".
OpenTruncates(p) ==
    /\ At(p, "chaining")
    /\ IF active = None
       THEN /\ file' = Append(file, Empty)
            /\ lock' = Append(lock, None)
            /\ active' = Len(file) + 1
       ELSE /\ file' = [file EXCEPT ![active] = Empty]
            /\ UNCHANGED <<lock, active>>
    /\ proc' = [proc EXCEPT ![p].stage = "opened", ![p].on = active']
    /\ UNCHANGED <<plain, archive, rotor, last, faults, history>>

\* open(path, "a+b"), which creates the file when the name is free.
Open(p) ==
    /\ At(p, "chaining")
    /\ IF active = None
       THEN /\ file' = Append(file, Empty)
            /\ lock' = Append(lock, None)
            /\ active' = Len(file) + 1
       ELSE UNCHANGED <<file, lock, active>>
    /\ proc' = [proc EXCEPT ![p].stage = "opened", ![p].on = active']
    /\ UNCHANGED <<plain, archive, rotor, last, faults, history>>

Opened(p) == At(p, "opened") /\ lock[proc[p].on] = None

Continues(p) == Linked(file[proc[p].on].lines, Start)

\* Fault: the lock taken is a shared one.
AdmitShared(p) ==
    /\ At(p, "opened") /\ Continues(p)
    /\ lock' = [lock EXCEPT ![proc[p].on] = p]
    /\ proc' = [proc EXCEPT ![p].stage = "admitted",
                            ![p].past = Tip(file[proc[p].on].lines, Start)]
    /\ UNCHANGED <<plain, file, active, archive, rotor, last, faults, history>>

\* The lock is there and the file verifies: the next record will follow its last one.
Admit(p) ==
    /\ Opened(p) /\ Continues(p)
    /\ lock' = [lock EXCEPT ![proc[p].on] = p]
    /\ proc' = [proc EXCEPT ![p].stage = "admitted",
                            ![p].past = Tip(file[proc[p].on].lines, Start)]
    /\ UNCHANGED <<plain, file, active, archive, rotor, last, faults, history>>

\* Fault: a chain that is broken is tried again, in the hope of a repair.
RefuseRetries(p) ==
    /\ Opened(p) /\ ~Continues(p)
    /\ proc' = [proc EXCEPT ![p].stage = "chaining"]
    /\ UNCHANGED <<disk, rotor, last, faults, history>>

\* LedgerCorruptionError, which write_live_action logs.
Refuse(p) ==
    /\ Opened(p) /\ ~Continues(p)
    /\ Return(p)
    /\ UNCHANGED <<disk, rotor, last, faults, answered, raced, strays>>

RecordOf(p) == [past |-> proc[p].past, entry |-> proc[p].entry]

PutRecord(p, how) == file' = [file EXCEPT ![proc[p].on] = Put(@, RecordOf(p), how)]

Unlock(p) == lock' = [lock EXCEPT ![proc[p].on] = None]

\* Written, flushed and synced.
Write(p) ==
    /\ At(p, "admitted")
    /\ PutRecord(p, "whole") /\ Unlock(p)
    /\ answered' = answered \cup {proc[p].entry}
    /\ Return(p)
    /\ UNCHANGED <<plain, active, archive, rotor, last, faults, raced, strays>>

\* Fault: an error of the write is treated like one of fsync, with a warning.
WriteFailsQuietly(p) ==
    /\ At(p, "admitted") /\ Fault
    /\ \E how \in Cuts : PutRecord(p, how)
    /\ Unlock(p)
    /\ answered' = answered \cup {proc[p].entry}
    /\ Return(p)
    /\ UNCHANGED <<plain, active, archive, rotor, last, raced, strays>>

\* The write or its flush raises: the lock is released while the file is still open and
\* its buffer holds the rest of the line.
WriteFails(p) ==
    /\ At(p, "admitted") /\ Fault
    /\ \E how \in Cuts :
          /\ PutRecord(p, how)
          /\ proc' = [proc EXCEPT ![p].stage = "failed", ![p].cut = how,
                                  ![p].found = file[proc[p].on]]
    /\ Unlock(p)
    /\ UNCHANGED <<plain, active, archive, rotor, last, history>>

\* Nothing was written behind the cut of a failed write.
Untouched(p) ==
    file[proc[p].on].size = Put(proc[p].found, RecordOf(p), proc[p].cut).size

\* The rest of the line goes to the end of the file, wherever that is by now.
WithRest(p) ==
    LET f == file[proc[p].on]
        g == IF Untouched(p) THEN Put(proc[p].found, RecordOf(p), "whole")
             ELSE IF proc[p].cut = "newline" THEN [f EXCEPT !.ended = TRUE]
             ELSE Put(f, IF proc[p].cut = "nothing" THEN RecordOf(p) ELSE Torn, "whole")
    IN  [g EXCEPT !.size = f.size + 1]

\* handle.close() flushes the rest, without the lock, or fails and drops it.  The error of
\* the write is logged, and the caller goes on.
Close(p) ==
    /\ At(p, "failed")
    /\ \/ /\ file' = [file EXCEPT ![proc[p].on] = WithRest(p)]
          /\ strays' = strays +
                (IF Untouched(p) /\ lock[proc[p].on] = None THEN 0 ELSE 1)
       \/ UNCHANGED <<file, strays>>
    /\ Return(p)
    /\ UNCHANGED <<plain, active, archive, lock, rotor, last, faults, answered, raced>>

\* The process dies; the system closes its file, and with it the lock.
Die(p) ==
    /\ ~At(p, "idle") /\ Fault
    /\ IF At(p, "admitted")
       THEN Unlock(p) /\ \E how \in Cuts \cup {"whole"} : PutRecord(p, how)
       ELSE UNCHANGED <<lock, file>>
    /\ proc' = [proc EXCEPT ![p] = Idle]
    /\ UNCHANGED <<plain, active, archive, rotor, last, history>>

(***************************************************************************)
(* rotate_if_needed, called by one operator at a time.  It verifies the    *)
(* active file from the genesis hash and counts the archives, then renames *)
(* whatever has the name by then.                                          *)
(***************************************************************************)
BeginRotation ==
    /\ rotor = 0 /\ Len(archive) < MaxRotations
    /\ active # None
    /\ file[active].lines # << >>
    /\ Linked(file[active].lines, << >>)
    /\ rotor' = Len(archive) + 1
    /\ UNCHANGED <<disk, proc, last, faults, history>>

Rotate ==
    /\ rotor # 0
    /\ archive' = Append(archive, active)
    /\ active' = None
    /\ rotor' = 0
    /\ raced' = \/ raced \/ ~Linked(file[active].lines, << >>)
                 \/ \E p \in Processes : proc[p].on = active
    /\ UNCHANGED <<plain, file, lock, proc, last, faults, told, strays>>

Chain(p) == Open(p) \/ Admit(p) \/ Refuse(p) \/ Write(p) \/ Close(p)
Trouble(p) == RecordFails(p) \/ WriteFails(p) \/ Die(p)

Next ==
    \/ \E p \in Processes : Record(p) \/ Chain(p) \/ Trouble(p)
    \/ BeginRotation \/ Rotate

Spec == Init /\ [][Next]_vars

\* A call that has begun goes on, and a lock that is free is granted.
FairSpec == Spec /\ \A p \in Processes : WF_vars(Chain(p))

-----------------------------------------------------------------------------
(* Properties *)

\* The types, and that whoever is admitted holds the lock of its file.
TypeOK ==
    /\ plain \in Contents
    /\ file \in Seq(Contents) /\ Len(file) <= MaxRotations + 1
    /\ active \in DOMAIN file \cup {None}
    /\ archive \in Seq(DOMAIN file)
    /\ lock \in [DOMAIN file -> Processes \cup {None}]
    /\ proc \in [Processes -> [stage : Stages, entry : Entries \cup {None},
                               on : DOMAIN file \cup {None}, past : Seq(Entries),
                               found : Contents, cut : Cuts]]
    /\ \A p \in Processes, f \in DOMAIN file :
          lock[f] = p <=> At(p, "admitted") /\ proc[p].on = f
    /\ rotor \in 0..MaxRotations
    /\ last \in 0..MaxEntries /\ faults \in 0..MaxFaults
    /\ answered \subseteq returned /\ returned \subseteq Entries
    /\ raced \in BOOLEAN
    /\ strays \in Nat

\* Whatever fails or dies, the history verifies up to its last line, or as many more as
\* rests of failed writes were flushed without the lock into the append of another: no
\* two appends are given the same place, nothing is built on a record that was never
\* there, and a break is not built upon.  A rotation that meets an append is the
\* exception.
ChainSound ==
    ~raced => \E n \in (Len(History) - 1 - strays) .. Len(History) :
                  n >= 0 /\ Linked(SubSeq(History, 1, n), << >>)

\* An append that returned is in the history, or the verification says that the history is
\* broken: no record that was confirmed disappears in silence, rotation or not.
AnsweredOrReported == Verified => answered \subseteq EntriesIn(History)

\* An entry the caller was told is recorded can be in neither file only where audit.jsonl
\* itself has a line that cannot be read.
LossShows ==
    (\E e \in returned : e \notin EntriesIn(plain.lines) \cup EntriesIn(History))
        => \E i \in DOMAIN plain.lines : plain.lines[i] = Torn

\* What verify_chain_with_archives has read once it reads again, in the same place; only a
\* line without its newline can still change.
Settled ==
    IF Segments # << >> /\ ~file[Last(Segments)].ended THEN Front(History) ELSE History
HistoryKept == [][raced' \/ IsPrefix(Settled, History')]_vars

\* Every call ends: no error, death or broken chain leaves a caller waiting.
CallsEnd == \A p \in Processes : ~At(p, "idle") ~> At(p, "idle")
=============================================================================
