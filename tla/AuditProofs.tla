---------------------------- MODULE AuditProofs ----------------------------
(* Proofs about the ledger, for any processes, entries and rotations.      *)
EXTENDS AuditLedger, WellFoundedInduction, SequenceTheorems, TLAPS

-----------------------------------------------------------------------------
(* Lines.                                                                  *)

\* A set of numbers that is not empty has a least one.
LEMMA LeastNumber ==
    ASSUME NEW I, I \subseteq Nat, I # {}
    PROVE  Min(I) \in I /\ \A j \in I : Min(I) <= j
<1>1. PICK x \in I : \A y \in I : ~ (<<y, x>> \in OpToRel(<, Nat))
  BY WFMin, NatLessThanWellFounded, Zenon
<1>2. \A y \in I : ~(y < x)
  BY <1>1, Zenon DEF OpToRel
<1>3. \A y \in I : x <= y
  BY <1>2
<1> QED BY <1>3 DEF Min

\* What can be read of a file ends before the first line that is torn.
LEMMA ReadableEnds ==
    ASSUME NEW s \in Seq(Lines)
    PROVE  \E n \in 1..(Len(s) + 1) :
              /\ Readable(s) = SubSeq(s, 1, n - 1)
              /\ \A i \in 1..(n - 1) : s[i] # Torn
              /\ n \in 1..Len(s) => s[n] = Torn
<1> DEFINE q == s \o <<Torn>>
           I == {i \in 1..Len(q) : q[i] = Torn}
           n == Min(I)
<1>1. /\ Len(q) = Len(s) + 1 /\ q[Len(s) + 1] = Torn
      /\ \A i \in 1..Len(s) : q[i] = s[i]
  OBVIOUS
<1>2. I \subseteq Nat /\ Len(s) + 1 \in I
  BY <1>1
<1>3. n \in I /\ \A j \in I : n <= j
  BY <1>2, LeastNumber
<1>4. Readable(s) = SubSeq(s, 1, n - 1)
  <2>1. I # {}
    BY <1>2
  <2> QED BY <2>1 DEF Readable, SelectInSeq
<1>5. n \in 1..Len(q) /\ q[n] = Torn /\ \A j \in 1..Len(q) : q[j] = Torn => n <= j
  BY <1>3
<1> HIDE DEF n, I
<1>6. n \in 1..(Len(s) + 1) /\ (\A i \in 1..(n - 1) : s[i] # Torn) /\ (n \in 1..Len(s) => s[n] = Torn)
  <2> HIDE DEF q
  <2> QED BY <1>1, <1>5
<1> QED BY <1>4, <1>6

\* It is a part of the lines, none of which is torn.
LEMMA ReadableTyped ==
    ASSUME NEW s \in Seq(Lines)
    PROVE  /\ Readable(s) \in Seq(Lines)
           /\ \A i \in DOMAIN Readable(s) : Readable(s)[i] # Torn
<1>1. PICK n \in 1..(Len(s) + 1) :
         Readable(s) = SubSeq(s, 1, n - 1) /\ \A i \in 1..(n - 1) : s[i] # Torn
  BY ReadableEnds
<1>2. n - 1 \in 0..Len(s)
  BY <1>1
<1>3. SubSeq(s, 1, n - 1) \in Seq(Lines) /\ DOMAIN SubSeq(s, 1, n - 1) = 1..(n - 1)
      /\ \A i \in 1..(n - 1) : SubSeq(s, 1, n - 1)[i] = s[i]
  BY <1>2
<1> QED BY <1>1, <1>3

\* If no line is torn, it is all of them.
LEMMA ReadableWhole ==
    ASSUME NEW s \in Seq(Lines), \A i \in DOMAIN s : s[i] # Torn
    PROVE  Readable(s) = s
<1>1. DOMAIN s = 1..Len(s) /\ Len(s) \in Nat
  OBVIOUS
<1>2. PICK n \in 1..(Len(s) + 1) :
         Readable(s) = SubSeq(s, 1, n - 1) /\ (n \in 1..Len(s) => s[n] = Torn)
  BY ReadableEnds
<1>3. n = Len(s) + 1
  BY <1>1, <1>2
<1> QED BY <1>2, <1>3

\* A write of either file leaves lines on it.
LEMMA PutTyped ==
    ASSUME NEW f \in Contents, NEW line \in Lines, NEW how
    PROVE  Put(f, line, how) \in Contents
<1>1. f.lines \in Seq(Lines) /\ f.ended \in BOOLEAN /\ f.size \in Nat /\ Torn \in Lines
  BY DEF Contents, Lines
<1>2. ASSUME NEW s \in Seq(Lines)
      PROVE  [s EXCEPT ![Len(s)] = Torn] \in Seq(Lines)
  <2>1. CASE s = << >>
    <3>1. Len(s) \notin DOMAIN s
      BY <2>1
    <3>2. [s EXCEPT ![Len(s)] = Torn] = s
      BY <3>1
    <3> QED BY <3>2
  <2>2. CASE s # << >>
    <3>1. Len(s) \in 1..Len(s)
      BY <2>2
    <3> QED BY <1>1, <3>1, ExceptSeq
  <2> QED BY <2>1, <2>2
<1>3. Append(f.lines, IF how = "part" THEN Torn ELSE line) \in Seq(Lines)
  BY <1>1
<1> QED BY <1>1, <1>2, <1>3 DEF Put, Contents

\* A line that is not torn, and the hash after it.
LEMMA LineTyped ==
    ASSUME NEW x \in Lines, x # Torn
    PROVE  Hash(x) \in Seq(Entries)
  BY DEF Lines, Hash

\* Records start after a sequence of entries.
LEMMA StartTyped ==
    ASSUME archive \in Seq(DOMAIN file), file \in Seq(Contents)
    PROVE  Start \in Seq(Entries)
<1> DEFINE sealed == IF archive = << >> THEN << >>
                     ELSE Readable(file[Last(archive)].lines)
<1>1. sealed \in Seq(Lines) /\ \A i \in DOMAIN sealed : sealed[i] # Torn
  <2>1. CASE archive = << >>
    BY <2>1
  <2>2. CASE archive # << >>
    <3>1. Last(archive) \in DOMAIN file
      BY <2>2 DEF Last
    <3>2. file[Last(archive)] \in Contents
      BY <3>1
    <3>3. file[Last(archive)].lines \in Seq(Lines)
      BY <3>2 DEF Contents
    <3> QED BY <2>2, <3>3, ReadableTyped
  <2> QED BY <2>1, <2>2
<1>2. Start = IF sealed = << >> THEN << >> ELSE Hash(Last(sealed))
  BY DEF Start
<1> HIDE DEF sealed
<1>3. ASSUME sealed # << >>
      PROVE  Hash(Last(sealed)) \in Seq(Entries)
  <2>1. Len(sealed) \in DOMAIN sealed
    BY <1>1, <1>3
  <2> QED BY <1>1, <2>1, LineTyped DEF Last
<1> QED BY <1>2, <1>3

\* Where a file verifies, so does what the next record follows.
LEMMA TipTyped ==
    ASSUME NEW lines \in Seq(Lines), NEW start \in Seq(Entries), Linked(lines, start)
    PROVE  Tip(lines, start) \in Seq(Entries)
<1>1. CASE lines = << >>
  BY <1>1 DEF Tip
<1>2. CASE lines # << >>
  <2>1. Len(lines) \in DOMAIN lines
    BY <1>2
  <2>2. Last(lines) \in Lines /\ Last(lines) # Torn
    BY <2>1 DEF Last, Linked
  <2> QED BY <1>2, <2>2, LineTyped DEF Tip
<1> QED BY <1>1, <1>2

-----------------------------------------------------------------------------
(* Types.                                                                  *)

\* A call has an entry and, once it has opened it, a file; every file but the active one is
\* in the archive; and a rotation under way has a file to rename.
Placed ==
    /\ \A p \in Processes :
          /\ ~At(p, "idle") => proc[p].entry \in Entries
          /\ At(p, "opened") \/ At(p, "admitted") \/ At(p, "failed") => proc[p].on \in DOMAIN file
    /\ Len(file) = Len(archive) + (IF active = None THEN 0 ELSE 1)
    /\ Len(archive) <= MaxRotations
    /\ rotor # 0 => active # None /\ rotor = Len(archive) + 1

\* What a call says of itself, over n files.
Callers(n) == [stage : Stages, entry : Entries \cup {None}, on : 1..n \cup {None},
               past : Seq(Entries), found : Contents, cut : Cuts]

\* The type invariant, with the domain of the files spelled out.
LEMMA TypeParts ==
    ASSUME TypeOK
    PROVE  /\ DOMAIN file = 1..Len(file) /\ Len(file) \in Nat
           /\ active \in 1..Len(file) \cup {None}
           /\ archive \in Seq(1..Len(file)) /\ Len(archive) \in Nat
           /\ lock \in [1..Len(file) -> Processes \cup {None}]
           /\ proc \in [Processes -> Callers(Len(file))]
<1>1. file \in Seq(Contents)
  BY DEF TypeOK
<1>2. DOMAIN file = 1..Len(file) /\ Len(file) \in Nat
  BY <1>1
<1> QED BY <1>2 DEF TypeOK, Callers

\* A step that leaves the number of files as it is needs to be typed file by file only.
LEMMA SameFiles ==
    ASSUME TypeOK, Placed,
           plain' \in Contents,
           file' \in Seq(Contents), Len(file') = Len(file),
           lock' \in [1..Len(file) -> Processes \cup {None}],
           proc' \in [Processes -> Callers(Len(file))],
           \A p \in Processes, f \in 1..Len(file) :
              lock'[f] = p <=> proc'[p].stage = "admitted" /\ proc'[p].on = f,
           \A p \in Processes :
              /\ proc'[p].stage # "idle" => proc'[p].entry \in Entries
              /\ proc'[p].stage \in {"opened", "admitted", "failed"} => proc'[p].on \in 1..Len(file),
           UNCHANGED <<active, archive, rotor, raced>>,
           last' \in 0..MaxEntries, faults' \in 0..MaxFaults,
           answered' \subseteq returned', returned' \subseteq Entries, strays' \in Nat
    PROVE  TypeOK' /\ Placed'
<1>1. /\ DOMAIN file = 1..Len(file) /\ DOMAIN file' = 1..Len(file)
      /\ active \in 1..Len(file) \cup {None} /\ archive \in Seq(1..Len(file))
  BY TypeParts
<1>2. TypeOK'
  <2>1. rotor \in 0..MaxRotations /\ raced \in BOOLEAN /\ Len(file) <= MaxRotations + 1
    BY DEF TypeOK
  <2> QED BY <1>1, <2>1 DEF TypeOK, At, Callers
<1>3. Placed'
  BY <1>1 DEF Placed, At
<1> QED BY <1>2, <1>3

\* A call that has begun, and what it is allowed to be next.
LEMMA CallTyped ==
    ASSUME TypeOK, Placed, NEW p \in Processes
    PROVE  /\ proc[p] \in Callers(Len(file))
           /\ Idle \in Callers(Len(file))
           /\ ~At(p, "idle") => proc[p].entry \in Entries
           /\ At(p, "opened") \/ At(p, "admitted") \/ At(p, "failed") => proc[p].on \in 1..Len(file)
           /\ \A q \in Processes, f \in 1..Len(file) :
                 lock[f] = q <=> proc[q].stage = "admitted" /\ proc[q].on = f
<1>1. Empty \in Contents /\ "nothing" \in Cuts
  BY DEF Empty, Contents, Cuts
<1> QED BY <1>1, TypeParts DEF TypeOK, Placed, Idle, Callers, Stages, At

\* The plain line, written or not.
LEMMA PlainTyped ==
    ASSUME TypeOK, Placed, NEW p \in Processes, Record(p) \/ RecordFails(p)
    PROVE  TypeOK' /\ Placed'
<1>1. last + 1 \in Entries /\ last' = last + 1 /\ last' \in 0..MaxEntries
  BY LedgerAssumption DEF TypeOK, Record, RecordFails, Entries
<1>2. [past |-> << >>, entry |-> last + 1] \in Lines
  BY <1>1 DEF Lines
<1>3. plain' \in Contents
  BY <1>2, PutTyped DEF TypeOK, Record, RecordFails
<1>4. /\ UNCHANGED <<file, active, archive, lock, rotor, history>>
      /\ faults' \in 0..MaxFaults
  BY LedgerAssumption DEF TypeOK, Record, RecordFails, Fault
<1>5. /\ proc' \in [Processes -> Callers(Len(file))]
      /\ \A q \in Processes :
            \/ proc'[q] = proc[q]
            \/ /\ At(p, "idle") /\ q = p
               /\ proc'[q].stage = "chaining" /\ proc'[q].entry \in Entries
  <2>1. [Idle EXCEPT !.stage = "chaining", !.entry = last + 1] \in Callers(Len(file))
    <3>1. /\ << >> \in Seq(Entries) /\ "chaining" \in Stages
          /\ Empty \in Contents /\ "nothing" \in Cuts
      BY DEF Stages, Empty, Contents, Cuts
    <3> QED BY <1>1, <3>1 DEF Idle, Callers
  <2>2. proc \in [Processes -> Callers(Len(file))]
    BY TypeParts
  <2> QED BY <1>1, <2>1, <2>2 DEF Record, RecordFails, Idle
<1>6. \A q \in Processes, f \in 1..Len(file) :
         lock'[f] = q <=> proc'[q].stage = "admitted" /\ proc'[q].on = f
  BY <1>4, <1>5, CallTyped DEF At
<1>7. \A q \in Processes :
         /\ proc'[q].stage # "idle" => proc'[q].entry \in Entries
         /\ proc'[q].stage \in {"opened", "admitted", "failed"} => proc'[q].on \in 1..Len(file)
  BY <1>5, CallTyped DEF At
<1>8. /\ file \in Seq(Contents) /\ lock \in [1..Len(file) -> Processes \cup {None}]
      /\ answered \subseteq returned /\ returned \subseteq Entries /\ strays \in Nat
  BY TypeParts DEF TypeOK
<1> QED BY <1>1, <1>3, <1>4, <1>5, <1>6, <1>7, <1>8, SameFiles DEF told, history

\* The record of a call that has begun.
LEMMA RecordTyped ==
    ASSUME TypeOK, Placed, NEW p \in Processes, ~At(p, "idle")
    PROVE  RecordOf(p) \in Lines /\ RecordOf(p) # Torn
<1>1. proc[p].past \in Seq(Entries) /\ proc[p].entry \in Entries /\ None \notin Int
  BY CallTyped, LedgerAssumption DEF Callers
<1> QED BY <1>1 DEF RecordOf, Lines, Torn, Entries

\* A record written to the file of a call, or cut.
LEMMA PutRecordTyped ==
    ASSUME TypeOK, Placed, NEW p \in Processes, At(p, "admitted"), NEW how, PutRecord(p, how)
    PROVE  file' \in Seq(Contents) /\ Len(file') = Len(file)
<1>1. proc[p].on \in 1..Len(file) /\ file \in Seq(Contents)
  BY CallTyped DEF TypeOK
<1>2. RecordOf(p) \in Lines
  BY RecordTyped DEF At
<1>3. file[proc[p].on] \in Contents
  BY <1>1
<1>4. Put(file[proc[p].on], RecordOf(p), how) \in Contents
  BY <1>2, <1>3, PutTyped
<1> QED BY <1>1, <1>4, ExceptSeq DEF PutRecord

\* The rest of a record, written to the file of a call.
LEMMA RestTyped ==
    ASSUME TypeOK, Placed, NEW p \in Processes, At(p, "failed")
    PROVE  WithRest(p) \in Contents
<1> DEFINE f == file[proc[p].on]
           x == IF proc[p].cut = "nothing" THEN RecordOf(p) ELSE Torn
<1>1. proc[p].on \in 1..Len(file) /\ file \in Seq(Contents) /\ proc[p].found \in Contents
  BY CallTyped DEF TypeOK, Callers
<1>2. f \in Contents /\ f.size \in Nat
  <2>1. f \in Contents
    BY <1>1
  <2> QED BY <2>1 DEF Contents
<1>3. RecordOf(p) \in Lines /\ x \in Lines
  BY RecordTyped DEF At, Lines
<1> HIDE DEF f, x
<1>4. /\ Put(proc[p].found, RecordOf(p), "whole") \in Contents
      /\ Put(f, x, "whole") \in Contents
      /\ [f EXCEPT !.ended = TRUE] \in Contents
  BY <1>1, <1>2, <1>3, PutTyped DEF Contents
<1>5. \A g \in Contents : [g EXCEPT !.size = f.size + 1] \in Contents
  BY <1>2 DEF Contents
<1> QED BY <1>4, <1>5 DEF WithRest, f, x

\* A write that fails: the call has its file still, and what it found there.
LEMMA FailTyped ==
    ASSUME TypeOK, Placed, NEW p \in Processes, WriteFails(p)
    PROVE  TypeOK' /\ Placed'
<1>1. PICK how \in Cuts :
         /\ PutRecord(p, how)
         /\ proc' = [proc EXCEPT ![p].stage = "failed", ![p].cut = how,
                                ![p].found = file[proc[p].on]]
  BY DEF WriteFails
<1>2. /\ UNCHANGED <<plain, active, archive, rotor, last, history>> /\ At(p, "admitted")
      /\ faults' \in 0..MaxFaults /\ lock' = [lock EXCEPT ![proc[p].on] = None]
  BY LedgerAssumption DEF TypeOK, WriteFails, Fault, Unlock
<1>3. file' \in Seq(Contents) /\ Len(file') = Len(file)
  BY <1>1, <1>2, PutRecordTyped
<1>4. /\ proc \in [Processes -> Callers(Len(file))] /\ None \notin Processes
      /\ lock \in [1..Len(file) -> Processes \cup {None}]
      /\ proc[p].on \in 1..Len(file) /\ proc[p].entry \in Entries
      /\ file \in Seq(Contents)
  BY <1>2, TypeParts, CallTyped, LedgerAssumption DEF TypeOK, At
<1> DEFINE g == file[proc[p].on]
           c == [proc[p] EXCEPT !.stage = "failed", !.cut = how, !.found = g]
<1>5. g \in Contents
  BY <1>4
<1> HIDE DEF g
<1>6. c \in Callers(Len(file)) /\ c.stage = "failed" /\ c.on = proc[p].on
      /\ c.entry = proc[p].entry
  <2>1. proc[p] \in Callers(Len(file))
    BY <1>4
  <2> QED BY <1>5, <2>1 DEF Callers, Stages
<1>7. proc' = [proc EXCEPT ![p] = c]
  BY <1>1, <1>4 DEF Callers, g
<1> HIDE DEF c
<1>8. /\ proc' \in [Processes -> Callers(Len(file))]
      /\ \A q \in Processes : proc'[q] = IF q = p THEN c ELSE proc[q]
  BY <1>4, <1>6, <1>7
<1>9. /\ lock' \in [1..Len(file) -> Processes \cup {None}]
      /\ \A q \in Processes, f \in 1..Len(file) :
            lock'[f] = q <=> proc'[q].stage = "admitted" /\ proc'[q].on = f
  <2>1. \A f \in 1..Len(file) : lock'[f] = IF f = proc[p].on THEN None ELSE lock[f]
    BY <1>2, <1>4
  <2>2. lock' \in [1..Len(file) -> Processes \cup {None}]
    BY <1>2, <1>4
  <2> QED BY <1>2, <1>4, <1>6, <1>8, <2>1, <2>2, CallTyped DEF At
<1>10. \A q \in Processes :
         /\ proc'[q].stage # "idle" => proc'[q].entry \in Entries
         /\ proc'[q].stage \in {"opened", "admitted", "failed"} => proc'[q].on \in 1..Len(file)
  BY <1>4, <1>6, <1>8, CallTyped DEF At
<1>11. /\ plain' \in Contents /\ last' \in 0..MaxEntries
       /\ answered' \subseteq returned' /\ returned' \subseteq Entries /\ strays' \in Nat
  BY <1>2 DEF TypeOK, history, told
<1>12. UNCHANGED <<active, archive, rotor, raced>>
  BY <1>2 DEF history
<1> QED BY <1>2, <1>3, <1>8, <1>9, <1>10, <1>11, <1>12, SameFiles

\* A call that ends: with or without its record, by an error or a death.
LEMMA EndTyped ==
    ASSUME TypeOK, Placed, NEW p \in Processes,
           Refuse(p) \/ Write(p) \/ Close(p) \/ Die(p)
    PROVE  TypeOK' /\ Placed'
<1>1. /\ UNCHANGED <<plain, active, archive, rotor, last, raced>>
      /\ faults' \in 0..MaxFaults
  BY LedgerAssumption DEF TypeOK, Refuse, Write, Close, Die, Fault, disk, history
<1>2. proc' = [proc EXCEPT ![p] = Idle] /\ ~At(p, "idle")
  BY DEF Refuse, Write, Close, Die, Return, Opened, At
<1>3. file' \in Seq(Contents) /\ Len(file') = Len(file) /\ strays' \in Nat
  <2>1. CASE At(p, "admitted")
    <3>1. strays' = strays /\ strays \in Nat
      BY <2>1 DEF Refuse, Write, Close, Die, Opened, At, history, TypeOK
    <3> QED BY <2>1, <3>1, PutRecordTyped DEF Refuse, Write, Close, Die, Opened, At
  <2>2. CASE At(p, "failed")
    <3>1. /\ file \in Seq(Contents) /\ proc[p].on \in 1..Len(file) /\ strays \in Nat
          /\ WithRest(p) \in Contents
      BY <2>2, CallTyped, RestTyped DEF TypeOK
    <3>2. \/ file' = file
          \/ file' = [file EXCEPT ![proc[p].on] = WithRest(p)]
      BY <2>2 DEF Refuse, Write, Close, Die, Opened, At
    <3>3. strays' \in Nat
      BY <2>2, <3>1 DEF Refuse, Write, Close, Die, Opened, At, history
    <3> QED BY <3>1, <3>2, <3>3, ExceptSeq
  <2>3. CASE ~At(p, "admitted") /\ ~At(p, "failed")
    BY <2>3 DEF Refuse, Write, Close, Die, Opened, At, disk, TypeOK, history
  <2> QED BY <2>1, <2>2, <2>3
<1>4. lock' = IF At(p, "admitted") THEN [lock EXCEPT ![proc[p].on] = None] ELSE lock
  BY DEF Refuse, Write, Close, Die, Opened, At, disk, Unlock
<1>5. /\ lock' \in [1..Len(file) -> Processes \cup {None}]
      /\ \A q \in Processes, f \in 1..Len(file) :
            lock'[f] = q <=> proc'[q].stage = "admitted" /\ proc'[q].on = f
  <2>1. proc \in [Processes -> Callers(Len(file))] /\ None \notin Processes
        /\ lock \in [1..Len(file) -> Processes \cup {None}]
    BY TypeParts, LedgerAssumption
  <2>2. proc'[p].stage # "admitted" /\ \A q \in Processes \ {p} : proc'[q] = proc[q]
    BY <1>2, <2>1 DEF Idle
  <2> QED BY <1>4, <2>1, <2>2, CallTyped DEF At
<1>6. /\ proc' \in [Processes -> Callers(Len(file))]
      /\ \A q \in Processes :
         /\ proc'[q].stage # "idle" => proc'[q].entry \in Entries
         /\ proc'[q].stage \in {"opened", "admitted", "failed"} => proc'[q].on \in 1..Len(file)
  <2>1. proc \in [Processes -> Callers(Len(file))]
    BY TypeParts
  <2> QED BY <1>2, <2>1, CallTyped DEF At, Idle
<1>7. answered' \subseteq returned' /\ returned' \subseteq Entries
  BY CallTyped DEF TypeOK, Refuse, Write, Close, Die, Return, Opened, At, told, history
<1>8. plain' \in Contents /\ last' \in 0..MaxEntries
  BY <1>1 DEF TypeOK
<1> QED BY <1>1, <1>3, <1>5, <1>6, <1>7, <1>8, SameFiles

\* A call takes its file, or is admitted to it.
LEMMA OpenTyped ==
    ASSUME TypeOK, Placed, NEW p \in Processes, Open(p)
    PROVE  TypeOK' /\ Placed'
<1>1. /\ proc \in [Processes -> Callers(Len(file))] /\ At(p, "chaining")
      /\ file \in Seq(Contents) /\ lock \in [1..Len(file) -> Processes \cup {None}]
      /\ DOMAIN file = 1..Len(file) /\ Len(file) \in Nat
      /\ archive \in Seq(1..Len(file)) /\ active \in 1..Len(file) \cup {None}
      /\ None \notin Processes /\ None \notin Int /\ proc[p].entry \in Entries
  BY TypeParts, LedgerAssumption, CallTyped DEF TypeOK, Open, At
<1>2. /\ proc' = [proc EXCEPT ![p].stage = "opened", ![p].on = active']
      /\ UNCHANGED <<plain, archive, rotor, last, faults, answered, returned, raced, strays>>
  BY DEF Open, told, history
<1>3. /\ plain' \in Contents /\ last' \in 0..MaxEntries /\ faults' \in 0..MaxFaults
      /\ answered' \subseteq returned' /\ returned' \subseteq Entries
      /\ rotor' \in 0..MaxRotations /\ raced' \in BOOLEAN /\ strays' \in Nat
  BY <1>2 DEF TypeOK
<1>4. ASSUME NEW n \in Nat, Len(file) <= n, active' \in 1..n
      PROVE  /\ proc' \in [Processes -> Callers(n)]
             /\ proc'[p].stage = "opened" /\ proc'[p].on = active'
             /\ \A q \in Processes :
                   /\ proc'[q].stage # "idle" => proc'[q].entry \in Entries
                   /\ proc'[q].stage \in {"opened", "admitted", "failed"} => proc'[q].on \in 1..n
  <2>1. proc[p] \in Callers(n) /\ \A q \in Processes : proc[q] \in Callers(n)
    BY <1>1, <1>4 DEF Callers
  <2>2. [proc[p] EXCEPT !.stage = "opened", !.on = active'] \in Callers(n)
    BY <1>4, <2>1 DEF Callers, Stages
  <2>3. proc' = [proc EXCEPT ![p] = [proc[p] EXCEPT !.stage = "opened", !.on = active']]
    BY <1>1, <1>2 DEF Callers
  <2>4. proc' \in [Processes -> Callers(n)] /\ \A q \in Processes \ {p} : proc'[q] = proc[q]
    BY <1>1, <2>1, <2>2, <2>3
  <2>5. /\ proc'[p].stage = "opened" /\ proc'[p].on = active'
        /\ proc'[p].entry = proc[p].entry
    BY <1>1, <2>1, <2>3 DEF Callers
  <2>6. \A q \in Processes \ {p} :
           /\ proc'[q].stage # "idle" => proc'[q].entry \in Entries
           /\ proc'[q].stage \in {"opened", "admitted", "failed"} => proc'[q].on \in 1..Len(file)
    BY <2>4, CallTyped DEF At
  <2>7. 1..Len(file) \subseteq 1..n
    BY <1>1, <1>4
  <2> QED BY <1>1, <1>4, <2>4, <2>5, <2>6, <2>7
<1>5. \A q \in Processes \ {p} : proc'[q] = proc[q]
  BY <1>1, <1>2
<1>6. CASE active # None
  <2>1. UNCHANGED <<file, lock, active>> /\ active' \in 1..Len(file)
    BY <1>1, <1>6 DEF Open
  <2>2. \A q \in Processes, f \in 1..Len(file) :
           lock'[f] = q <=> proc'[q].stage = "admitted" /\ proc'[q].on = f
    BY <1>1, <1>2, <2>1, CallTyped DEF At
  <2>3. file' \in Seq(Contents) /\ Len(file') = Len(file)
        /\ lock' \in [1..Len(file) -> Processes \cup {None}]
    BY <1>1, <2>1
  <2>4. Len(file) \in Nat /\ Len(file) <= Len(file)
    BY <1>1
  <2>5. /\ proc' \in [Processes -> Callers(Len(file))]
        /\ \A q \in Processes :
              /\ proc'[q].stage # "idle" => proc'[q].entry \in Entries
              /\ proc'[q].stage \in {"opened", "admitted", "failed"} => proc'[q].on \in 1..Len(file)
    BY <1>4, <2>1, <2>4
  <2> QED BY <1>2, <1>3, <2>1, <2>2, <2>3, <2>5, SameFiles
<1>7. CASE active = None
  <2> DEFINE n == Len(file) + 1
  <2>1. file' = Append(file, Empty) /\ lock' = Append(lock, None) /\ active' = n
    BY <1>7 DEF Open
  <2>2. Empty \in Contents
    BY DEF Empty, Contents
  <2>3. file' \in Seq(Contents) /\ Len(file') = n /\ DOMAIN file' = 1..n
    BY <1>1, <2>1, <2>2
  <2>4. /\ lock' \in [1..n -> Processes \cup {None}] /\ lock'[n] = None
        /\ \A f \in 1..Len(file) : lock'[f] = lock[f]
    <3>1. lock \in Seq(Processes \cup {None}) /\ Len(lock) = Len(file)
      <4>1. lock = [f \in 1..Len(file) |-> lock[f]]
            /\ \A f \in 1..Len(file) : lock[f] \in Processes \cup {None}
        BY <1>1
      <4> QED BY <1>1, <4>1
    <3>2. lock' \in Seq(Processes \cup {None}) /\ Len(lock') = Len(lock) + 1
      BY <2>1, <3>1, AppendProperties
    <3>3. lock'[Len(lock) + 1] = None /\ \A f \in 1..Len(lock) : lock'[f] = lock[f]
      BY <2>1, <3>1, AppendProperties
    <3>4. lock' \in [1..n -> Processes \cup {None}]
      BY <3>1, <3>2
    <3> QED BY <3>1, <3>3, <3>4
  <2>5. n \in Nat /\ Len(file) <= n /\ active' \in 1..n
    BY <1>1, <2>1
  <2>6. \A q \in Processes, f \in 1..n :
           lock'[f] = q <=> proc'[q].stage = "admitted" /\ proc'[q].on = f
    <3>1. \A q \in Processes : proc'[q] = proc[q] \/ (q = p /\ proc'[q].stage = "opened")
      <4>1. proc'[p].stage = "opened"
        BY <1>4, <2>5
      <4>2. ASSUME NEW q \in Processes, q # p
            PROVE  proc'[q] = proc[q]
        BY <1>5, <4>2
      <4> QED BY <4>1, <4>2
    <3>2. \A q \in Processes : proc[q].stage = "admitted" => proc[q].on \in 1..Len(file)
      BY CallTyped DEF At
    <3>3. ~(p = p /\ proc[p].stage = "admitted")
      BY <1>1 DEF At
    <3>4. ASSUME NEW q \in Processes, NEW f \in 1..Len(file)
          PROVE  lock'[f] = q <=> proc'[q].stage = "admitted" /\ proc'[q].on = f
      <4>1. lock[f] = q <=> proc[q].stage = "admitted" /\ proc[q].on = f
        BY CallTyped
      <4> QED BY <2>4, <3>1, <3>3, <4>1
    <3>5. ASSUME NEW q \in Processes
          PROVE  lock'[n] # q /\ ~(proc'[q].stage = "admitted" /\ proc'[q].on = n)
      <4>1. n \notin 1..Len(file)
        BY <1>1
      <4> HIDE DEF n
      <4> QED BY <1>1, <2>4, <3>1, <3>2, <4>1
    <3>6. \A f \in 1..n : f \in 1..Len(file) \/ f = n
      BY <1>1
    <3> HIDE DEF n
    <3> QED BY <3>4, <3>5, <3>6
  <2>7. Len(file) = Len(archive) /\ Len(archive) <= MaxRotations
    BY <1>1, <1>7 DEF Placed
  <2>8. archive' \in Seq(1..n) /\ active' \in 1..n \cup {None}
    BY <1>1, <1>2, <2>1
  <2>9. TypeOK'
    <3>1. \A q \in Processes, f \in DOMAIN file' :
             lock'[f] = q <=> At(q, "admitted")' /\ proc'[q].on = f
      BY <2>3, <2>6 DEF At
    <3>2. proc' \in [Processes -> Callers(n)]
      BY <1>4, <2>5
    <3>3. Len(file') <= MaxRotations + 1
      BY <1>1, <2>3, <2>7, LedgerAssumption
    <3> HIDE DEF n
    <3> QED BY <1>3, <2>3, <2>4, <2>8, <3>1, <3>2, <3>3 DEF TypeOK, Callers
  <2>10. Placed'
    <3>1. Len(file') = Len(archive') + 1 /\ active' # None
      BY <1>1, <1>2, <2>1, <2>3, <2>7
    <3>2. rotor' = 0
      BY <1>2, <1>7 DEF Placed
    <3> HIDE DEF n
    <3> QED BY <1>2, <1>4, <2>3, <2>5, <2>7, <3>1, <3>2 DEF Placed, At
  <2> QED BY <2>9, <2>10
<1> QED BY <1>6, <1>7

\* A call is admitted to its file.
LEMMA AdmitTyped ==
    ASSUME TypeOK, Placed, NEW p \in Processes, Admit(p)
    PROVE  TypeOK' /\ Placed'
<1> DEFINE f == proc[p].on
           tip == Tip(file[f].lines, Start)
<1>1. /\ proc \in [Processes -> Callers(Len(file))] /\ At(p, "opened")
      /\ lock \in [1..Len(file) -> Processes \cup {None}] /\ None \notin Processes
      /\ f \in 1..Len(file) /\ proc[p].entry \in Entries /\ lock[f] = None
      /\ file \in Seq(Contents)
  BY TypeParts, LedgerAssumption, CallTyped DEF TypeOK, Admit, Opened, At
<1>2. tip \in Seq(Entries)
  <2>1. archive \in Seq(DOMAIN file)
    BY DEF TypeOK
  <2>2. file[f].lines \in Seq(Lines) /\ Linked(file[f].lines, Start)
    <3>1. file[f] \in Contents
      BY <1>1
    <3>2. Continues(p)
      BY DEF Admit
    <3> QED BY <3>1, <3>2 DEF Contents, Continues
  <2> QED BY <1>1, <2>1, <2>2, StartTyped, TipTyped
<1>3. /\ lock' = [lock EXCEPT ![f] = p]
      /\ proc' = [proc EXCEPT ![p] = [proc[p] EXCEPT !.stage = "admitted", !.past = tip]]
      /\ UNCHANGED <<plain, file, active, archive, rotor, last, faults, answered, returned,
                     raced, strays>>
  BY <1>1 DEF Admit, told, history, Callers
<1> HIDE DEF f, tip
<1>4. [proc[p] EXCEPT !.stage = "admitted", !.past = tip] \in Callers(Len(file))
  <2>1. proc[p] \in Callers(Len(file))
    BY <1>1
  <2> QED BY <1>2, <2>1 DEF Callers, Stages
<1>5. /\ proc' \in [Processes -> Callers(Len(file))]
      /\ \A q \in Processes : q # p => proc'[q] = proc[q]
      /\ proc'[p].stage = "admitted" /\ proc'[p].on = f /\ proc'[p].entry \in Entries
  BY <1>1, <1>3, <1>4 DEF f, Callers
<1>6. lock' \in [1..Len(file) -> Processes \cup {None}]
  BY <1>1, <1>3
<1>7. \A q \in Processes, g \in 1..Len(file) :
         lock'[g] = q <=> proc'[q].stage = "admitted" /\ proc'[q].on = g
  <2>1. \A g \in 1..Len(file) : lock'[g] = IF g = f THEN p ELSE lock[g]
    BY <1>1, <1>3
  <2>2. \A q \in Processes, g \in 1..Len(file) :
           lock[g] = q <=> proc[q].stage = "admitted" /\ proc[q].on = g
    BY CallTyped
  <2>3. proc[p].stage # "admitted"
    BY <1>1 DEF At
  <2> QED BY <1>1, <1>5, <2>1, <2>2, <2>3
<1>8. \A q \in Processes :
         /\ proc'[q].stage # "idle" => proc'[q].entry \in Entries
         /\ proc'[q].stage \in {"opened", "admitted", "failed"} => proc'[q].on \in 1..Len(file)
  <2>1. \A q \in Processes :
           /\ proc[q].stage # "idle" => proc[q].entry \in Entries
           /\ proc[q].stage \in {"opened", "admitted", "failed"} => proc[q].on \in 1..Len(file)
    BY CallTyped DEF At
  <2> QED BY <1>1, <1>5, <2>1
<1>9. /\ plain' \in Contents /\ file' \in Seq(Contents) /\ Len(file') = Len(file)
      /\ last' \in 0..MaxEntries /\ faults' \in 0..MaxFaults
      /\ answered' \subseteq returned' /\ returned' \subseteq Entries /\ strays' \in Nat
  BY <1>3 DEF TypeOK
<1> QED BY <1>3, <1>5, <1>6, <1>7, <1>8, <1>9, SameFiles

\* The rotation, which begins with a file and takes it into the archive.
LEMMA RotationTyped ==
    ASSUME TypeOK, Placed, BeginRotation \/ Rotate
    PROVE  TypeOK' /\ Placed'
<1>1. /\ archive \in Seq(1..Len(file)) /\ Len(archive) \in Nat
      /\ DOMAIN file = 1..Len(file) /\ active \in 1..Len(file) \cup {None}
      /\ None \notin Int /\ MaxRotations \in Nat
  BY TypeParts, LedgerAssumption
<1>2. CASE BeginRotation
  <2>1. rotor' \in 0..MaxRotations /\ rotor' = Len(archive) + 1
    BY <1>1, <1>2 DEF BeginRotation
  <2> QED BY <1>2, <2>1 DEF BeginRotation, TypeOK, Placed, At, disk, told, history
<1>3. CASE Rotate
  <2>1. active \in 1..Len(file) /\ rotor = Len(archive) + 1 /\ rotor \in 1..MaxRotations
    BY <1>1, <1>3 DEF Rotate, Placed, TypeOK
  <2>2. archive' \in Seq(1..Len(file)) /\ Len(archive') = Len(archive) + 1
    BY <1>1, <1>3, <2>1 DEF Rotate
  <2>3. /\ UNCHANGED <<plain, file, lock, proc, last, faults, answered, returned, strays>>
        /\ active' = None /\ rotor' = 0
    BY <1>3 DEF Rotate, told, history
  <2>4. raced' \in BOOLEAN
    BY <1>3 DEF Rotate, TypeOK
  <2>5. TypeOK'
    <3>1. rotor' \in 0..MaxRotations
      BY <1>1, <2>3
    <3> QED BY <1>1, <2>2, <2>3, <2>4, <3>1 DEF TypeOK, At
  <2>6. Placed'
    BY <1>1, <2>1, <2>2, <2>3 DEF Placed, At
  <2> QED BY <2>5, <2>6
<1> QED BY <1>2, <1>3

\* What a step starts from fits after it.
LEMMA TypeStep == TypeOK /\ Placed /\ [Next]_vars => TypeOK' /\ Placed'
<1> SUFFICES ASSUME TypeOK, Placed, [Next]_vars
             PROVE  TypeOK' /\ Placed'
  OBVIOUS
<1>1. CASE UNCHANGED vars
  BY <1>1 DEF vars, disk, told, history, TypeOK, Placed, At
<1>2. CASE Next
  BY <1>2, PlainTyped, OpenTyped, AdmitTyped, FailTyped, EndTyped, RotationTyped
     DEF Next, Chain, Trouble
<1> QED BY <1>1, <1>2

\* At first there is no file and no call.
LEMMA TypeInit == Init => TypeOK /\ Placed
<1> SUFFICES ASSUME Init PROVE TypeOK /\ Placed
  OBVIOUS
<1>1. Idle \in [stage : Stages, entry : Entries \cup {None}, on : DOMAIN file \cup {None},
                past : Seq(Entries), found : Contents, cut : Cuts]
  <2>1. Empty \in Contents /\ "nothing" \in Cuts
    BY DEF Empty, Contents, Cuts
  <2> QED BY <2>1 DEF Idle, Stages
<1>2. Empty \in Contents
  BY DEF Empty, Contents
<1>3. /\ MaxEntries \in Nat /\ MaxRotations \in Nat /\ MaxFaults \in Nat
  BY LedgerAssumption
<1>4. DOMAIN file = {} /\ Len(file) = 0 /\ Len(archive) = 0
  BY DEF Init
<1>5. TypeOK
  <2>1. file \in Seq(Contents) /\ archive \in Seq(DOMAIN file) /\ Len(file) <= MaxRotations + 1
    BY <1>3, <1>4 DEF Init
  <2>2. lock \in [DOMAIN file -> Processes \cup {None}]
    BY <1>4 DEF Init
  <2>3. proc \in [Processes -> [stage : Stages, entry : Entries \cup {None},
                               on : DOMAIN file \cup {None}, past : Seq(Entries),
                               found : Contents, cut : Cuts]]
    BY <1>1 DEF Init
  <2>4. \A p \in Processes, f \in DOMAIN file :
           lock[f] = p <=> At(p, "admitted") /\ proc[p].on = f
    BY <1>4
  <2>5. /\ plain \in Contents /\ active \in DOMAIN file \cup {None}
        /\ answered \subseteq returned /\ returned \subseteq Entries /\ raced \in BOOLEAN
        /\ strays \in Nat
    BY <1>2 DEF Init
  <2>6. rotor \in 0..MaxRotations /\ last \in 0..MaxEntries /\ faults \in 0..MaxFaults
    BY <1>3 DEF Init
  <2> QED BY <2>1, <2>2, <2>3, <2>4, <2>5, <2>6 DEF TypeOK
<1>6. Placed
  BY <1>3, <1>4 DEF Init, Placed, At, Idle
<1> QED BY <1>5, <1>6

\* The type invariant, and that calls, files and rotations fit together.
THEOREM TypeCorrect == Spec => [](TypeOK /\ Placed)
  BY TypeInit, TypeStep, PTL DEF Spec

-----------------------------------------------------------------------------
(* What was recorded stays, or a line that cannot be read is in its place.  *)

\* Only a line without its newline is not ended.
Shaped(f) == f.ended \/ f.lines # << >>

\* The entry is in a line, or some line says that one was lost.
Has(lines, e) == \E i \in DOMAIN lines : lines[i] = Torn \/ lines[i].entry = e

\* A write, of all or of a part of the line, adds a line or tears the last one.
LEMMA PutCases ==
    ASSUME NEW f \in Contents, NEW line \in Lines, NEW how \in Cuts \cup {"whole"}, Shaped(f)
    PROVE  LET g == Put(f, line, how)
           IN  \/ g = f /\ how = "nothing"
               \/ /\ f.ended /\ how # "nothing"
                  /\ g.lines = Append(f.lines, IF how = "part" THEN Torn ELSE line)
               \/ /\ ~f.ended /\ how # "nothing" /\ f.lines # << >>
                  /\ g.lines = [f.lines EXCEPT ![Len(f.lines)] = Torn]
  BY DEF Put, Shaped

\* A write keeps what the lines have, and one that is whole adds its entry.
LEMMA PutKeeps ==
    ASSUME NEW f \in Contents, NEW line \in Lines, NEW how \in Cuts \cup {"whole"}, Shaped(f)
    PROVE  LET g == Put(f, line, how)
           IN  /\ Shaped(g)
               /\ \A e : Has(f.lines, e) => Has(g.lines, e)
               /\ how = "whole" => Has(g.lines, line.entry)
<1> DEFINE g == Put(f, line, how)
<1>1. f.lines \in Seq(Lines) /\ Torn \in Lines
  BY DEF Contents, Lines
<1>2. CASE g = f /\ how = "nothing"
  BY <1>2
<1>3. CASE /\ f.ended /\ how # "nothing"
           /\ g.lines = Append(f.lines, IF how = "part" THEN Torn ELSE line)
  <2> DEFINE x == IF how = "part" THEN Torn ELSE line
             n == Len(f.lines) + 1
  <2>1. x \in Lines
    BY <1>1
  <2>2. /\ DOMAIN f.lines \subseteq DOMAIN g.lines /\ n \in DOMAIN g.lines
        /\ g.lines[n] = x /\ \A i \in DOMAIN f.lines : g.lines[i] = f.lines[i]
    BY <1>1, <1>3, <2>1
  <2> HIDE DEF n, g
  <2>3. g.lines # << >>
    BY <2>2
  <2> QED BY <2>2, <2>3 DEF g, Has, Shaped
<1>4. CASE /\ ~f.ended /\ how # "nothing" /\ f.lines # << >>
           /\ g.lines = [f.lines EXCEPT ![Len(f.lines)] = Torn]
  <2> DEFINE n == Len(f.lines)
  <2>1. n \in DOMAIN f.lines
    BY <1>1, <1>4
  <2>2. /\ DOMAIN g.lines = DOMAIN f.lines /\ g.lines[n] = Torn
    BY <1>1, <1>4, <2>1
  <2> HIDE DEF n, g
  <2>3. g.lines # << >> /\ \A e : Has(g.lines, e)
    BY <2>1, <2>2 DEF Has
  <2> QED BY <2>3 DEF g, Shaped
<1> QED BY <1>2, <1>3, <1>4, PutCases

\* A write adds to the size of a file, unless nothing was written.
LEMMA PutGrows ==
    ASSUME NEW f \in Contents, NEW line, NEW how \in Cuts \cup {"whole"}
    PROVE  LET g == Put(f, line, how)
           IN  /\ g = f \/ g.size > f.size
               /\ how = "whole" => g.size > f.size
               /\ how = "nothing" => g = f
<1>1. f.size \in Nat
  BY DEF Contents
<1> QED BY <1>1 DEF Put

\* A write that failed: what it left is in the file, or another write came after it.
Resting(p) ==
    LET g == Put(proc[p].found, RecordOf(p), proc[p].cut)
    IN  /\ Shaped(proc[p].found)
        /\ file[proc[p].on].size >= g.size
        /\ file[proc[p].on].size = g.size => file[proc[p].on] = g

\* The entry is in the file, or a line of it was torn that no close can complete.
Holds(f, e) ==
    /\ Has(file[f].lines, e)
    /\ \A p \in Processes :
          At(p, "failed") /\ proc[p].on = f /\ Untouched(p) => Has(proc[p].found.lines, e)

\* What the caller was told is recorded is in audit.jsonl, what the chain answered in one of
\* its files, which all are active or archived; but for a line that was torn.
Kept ==
    /\ Shaped(plain) /\ \A f \in DOMAIN file : Shaped(file[f])
    /\ \A e \in returned : Has(plain.lines, e)
    /\ \A p \in Processes : ~At(p, "idle") => Has(plain.lines, proc[p].entry)
    /\ \A e \in answered : \E f \in DOMAIN file : Holds(f, e)
    /\ \A p \in Processes : At(p, "failed") => Resting(p)
    /\ \A f \in DOMAIN file : f = active \/ \E k \in DOMAIN archive : archive[k] = f
    /\ \A k \in DOMAIN archive : archive[k] # active

\* The record of a call, written to its file.
LEMMA PutRecordKeeps ==
    ASSUME TypeOK, Placed, Kept, NEW p \in Processes, At(p, "admitted"),
           NEW how \in Cuts \cup {"whole"}, PutRecord(p, how)
    PROVE  /\ DOMAIN file' = DOMAIN file
           /\ file'[proc[p].on] = Put(file[proc[p].on], RecordOf(p), how)
           /\ \A f \in DOMAIN file : f # proc[p].on => file'[f] = file[f]
           /\ \A f \in DOMAIN file : Shaped(file'[f])
           /\ \A f \in DOMAIN file : file'[f] = file[f] \/ file'[f].size > file[f].size
           /\ \A f \in DOMAIN file : \A e : Has(file[f].lines, e) => Has(file'[f].lines, e)
           /\ how = "whole" =>
                 /\ Has(file'[proc[p].on].lines, proc[p].entry)
                 /\ file'[proc[p].on].size > file[proc[p].on].size
<1> DEFINE n == proc[p].on
           line == RecordOf(p)
<1>1. n \in DOMAIN file /\ file \in Seq(Contents) /\ DOMAIN file = 1..Len(file)
  BY TypeParts, CallTyped DEF TypeOK
<1>2. line \in Lines /\ line.entry = proc[p].entry
  BY RecordTyped DEF At, RecordOf
<1>3. file[n] \in Contents /\ Shaped(file[n])
  BY <1>1 DEF Kept
<1>4. /\ DOMAIN file' = DOMAIN file /\ file'[n] = Put(file[n], line, how)
      /\ \A f \in DOMAIN file : f # n => file'[f] = file[f]
  BY <1>1 DEF PutRecord
<1>5. /\ Shaped(file'[n]) /\ \A e : Has(file[n].lines, e) => Has(file'[n].lines, e)
      /\ how = "whole" => Has(file'[n].lines, line.entry)
      /\ file'[n] = file[n] \/ file'[n].size > file[n].size
      /\ how = "whole" => file'[n].size > file[n].size
  BY <1>2, <1>3, <1>4, PutKeeps, PutGrows
<1> HIDE DEF n, line
<1>6. \A f \in DOMAIN file : Shaped(file[f])
  BY DEF Kept
<1> QED BY <1>1, <1>2, <1>4, <1>5, <1>6 DEF n, line

\* Files that only grow keep what they have under the writes that failed.
LEMMA FailedStays ==
    ASSUME TypeOK, Placed, Kept, TypeOK',
           DOMAIN file' = DOMAIN file,
           \A f \in DOMAIN file : file'[f] = file[f] \/ file'[f].size > file[f].size,
           \A f \in DOMAIN file : \A e : Holds(f, e) => Has(file'[f].lines, e),
           \A q \in Processes : proc'[q].stage = "failed" =>
              \/ proc'[q] = proc[q]
              \/ /\ proc'[q].on \in DOMAIN file
                 /\ proc'[q].found = file[proc'[q].on]
                 /\ file'[proc'[q].on] = Put(proc'[q].found, RecordOf(q)', proc'[q].cut)
    PROVE  /\ \A q \in Processes : At(q, "failed")' => Resting(q)'
           /\ \A f \in DOMAIN file : \A e : Holds(f, e) => Holds(f, e)'
<1>1. ASSUME NEW q \in Processes, At(q, "failed")'
      PROVE  /\ Resting(q)'
             /\ \A e : Holds(proc'[q].on, e) /\ Untouched(q)'
                   => Has(proc'[q].found.lines, e)
  <2> DEFINE n == proc'[q].on
             g == Put(proc'[q].found, RecordOf(q)', proc'[q].cut)
  <2>1. CASE proc'[q] = proc[q]
    <3>1. At(q, "failed") /\ RecordOf(q)' = RecordOf(q)
      BY <1>1, <2>1 DEF At, RecordOf
    <3>2. /\ Shaped(proc'[q].found) /\ file[n].size >= g.size
          /\ file[n].size = g.size => file[n] = g
      BY <2>1, <3>1 DEF Kept, Resting
    <3>3. n \in DOMAIN file /\ proc[q].found \in Contents /\ RecordOf(q) \in Lines
      BY <2>1, <3>1, CallTyped, TypeParts, RecordTyped DEF Callers, At
    <3>4. file[n].size \in Nat /\ g.size \in Nat
      <4>1. file[n] \in Contents
        BY <3>3 DEF TypeOK
      <4>2. g \in Contents
        BY <2>1, <3>1, <3>3, PutTyped
      <4> QED BY <4>1, <4>2 DEF Contents
    <3> HIDE DEF g, n
    <3>5. CASE file'[n] = file[n]
      <4>1. Resting(q)'
        BY <3>2, <3>5 DEF Resting, g, n
      <4>2. Untouched(q)' => Untouched(q)
        BY <2>1, <3>1, <3>5 DEF Untouched, n
      <4> QED BY <2>1, <3>1, <4>1, <4>2 DEF Holds, n
    <3>6. CASE file'[n].size > file[n].size
      <4>1. file'[n].size >= g.size /\ file'[n].size # g.size
        <5> DEFINE a == file[n].size
                   b == g.size
                   c == file'[n].size
        <5>1. c \in Nat
          <6>1. file'[n] \in Contents
            BY <2>1, <3>3 DEF TypeOK, n
          <6> QED BY <6>1 DEF Contents
        <5>2. a \in Nat /\ b \in Nat /\ a >= b /\ c > a
          BY <3>2, <3>4, <3>6
        <5> HIDE DEF a, b, c
        <5> QED BY <5>1, <5>2 DEF a, b, c
      <4>2. Resting(q)' /\ ~Untouched(q)'
        BY <3>2, <4>1 DEF Resting, Untouched, g, n
      <4> QED BY <4>2
    <3> QED BY <3>3, <3>5, <3>6
  <2>2. CASE /\ n \in DOMAIN file /\ proc'[q].found = file[n] /\ file'[n] = g
    <3>1. Shaped(proc'[q].found)
      BY <2>2 DEF Kept
    <3>2. file'[n].size >= g.size
      <4>1. file'[n] \in Contents
        BY <2>2 DEF TypeOK
      <4> QED BY <2>2, <4>1 DEF Contents
    <3> QED BY <2>2, <3>1, <3>2 DEF Resting, Holds
  <2> QED BY <1>1, <2>1, <2>2 DEF At
<1>2. ASSUME NEW f \in DOMAIN file, NEW e, Holds(f, e)
      PROVE  Holds(f, e)'
  BY <1>1, <1>2 DEF Holds
<1> QED BY <1>1, <1>2

\* At first nothing was returned, answered or written.
LEMMA KeptInit == Init => Kept
<1> SUFFICES ASSUME Init PROVE Kept
  OBVIOUS
<1>1. DOMAIN file = {} /\ DOMAIN archive = {}
  BY DEF Init
<1>2. \A p \in Processes : At(p, "idle") /\ ~At(p, "failed")
  BY DEF Init, At, Idle
<1>3. Shaped(plain) /\ answered = {} /\ returned = {}
  BY DEF Init, Shaped, Empty
<1> QED BY <1>1, <1>2, <1>3 DEF Kept

\* The plain line: audit.jsonl keeps what it has, and has the new entry if the call goes on.
LEMMA RecordKeeps ==
    ASSUME TypeOK, Placed, Kept, TypeOK', NEW p \in Processes, Record(p) \/ RecordFails(p)
    PROVE  Kept'
<1> DEFINE line == [past |-> << >>, entry |-> last + 1]
<1>1. plain \in Contents /\ line \in Lines
  BY LedgerAssumption DEF TypeOK, Record, RecordFails, Lines, Entries
<1>2. \E how \in Cuts \cup {"whole"} :
         plain' = Put(plain, line, how) /\ (Record(p) => how = "whole")
  BY DEF Record, RecordFails
<1>3. /\ Shaped(plain') /\ \A e : Has(plain.lines, e) => Has(plain'.lines, e)
      /\ Record(p) => Has(plain'.lines, last + 1)
  BY <1>1, <1>2, PutKeeps DEF Kept
<1>4. UNCHANGED <<file, active, archive, answered, returned>>
  BY DEF Record, RecordFails, told, history
<1>5. \A q \in Processes :
         \/ proc'[q] = proc[q]
         \/ Record(p) /\ proc'[q].entry = last + 1 /\ proc'[q].stage = "chaining"
  <2>1. proc \in [Processes -> Callers(Len(file))]
    BY TypeParts
  <2> QED BY <2>1 DEF Record, RecordFails, Idle
<1>6. \A q \in Processes : proc'[q].stage # "idle" => Has(plain'.lines, proc'[q].entry)
  BY <1>3, <1>5 DEF Kept, At
<1>7. /\ \A q \in Processes : At(q, "failed")' => Resting(q)'
      /\ \A f \in DOMAIN file : \A e : Holds(f, e) => Holds(f, e)'
  <2>1. \A q \in Processes : proc'[q].stage = "failed" => proc'[q] = proc[q]
    BY <1>5
  <2>2. \A f \in DOMAIN file : \A e : Holds(f, e) => Has(file'[f].lines, e)
    BY <1>4 DEF Holds
  <2> QED BY <1>4, <2>1, <2>2, FailedStays
<1> QED BY <1>3, <1>4, <1>6, <1>7 DEF Kept, At

\* What the close of a failed write leaves: the lines as they were, one more, or the record
\* in the place of its own cut.
LEMMA RestCases ==
    ASSUME TypeOK, Placed, Kept, NEW p \in Processes, At(p, "failed")
    PROVE  LET f == file[proc[p].on]
               g == WithRest(p)
               s == proc[p].found.lines
           IN  /\ f \in Contents /\ Shaped(f) /\ g \in Contents
               /\ g.ended /\ g.size = f.size + 1
               /\ s \in Seq(Lines) /\ RecordOf(p) \in Lines /\ RecordOf(p) # Torn
               /\ \/ g.lines = f.lines
                  \/ \E x \in {RecordOf(p), Torn} : g.lines = Put(f, x, "whole").lines
                  \/ /\ Untouched(p) /\ ~f.ended
                     /\ f.lines = Append(s, Torn) /\ g.lines = Append(s, RecordOf(p))
               /\ Untouched(p) => g.lines = Put(proc[p].found, RecordOf(p), "whole").lines
               /\ ~Untouched(p) =>
                     \/ g.lines = f.lines
                     \/ \E x \in {RecordOf(p), Torn} : g.lines = Put(f, x, "whole").lines
<1> DEFINE f == file[proc[p].on]
           g == WithRest(p)
           h == proc[p].found
           r == RecordOf(p)
           cut == proc[p].cut
<1>1. proc[p].on \in DOMAIN file /\ h \in Contents /\ cut \in Cuts
  BY CallTyped, TypeParts DEF Callers
<1>2. f \in Contents /\ Shaped(f) /\ f.size \in Nat
  <2>1. f \in Contents
    BY <1>1 DEF TypeOK
  <2> QED BY <1>1, <2>1 DEF Kept, Contents
<1>3. r \in Lines /\ r # Torn
  BY RecordTyped DEF At
<1>4. g \in Contents
  BY RestTyped
<1>5. Shaped(h) /\ (Untouched(p) => f = Put(h, r, cut))
  BY DEF Kept, Resting, Untouched
<1>6. h.lines \in Seq(Lines) /\ h.ended \in BOOLEAN
  BY <1>1 DEF Contents
<1> HIDE DEF f, h, r, cut
<1>7. g = IF Untouched(p) THEN [Put(h, r, "whole") EXCEPT !.size = f.size + 1]
          ELSE IF cut = "newline" THEN [[f EXCEPT !.ended = TRUE] EXCEPT !.size = f.size + 1]
          ELSE [Put(f, IF cut = "nothing" THEN r ELSE Torn, "whole") EXCEPT !.size = f.size + 1]
  BY DEF WithRest, f, h, r, cut
<1> HIDE DEF g
<1>8. \A a \in Contents :
         LET b == [a EXCEPT !.size = f.size + 1]
         IN  b.lines = a.lines /\ b.ended = a.ended /\ b.size = f.size + 1
  BY DEF Contents
<1>9. Torn \in Lines
  BY DEF Lines
<1>10. CASE Untouched(p)
  <2>1. g.lines = Put(h, r, "whole").lines /\ g.ended = Put(h, r, "whole").ended
        /\ g.size = f.size + 1
    BY <1>1, <1>3, <1>7, <1>8, <1>10, PutTyped
  <2>2. g.ended
    BY <2>1 DEF Put
  <2>3. CASE cut = "nothing"
    <3>1. f = h
      BY <1>5, <1>10, <2>3 DEF Put
    <3> QED BY <1>2, <1>3, <1>4, <1>6, <1>10, <2>1, <2>2, <3>1 DEF f, g, h, r
  <2>4. CASE cut # "nothing" /\ ~h.ended
    <3>1. g.lines = [h.lines EXCEPT ![Len(h.lines)] = Torn] /\ f.lines = g.lines
      BY <1>5, <1>10, <2>1, <2>4 DEF Put
    <3> QED BY <1>2, <1>3, <1>4, <1>6, <1>10, <2>1, <2>2, <3>1 DEF f, g, h, r
  <2>5. CASE cut = "newline" /\ h.ended
    <3>1. f.lines = Append(h.lines, r) /\ g.lines = Append(h.lines, r)
      BY <1>5, <1>10, <2>1, <2>5 DEF Put
    <3> QED BY <1>2, <1>3, <1>4, <1>6, <1>10, <2>1, <2>2, <3>1 DEF f, g, h, r
  <2>6. CASE cut = "part" /\ h.ended
    <3>1. f = [lines |-> Append(h.lines, Torn), ended |-> FALSE, size |-> h.size + 1]
      <4>1. Put(h, r, "part") =
               [lines |-> Append(h.lines, Torn), ended |-> FALSE, size |-> h.size + 1]
        BY <2>6 DEF Put
      <4> QED BY <1>5, <1>10, <2>6, <4>1
    <3>2. Put(h, r, "whole").lines = Append(h.lines, r)
      BY <2>6 DEF Put
    <3>3. f.lines = Append(h.lines, Torn) /\ g.lines = Append(h.lines, r) /\ ~f.ended
      BY <2>1, <3>1, <3>2
    <3> QED BY <1>2, <1>3, <1>4, <1>6, <1>10, <2>1, <2>2, <3>3 DEF f, g, h, r
  <2> QED BY <1>1, <2>3, <2>4, <2>5, <2>6 DEF Cuts, cut
<1>11. CASE ~Untouched(p) /\ cut = "newline"
  <2>1. [f EXCEPT !.ended = TRUE] \in Contents /\ [f EXCEPT !.ended = TRUE].ended
        /\ [f EXCEPT !.ended = TRUE].lines = f.lines
    BY <1>2 DEF Contents
  <2>2. g.lines = f.lines /\ g.ended /\ g.size = f.size + 1
    BY <1>7, <1>8, <1>11, <2>1
  <2> QED BY <1>2, <1>3, <1>4, <1>6, <1>11, <2>2 DEF f, g, h, r
<1>12. CASE ~Untouched(p) /\ cut # "newline"
  <2> DEFINE x == IF cut = "nothing" THEN r ELSE Torn
  <2>1. x \in {r, Torn} /\ x \in Lines
    BY <1>3, <1>9
  <2>2. g = [Put(f, x, "whole") EXCEPT !.size = f.size + 1]
    BY <1>7, <1>12
  <2> HIDE DEF x
  <2>3. Put(f, x, "whole") \in Contents /\ Put(f, x, "whole").ended
    BY <1>2, <2>1, PutTyped DEF Put
  <2>4. g.lines = Put(f, x, "whole").lines /\ g.ended /\ g.size = f.size + 1
    BY <1>8, <2>2, <2>3
  <2> QED BY <1>2, <1>3, <1>4, <1>6, <1>12, <2>1, <2>4 DEF f, g, h, r
<1> QED BY <1>10, <1>11, <1>12

\* Close: the rest takes nothing away but the cut of its own write.
LEMMA CloseKeeps ==
    ASSUME TypeOK, Placed, Kept, NEW p \in Processes, At(p, "failed"),
           file' = [file EXCEPT ![proc[p].on] = WithRest(p)]
    PROVE  /\ DOMAIN file' = DOMAIN file
           /\ \A f \in DOMAIN file : f # proc[p].on => file'[f] = file[f]
           /\ \A f \in DOMAIN file : Shaped(file'[f])
           /\ \A f \in DOMAIN file : file'[f] = file[f] \/ file'[f].size > file[f].size
           /\ \A f \in DOMAIN file : \A e : Holds(f, e) => Has(file'[f].lines, e)
<1> DEFINE n == proc[p].on
           g == WithRest(p)
           f == file[n]
           s == proc[p].found.lines
<1>1. n \in DOMAIN file
  BY CallTyped, TypeParts
<1>2. /\ DOMAIN file' = DOMAIN file /\ file'[n] = g
      /\ \A k \in DOMAIN file : k # n => file'[k] = file[k]
  BY <1>1
<1>3. /\ f \in Contents /\ Shaped(f) /\ g.ended /\ g.size = f.size + 1
      /\ s \in Seq(Lines) /\ RecordOf(p) \in Lines /\ Torn \in Lines
      /\ \/ g.lines = f.lines
         \/ \E x \in {RecordOf(p), Torn} : g.lines = Put(f, x, "whole").lines
         \/ Untouched(p) /\ f.lines = Append(s, Torn) /\ g.lines = Append(s, RecordOf(p))
  BY RestCases DEF Lines
<1>4. ASSUME NEW e, Holds(n, e)
      PROVE  Has(g.lines, e)
  <2>1. Has(f.lines, e)
    BY <1>4 DEF Holds
  <2>2. ASSUME NEW x \in {RecordOf(p), Torn}, g.lines = Put(f, x, "whole").lines
        PROVE  Has(g.lines, e)
    <3>1. x \in Lines
      BY <1>3
    <3> HIDE DEF f, g
    <3> QED BY <1>3, <2>1, <2>2, <3>1, PutKeeps
  <2>3. CASE Untouched(p) /\ g.lines = Append(s, RecordOf(p))
    <3>1. Has(s, e)
      BY <1>4, <2>3 DEF Holds
    <3> HIDE DEF g, s
    <3>2. \A i \in DOMAIN s : i \in DOMAIN g.lines /\ g.lines[i] = s[i]
      BY <1>3, <2>3
    <3> QED BY <3>1, <3>2 DEF Has
  <2> QED BY <1>3, <2>1, <2>2, <2>3
<1>5. g.size > f.size
  <2>1. f.size \in Nat
    BY <1>3 DEF Contents
  <2> QED BY <1>3, <2>1
<1> HIDE DEF n, g
<1>6. \A k \in DOMAIN file : Shaped(file[k])
  BY DEF Kept
<1> QED BY <1>1, <1>2, <1>3, <1>4, <1>5, <1>6 DEF Shaped, Holds, n

\* A write that fails leaves the call with what it has found.
LEMMA FailKeeps ==
    ASSUME TypeOK, Placed, Kept, TypeOK', NEW p \in Processes, WriteFails(p)
    PROVE  Kept'
<1>1. PICK how \in Cuts :
         /\ PutRecord(p, how)
         /\ proc' = [proc EXCEPT ![p].stage = "failed", ![p].cut = how,
                                ![p].found = file[proc[p].on]]
  BY DEF WriteFails
<1>2. /\ UNCHANGED <<plain, active, archive, answered, returned>> /\ At(p, "admitted")
      /\ proc \in [Processes -> Callers(Len(file))]
  BY TypeParts DEF WriteFails, told, history
<1>3. /\ proc'[p].on = proc[p].on /\ proc'[p].found = file[proc[p].on] /\ proc'[p].cut = how
      /\ proc'[p].entry = proc[p].entry /\ RecordOf(p)' = RecordOf(p)
      /\ \A q \in Processes : q # p => proc'[q] = proc[q]
  <2>1. proc[p] \in Callers(Len(file))
    BY <1>2
  <2> QED BY <1>1, <1>2, <2>1 DEF Callers, RecordOf
<1>4. /\ DOMAIN file' = DOMAIN file /\ proc[p].on \in DOMAIN file
      /\ file'[proc[p].on] = Put(file[proc[p].on], RecordOf(p), how)
      /\ \A f \in DOMAIN file : Shaped(file'[f])
      /\ \A f \in DOMAIN file : file'[f] = file[f] \/ file'[f].size > file[f].size
      /\ \A f \in DOMAIN file : \A e : Has(file[f].lines, e) => Has(file'[f].lines, e)
  BY <1>1, <1>2, PutRecordKeeps, CallTyped, TypeParts
<1>5. /\ \A q \in Processes : At(q, "failed")' => Resting(q)'
      /\ \A f \in DOMAIN file : \A e : Holds(f, e) => Holds(f, e)'
  <2>1. \A q \in Processes : proc'[q].stage = "failed" =>
           \/ proc'[q] = proc[q]
           \/ /\ proc'[q].on \in DOMAIN file
              /\ proc'[q].found = file[proc'[q].on]
              /\ file'[proc'[q].on] = Put(proc'[q].found, RecordOf(q)', proc'[q].cut)
    BY <1>3, <1>4
  <2>2. \A f \in DOMAIN file : \A e : Holds(f, e) => Has(file'[f].lines, e)
    BY <1>4 DEF Holds
  <2> QED BY <1>4, <2>1, <2>2, FailedStays
<1>6. \A q \in Processes : ~At(q, "idle")' => Has(plain'.lines, proc'[q].entry)
  BY <1>2, <1>3 DEF Kept, At
<1> QED BY <1>2, <1>4, <1>5, <1>6 DEF Kept

\* The end of a call: what it has answered is in its file, what it returned in audit.jsonl.
LEMMA EndKeeps ==
    ASSUME TypeOK, Placed, Kept, TypeOK', NEW p \in Processes,
           Refuse(p) \/ Write(p) \/ Close(p) \/ Die(p)
    PROVE  Kept'
<1>1. /\ UNCHANGED <<plain, active, archive>> /\ ~At(p, "idle")
      /\ proc' = [proc EXCEPT ![p] = Idle]
      /\ returned' \subseteq returned \cup {proc[p].entry}
  BY DEF Refuse, Write, Close, Die, Return, Opened, At, disk, told, history
<1>2. \A q \in Processes :
         /\ proc'[q].stage # "idle" => proc'[q] = proc[q]
         /\ q # p => proc'[q] = proc[q]
         /\ proc'[p].stage = "idle"
  <2>1. proc \in [Processes -> Callers(Len(file))]
    BY TypeParts
  <2> QED BY <1>1, <2>1 DEF Idle
<1>3. /\ DOMAIN file' = DOMAIN file
      /\ \A f \in DOMAIN file : Shaped(file'[f])
      /\ \A f \in DOMAIN file : file'[f] = file[f] \/ file'[f].size > file[f].size
      /\ \A f \in DOMAIN file : \A e : Holds(f, e) => Has(file'[f].lines, e)
  <2>1. CASE At(p, "admitted")
    <3>1. \E how \in Cuts \cup {"whole"} : PutRecord(p, how)
      BY <2>1 DEF Refuse, Write, Close, Die, Opened, At
    <3> QED BY <2>1, <3>1, PutRecordKeeps DEF Holds
  <2>2. CASE At(p, "failed") /\ file' = [file EXCEPT ![proc[p].on] = WithRest(p)]
    BY <2>2, CloseKeeps
  <2>3. CASE UNCHANGED file
    BY <2>3 DEF Kept, Holds
  <2> QED BY <2>1, <2>2, <2>3 DEF Refuse, Write, Close, Die, Opened, At, disk
<1>4. /\ \A q \in Processes : At(q, "failed")' => Resting(q)'
      /\ \A f \in DOMAIN file : \A e : Holds(f, e) => Holds(f, e)'
  <2>1. \A q \in Processes : proc'[q].stage = "failed" => proc'[q] = proc[q]
    BY <1>2
  <2> QED BY <1>3, <2>1, FailedStays
<1>5. \A e \in answered' : \E f \in DOMAIN file' : Holds(f, e)'
  <2>1. CASE answered' = answered
    BY <1>3, <1>4, <2>1 DEF Kept
  <2>2. CASE Write(p)
    <3>1. At(p, "admitted") /\ PutRecord(p, "whole")
          /\ answered' = answered \cup {proc[p].entry}
      BY <2>2 DEF Write
    <3> PICK n \in DOMAIN file : n = proc[p].on
      BY <3>1, CallTyped, TypeParts
    <3>2. /\ Has(file'[n].lines, proc[p].entry)
          /\ file'[n].size > file[n].size
      BY <3>1, PutRecordKeeps
    <3>3. ASSUME NEW q \in Processes, At(q, "failed")', proc'[q].on = n
          PROVE  ~Untouched(q)'
      <4> DEFINE g == Put(proc[q].found, RecordOf(q), proc[q].cut)
      <4>1. proc'[q] = proc[q] /\ At(q, "failed")
        BY <1>2, <3>3 DEF At
      <4>2. file[n].size >= g.size /\ file[n] \in Contents /\ g \in Contents
            /\ file'[n] \in Contents
        <5>1. proc[q].found \in Contents /\ RecordOf(q) \in Lines
          BY <4>1, CallTyped, RecordTyped DEF Callers, At
        <5> QED BY <1>3, <3>2, <3>3, <4>1, <5>1, PutTyped DEF Kept, Resting, TypeOK
      <4>3. file'[n].size # g.size
        <5> DEFINE a == file[n].size
                   b == g.size
                   c == file'[n].size
        <5>1. a \in Nat /\ b \in Nat /\ c \in Nat /\ a >= b /\ c > a
          BY <3>2, <4>2 DEF Contents
        <5> HIDE DEF a, b, c
        <5> QED BY <5>1 DEF a, b, c
      <4>4. Untouched(q)' <=> file'[n].size = g.size
        BY <3>3, <4>1 DEF Untouched, RecordOf
      <4> QED BY <4>3, <4>4
    <3>4. ASSUME NEW e \in answered'
          PROVE  \E f \in DOMAIN file' : Holds(f, e)'
      <4>1. CASE e \in answered
        BY <1>3, <1>4, <4>1 DEF Kept
      <4>2. CASE e = proc[p].entry
        <5>1. Has(file'[n].lines, e)
          BY <3>2, <4>2
        <5>2. Holds(n, e)'
          BY <3>3, <5>1 DEF Holds
        <5> QED BY <1>3, <3>2, <5>2
      <4> QED BY <3>1, <4>1, <4>2
    <3> QED BY <3>4
  <2> QED BY <2>1, <2>2 DEF Refuse, Close, Die, told, history
<1>6. /\ \A q \in Processes : ~At(q, "idle")' => Has(plain'.lines, proc'[q].entry)
      /\ \A e \in returned' : Has(plain'.lines, e)
  BY <1>1, <1>2 DEF Kept, At
<1> QED BY <1>1, <1>3, <1>4, <1>5, <1>6 DEF Kept

\* A call that goes on keeps its entry; a new file is the active one.
LEMMA GoesOnKeeps ==
    ASSUME TypeOK, Placed, Kept, NEW p \in Processes, Open(p) \/ Admit(p)
    PROVE  Kept'
<1>1. /\ UNCHANGED <<plain, archive, answered, returned>>
      /\ proc \in [Processes -> Callers(Len(file))] /\ ~At(p, "idle")
  BY TypeParts DEF Open, Admit, Opened, At, told, history
<1>2. \A q \in Processes :
         /\ proc'[q].stage # "idle" => proc[q].stage # "idle" /\ proc'[q].entry = proc[q].entry
         /\ proc'[q].stage = "failed" => proc'[q] = proc[q]
  <2>1. \A q \in Processes : q # p => proc'[q] = proc[q]
    BY <1>1 DEF Open, Admit
  <2>2. proc'[p].entry = proc[p].entry /\ proc'[p].stage # "failed"
    BY <1>1 DEF Open, Admit, Callers
  <2> QED BY <1>1, <2>1, <2>2 DEF At
<1>3. ASSUME \A f \in DOMAIN file : f \in DOMAIN file' /\ file'[f] = file[f]
      PROVE  /\ \A q \in Processes : At(q, "failed")' => Resting(q)'
             /\ \A e \in answered' : \E f \in DOMAIN file' : Holds(f, e)'
  <2>1. ASSUME NEW q \in Processes, At(q, "failed")'
        PROVE  /\ At(q, "failed") /\ proc'[q] = proc[q] /\ Resting(q)'
               /\ Untouched(q)' => Untouched(q)
    <3>1. proc'[q] = proc[q] /\ At(q, "failed") /\ RecordOf(q)' = RecordOf(q)
      BY <1>2, <2>1 DEF At, RecordOf
    <3>2. Resting(q) /\ file'[proc[q].on] = file[proc[q].on]
      BY <1>3, <3>1 DEF Kept, Placed
    <3> QED BY <3>1, <3>2 DEF Resting, Untouched
  <2>2. ASSUME NEW f \in DOMAIN file, NEW e, Holds(f, e)
        PROVE  Holds(f, e)'
    BY <1>3, <2>1, <2>2 DEF Holds
  <2> QED BY <1>1, <1>3, <2>1, <2>2 DEF Kept
<1>4. CASE UNCHANGED <<file, active>>
  BY <1>1, <1>2, <1>3, <1>4 DEF Kept, At
<1>5. CASE file' = Append(file, Empty) /\ active' = Len(file) + 1 /\ active = None
  <2>1. /\ file \in Seq(Contents) /\ Empty \in Contents
        /\ DOMAIN file = 1..Len(file) /\ Len(file) \in Nat
        /\ archive \in Seq(1..Len(file)) /\ None \notin Int
    BY TypeParts, LedgerAssumption DEF TypeOK, Empty, Contents
  <2>2. /\ DOMAIN file' = 1..(Len(file) + 1) /\ file'[Len(file) + 1] = Empty
        /\ \A f \in 1..Len(file) : file'[f] = file[f]
    BY <1>5, <2>1
  <2>3. \A f \in DOMAIN file' : f \in DOMAIN file \/ f = active'
    BY <1>5, <2>1, <2>2
  <2>4. \A f \in DOMAIN file' : Shaped(file'[f])
    BY <1>5, <2>1, <2>2, <2>3 DEF Kept, Shaped, Empty
  <2>5. /\ \A q \in Processes : At(q, "failed")' => Resting(q)'
        /\ \A e \in answered' : \E f \in DOMAIN file' : Holds(f, e)'
    <3>1. \A f \in DOMAIN file : f \in DOMAIN file' /\ file'[f] = file[f]
      BY <2>1, <2>2
    <3> QED BY <1>3, <3>1
  <2>6. \A f \in DOMAIN file' : f = active' \/ \E k \in DOMAIN archive' : archive'[k] = f
    <3>1. \A f \in DOMAIN file : f # None
      BY <2>1
    <3> QED BY <1>1, <1>5, <2>3, <3>1 DEF Kept
  <2>7. \A k \in DOMAIN archive' : archive'[k] # active'
    <3>1. \A k \in DOMAIN archive : archive[k] \in 1..Len(file)
      BY <2>1
    <3> QED BY <1>1, <1>5, <2>1, <3>1
  <2> QED BY <1>1, <1>2, <2>4, <2>5, <2>6, <2>7 DEF Kept, At
<1> QED BY <1>4, <1>5 DEF Open, Admit

\* A step that leaves the files, the calls and the answers as they are leaves what is kept.
LEMMA SameKeeps ==
    ASSUME Kept, UNCHANGED <<plain, file, proc, answered, returned>>,
           \A f \in DOMAIN file : f = active' \/ \E k \in DOMAIN archive' : archive'[k] = f,
           \A k \in DOMAIN archive' : archive'[k] # active'
    PROVE  Kept'
<1>1. /\ \A q \in Processes : At(q, "failed") => Resting(q)'
      /\ \A f, e : Holds(f, e) => Holds(f, e)'
  BY DEF Kept, Resting, Holds, Untouched, RecordOf, At
<1> QED BY <1>1 DEF Kept, At

\* The active file goes into the archive.
LEMMA RotationKeeps ==
    ASSUME TypeOK, Placed, Kept, BeginRotation \/ Rotate
    PROVE  Kept'
<1>1. UNCHANGED <<plain, file, proc, answered, returned>>
  BY DEF BeginRotation, Rotate, disk, told, history
<1>2. CASE UNCHANGED <<active, archive>>
  BY <1>1, <1>2, SameKeeps DEF Kept
<1>3. CASE Rotate
  <2>1. /\ archive \in Seq(1..Len(file)) /\ active \in 1..Len(file) /\ None \notin Int
        /\ DOMAIN file = 1..Len(file) /\ Len(file) \in Nat
    BY <1>3, TypeParts, LedgerAssumption DEF Placed, Rotate
  <2>2. archive' = Append(archive, active) /\ active' = None
    BY <1>3 DEF Rotate
  <2>3. /\ DOMAIN archive' = 1..(Len(archive) + 1) /\ archive'[Len(archive) + 1] = active
        /\ \A k \in DOMAIN archive : k \in DOMAIN archive' /\ archive'[k] = archive[k]
        /\ archive' \in Seq(1..Len(file))
    BY <2>1, <2>2
  <2>4. Len(archive) + 1 \in DOMAIN archive'
    BY <2>1, <2>3
  <2>5. \A f \in DOMAIN file : f = active' \/ \E k \in DOMAIN archive' : archive'[k] = f
    BY <1>1, <2>3, <2>4 DEF Kept
  <2>6. \A k \in DOMAIN archive' : archive'[k] # active'
    BY <2>1, <2>2, <2>3
  <2> QED BY <1>1, <2>5, <2>6, SameKeeps
<1> QED BY <1>2, <1>3 DEF BeginRotation, disk

\* No step of a process or of the operator takes an entry out of the files.
LEMMA KeptStep == TypeOK /\ Placed /\ Kept /\ [Next]_vars => Kept'
<1> SUFFICES ASSUME TypeOK, Placed, Kept, [Next]_vars
             PROVE  Kept'
  OBVIOUS
<1>1. TypeOK'
  BY TypeStep
<1>2. CASE UNCHANGED vars
  BY <1>2, SameKeeps DEF vars, disk, told, history, Kept
<1>3. CASE Next
  BY <1>1, <1>3, RecordKeeps, GoesOnKeeps, FailKeeps, EndKeeps, RotationKeeps
     DEF Next, Chain, Trouble
<1> QED BY <1>2, <1>3

\* What was recorded stays in the file it was written to, or a line that cannot be read.
THEOREM RecordsStay == Spec => []Kept
  BY KeptInit, KeptStep, TypeCorrect, PTL DEF Spec

\* An entry the caller was told is recorded and that is in neither file has left a line of
\* audit.jsonl that cannot be read (write_live_action writes it first, and without a lock).
THEOREM LossHolds == Spec => []LossShows
<1>1. TypeOK /\ Kept => LossShows
  <2> SUFFICES ASSUME TypeOK, Kept, NEW e \in returned, e \notin EntriesIn(plain.lines)
               PROVE  \E i \in DOMAIN plain.lines : plain.lines[i] = Torn
    BY DEF LossShows
  <2>1. e # None /\ Has(plain.lines, e)
    BY LedgerAssumption DEF TypeOK, Entries, Kept
  <2> QED BY <2>1 DEF Has, EntriesIn
<1> QED BY <1>1, TypeCorrect, RecordsStay, PTL

-----------------------------------------------------------------------------
(* The history: the files of the chain, one after the other.               *)

\* Induction, over a set of numbers.
LEMMA NumberInduction ==
    ASSUME NEW A, 0 \in A, \A n \in Nat : n \in A => n + 1 \in A
    PROVE  Nat \subseteq A
<1> SUFFICES ASSUME Nat \ A # {} PROVE FALSE
  OBVIOUS
<1> DEFINE m == Min(Nat \ A)
<1>1. m \in Nat \ A /\ \A j \in Nat \ A : m <= j
  BY LeastNumber
<1> HIDE DEF m
<1>2. m # 0
  BY <1>1
<1>3. m - 1 \in Nat /\ m - 1 \notin Nat \ A /\ (m - 1) + 1 = m
  BY <1>1, <1>2
<1> QED BY <1>1, <1>3

\* The sequences up to the i-th, one after the other.
Joined(seqs, h, i) == IF i = 1 THEN seqs[i] ELSE h[i - 1] \o seqs[i]

\* The function that FlattenSeq is defined by.
LEMMA JoinExists ==
    ASSUME NEW S, NEW seqs \in Seq(Seq(S))
    PROVE  \E h \in [1..Len(seqs) -> Seq(S)] :
              \A i \in 1..Len(seqs) : h[i] = Joined(seqs, h, i)
<1> DEFINE Good(n) == \E h \in [1..n -> Seq(S)] : \A i \in 1..n : h[i] = Joined(seqs, h, i)
           A == {n \in Nat : n <= Len(seqs) => Good(n)}
<1>1. Good(0)
  <2>1. [i \in 1..0 |-> << >>] \in [1..0 -> Seq(S)]
    OBVIOUS
  <2>2. 1..0 = {}
    OBVIOUS
  <2> QED BY <2>1, <2>2
<1> HIDE DEF Good
<1>2. ASSUME NEW n \in Nat, n \in A
      PROVE  n + 1 \in A
  <2> SUFFICES ASSUME n + 1 <= Len(seqs) PROVE Good(n + 1)
    OBVIOUS
  <2>1. Good(n) /\ n + 1 \in 1..Len(seqs) /\ seqs[n + 1] \in Seq(S)
    BY <1>2
  <2>2. PICK h \in [1..n -> Seq(S)] : \A i \in 1..n : h[i] = Joined(seqs, h, i)
    BY <2>1 DEF Good
  <2> DEFINE last1 == Joined(seqs, h, n + 1)
             g == [i \in 1..(n + 1) |-> IF i = n + 1 THEN last1 ELSE h[i]]
  <2>3. last1 \in Seq(S)
    <3>1. CASE n = 0
      BY <2>1, <3>1 DEF Joined
    <3>2. CASE n # 0
      <4>1. h[n] \in Seq(S) /\ last1 = h[n] \o seqs[n + 1]
        <5>1. n \in 1..n /\ n + 1 # 1 /\ (n + 1) - 1 = n
          BY <3>2
        <5> QED BY <5>1 DEF Joined
      <4>2. seqs[n + 1] \in Seq(S)
        BY <2>1
      <4> HIDE DEF last1
      <4> QED BY <4>1, <4>2
    <3> QED BY <3>1, <3>2
  <2> HIDE DEF last1
  <2>4. g \in [1..(n + 1) -> Seq(S)]
    BY <2>2, <2>3
  <2>5. ASSUME NEW i \in 1..(n + 1)
        PROVE  g[i] = Joined(seqs, g, i)
    <3>1. i # 1 => i - 1 \in 1..n /\ g[i - 1] = h[i - 1]
      OBVIOUS
    <3>2. g[i] = Joined(seqs, h, i)
      BY <2>2 DEF last1
    <3> HIDE DEF g
    <3> QED BY <3>1, <3>2 DEF Joined
  <2> HIDE DEF g
  <2> QED BY <2>4, <2>5 DEF Good
<1>3. 0 \in A
  BY <1>1
<1>4. Nat \subseteq A
  <2> HIDE DEF A
  <2> QED BY <1>2, <1>3, NumberInduction
<1>5. Len(seqs) \in Nat /\ Len(seqs) \in A
  BY <1>4
<1> QED BY <1>5 DEF Good

\* FlattenSeq joins.
LEMMA FlattenJoins ==
    ASSUME NEW S, NEW seqs \in Seq(Seq(S)), seqs # << >>
    PROVE  \E h \in [1..Len(seqs) -> Seq(S)] :
              /\ \A i \in 1..Len(seqs) : h[i] = Joined(seqs, h, i)
              /\ FlattenSeq(seqs) = h[Len(seqs)]
<1> DEFINE N == Len(seqs)
           F(h) == [i \in 1..N |-> IF i = 1 THEN seqs[i] ELSE h[i - 1] \o seqs[i]]
           f == CHOOSE h : h = F(h)
<1>1. N \in Nat /\ N # 0 /\ \A i \in 1..N : seqs[i] \in Seq(S)
  OBVIOUS
<1>2. FlattenSeq(seqs) = f[N]
  BY <1>1 DEF FlattenSeq
<1>3. \E h : h = F(h)
  <2>1. PICK h \in [1..N -> Seq(S)] : \A i \in 1..N : h[i] = Joined(seqs, h, i)
    BY JoinExists
  <2>2. h = F(h)
    BY <2>1 DEF Joined
  <2> QED BY <2>2
<1>4. f = F(f)
  BY <1>3
<1> HIDE DEF f
<1>5. DOMAIN f = 1..N /\ \A i \in 1..N : f[i] = Joined(seqs, f, i)
  BY <1>4 DEF Joined
<1> DEFINE A == {n \in Nat : n + 1 <= N => f[n + 1] \in Seq(S)}
<1> HIDE DEF F, N
<1>6. 0 \in A
  <2>1. 1 \in 1..N /\ 0 + 1 = 1
    BY <1>1
  <2>2. f[1] = seqs[1]
    BY <1>5, <2>1 DEF Joined
  <2> QED BY <1>1, <2>1, <2>2
<1>7. ASSUME NEW n \in Nat, n \in A
      PROVE  n + 1 \in A
  <2> SUFFICES ASSUME (n + 1) + 1 <= N PROVE f[(n + 1) + 1] \in Seq(S)
    OBVIOUS
  <2>1. f[n + 1] \in Seq(S)
    BY <1>1, <1>7
  <2>2. (n + 1) + 1 \in 1..N /\ (n + 1) + 1 # 1 /\ ((n + 1) + 1) - 1 = n + 1
    BY <1>1
  <2>3. f[(n + 1) + 1] = f[n + 1] \o seqs[(n + 1) + 1]
    BY <1>5, <2>2 DEF Joined
  <2> QED BY <1>1, <2>1, <2>2, <2>3
<1>8. \A i \in 1..N : f[i] \in Seq(S)
  <2>1. Nat \subseteq A
    <3> HIDE DEF A
    <3> QED BY <1>6, <1>7, NumberInduction
  <2>2. ASSUME NEW i \in 1..N PROVE f[i] \in Seq(S)
    <3>1. i - 1 \in Nat /\ (i - 1) + 1 = i /\ i <= N
      BY <1>1
    <3> QED BY <2>1, <3>1
  <2> QED BY <2>2
<1>9. f \in [1..N -> Seq(S)]
  <2>1. f = [i \in 1..N |-> f[i]]
    BY <1>4, <1>5 DEF F
  <2> QED BY <1>8, <2>1
<1> QED BY <1>2, <1>5, <1>9 DEF N

\* What a sequence has, it has with another one after it.
LEMMA ConcatHas ==
    ASSUME NEW S, NEW a \in Seq(S), NEW b \in Seq(S), NEW j \in DOMAIN a
    PROVE  j \in DOMAIN (a \o b) /\ (a \o b)[j] = a[j]
  OBVIOUS

\* The place after the one that is n away from k.
LEMMA NextPlace ==
    ASSUME NEW N \in Nat, NEW k \in 1..N, NEW n \in Nat, k + (n + 1) <= N
    PROVE  /\ k + n \in 1..N /\ k + (n + 1) \in 1..N
           /\ k + (n + 1) # 1 /\ (k + (n + 1)) - 1 = k + n
  OBVIOUS

\* FlattenSeq leaves nothing out.
LEMMA FlattenHas ==
    ASSUME NEW S, NEW seqs \in Seq(Seq(S)), NEW k \in DOMAIN seqs, NEW i \in DOMAIN seqs[k]
    PROVE  \E j \in DOMAIN FlattenSeq(seqs) : FlattenSeq(seqs)[j] = seqs[k][i]
<1> DEFINE N == Len(seqs)
<1>1. N \in Nat /\ seqs # << >> /\ k \in 1..N /\ \A n \in 1..N : seqs[n] \in Seq(S)
  OBVIOUS
<1>2. PICK h \in [1..N -> Seq(S)] :
         (\A n \in 1..N : h[n] = Joined(seqs, h, n)) /\ FlattenSeq(seqs) = h[N]
  BY <1>1, FlattenJoins
<1> DEFINE In(n) == \E j \in DOMAIN h[k + n] : h[k + n][j] = seqs[k][i]
           A == {n \in Nat : k + n <= N => In(n)}
<1> HIDE DEF N
<1>3. 0 \in A
  <2>1. k + 0 = k
    BY <1>1
  <2>2. CASE k = 1
    BY <1>1, <1>2, <2>1, <2>2 DEF Joined
  <2>3. CASE k # 1
    <3>1. k - 1 \in 1..N /\ h[k] = h[k - 1] \o seqs[k]
      <4>1. k - 1 \in 1..N /\ k \in 1..N
        BY <1>1, <2>3
      <4>2. h[k] = Joined(seqs, h, k)
        BY <1>2, <4>1
      <4> QED BY <2>3, <4>1, <4>2 DEF Joined
    <3>2. h[k - 1] \in Seq(S) /\ seqs[k] \in Seq(S)
      BY <1>1, <1>2, <3>1
    <3>3. /\ Len(h[k - 1]) + i \in DOMAIN h[k]
          /\ h[k][Len(h[k - 1]) + i] = seqs[k][i]
      BY <3>1, <3>2
    <3> QED BY <2>1, <3>3
  <2> QED BY <2>2, <2>3
<1>4. ASSUME NEW n \in Nat, n \in A
      PROVE  n + 1 \in A
  <2> SUFFICES ASSUME k + (n + 1) <= N PROVE In(n + 1)
    OBVIOUS
  <2> DEFINE m == k + (n + 1)
  <2>1. k + n \in 1..N /\ m \in 1..N /\ m # 1 /\ m - 1 = k + n
    BY <1>1, NextPlace
  <2>2. In(n)
    BY <1>1, <1>4, <2>1
  <2>3. PICK j \in DOMAIN h[k + n] : h[k + n][j] = seqs[k][i]
    BY <2>2
  <2> HIDE DEF m
  <2>4. h[m] = h[k + n] \o seqs[m] /\ h[k + n] \in Seq(S) /\ seqs[m] \in Seq(S)
    BY <1>1, <1>2, <2>1 DEF Joined
  <2>5. j \in DOMAIN h[m] /\ h[m][j] = h[k + n][j]
    <3> DEFINE a == h[k + n]
               b == seqs[m]
    <3>1. a \in Seq(S) /\ b \in Seq(S) /\ h[m] = a \o b /\ j \in DOMAIN a
      BY <2>3, <2>4
    <3> HIDE DEF a, b
    <3>2. j \in DOMAIN (a \o b) /\ (a \o b)[j] = a[j]
      BY <3>1, ConcatHas
    <3> QED BY <3>1, <3>2 DEF a
  <2> QED BY <2>3, <2>5 DEF m
<1> HIDE DEF In
<1>5. N - k \in Nat /\ k + (N - k) = N
  BY <1>1
<1>6. In(N - k)
  <2>1. Nat \subseteq A
    <3> HIDE DEF A
    <3> QED BY <1>3, <1>4, NumberInduction
  <2> QED BY <1>1, <1>5, <2>1
<1> QED BY <1>2, <1>5, <1>6 DEF In

\* FlattenSeq of no sequence, of one and of two.
LEMMA FlattenFew ==
    ASSUME NEW S, NEW a \in Seq(S), NEW b \in Seq(S)
    PROVE  /\ FlattenSeq(<< >>) = << >>
           /\ FlattenSeq(<<a>>) = a
           /\ FlattenSeq(<<a, b>>) = a \o b
<1>1. FlattenSeq(<< >>) = << >>
  BY DEF FlattenSeq
<1>2. FlattenSeq(<<a>>) = a
  <2>1. <<a>> \in Seq(Seq(S)) /\ <<a>> # << >> /\ Len(<<a>>) = 1
    OBVIOUS
  <2>2. PICK h \in [1..1 -> Seq(S)] :
           (\A n \in 1..1 : h[n] = Joined(<<a>>, h, n)) /\ FlattenSeq(<<a>>) = h[1]
    BY <2>1, FlattenJoins
  <2> QED BY <2>2 DEF Joined
<1>3. FlattenSeq(<<a, b>>) = a \o b
  <2>1. <<a, b>> \in Seq(Seq(S)) /\ <<a, b>> # << >> /\ Len(<<a, b>>) = 2
    OBVIOUS
  <2>2. PICK h \in [1..2 -> Seq(S)] :
           (\A n \in 1..2 : h[n] = Joined(<<a, b>>, h, n)) /\ FlattenSeq(<<a, b>>) = h[2]
    BY <2>1, FlattenJoins
  <2>3. h[1] = a /\ h[2] = h[1] \o b
    BY <2>2 DEF Joined
  <2> QED BY <2>2, <2>3
<1> QED BY <1>1, <1>2, <1>3

\* The files of the history, and their lines.
LEMMA SegmentsTyped ==
    ASSUME TypeOK
    PROVE  /\ Segments \in Seq(DOMAIN file)
           /\ [i \in DOMAIN Segments |-> file[Segments[i]].lines] \in Seq(Seq(Lines))
<1>1. /\ archive \in Seq(DOMAIN file) /\ active \in DOMAIN file \cup {None}
      /\ file \in Seq(Contents)
  BY DEF TypeOK
<1>2. Segments \in Seq(DOMAIN file)
  <2>1. CASE active = None
    BY <1>1, <2>1 DEF Segments
  <2>2. CASE active # None
    <3>1. <<active>> \in Seq(DOMAIN file)
      BY <1>1, <2>2
    <3> QED BY <1>1, <2>2, <3>1, ConcatProperties DEF Segments
  <2> QED BY <2>1, <2>2
<1> DEFINE s == Segments
<1>3. \A i \in DOMAIN s : file[s[i]].lines \in Seq(Lines)
  <2> TAKE i \in DOMAIN s
  <2>1. s[i] \in DOMAIN file
    BY <1>2
  <2>2. file[s[i]] \in Contents
    BY <1>1, <2>1
  <2> QED BY <2>2 DEF Contents
<1> HIDE DEF s
<1>4. DOMAIN s = 1..Len(s) /\ Len(s) \in Nat
  BY <1>2 DEF s
<1>5. [i \in DOMAIN s |-> file[s[i]].lines] \in Seq(Seq(Lines))
  BY <1>3, <1>4, IsASeq
<1> QED BY <1>2, <1>5 DEF s

\* An append that returned is in the history, or the verification says that it is broken,
\* whatever failed and whenever the operator rotated (append_record, verify_chain_with_archives).
THEOREM AnsweredHolds == Spec => []AnsweredOrReported
<1>1. TypeOK /\ Placed /\ Kept => AnsweredOrReported
  <2> SUFFICES ASSUME TypeOK, Placed, Kept, Verified, NEW e \in answered
               PROVE  e \in EntriesIn(History)
    BY DEF AnsweredOrReported
  <2> DEFINE seqs == [i \in DOMAIN Segments |-> file[Segments[i]].lines]
  <2>1. PICK f \in DOMAIN file : Has(file[f].lines, e)
    BY DEF Kept, Holds
  <2>2. f = active \/ \E k \in DOMAIN archive : archive[k] = f
    BY DEF Kept
  <2>3. \E k \in DOMAIN Segments : Segments[k] = f
    <3>1. archive \in Seq(DOMAIN file) /\ f # None
      BY LedgerAssumption, TypeParts DEF TypeOK
    <3>2. CASE f = active
      <4>1. Segments = archive \o <<active>>
        BY <3>1, <3>2 DEF Segments
      <4> HIDE DEF Segments
      <4>2. Len(archive) + 1 \in DOMAIN Segments /\ Segments[Len(archive) + 1] = active
        BY <3>1, <4>1
      <4> QED BY <3>2, <4>2
    <3>3. CASE \E k \in DOMAIN archive : archive[k] = f
      <4>1. PICK k \in DOMAIN archive : archive[k] = f
        BY <3>3
      <4>2. CASE active = None
        BY <3>1, <4>1, <4>2 DEF Segments
      <4>3. CASE active # None
        BY <3>1, <4>1, <4>3 DEF Segments
      <4> QED BY <4>2, <4>3
    <3> QED BY <2>2, <3>2, <3>3
  <2>4. PICK k \in DOMAIN Segments : Segments[k] = f
    BY <2>3
  <2>5. PICK i \in DOMAIN file[f].lines : file[f].lines[i] = Torn \/ file[f].lines[i].entry = e
    BY <2>1 DEF Has
  <2>6. seqs \in Seq(Seq(Lines)) /\ k \in DOMAIN seqs /\ seqs[k] = file[f].lines
    BY <2>4, SegmentsTyped
  <2> HIDE DEF seqs
  <2>7. PICK j \in DOMAIN FlattenSeq(seqs) : FlattenSeq(seqs)[j] = file[f].lines[i]
    BY <2>5, <2>6, FlattenHas
  <2>8. FlattenSeq(seqs) = History
    BY DEF seqs, History
  <2>9. History[j] # Torn /\ j \in DOMAIN History
    BY <2>7, <2>8 DEF Verified, Linked
  <2>10. History[j].entry = e /\ e # None
    BY <2>5, <2>7, <2>8, <2>9, LedgerAssumption DEF TypeOK, Entries
  <2> QED BY <2>9, <2>10 DEF EntriesIn
<1> QED BY <1>1, TypeCorrect, RecordsStay, PTL

-----------------------------------------------------------------------------
(* As long as no rotation meets an append, the chain is built on what verifies.  *)

LinkedAt(lines, start, i) ==
    lines[i] # Torn /\ lines[i].past = IF i = 1 THEN start ELSE Hash(lines[i - 1])

\* Linked up to the last k lines.
Within(lines, start, k) ==
    \E n \in 0..Len(lines) :
        n >= Len(lines) - k /\ \A i \in 1..n : LinkedAt(lines, start, i)

\* If the first line can be read, it follows the start.
Begins(lines, start) == lines = << >> \/ lines[1] = Torn \/ lines[1].past = start

\* At most one file is sealed, and it is linked; the active one, which is the only one that
\* is open, is linked to it up to its last line and the rests that met the append of another;
\* who is admitted, or closes a failed write that nobody has written behind, has found no line
\* more that is not linked; and a first record follows the start.
Arranged ==
    /\ Len(archive) <= 1
    /\ \A k \in DOMAIN archive :
          file[archive[k]].lines # << >> /\ Linked(file[archive[k]].lines, << >>)
    /\ rotor # 0 => archive = << >> /\ file[active].lines # << >>
    /\ active # None =>
          /\ Begins(file[active].lines, Start)
          /\ Within(file[active].lines, Start, strays + 1)
    /\ \A p \in Processes :
          /\ At(p, "opened") \/ At(p, "admitted") \/ At(p, "failed") => proc[p].on = active
          /\ At(p, "admitted") =>
                /\ file[active].lines = << >> => proc[p].past = Start
                /\ Within(file[active].lines, Start, strays)
          /\ At(p, "failed") =>
                /\ Begins(proc[p].found.lines, Start)
                /\ file[active].lines = << >> \/ proc[p].found.lines = << >>
                      => proc[p].past = Start
                /\ Untouched(p) => Within(proc[p].found.lines, Start, strays)

Line == ~raced => Arranged

\* One line more, or one line torn, is one line more that may not be linked.
LEMMA PutWithin ==
    ASSUME NEW f \in Contents, NEW line \in Lines, NEW how \in Cuts \cup {"whole"}, Shaped(f),
           NEW start, NEW k \in Nat, Within(f.lines, start, k)
    PROVE  Within(Put(f, line, how).lines, start, k + 1)
<1> DEFINE g == Put(f, line, how)
           s == f.lines
           t == g.lines
<1>1. s \in Seq(Lines) /\ Torn \in Lines /\ Len(s) \in Nat
  BY DEF Contents, Lines
<1>2. PICK n \in 0..Len(s) : n >= Len(s) - k /\ \A i \in 1..n : LinkedAt(s, start, i)
  BY DEF Within
<1>3. CASE g = f
  <2>1. n >= Len(s) - (k + 1)
    BY <1>1, <1>2
  <2> QED BY <1>2, <1>3, <2>1 DEF Within
<1>4. CASE f.ended /\ t = Append(s, IF how = "part" THEN Torn ELSE line)
  <2> DEFINE x == IF how = "part" THEN Torn ELSE line
  <2>1. t = Append(s, x) /\ x \in Lines
    BY <1>1, <1>4
  <2> HIDE DEF x, s, t
  <2>2. Len(t) = Len(s) + 1 /\ \A i \in 1..Len(s) : t[i] = s[i]
    BY <1>1, <2>1
  <2>3. n \in 0..Len(t) /\ n >= Len(t) - (k + 1)
    BY <1>1, <1>2, <2>2
  <2>4. ASSUME NEW i \in 1..n PROVE LinkedAt(t, start, i)
    <3>1. i \in 1..Len(s) /\ (i # 1 => i - 1 \in 1..Len(s))
      BY <1>1, <1>2
    <3>2. LinkedAt(s, start, i)
      BY <1>2
    <3> QED BY <2>2, <3>1, <3>2 DEF LinkedAt
  <2>5. Within(t, start, k + 1)
    BY <2>3, <2>4 DEF Within
  <2> QED BY <2>5 DEF t
<1>5. CASE ~f.ended /\ s # << >> /\ t = [s EXCEPT ![Len(s)] = Torn]
  <2>1. Len(s) \in 1..Len(s)
    BY <1>1, <1>5
  <2> HIDE DEF s, t
  <2>2. Len(t) = Len(s) /\ \A i \in 1..(Len(s) - 1) : t[i] = s[i]
    BY <1>1, <1>5, <2>1
  <2> DEFINE m == IF n = Len(s) THEN n - 1 ELSE n
  <2>3. m \in 0..Len(t) /\ m >= Len(t) - (k + 1) /\ m <= n /\ m <= Len(s) - 1
    BY <1>1, <1>2, <2>1, <2>2
  <2> HIDE DEF m
  <2>4. ASSUME NEW i \in 1..m PROVE LinkedAt(t, start, i)
    <3>1. i \in 1..n /\ i \in 1..(Len(s) - 1) /\ (i # 1 => i - 1 \in 1..(Len(s) - 1))
      BY <1>1, <1>2, <2>3
    <3>2. LinkedAt(s, start, i)
      BY <1>2, <3>1
    <3> QED BY <2>2, <3>1, <3>2 DEF LinkedAt
  <2>5. Within(t, start, k + 1)
    BY <2>3, <2>4 DEF Within
  <2> QED BY <2>5 DEF t
<1> QED BY <1>3, <1>4, <1>5, PutCases

\* What is linked up to k lines is so up to more.
LEMMA WithinMore ==
    ASSUME NEW lines \in Seq(Lines), NEW start, NEW j \in Nat, NEW k \in Nat, j <= k,
           Within(lines, start, j)
    PROVE  Within(lines, start, k)
<1>1. PICK n \in 0..Len(lines) :
         n >= Len(lines) - j /\ \A i \in 1..n : LinkedAt(lines, start, i)
  BY DEF Within
<1>2. n >= Len(lines) - k
  <2>1. Len(lines) \in Nat
    OBVIOUS
  <2> QED BY <1>1, <2>1
<1> QED BY <1>1, <1>2 DEF Within

\* What is linked is so up to any number of lines.
LEMMA WithinLinked ==
    ASSUME NEW lines \in Seq(Lines), NEW start, NEW k \in Nat, Linked(lines, start)
    PROVE  Within(lines, start, k)
<1>1. DOMAIN lines = 1..Len(lines) /\ Len(lines) \in Nat
  OBVIOUS
<1>2. \A i \in 1..Len(lines) : LinkedAt(lines, start, i)
  BY <1>1 DEF Linked, LinkedAt
<1>3. Len(lines) \in 0..Len(lines) /\ Len(lines) >= Len(lines) - k
  BY <1>1
<1> QED BY <1>2, <1>3 DEF Within

\* A write begins the lines, if it does, with its own.
LEMMA PutBegins ==
    ASSUME NEW f \in Contents, NEW line \in Lines, NEW how \in Cuts \cup {"whole"}, Shaped(f),
           NEW start, Begins(f.lines, start),
           f.lines = << >> => line = Torn \/ line.past = start
    PROVE  LET t == Put(f, line, how).lines
           IN  /\ Begins(t, start)
               /\ t = << >> => f.lines = << >> /\ how = "nothing"
<1> DEFINE g == Put(f, line, how)
           s == f.lines
           t == g.lines
<1>1. s \in Seq(Lines) /\ Torn \in Lines /\ Len(s) \in Nat
  BY DEF Contents, Lines
<1>2. CASE g = f /\ how = "nothing"
  BY <1>2
<1>3. CASE f.ended /\ t = Append(s, IF how = "part" THEN Torn ELSE line)
  <2> DEFINE x == IF how = "part" THEN Torn ELSE line
  <2>1. t = Append(s, x) /\ x \in Lines /\ (x = Torn \/ x = line)
    BY <1>1, <1>3
  <2> HIDE DEF x, s, t
  <2>2. /\ t # << >> /\ t[1] = IF s = << >> THEN x ELSE s[1]
    BY <1>1, <2>1
  <2> QED BY <2>1, <2>2 DEF Begins, s, t
<1>4. CASE ~f.ended /\ s # << >> /\ t = [s EXCEPT ![Len(s)] = Torn]
  <2>1. Len(s) \in 1..Len(s) /\ 1 \in 1..Len(s) /\ DOMAIN s = 1..Len(s)
    BY <1>1, <1>4
  <2> HIDE DEF s, t
  <2>2. DOMAIN t = DOMAIN s /\ (t[1] = Torn \/ t[1] = s[1])
    BY <1>4, <2>1
  <2>3. t # << >>
    BY <2>1, <2>2
  <2> QED BY <1>4, <2>2, <2>3 DEF Begins, s, t
<1> QED BY <1>2, <1>3, <1>4, PutCases

\* Where the active file starts: from nothing before the first rotation, and after the last
\* line of the sealed file then.
LEMMA StartOf ==
    ASSUME TypeOK, Arranged
    PROVE  /\ archive = << >> => Start = << >>
           /\ archive # << >> =>
                 /\ archive = <<archive[1]>> /\ archive[1] \in DOMAIN file
                 /\ Start = Hash(Last(file[archive[1]].lines)) /\ Start # << >>
<1>1. archive = << >> => Start = << >>
  BY DEF Start
<1>2. ASSUME archive # << >>
      PROVE  /\ archive = <<archive[1]>> /\ archive[1] \in DOMAIN file
             /\ Start = Hash(Last(file[archive[1]].lines)) /\ Start # << >>
  <2> DEFINE s == file[archive[1]].lines
  <2>1. archive \in Seq(DOMAIN file) /\ Len(archive) <= 1 /\ file \in Seq(Contents)
    BY DEF TypeOK, Arranged
  <2>2. archive = <<archive[1]>> /\ archive[1] \in DOMAIN file /\ Last(archive) = archive[1]
        /\ 1 \in DOMAIN archive
    <3>1. Len(archive) = 1
      <4> DEFINE n == Len(archive)
      <4>1. n \in Nat /\ n # 0 /\ n <= 1
        BY <1>2, <2>1, EmptySeq
      <4> HIDE DEF n
      <4>2. n = 1
        BY <4>1
      <4> QED BY <4>2 DEF n
    <3>2. archive[1] \in DOMAIN file /\ Last(archive) = archive[1] /\ 1 \in DOMAIN archive
      <4>1. 1 \in DOMAIN archive
        BY <2>1, <3>1
      <4>2. archive[1] \in DOMAIN file
        BY <2>1, <4>1, ElementOfSeq
      <4>3. Last(archive) = archive[1]
        BY <3>1 DEF Last
      <4> QED BY <4>1, <4>2, <4>3
    <3>3. archive = <<archive[1]>>
      BY <2>1, <3>1, <3>2
    <3> QED BY <3>2, <3>3
  <2>3. s \in Seq(Lines)
    <3>1. file[archive[1]] \in Contents
      BY <2>1, <2>2
    <3> QED BY <3>1 DEF Contents
  <2>4. s # << >> /\ \A i \in DOMAIN s : s[i] # Torn
    BY <2>2 DEF Arranged, Linked
  <2>5. Readable(s) = s
    BY <2>3, <2>4, ReadableWhole
  <2>6. Start = Hash(Last(s))
    BY <1>2, <2>2, <2>4, <2>5 DEF Start
  <2>7. Last(s) \in Lines /\ Last(s) # Torn
    <3>1. Len(s) \in DOMAIN s
      BY <2>3, <2>4
    <3> HIDE DEF s
    <3> QED BY <2>3, <2>4, <3>1 DEF Last
  <2>8. Hash(Last(s)) # << >>
    <3> DEFINE x == Last(s)
    <3>1. x.past \in Seq(Entries) /\ x.entry \in Entries
      BY <2>7 DEF Lines
    <3> HIDE DEF x
    <3>2. Append(x.past, x.entry) # << >>
      BY <3>1
    <3> QED BY <3>2 DEF x, Hash
  <2> QED BY <2>2, <2>6, <2>8
<1> QED BY <1>1, <1>2

\* The start moves only with the archive.
LEMMA StartStays ==
    ASSUME archive \in Seq(DOMAIN file), archive' = archive,
           \A k \in DOMAIN archive : file'[archive[k]] = file[archive[k]]
    PROVE  Start' = Start
<1>1. archive # << >> => Len(archive) \in DOMAIN archive
  OBVIOUS
<1>2. archive # << >> => file'[Last(archive)] = file[Last(archive)]
  BY <1>1 DEF Last
<1> QED BY <1>2 DEF Start

\* At first there is nothing to link.
LEMMA LineInit == Init => Line
  BY DEF Init, Line, Arranged, At, Idle

\* A step that changes neither files nor names, and admits nobody.
LEMMA LineSame ==
    ASSUME TypeOK, Line, UNCHANGED <<file, active, archive, rotor, raced, strays>>,
           \A q \in Processes :
              proc'[q] = proc[q] \/ proc'[q].stage \notin {"opened", "admitted", "failed"}
    PROVE  Line'
<1>1. Start' = Start
  BY StartStays DEF TypeOK
<1>2. \A q \in Processes : proc'[q] = proc[q] => (Untouched(q)' <=> Untouched(q))
  BY DEF Untouched, RecordOf
<1> QED BY <1>1, <1>2 DEF Line, Arranged, At

\* Open: another call on the active file, or a new one.
LEMMA LineOpen ==
    ASSUME TypeOK, Placed, Line, NEW p \in Processes, Open(p)
    PROVE  Line'
<1> SUFFICES ASSUME ~raced' PROVE Arranged'
  BY DEF Line
<1>1. /\ UNCHANGED <<archive, rotor, raced, strays>> /\ Arranged
      /\ proc' = [proc EXCEPT ![p].stage = "opened", ![p].on = active']
      /\ proc \in [Processes -> Callers(Len(file))] /\ strays \in Nat
  BY TypeParts DEF Open, Line, history, TypeOK
<1>2. /\ proc'[p].on = active' /\ proc'[p].stage = "opened"
      /\ \A q \in Processes : q # p => proc'[q] = proc[q]
  BY <1>1 DEF Callers
<1>3. CASE UNCHANGED <<file, active>>
  <2>1. Start' = Start
    BY <1>1, <1>3, StartStays DEF TypeOK
  <2>2. \A q \in Processes : q # p => (Untouched(q)' <=> Untouched(q))
    BY <1>2, <1>3 DEF Untouched, RecordOf
  <2> QED BY <1>1, <1>2, <1>3, <2>1, <2>2 DEF Arranged, At
<1>4. CASE file' = Append(file, Empty) /\ active' = Len(file) + 1 /\ active = None
  <2>1. /\ file \in Seq(Contents) /\ archive \in Seq(DOMAIN file)
        /\ DOMAIN file = 1..Len(file) /\ None \notin Int
    BY TypeParts, LedgerAssumption DEF TypeOK
  <2>2. /\ file'[active'] = Empty
        /\ \A f \in DOMAIN file : file'[f] = file[f]
    BY <1>4, <2>1
  <2>3. \A k \in DOMAIN archive : file'[archive[k]] = file[archive[k]]
    BY <2>1, <2>2
  <2>4. Start' = Start
    BY <1>1, <2>1, <2>3, StartStays
  <2>5. /\ rotor' = 0 /\ Begins(file'[active'].lines, Start')
        /\ Within(file'[active'].lines, Start', strays' + 1)
    <3>1. rotor' = 0 /\ file'[active'].lines = << >> /\ strays' + 1 \in Nat
      BY <1>1, <1>4, <2>2 DEF Placed, Empty
    <3>2. Within(<< >>, Start', strays' + 1)
      <4>1. << >> \in Seq(Lines) /\ Linked(<< >>, Start')
        BY DEF Linked
      <4> QED BY <3>1, <4>1, WithinLinked
    <3> QED BY <3>1, <3>2 DEF Begins
  <2>6. \A q \in Processes : proc[q].stage \notin {"opened", "admitted", "failed"}
    <3>1. \A q \in Processes :
             proc[q].stage \in {"opened", "admitted", "failed"} =>
                proc[q].on \in DOMAIN file /\ proc[q].on = None
      BY <1>1, <1>4 DEF Arranged, Placed, At
    <3> QED BY <2>1, <3>1
  <2>7. \A q \in Processes :
           /\ proc'[q].stage = "opened" => proc'[q].on = active'
           /\ proc'[q].stage # "admitted" /\ proc'[q].stage # "failed"
    BY <1>2, <2>6
  <2> QED BY <1>1, <2>3, <2>5, <2>7 DEF Arranged, At
<1> QED BY <1>3, <1>4 DEF Open

\* Admit: what the call has verified is the active file.
LEMMA LineAdmit ==
    ASSUME TypeOK, Placed, Line, NEW p \in Processes, Admit(p)
    PROVE  Line'
<1> SUFFICES ASSUME ~raced' PROVE Arranged'
  BY DEF Line
<1>1. /\ UNCHANGED <<file, active, archive, rotor, raced, strays>> /\ Arranged
      /\ proc' = [proc EXCEPT ![p].stage = "admitted",
                              ![p].past = Tip(file[proc[p].on].lines, Start)]
      /\ proc \in [Processes -> Callers(Len(file))] /\ strays \in Nat
  BY TypeParts DEF Admit, Line, history, TypeOK
<1>2. /\ proc'[p].on = proc[p].on /\ proc'[p].past = Tip(file[proc[p].on].lines, Start)
      /\ proc'[p].stage = "admitted"
      /\ \A q \in Processes : q # p => proc'[q] = proc[q]
  BY <1>1 DEF Callers
<1>3. proc[p].on = active /\ Linked(file[active].lines, Start) /\ active \in DOMAIN file
  BY <1>1, CallTyped, TypeParts DEF Admit, Opened, Continues, Arranged, At
<1>4. Start' = Start
  BY <1>1, StartStays DEF TypeOK
<1>5. /\ Within(file[active].lines, Start, strays)
      /\ file[active].lines = << >> => proc'[p].past = Start
  <2>1. file[active].lines \in Seq(Lines)
    <3>1. file[active] \in Contents
      BY <1>3 DEF TypeOK
    <3> QED BY <3>1 DEF Contents
  <2> QED BY <1>1, <1>2, <1>3, <2>1, WithinLinked DEF Tip
<1>6. \A q \in Processes : q # p => (Untouched(q)' <=> Untouched(q))
  BY <1>1, <1>2 DEF Untouched, RecordOf
<1>7. \A q \in Processes :
          /\ At(q, "opened")' \/ At(q, "admitted")' \/ At(q, "failed")' => proc'[q].on = active
          /\ At(q, "admitted")' =>
                /\ file[active].lines = << >> => proc'[q].past = Start
                /\ Within(file[active].lines, Start, strays)
          /\ At(q, "failed")' =>
                /\ Begins(proc'[q].found.lines, Start)
                /\ file[active].lines = << >> \/ proc'[q].found.lines = << >>
                      => proc'[q].past = Start
                /\ Untouched(q)' => Within(proc'[q].found.lines, Start, strays)
  <2> TAKE q \in Processes
  <2>1. CASE q = p
    BY <1>2, <1>3, <1>5, <2>1 DEF At
  <2>2. CASE q # p
    BY <1>1, <1>2, <1>6, <2>2 DEF Arranged, At
  <2> QED BY <2>1, <2>2
<1> QED BY <1>1, <1>4, <1>7 DEF Arranged

\* A step that writes to the active file, or not, and admits nobody.
LEMMA LineGrows ==
    ASSUME TypeOK, Placed, Kept, TypeOK', Arranged, active \in DOMAIN file,
           UNCHANGED <<active, archive, rotor>>, strays <= strays',
           DOMAIN file' = DOMAIN file,
           \A f \in DOMAIN file : f # active => file'[f] = file[f],
           file'[active] = file[active] \/ file'[active].size > file[active].size,
           file'[active].lines = << >> => file[active].lines = << >>,
           Begins(file'[active].lines, Start),
           Within(file'[active].lines, Start, strays' + 1),
           \A q \in Processes :
              proc'[q].stage = "admitted" => Within(file'[active].lines, Start, strays'),
           \A q \in Processes :
              \/ proc'[q] = proc[q] \/ proc'[q].stage = "idle"
              \/ /\ proc'[q].stage = "failed" /\ At(q, "admitted")
                 /\ proc'[q].on = active /\ proc'[q].found = file[active]
                 /\ proc'[q].past = proc[q].past
    PROVE  Arranged'
<1>1. /\ archive \in Seq(DOMAIN file) /\ DOMAIN file = 1..Len(file) /\ file \in Seq(Contents)
      /\ active # None /\ strays \in Nat /\ strays' \in Nat
  BY TypeParts, LedgerAssumption DEF TypeOK
<1>2. \A k \in DOMAIN archive : file'[archive[k]] = file[archive[k]]
  <2>1. \A k \in DOMAIN archive : archive[k] \in DOMAIN file /\ archive[k] # active
    BY <1>1 DEF Kept
  <2> QED BY <2>1
<1>3. Start' = Start
  BY <1>1, <1>2, StartStays
<1>4. ASSUME NEW q \in Processes
      PROVE  /\ At(q, "opened")' \/ At(q, "admitted")' \/ At(q, "failed")' => proc'[q].on = active
             /\ At(q, "admitted")' =>
                   /\ file'[active].lines = << >> => proc'[q].past = Start
                   /\ Within(file'[active].lines, Start, strays')
             /\ At(q, "failed")' =>
                   /\ Begins(proc'[q].found.lines, Start)
                   /\ file'[active].lines = << >> \/ proc'[q].found.lines = << >>
                         => proc'[q].past = Start
                   /\ Untouched(q)' => Within(proc'[q].found.lines, Start, strays')
  <2>1. CASE proc'[q] = proc[q]
    <3>1. ASSUME At(q, "failed"), Untouched(q)'
          PROVE  Within(proc'[q].found.lines, Start, strays')
      <4> DEFINE h == Put(proc[q].found, RecordOf(q), proc[q].cut)
      <4>1. proc[q].on = active /\ proc[q].found \in Contents /\ RecordOf(q) \in Lines
        BY <3>1, CallTyped, RecordTyped DEF Arranged, Callers, At
      <4>2. file[active].size >= h.size /\ file'[active].size = h.size
        BY <2>1, <3>1, <4>1 DEF Kept, Resting, Untouched, RecordOf
      <4>3. file[active].size \in Nat
        <5>1. file[active] \in Contents
          BY <1>1
        <5> QED BY <5>1 DEF Contents
      <4>4. h \in Contents
        BY <4>1, PutTyped
      <4>5. h.size \in Nat
        BY <4>4 DEF Contents
      <4>6. file'[active] = file[active]
        <5> DEFINE a == file[active].size
                   b == h.size
        <5>1. a \in Nat /\ b \in Nat /\ a >= b /\ (file'[active] = file[active] \/ b > a)
          BY <4>2, <4>3, <4>5
        <5> HIDE DEF a, b
        <5> QED BY <5>1
      <4>7. Untouched(q)
        BY <4>1, <4>2, <4>6 DEF Untouched
      <4>8. Within(proc[q].found.lines, Start, strays) /\ proc[q].found.lines \in Seq(Lines)
        BY <3>1, <4>1, <4>7 DEF Arranged, Contents
      <4> QED BY <1>1, <2>1, <4>8, WithinMore
    <3> QED BY <2>1, <3>1 DEF Arranged, At
  <2>2. CASE proc'[q].stage = "idle"
    BY <2>2 DEF At
  <2>3. CASE /\ proc'[q].stage = "failed" /\ At(q, "admitted")
             /\ proc'[q].on = active /\ proc'[q].found = file[active]
             /\ proc'[q].past = proc[q].past
    <3>1. /\ Begins(file[active].lines, Start)
          /\ file[active].lines = << >> => proc[q].past = Start
          /\ Within(file[active].lines, Start, strays)
      BY <1>1, <2>3 DEF Arranged
    <3>2. file[active].lines \in Seq(Lines)
      <4>1. file[active] \in Contents
        BY <1>1
      <4> QED BY <4>1 DEF Contents
    <3>3. Within(file[active].lines, Start, strays')
      BY <1>1, <3>1, <3>2, WithinMore
    <3> QED BY <2>3, <3>1, <3>3 DEF At
  <2> QED BY <2>1, <2>2, <2>3
<1>5. rotor' # 0 => archive' = << >> /\ file'[active].lines # << >>
  BY DEF Arranged
<1> QED BY <1>2, <1>3, <1>4, <1>5 DEF Arranged

\* A record that is written, or cut, after what the call has verified.
LEMMA LineWrite ==
    ASSUME TypeOK, Placed, Kept, TypeOK', Line, NEW p \in Processes,
           At(p, "admitted"), NEW how \in Cuts \cup {"whole"}, PutRecord(p, how),
           UNCHANGED <<active, archive, rotor, raced, strays>>,
           \A q \in Processes : q # p => proc'[q] = proc[q],
           \/ proc'[p].stage = "idle"
           \/ /\ proc'[p].stage = "failed" /\ proc'[p].on = proc[p].on
              /\ proc'[p].found = file[proc[p].on] /\ proc'[p].past = proc[p].past
    PROVE  Line'
<1> SUFFICES ASSUME ~raced' PROVE Arranged'
  BY DEF Line
<1>1. Arranged /\ strays \in Nat
  BY DEF Line, TypeOK
<1>2. /\ proc[p].on = active /\ Within(file[active].lines, Start, strays)
      /\ file[active].lines = << >> => proc[p].past = Start
      /\ active \in DOMAIN file /\ active # None
  BY <1>1, CallTyped, TypeParts, LedgerAssumption DEF Arranged, At
<1>3. /\ DOMAIN file' = DOMAIN file /\ file'[active] = Put(file[active], RecordOf(p), how)
      /\ \A f \in DOMAIN file : f # active => file'[f] = file[f]
      /\ file'[active] = file[active] \/ file'[active].size > file[active].size
  BY <1>2, PutRecordKeeps
<1>4. file[active] \in Contents /\ Shaped(file[active]) /\ RecordOf(p) \in Lines
  <2>1. file[active] \in Contents
    BY <1>2 DEF TypeOK
  <2> QED BY <1>2, <2>1, RecordTyped DEF Kept, At
<1>5. Within(file'[active].lines, Start, strays + 1)
  BY <1>1, <1>2, <1>3, <1>4, PutWithin
<1>6. /\ Begins(file'[active].lines, Start)
      /\ file'[active].lines = << >> => file[active].lines = << >>
  <2>1. Begins(file[active].lines, Start) /\ RecordOf(p).past = proc[p].past
    BY <1>1, <1>2 DEF Arranged, RecordOf
  <2> QED BY <1>2, <1>3, <1>4, <2>1, PutBegins
<1>7. \A q \in Processes : proc'[q].stage # "admitted"
  <2>1. \A q \in Processes : proc[q].stage = "admitted" => lock[active] = q
    BY <1>1, <1>2, CallTyped, TypeParts DEF Arranged, At
  <2> QED BY <2>1 DEF At
<1>8. strays <= strays'
  BY <1>1
<1> QED BY <1>1, <1>2, <1>3, <1>5, <1>6, <1>7, <1>8, LineGrows

\* The close of a failed write: the rest follows what the call has verified, or is counted.
LEMMA LineClose ==
    ASSUME TypeOK, Placed, Kept, TypeOK', Line, NEW p \in Processes, Close(p),
           file' = [file EXCEPT ![proc[p].on] = WithRest(p)],
           strays' = strays + (IF Untouched(p) /\ lock[proc[p].on] = None THEN 0 ELSE 1)
    PROVE  Line'
<1> SUFFICES ASSUME ~raced' PROVE Arranged'
  BY DEF Line
<1> DEFINE f == file[active]
           g == WithRest(p)
           h == proc[p].found
           r == RecordOf(p)
<1>1. /\ UNCHANGED <<active, archive, rotor, raced, lock>> /\ Arranged /\ strays \in Nat
      /\ At(p, "failed")
  BY DEF Close, Line, TypeOK
<1>2. /\ proc[p].on = active /\ active \in DOMAIN file /\ active # None
      /\ file \in Seq(Contents)
  BY <1>1, CallTyped, TypeParts, LedgerAssumption DEF Arranged, TypeOK
<1>3. /\ DOMAIN file' = DOMAIN file /\ file'[active] = g
      /\ \A k \in DOMAIN file : k # active => file'[k] = file[k]
      /\ file'[active] = file[active] \/ file'[active].size > file[active].size
  BY <1>1, <1>2, CloseKeeps
<1>4. /\ f \in Contents /\ Shaped(f) /\ h \in Contents /\ Shaped(h)
      /\ r \in Lines /\ Torn \in Lines /\ r.past = proc[p].past
      /\ Untouched(p) => g.lines = Put(h, r, "whole").lines
      /\ ~Untouched(p) => \/ g.lines = f.lines
                          \/ \E x \in {r, Torn} : g.lines = Put(f, x, "whole").lines
  <2>1. h \in Contents /\ Shaped(h)
    BY <1>1, CallTyped DEF Callers, Kept, Resting
  <2> QED BY <1>1, <1>2, <2>1, RestCases DEF Lines, RecordOf
<1>5. /\ Begins(f.lines, Start) /\ Begins(h.lines, Start)
      /\ f.lines = << >> \/ h.lines = << >> => r.past = Start
      /\ Within(f.lines, Start, strays + 1)
      /\ Untouched(p) => Within(h.lines, Start, strays)
  BY <1>1, <1>2, <1>4 DEF Arranged
<1>6. /\ strays' \in Nat /\ strays <= strays' /\ strays' <= strays + 1
      /\ ~Untouched(p) \/ lock[active] # None => strays' = strays + 1
  BY <1>1, <1>2
<1>7. f.lines \in Seq(Lines) /\ g.lines \in Seq(Lines) /\ "whole" \in Cuts \cup {"whole"}
  <2>1. g \in Contents
    BY <1>1, RestTyped
  <2> QED BY <1>4, <2>1 DEF Contents
<1> HIDE DEF f, g, h, r
<1>8. ASSUME Begins(g.lines, Start), g.lines = << >> => f.lines = << >>,
             Within(g.lines, Start, strays' + 1),
             lock[active] # None /\ Within(f.lines, Start, strays)
                => Within(g.lines, Start, strays')
      PROVE  Arranged'
  <2>1. \A q \in Processes : proc'[q] = IF q = p THEN Idle ELSE proc[q]
    <3>1. proc' = [proc EXCEPT ![p] = Idle] /\ proc \in [Processes -> Callers(Len(file))]
      BY TypeParts DEF Close, Return
    <3> QED BY <3>1
  <2>2. ASSUME NEW q \in Processes, proc'[q].stage = "admitted"
        PROVE  Within(g.lines, Start, strays')
    <3>1. proc'[q] = proc[q] /\ At(q, "admitted")
      BY <2>1, <2>2 DEF Idle, At
    <3>2. proc[q].on = active /\ Within(f.lines, Start, strays)
      BY <1>1, <3>1 DEF Arranged, f
    <3>3. lock[active] = q /\ q # None
      BY <1>2, <3>1, <3>2, CallTyped, TypeParts, LedgerAssumption DEF At
    <3> QED BY <1>8, <3>2, <3>3
  <2>3. \A q \in Processes : proc'[q] = proc[q] \/ proc'[q].stage = "idle"
    BY <2>1 DEF Idle
  <2> QED BY <1>1, <1>2, <1>3, <1>6, <1>8, <2>2, <2>3, LineGrows DEF f
<1>9. CASE Untouched(p)
  <2>1. g.lines = Put(h, r, "whole").lines /\ Within(g.lines, Start, strays + 1)
    BY <1>1, <1>4, <1>5, <1>7, <1>9, PutWithin
  <2>2. Begins(g.lines, Start) /\ g.lines # << >>
    BY <1>4, <1>5, <1>7, <2>1, PutBegins
  <2>3. Within(g.lines, Start, strays' + 1)
    <3>1. strays + 1 \in Nat /\ strays' + 1 \in Nat /\ strays + 1 <= strays' + 1
      BY <1>1, <1>6
    <3> QED BY <1>7, <2>1, <3>1, WithinMore
  <2>4. lock[active] # None => Within(g.lines, Start, strays')
    BY <1>6, <2>1
  <2> QED BY <1>8, <2>2, <2>3, <2>4
<1>10. CASE ~Untouched(p)
  <2>1. strays' = strays + 1 /\ strays + 1 \in Nat
    BY <1>1, <1>6, <1>10
  <2>2. CASE g.lines = f.lines
    <3>1. Within(f.lines, Start, strays' + 1)
      <4>1. strays' + 1 \in Nat /\ strays + 1 <= strays' + 1
        BY <1>1, <2>1
      <4> QED BY <1>5, <1>7, <2>1, <4>1, WithinMore
    <3>2. Within(f.lines, Start, strays) => Within(f.lines, Start, strays')
      BY <1>1, <1>6, <1>7, WithinMore
    <3> QED BY <1>5, <1>8, <2>2, <3>1, <3>2
  <2>3. ASSUME NEW x \in {r, Torn}, g.lines = Put(f, x, "whole").lines
        PROVE  Arranged'
    <3>1. x \in Lines /\ (f.lines = << >> => x = Torn \/ x.past = Start)
      BY <1>4, <1>5
    <3>2. Within(g.lines, Start, strays' + 1)
      BY <1>4, <1>5, <1>7, <2>1, <2>3, <3>1, PutWithin
    <3>3. Begins(g.lines, Start) /\ g.lines # << >>
      BY <1>4, <1>5, <1>7, <2>3, <3>1, PutBegins
    <3>4. Within(f.lines, Start, strays) => Within(g.lines, Start, strays')
      BY <1>1, <1>4, <1>7, <2>1, <2>3, <3>1, PutWithin
    <3> QED BY <1>8, <3>2, <3>3, <3>4
  <2> QED BY <1>4, <1>10, <2>2, <2>3
<1> QED BY <1>9, <1>10

\* The end of a call.
LEMMA LineEnd ==
    ASSUME TypeOK, Placed, Kept, TypeOK', Line, NEW p \in Processes,
           Refuse(p) \/ Write(p) \/ WriteFails(p) \/ Close(p) \/ Die(p)
    PROVE  Line'
<1>1. proc \in [Processes -> Callers(Len(file))]
  BY TypeParts
<1>2. CASE At(p, "admitted")
  <2>1. /\ UNCHANGED <<active, archive, rotor, raced, strays>>
        /\ \A q \in Processes : q # p => proc'[q] = proc[q]
    BY <1>1, <1>2 DEF Refuse, Write, WriteFails, Close, Die, Return, Opened, At, history
  <2>2. PICK how \in Cuts \cup {"whole"} :
           /\ PutRecord(p, how)
           /\ \/ proc' = [proc EXCEPT ![p] = Idle]
              \/ proc' = [proc EXCEPT ![p].stage = "failed", ![p].cut = how,
                                      ![p].found = file[proc[p].on]]
    BY <1>2 DEF Refuse, Write, WriteFails, Close, Die, Return, Opened, At
  <2>3. \/ proc'[p].stage = "idle"
        \/ /\ proc'[p].stage = "failed" /\ proc'[p].on = proc[p].on
           /\ proc'[p].found = file[proc[p].on] /\ proc'[p].past = proc[p].past
    <3>1. proc[p] \in Callers(Len(file))
      BY <1>1
    <3> QED BY <1>1, <2>2, <3>1 DEF Callers, Idle
  <2> QED BY <1>2, <2>1, <2>2, <2>3, LineWrite
<1>3. CASE ~At(p, "admitted") /\ UNCHANGED <<file, strays>>
  <2>1. UNCHANGED <<active, archive, rotor, raced>> /\ proc' = [proc EXCEPT ![p] = Idle]
    BY <1>3 DEF Refuse, Write, WriteFails, Close, Die, Return, Opened, At, disk, history
  <2>2. \A q \in Processes :
           proc'[q] = proc[q] \/ proc'[q].stage \notin {"opened", "admitted", "failed"}
    BY <1>1, <2>1 DEF Idle
  <2> QED BY <1>3, <2>1, <2>2, LineSame
<1>4. CASE ~At(p, "admitted") /\ ~UNCHANGED <<file, strays>>
  <2>1. /\ Close(p) /\ file' = [file EXCEPT ![proc[p].on] = WithRest(p)]
        /\ strays' = strays + (IF Untouched(p) /\ lock[proc[p].on] = None THEN 0 ELSE 1)
    BY <1>4 DEF Refuse, Write, WriteFails, Close, Die, Opened, At, disk, history
  <2> QED BY <2>1, LineClose
<1> QED BY <1>2, <1>3, <1>4

\* A rotation begins only over a file that starts from nothing, the first one.
LEMMA LineBegin ==
    ASSUME TypeOK, Placed, Line, BeginRotation
    PROVE  Line'
<1> SUFFICES ASSUME ~raced' PROVE Arranged'
  BY DEF Line
<1>1. UNCHANGED <<file, active, archive, proc, raced, strays>> /\ Arranged
  BY DEF BeginRotation, disk, history, Line
<1>2. /\ active # None /\ file[active].lines # << >>
      /\ Linked(file[active].lines, << >>)
  BY DEF BeginRotation
<1>3. archive = << >>
  <2> SUFFICES ASSUME archive # << >> PROVE FALSE
    OBVIOUS
  <2>1. Start # << >> /\ Begins(file[active].lines, Start)
    BY <1>1, <1>2, StartOf DEF Arranged
  <2>2. 1 \in DOMAIN file[active].lines
    <3>1. file[active] \in Contents
      BY <1>2 DEF TypeOK
    <3>2. file[active].lines \in Seq(Lines)
      BY <3>1 DEF Contents
    <3> QED BY <1>2, <3>2
  <2> QED BY <1>2, <2>1, <2>2 DEF Linked, Begins
<1>4. Start' = Start
  BY <1>1, StartStays DEF TypeOK
<1>5. \A q \in Processes : Untouched(q)' <=> Untouched(q)
  BY <1>1 DEF Untouched, RecordOf
<1> QED BY <1>1, <1>2, <1>3, <1>4, <1>5 DEF Arranged, At

\* A rotation that meets no append seals a linked file that no call has open.
LEMMA LineRotate ==
    ASSUME TypeOK, Placed, Line, Rotate
    PROVE  Line'
<1> SUFFICES ASSUME ~raced' PROVE Arranged'
  BY DEF Line
<1>1. /\ UNCHANGED <<file, proc>> /\ Arranged /\ active' = None /\ rotor' = 0
      /\ archive' = Append(archive, active) /\ rotor # 0
      /\ Linked(file[active].lines, << >>)
      /\ \A q \in Processes : proc[q].on # active
  BY DEF Rotate, Line
<1>2. archive = << >> /\ file[active].lines # << >>
  BY <1>1 DEF Arranged
<1>3. DOMAIN archive' = {1} /\ archive'[1] = active /\ Len(archive') = 1
  BY <1>1, <1>2
<1>4. \A q \in Processes : proc[q].stage \notin {"opened", "admitted", "failed"}
  BY <1>1 DEF Arranged, At
<1> QED BY <1>1, <1>2, <1>3, <1>4 DEF Arranged, At

\* No step builds on what does not verify, but for a rotation that meets an append.
LEMMA LineStep == TypeOK /\ Placed /\ Kept /\ Line /\ [Next]_vars => Line'
<1> SUFFICES ASSUME TypeOK, Placed, Kept, Line, [Next]_vars
             PROVE  Line'
  OBVIOUS
<1>1. CASE UNCHANGED vars
  BY <1>1, LineSame DEF vars, disk, told, history
<1>2. ASSUME NEW p \in Processes, Record(p) \/ RecordFails(p)
      PROVE  Line'
  <2>1. UNCHANGED <<file, active, archive, rotor, raced, strays>>
    BY <1>2 DEF Record, RecordFails, history
  <2>2. \A q \in Processes : proc'[q] = proc[q] \/ proc'[q].stage = "chaining"
    <3>1. proc \in [Processes -> Callers(Len(file))]
      BY TypeParts
    <3> QED BY <1>2, <3>1 DEF Record, RecordFails, Idle
  <2> QED BY <2>1, <2>2, LineSame
<1>3. TypeOK'
  BY TypeStep
<1>4. CASE Next
  BY <1>2, <1>3, <1>4, LineOpen, LineAdmit, LineEnd, LineBegin, LineRotate
     DEF Next, Chain, Trouble
<1> QED BY <1>1, <1>4

\* As long as no rotation has met an append, the sealed file is linked, the active one is so
\* up to its last line and the rests that met an append, and nobody builds on more than that.
THEOREM OneLine == Spec => []Line
  BY LineInit, LineStep, TypeCorrect, RecordsStay, PTL DEF Spec

\* Two sequences of one make a pair.
LEMMA PairOf == ASSUME NEW x, NEW y PROVE <<x>> \o <<y>> = <<x, y>>
<1> DEFINE s == <<x>> \o <<y>>
<1>1. <<x>> \in Seq({x, y}) /\ <<y>> \in Seq({x, y})
  OBVIOUS
<1>2. s \in Seq({x, y}) /\ Len(s) = 2 /\ s[1] = x /\ s[2] = y
  BY <1>1
<1> HIDE DEF s
<1>3. s = <<x, y>>
  BY <1>2
<1> QED BY <1>3 DEF s

\* The history, while at most one file is sealed.
LEMMA HistoryOf ==
    ASSUME TypeOK, Arranged
    PROVE  LET a == file[archive[1]].lines
               b == file[active].lines
           IN  /\ archive # << >> => a \in Seq(Lines)
               /\ active # None => b \in Seq(Lines)
               /\ archive = << >> /\ active = None => History = << >> /\ Segments = << >>
               /\ archive # << >> /\ active = None => History = a /\ Segments = archive
               /\ archive = << >> /\ active # None => History = b /\ Segments = <<active>>
               /\ archive # << >> /\ active # None =>
                     History = a \o b /\ Segments = <<archive[1], active>>
<1> DEFINE a == file[archive[1]].lines
           b == file[active].lines
           seqs == [i \in DOMAIN Segments |-> file[Segments[i]].lines]
<1>1. \A f \in DOMAIN file : file[f].lines \in Seq(Lines)
  <2>1. \A f \in DOMAIN file : file[f] \in Contents
    BY DEF TypeOK
  <2> QED BY <2>1 DEF Contents
<1>2. /\ archive # << >> => a \in Seq(Lines) /\ archive = <<archive[1]>>
      /\ active # None => b \in Seq(Lines)
      /\ << >> \in Seq(Lines)
  BY <1>1, StartOf DEF TypeOK
<1>3. History = FlattenSeq(seqs)
  BY DEF History
<1>4. ASSUME archive = << >>, active = None
      PROVE  History = << >> /\ Segments = << >>
  <2>1. Segments = << >> /\ seqs = << >>
    BY <1>4 DEF Segments
  <2> QED BY <1>2, <1>3, <2>1, FlattenFew
<1>5. ASSUME archive # << >>, active = None
      PROVE  History = a /\ Segments = archive
  <2>1. Segments = <<archive[1]>>
    BY <1>2, <1>5 DEF Segments
  <2> HIDE DEF Segments
  <2>2. seqs = <<a>>
    BY <2>1
  <2> HIDE DEF seqs, a
  <2> QED BY <1>2, <1>3, <1>5, <2>1, <2>2, FlattenFew
<1>6. ASSUME archive = << >>, active # None
      PROVE  History = b /\ Segments = <<active>>
  <2>1. Segments = <<active>>
    BY <1>6 DEF Segments
  <2> HIDE DEF Segments
  <2>2. seqs = <<b>>
    BY <2>1
  <2> HIDE DEF seqs, b
  <2> QED BY <1>2, <1>3, <1>6, <2>1, <2>2, FlattenFew
<1>7. ASSUME archive # << >>, active # None
      PROVE  History = a \o b /\ Segments = <<archive[1], active>>
  <2> DEFINE x == archive[1]
  <2>1. archive = <<x>>
    BY <1>2, <1>7
  <2> HIDE DEF x
  <2>2. Segments = <<x, active>>
    <3>1. Segments = archive \o <<active>>
      BY <1>7 DEF Segments
    <3> HIDE DEF Segments
    <3> QED BY <2>1, <3>1, PairOf
  <2> HIDE DEF Segments
  <2>3. seqs = <<a, b>>
    BY <2>2 DEF x
  <2> HIDE DEF seqs, a, b
  <2>4. History = a \o b
    BY <1>2, <1>3, <1>7, <2>3, FlattenFew
  <2> QED BY <2>2, <2>4 DEF x
<1> HIDE DEF a, b
<1> QED BY <1>2, <1>4, <1>5, <1>6, <1>7 DEF a, b
-----------------------------------------------------------------------------
(* The history is the sealed lines, then the active ones.                  *)

Sealed == IF archive = << >> THEN << >> ELSE file[archive[1]].lines
Current == IF active = None THEN << >> ELSE file[active].lines

Laid ==
    /\ Sealed \in Seq(Lines) /\ Current \in Seq(Lines)
    /\ History = Sealed \o Current

\* The history, while no rotation has met an append.
LEMMA HistoryLaid == TypeOK /\ Arranged => Laid
<1> SUFFICES ASSUME TypeOK, Arranged PROVE Laid
  OBVIOUS
<1>1. Sealed \in Seq(Lines) /\ Current \in Seq(Lines) /\ << >> \in Seq(Lines)
  BY HistoryOf DEF Sealed, Current
<1>2. History = Sealed \o Current
  <2>1. CASE archive = << >> /\ active = None
    BY <2>1, HistoryOf DEF Sealed, Current
  <2>2. CASE archive # << >> /\ active = None
    <3>1. History = Sealed /\ Current = << >>
      BY <2>2, HistoryOf DEF Sealed, Current
    <3> QED BY <1>1, <3>1, ConcatEmptySeq
  <2>3. CASE archive = << >> /\ active # None
    <3>1. History = Current /\ Sealed = << >>
      BY <2>3, HistoryOf DEF Sealed, Current
    <3> QED BY <1>1, <3>1, ConcatEmptySeq
  <2>4. CASE archive # << >> /\ active # None
    BY <2>4, HistoryOf DEF Sealed, Current
  <2> QED BY <2>1, <2>2, <2>3, <2>4
<1> QED BY <1>1, <1>2 DEF Laid

\* What continues the last record of a linked sequence makes one with it.
LEMMA JoinWithin ==
    ASSUME NEW a \in Seq(Lines), NEW b \in Seq(Lines), NEW start, NEW k \in Nat, a # << >>,
           Linked(a, start), Within(b, Hash(Last(a)), k)
    PROVE  Within(a \o b, start, k)
<1> DEFINE t == a \o b
           m == Len(a)
<1>1. /\ m \in Nat /\ Len(b) \in Nat /\ m # 0
      /\ DOMAIN a = 1..m /\ Len(t) = m + Len(b)
      /\ \A i \in 1..m : t[i] = a[i]
      /\ \A i \in 1..Len(b) : t[m + i] = b[i]
      /\ Last(a) = a[m]
  BY DEF Last
<1> HIDE DEF t, m
<1>2. PICK n \in 0..Len(b) :
         n >= Len(b) - k /\ \A i \in 1..n : LinkedAt(b, Hash(a[m]), i)
  BY <1>1 DEF Within
<1>3. m + n \in 0..Len(t) /\ m + n >= Len(t) - k
  BY <1>1, <1>2
<1>4. ASSUME NEW i \in 1..(m + n)
      PROVE  LinkedAt(t, start, i)
  <2>1. CASE i \in 1..m
    <3>1. i # 1 => i - 1 \in 1..m
      BY <1>1, <2>1
    <3> QED BY <1>1, <2>1, <3>1 DEF Linked, LinkedAt
  <2>2. CASE i \notin 1..m
    <3> DEFINE j == i - m
    <3>1. j \in 1..n /\ j \in 1..Len(b) /\ m + j = i /\ i # 1
      BY <1>1, <1>2, <1>4, <2>2
    <3>2. t[i] = b[j] /\ t[i - 1] = IF j = 1 THEN a[m] ELSE b[j - 1]
      <4>1. j # 1 => j - 1 \in 1..Len(b) /\ m + (j - 1) = i - 1
        BY <1>1, <1>2, <3>1
      <4>2. j = 1 => i - 1 = m /\ m \in 1..m
        BY <1>1, <3>1
      <4> HIDE DEF j
      <4>3. t[i] = b[j]
        BY <1>1, <3>1
      <4> QED BY <1>1, <4>1, <4>2, <4>3
    <3> HIDE DEF j
    <3>3. LinkedAt(b, Hash(a[m]), j)
      BY <1>2, <3>1
    <3> QED BY <3>1, <3>2, <3>3 DEF LinkedAt
  <2> QED BY <2>1, <2>2
<1> QED BY <1>3, <1>4 DEF Within, t

\* The history of a chain without such a rotation is linked up to a few lines.
LEMMA HistoryWithin == TypeOK /\ Arranged => Within(History, << >>, strays + 1)
<1> SUFFICES ASSUME TypeOK, Arranged PROVE Within(History, << >>, strays + 1)
  OBVIOUS
<1>1. /\ Sealed \in Seq(Lines) /\ Current \in Seq(Lines) /\ << >> \in Seq(Lines)
      /\ History = Sealed \o Current /\ strays + 1 \in Nat
  BY HistoryLaid DEF Laid, TypeOK
<1>2. archive # << >> => Sealed # << >> /\ Linked(Sealed, << >>) /\ Start = Hash(Last(Sealed))
  <2>1. archive # << >> => 1 \in DOMAIN archive
    BY DEF TypeOK
  <2> QED BY <2>1, StartOf DEF Sealed, Arranged
<1>3. Within(Current, Start, strays + 1)
  <2>1. CASE active # None
    BY <2>1 DEF Current, Arranged
  <2>2. CASE active = None
    <3>1. Current = << >> /\ Linked(<< >>, Start)
      BY <2>2 DEF Current, Linked
    <3> QED BY <1>1, <3>1, WithinLinked
  <2> QED BY <2>1, <2>2
<1>4. CASE archive = << >>
  <2>1. History = Current /\ Start = << >>
    BY <1>1, <1>4, ConcatEmptySeq, StartOf DEF Sealed
  <2> QED BY <1>3, <2>1
<1>5. CASE archive # << >>
  BY <1>1, <1>2, <1>3, <1>5, JoinWithin
<1> QED BY <1>4, <1>5

\* The history verifies up to its last line and the rests that met an append, whatever
\* failed, died or was written in between: no two appends are given the same place
\* (append_record, _walk_chain).
THEOREM ChainHolds == Spec => []ChainSound
<1>1. TypeOK /\ Line => ChainSound
  <2> SUFFICES ASSUME TypeOK, Arranged
               PROVE  \E n \in (Len(History) - 1 - strays) .. Len(History) :
                         n >= 0 /\ Linked(SubSeq(History, 1, n), << >>)
    BY DEF ChainSound, Line
  <2> DEFINE h == History
  <2>1. h \in Seq(Lines) /\ Len(h) \in Nat /\ strays \in Nat
    <3>1. /\ h = Sealed \o Current /\ Sealed \in Seq(Lines) /\ Current \in Seq(Lines)
          /\ strays \in Nat
      BY HistoryLaid DEF Laid, TypeOK
    <3> HIDE DEF h
    <3> QED BY <3>1, ConcatProperties
  <2>2. Within(h, << >>, strays + 1)
    BY HistoryWithin
  <2> HIDE DEF h
  <2>3. PICK n \in 0..Len(h) :
           n >= Len(h) - (strays + 1) /\ \A i \in 1..n : LinkedAt(h, << >>, i)
    BY <2>2 DEF Within
  <2> DEFINE t == SubSeq(h, 1, n)
  <2>4. n \in (Len(h) - 1 - strays)..Len(h) /\ n >= 0
    BY <2>1, <2>3
  <2>5. DOMAIN t = 1..n /\ \A i \in 1..n : t[i] = h[i]
    BY <2>1, <2>3
  <2> HIDE DEF t
  <2>6. ASSUME NEW i \in 1..n PROVE LinkedAt(t, << >>, i)
    <3>1. i # 1 => i - 1 \in 1..n
      BY <2>3
    <3> QED BY <2>3, <2>5, <3>1 DEF LinkedAt
  <2>7. Linked(t, << >>)
    BY <2>5, <2>6 DEF Linked, LinkedAt
  <2> QED BY <2>4, <2>7 DEF t, h
<1> QED BY <1>1, TypeCorrect, OneLine, PTL
-----------------------------------------------------------------------------
(* What has been read once is read again.                                   *)

\* One sequence is a prefix of another whose first elements it has.
LEMMA PrefixHolds ==
    ASSUME NEW S, NEW s \in Seq(S), NEW t \in Seq(S), Len(s) <= Len(t),
           \A i \in 1..Len(s) : t[i] = s[i]
    PROVE  IsPrefix(s, t)
<1>1. /\ Len(s) \in Nat /\ Len(t) \in Nat
      /\ SubSeq(s, 1, Len(s)) = s
  OBVIOUS
<1> DEFINE u == SubSeq(t, 1, Len(s))
<1>2. u \in Seq(S) /\ Len(u) = Len(s) /\ \A i \in 1..Len(s) : u[i] = t[i]
  BY <1>1
<1> HIDE DEF u
<1>3. u = s
  BY <1>1, <1>2
<1> QED BY <1>1, <1>3 DEF IsPrefix, u

\* What is settled is the history, or all of it but a last line that is not ended.
LEMMA SettledParts ==
    ASSUME Laid
    PROVE  /\ Settled \in Seq(Lines)
           /\ Len(Settled) <= Len(History)
           /\ \A i \in 1..Len(Settled) : Settled[i] = History[i]
           /\ Segments # << >> /\ ~file[Last(Segments)].ended /\ History # << >>
                => Len(Settled) = Len(History) - 1
<1> DEFINE h == History
           n == Len(h)
<1>1. h \in Seq(Lines) /\ n \in Nat
  BY ConcatProperties DEF Laid
<1>2. CASE Settled = h /\ ~(Segments # << >> /\ ~file[Last(Segments)].ended)
  BY <1>1, <1>2
<1>3. CASE Settled = SubSeq(h, 1, n - 1)
  <2> HIDE DEF h
  <2>1. CASE n = 0
    <3>1. Settled = << >> /\ h = << >>
      BY <1>1, <1>3, <2>1
    <3> QED BY <1>1, <2>1, <3>1 DEF h
  <2>2. CASE n # 0
    <3>1. n - 1 \in Nat /\ n - 1 <= n
      BY <1>1, <2>2
    <3> DEFINE t == SubSeq(h, 1, n - 1)
    <3>2. t \in Seq(Lines) /\ Len(t) = n - 1 /\ \A i \in 1..(n - 1) : t[i] = h[i]
      <4>1. \A i \in 1..(n - 1) : h[i] \in Lines
        BY <1>1, <3>1
      <4>2. t = [i \in 1..(n - 1) |-> h[i]]
        BY <1>1, <3>1
      <4> HIDE DEF t, n
      <4>3. t \in Seq(Lines) /\ Len(t) = n - 1
        BY <3>1, <4>1, <4>2
      <4> QED BY <4>2, <4>3
    <3> HIDE DEF t, n
    <3> QED BY <1>3, <3>1, <3>2 DEF t, n, h
  <2> QED BY <2>1, <2>2
<1> QED BY <1>2, <1>3 DEF Settled, Front

\* The active file is the last segment.
LEMMA LastSegment ==
    ASSUME TypeOK, active # None
    PROVE  Segments # << >> /\ Last(Segments) = active
<1>1. Segments = archive \o <<active>> /\ archive \in Seq(DOMAIN file)
      /\ active \in DOMAIN file
  BY DEF Segments, TypeOK
<1> DEFINE t == archive \o <<active>>
<1>2. Len(t) = Len(archive) + 1 /\ t[Len(archive) + 1] = active /\ t # << >>
  BY <1>1
<1> HIDE DEF t
<1> QED BY <1>1, <1>2 DEF Last, t

\* A write leaves all but a last line that was not ended where it is.
LEMMA PutPrefix ==
    ASSUME NEW f \in Contents, NEW line \in Lines, NEW how \in Cuts \cup {"whole"}, Shaped(f)
    PROVE  LET m == IF f.ended THEN Len(f.lines) ELSE Len(f.lines) - 1
               t == Put(f, line, how).lines
           IN  Len(t) >= m /\ \A i \in 1..m : t[i] = f.lines[i]
<1> DEFINE s == f.lines
           g == Put(f, line, how)
           m == IF f.ended THEN Len(s) ELSE Len(s) - 1
<1>1. s \in Seq(Lines) /\ Torn \in Lines /\ Len(s) \in Nat
  BY DEF Contents, Lines
<1>2. CASE g = f
  BY <1>1, <1>2
<1>3. CASE f.ended /\ g.lines = Append(s, IF how = "part" THEN Torn ELSE line)
  <2> DEFINE x == IF how = "part" THEN Torn ELSE line
  <2>1. g.lines = Append(s, x) /\ x \in Lines
    BY <1>1, <1>3
  <2> HIDE DEF x, s, g
  <2>2. Len(g.lines) = Len(s) + 1 /\ \A i \in 1..Len(s) : g.lines[i] = s[i]
    BY <1>1, <2>1
  <2> QED BY <1>1, <1>3, <2>2 DEF s, g
<1>4. CASE ~f.ended /\ s # << >> /\ g.lines = [s EXCEPT ![Len(s)] = Torn]
  <2>1. Len(s) \in DOMAIN s
    BY <1>1, <1>4
  <2> HIDE DEF s, g
  <2>2. Len(g.lines) = Len(s) /\ \A i \in 1..(Len(s) - 1) : g.lines[i] = s[i]
    BY <1>1, <1>4, <2>1
  <2> QED BY <1>1, <1>4, <2>2 DEF s, g
<1> HIDE DEF s, g
<1> QED BY <1>2, <1>3, <1>4, PutCases DEF s, g

\* A step that leaves the chain unbroken leaves what was settled where it was.
LEMMA SettledStays ==
    TypeOK /\ Placed /\ Kept /\ Line /\ (~raced => Laid) /\ (~raced => Laid)' /\ [Next]_vars
        => raced' \/ IsPrefix(Settled, History')
<1> SUFFICES ASSUME TypeOK, Placed, Kept, Line, ~raced => Laid, (~raced => Laid)', [Next]_vars,
                    ~raced'
             PROVE  IsPrefix(Settled, History')
  OBVIOUS
<1>1. ~raced
  BY DEF Next, Chain, Trouble, Record, RecordFails, Open, Admit, Refuse, Write, WriteFails,
         Close, Die, BeginRotation, Rotate, vars, history
<1>2. Laid /\ Laid' /\ Arranged
  BY <1>1 DEF Line
<1>3. /\ History \in Seq(Lines) /\ History' \in Seq(Lines)
      /\ Settled \in Seq(Lines) /\ Len(Settled) <= Len(History)
      /\ \A i \in 1..Len(Settled) : Settled[i] = History[i]
      /\ Len(Settled) \in Nat /\ Len(History) \in Nat
  BY <1>2, SettledParts, ConcatProperties DEF Laid
<1>4. CASE History' = History
  BY <1>3, <1>4, PrefixHolds
<1>5. CASE UNCHANGED <<file, active, archive>>
  <2>1. History' = History
    BY <1>5 DEF History, Segments
  <2> QED BY <1>4, <2>1
<1>6. ASSUME NEW p \in Processes, Open(p)
      PROVE  IsPrefix(Settled, History')
  <2>1. CASE file' = Append(file, Empty) /\ active = None /\ active' = Len(file) + 1
    <3>1. /\ file \in Seq(Contents) /\ archive \in Seq(DOMAIN file) /\ archive' = archive
          /\ DOMAIN file = 1..Len(file) /\ None \notin Int
      BY <1>6, TypeParts, LedgerAssumption DEF Open, TypeOK
    <3>2. file'[active'] = Empty /\ active' # None
          /\ \A f \in DOMAIN file : file'[f] = file[f]
      BY <2>1, <3>1
    <3>3. Sealed' = Sealed
      <4>1. archive # << >> => archive[1] \in DOMAIN file
        BY <3>1
      <4> QED BY <3>1, <3>2, <4>1 DEF Sealed
    <3>4. Current = << >> /\ Current' = << >>
      BY <2>1, <3>2 DEF Current, Empty
    <3> QED BY <1>2, <1>4, <3>3, <3>4 DEF Laid
  <2>2. UNCHANGED archive
    BY <1>6 DEF Open
  <2> QED BY <1>5, <1>6, <2>1, <2>2 DEF Open
<1>7. ASSUME UNCHANGED <<active, archive>>, active \in DOMAIN file,
             \A k \in DOMAIN file : k # active => file'[k] = file[k],
             LET f == file[active]
                 m == IF f.ended THEN Len(f.lines) ELSE Len(f.lines) - 1
                 t == file'[active].lines
             IN  Len(t) >= m /\ \A i \in 1..m : t[i] = f.lines[i]
      PROVE  IsPrefix(Settled, History')
  <2> DEFINE f == file[active]
             m == IF f.ended THEN Len(f.lines) ELSE Len(f.lines) - 1
  <2>1. active # None
    BY <1>7, TypeParts, LedgerAssumption
  <2>2. /\ f \in Contents /\ Shaped(f)
        /\ archive \in Seq(DOMAIN file) /\ DOMAIN file = 1..Len(file)
    BY <1>7, TypeParts DEF TypeOK, Kept
  <2>3. Sealed' = Sealed
    <3>1. archive # << >> => archive[1] \in DOMAIN file /\ archive[1] # active
      BY <2>2 DEF Kept
    <3> QED BY <1>7, <3>1 DEF Sealed
  <2>4. Current = f.lines /\ Current' = file'[active].lines
    BY <1>7, <2>1 DEF Current
  <2>5. Len(Current') >= m /\ \A i \in 1..m : Current'[i] = Current[i]
    BY <1>7, <2>4
  <2>6. /\ Sealed \in Seq(Lines) /\ Current \in Seq(Lines) /\ Current' \in Seq(Lines)
        /\ History = Sealed \o Current /\ History' = Sealed \o Current'
    BY <1>2, <2>3 DEF Laid
  <2>7. Len(Settled) <= Len(Sealed) + m
    <3>1. /\ Len(History) = Len(Sealed) + Len(Current)
          /\ Len(Sealed) \in Nat /\ Len(Current) \in Nat
      BY <2>6
    <3>2. CASE f.ended
      BY <1>3, <2>4, <3>1, <3>2
    <3>3. CASE ~f.ended
      <4>1. Current # << >> /\ Len(Current) # 0
        BY <2>2, <2>4, <2>6, <3>3 DEF Shaped
      <4>2. Len(History) # 0 /\ History # << >>
        BY <1>3, <3>1, <4>1
      <4>3. Len(Settled) = Len(History) - 1
        BY <1>2, <2>1, <3>3, <4>2, LastSegment, SettledParts
      <4> QED BY <2>4, <3>1, <3>3, <4>3
    <3> QED BY <3>2, <3>3
  <2> HIDE DEF m, f
  <2>8. m \in Int
    <3>1. Len(Current) \in Nat
      BY <2>6
    <3> QED BY <2>4, <3>1 DEF m
  <2> DEFINE a == Sealed
             b == Current
             c == Current'
             l == Len(Settled)
  <2>9. /\ Len(a) \in Nat /\ Len(b) \in Nat /\ Len(c) \in Nat
        /\ Len(History') = Len(a) + Len(c) /\ Len(History) = Len(a) + Len(b)
        /\ \A i \in 1..Len(a) : History[i] = a[i] /\ History'[i] = a[i]
        /\ \A i \in 1..Len(b) : History[Len(a) + i] = b[i]
        /\ \A i \in 1..Len(c) : History'[Len(a) + i] = c[i]
    BY <2>6
  <2> HIDE DEF a, b, c, l
  <2>10. l <= Len(History') /\ \A i \in 1..l : History'[i] = History[i]
    <3>1. l <= Len(a) + m /\ l <= Len(a) + Len(b) /\ l \in Nat /\ m <= Len(c)
      BY <1>3, <2>5, <2>7, <2>9 DEF a, b, c, l
    <3>2. l <= Len(History')
      BY <2>8, <2>9, <3>1
    <3>3. ASSUME NEW i \in 1..l PROVE History'[i] = History[i]
      <4>1. CASE i \in 1..Len(a)
        BY <2>9, <4>1
      <4>2. CASE i \notin 1..Len(a)
        <5> DEFINE k == i - Len(a)
        <5>1. k \in 1..m /\ k \in 1..Len(b) /\ k \in 1..Len(c) /\ Len(a) + k = i
          BY <2>8, <2>9, <3>1, <4>2
        <5> HIDE DEF k
        <5>2. c[k] = b[k]
          BY <2>5, <5>1 DEF b, c
        <5> QED BY <2>9, <5>1, <5>2
      <4> QED BY <4>1, <4>2
    <3> QED BY <3>2, <3>3
  <2> QED BY <1>3, <2>10, PrefixHolds DEF l
<1>8. ASSUME Rotate
      PROVE  IsPrefix(Settled, History')
  <2>1. /\ UNCHANGED file /\ archive = << >> /\ active # None
        /\ archive' = <<active>> /\ active' = None
    BY <1>2, <1>8 DEF Rotate, Arranged, Placed
  <2>2. Sealed = << >> /\ Current = file[active].lines
        /\ Current' = << >> /\ Sealed' = file[active].lines
    BY <2>1 DEF Sealed, Current
  <2>3. History' = History
    BY <1>2, <2>2, ConcatEmptySeq DEF Laid
  <2> QED BY <1>4, <2>3
<1>9. CASE UNCHANGED vars
  BY <1>5, <1>9 DEF vars, disk
<1>10. ASSUME NEW p \in Processes,
              Refuse(p) \/ Write(p) \/ WriteFails(p) \/ Close(p) \/ Die(p)
       PROVE  IsPrefix(Settled, History')
  <2>1. UNCHANGED <<active, archive>>
    BY <1>10 DEF Refuse, Write, WriteFails, Close, Die, disk
  <2> DEFINE f == file[active]
  <2>2. CASE At(p, "admitted")
    <3>1. PICK how \in Cuts \cup {"whole"} : PutRecord(p, how)
      BY <1>10, <2>2 DEF Refuse, Write, WriteFails, Close, Die, Opened, At
    <3>2. proc[p].on = active /\ active \in DOMAIN file
      BY <1>2, <2>2 DEF Arranged, Placed
    <3>3. /\ file'[active] = Put(f, RecordOf(p), how)
          /\ \A k \in DOMAIN file : k # active => file'[k] = file[k]
      BY <2>2, <3>1, <3>2, PutRecordKeeps
    <3>4. f \in Contents /\ Shaped(f) /\ RecordOf(p) \in Lines
      BY <2>2, <3>2, RecordTyped DEF TypeOK, Kept, At
    <3> QED BY <1>7, <2>1, <3>2, <3>3, <3>4, PutPrefix
  <2>3. CASE UNCHANGED file
    BY <1>5, <2>1, <2>3
  <2>4. CASE At(p, "failed") /\ file' = [file EXCEPT ![proc[p].on] = WithRest(p)]
    <3> DEFINE g == WithRest(p)
               s == proc[p].found.lines
               m == IF f.ended THEN Len(f.lines) ELSE Len(f.lines) - 1
    <3>1. proc[p].on = active /\ active \in DOMAIN file
      BY <1>2, <2>4 DEF Arranged, Placed
    <3>2. /\ file'[active] = g /\ \A k \in DOMAIN file : k # active => file'[k] = file[k]
      BY <2>4, <3>1
    <3>3. /\ f \in Contents /\ Shaped(f) /\ s \in Seq(Lines)
          /\ RecordOf(p) \in Lines /\ Torn \in Lines
          /\ \/ g.lines = f.lines
             \/ \E x \in {RecordOf(p), Torn} : g.lines = Put(f, x, "whole").lines
             \/ ~f.ended /\ f.lines = Append(s, Torn) /\ g.lines = Append(s, RecordOf(p))
      BY <2>4, <3>1, RestCases DEF Lines
    <3> HIDE DEF f, g, s
    <3>4. Len(g.lines) >= m /\ \A i \in 1..m : g.lines[i] = f.lines[i]
      <4>1. CASE g.lines = f.lines
        <5>1. Len(f.lines) \in Nat
          BY <3>3 DEF Contents
        <5> QED BY <4>1, <5>1
      <4>2. ASSUME NEW x \in {RecordOf(p), Torn}, g.lines = Put(f, x, "whole").lines
            PROVE  Len(g.lines) >= m /\ \A i \in 1..m : g.lines[i] = f.lines[i]
        BY <3>3, <4>2, PutPrefix
      <4>3. CASE ~f.ended /\ f.lines = Append(s, Torn) /\ g.lines = Append(s, RecordOf(p))
        <5>1. m = Len(s) /\ Len(g.lines) = Len(s) + 1 /\ Len(s) \in Nat
          BY <3>3, <4>3
        <5>2. \A i \in 1..Len(s) : g.lines[i] = s[i] /\ f.lines[i] = s[i]
          BY <3>3, <4>3
        <5> QED BY <5>1, <5>2
      <4> QED BY <3>3, <4>1, <4>2, <4>3
    <3> QED BY <1>7, <2>1, <3>1, <3>2, <3>4 DEF f, g
  <2> QED BY <1>10, <2>2, <2>3, <2>4 DEF Refuse, Write, WriteFails, Close, Die, Opened, At, disk
<1>11. ASSUME NEW p \in Processes, Record(p) \/ RecordFails(p) \/ Admit(p)
       PROVE  IsPrefix(Settled, History')
  <2>1. UNCHANGED <<file, active, archive>>
    BY <1>11 DEF Record, RecordFails, Admit
  <2> QED BY <1>5, <2>1
<1>12. CASE BeginRotation
  BY <1>5, <1>12 DEF BeginRotation, disk
<1> QED BY <1>6, <1>8, <1>9, <1>10, <1>11, <1>12 DEF Next, Chain, Trouble

\* As long as no rotation has met an append, what verify_chain_with_archives has read it reads
\* again at the same place, whatever is written, fails, dies or is sealed in between.
THEOREM KeptHolds == Spec => HistoryKept
<1>1. TypeOK /\ Placed /\ Kept /\ Line /\ (~raced => Laid) /\ (~raced => Laid)' /\ [Next]_vars
        => [raced' \/ IsPrefix(Settled, History')]_vars
  BY SettledStays
<1>2. TypeOK /\ Line => (~raced => Laid)
  BY HistoryLaid DEF Line
<1> QED BY <1>1, <1>2, TypeCorrect, RecordsStay, OneLine, PTL DEF Spec, HistoryKept
=============================================================================
