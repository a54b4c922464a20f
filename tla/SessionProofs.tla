----------------------------- MODULE SessionProofs -----------------------------
(***************************************************************************)
(* Theorems about SessionService, for any sessions, any number of messages, *)
(* any size of the pool and any number of deaths and refused writes.        *)
(***************************************************************************)
EXTENDS SessionService, TLAPS

(* An attempt in progress holds its session's claim and is its task.       *)
Claims ==
    /\ \A a \in Attempts :
        stage[a] \in Live => of[a] \in inflight /\ task[of[a]] = a
    /\ \A s \in Sessions :
        task[s] # None => of[task[s]] = s /\ stage[task[s]] # "unsent"

(* The loop on record is the one of the attempt that is with its agent.    *)
Loops ==
    /\ \A s \in Sessions :
        loop[s] # None => of[loop[s]] = s /\ stage[loop[s]] = "agent"
    /\ \A a \in Attempts : stage[a] = "agent" => loop[of[a]] = a

(* What is stored fits where the coroutine is.                             *)
Fits ==
    \A a \in Attempts :
        /\ stored[a] \in Terminal => stage[a] \in {"ended", "lost"}
        /\ stage[a] = "queued" => stored[a] # "running"
        /\ stage[a] = "unsent" => stored[a] = "missing" /\ job[a] = "none"

(* An accepted cancel is pending in the task or in the agent's loop, whose
   answer respects it.                                                     *)
Pending ==
    /\ \A a \in killed : stage[a] \in {"queued", "build"}
    /\ \A a \in inTime :
        /\ stage[a] # "unsent"
        /\ stage[a] \in {"queued", "build"} => a \in killed
        /\ stage[a] = "agent" => a \in flagged /\ job[a] # "success"

(* StrandedOnlyByEarlyCancel, with the attempt that explains the claim.    *)
Explained ==
    \A s \in inflight :
        \E a \in Attempts : of[a] = s /\ stage[a] \in Live \cup {"unstarted"}

IInv ==
    /\ TypeOK /\ Claims /\ Loops /\ Fits /\ Pending
    /\ Explained /\ CancelIsHonoured /\ RunningIsLive

-----------------------------------------------------------------------------
(* The invariant is inductive.                                             *)

\* What the requests write to session.json is well typed.
LEMMA UnbornTyped == Unborn \in Records /\ [Unborn EXCEPT !.state = "gone"] \in Records
  BY DEF Unborn, Records

\* A title keeps a record well typed.
LEMMA Retitled ==
    ASSUME NEW r \in Records, NEW t \in {"manual", "generated"}
    PROVE  [r EXCEPT !.title = t] \in Records
  BY DEF Records

\* So does a link to an attempt.
LEMMA Relinked ==
    ASSUME NEW r \in Records, NEW a \in Attempts
    PROVE  [r EXCEPT !.last = a] \in Records
  BY DEF Records

\* The status an agent's answer stands for is one an attempt can have.
LEMMA VerdictTyped ==
    ASSUME NEW r \in Answered
    PROVE  /\ Verdict[r] \in Terminal
           /\ r # "success" => Verdict[r] # "completed"
  BY DEF Answered, Verdict, Terminal

\* The end of an attempt in progress is well typed.
LEMMA ConcludeTyped ==
    ASSUME TypeOK, Claims, NEW a \in Attempts, stage[a] \in Live,
           NEW status \in Statuses, Conclude(a, status)
    PROVE  /\ stage' \in [Attempts -> Stages]
           /\ task' \in [Sessions -> Attempts \cup {None}]
           /\ inflight' \subseteq Sessions /\ killed' \subseteq Attempts
           /\ stored' \in [Attempts -> {"missing"} \cup Statuses]
           /\ troubles' \in 0 .. MaxTroubles
<1>1. of[a] \in Sessions
  BY DEF TypeOK, Claims
<1> QED BY <1>1, SessionAssumption DEF TypeOK, Conclude, SaveStatus, Writing, Stages

\* Every session starts uncreated, without a claim and without an attempt.
LEMMA Initial == Init => IInv
<1> SUFFICES ASSUME Init PROVE IInv
  OBVIOUS
<1> USE SessionAssumption DEF Init
<1>1. TypeOK
  BY UnbornTyped DEF TypeOK, Stages, Statuses, Attempts
<1>2. Claims /\ Loops /\ Fits /\ Pending
  BY DEF Claims, Loops, Fits, Pending, Live, Terminal
<1>3. Explained /\ CancelIsHonoured /\ RunningIsLive
  BY DEF Explained, CancelIsHonoured, RunningIsLive
<1> QED BY <1>1, <1>2, <1>3 DEF IInv

\* Every request, every step of an attempt and every trouble keeps the invariant.
LEMMA Inductive == IInv /\ [Next]_vars => IInv'
<1> SUFFICES ASSUME IInv, [Next]_vars PROVE IInv'
  OBVIOUS
<1> USE SessionAssumption DEF IInv
<1>1. ASSUME NEW s \in Sessions, Create(s) PROVE IInv'
  <2>1. TypeOK'
    <3>1. [Unborn EXCEPT !.state = "stored"] \in Records
      BY DEF Unborn, Records
    <3> QED BY <1>1, <3>1 DEF TypeOK, Create, Store, disk, memory, cancels
  <2>2. Claims' /\ Loops'
    BY <1>1 DEF Create, Store, TypeOK, Claims, Live, Loops, disk, memory, cancels
  <2>3. Fits' /\ Pending'
    BY <1>1 DEF Create, Store, TypeOK, Claims, Fits, Live, Terminal, Loops, Pending,
       disk, memory, cancels
  <2>4. Explained'
    BY <1>1 DEF Create, Store, TypeOK, Claims, Explained, Live, Loops, Pending,
       disk, memory, cancels
  <2>5. CancelIsHonoured' /\ RunningIsLive'
    BY <1>1 DEF Create, Store, TypeOK, Claims, Fits, Pending, CancelIsHonoured,
       Live, Loops, Terminal, RunningIsLive, disk, memory, cancels
  <2> QED BY <2>1, <2>2, <2>3, <2>4, <2>5
<1>2. ASSUME NEW s \in Sessions, Delete(s) PROVE IInv'
  <2>1. TypeOK'
    BY <1>2, UnbornTyped DEF Delete, Store, TypeOK, disk, memory, cancels
  <2>2. Claims' /\ Loops'
    BY <1>2 DEF Delete, Store, TypeOK, Claims, Live, Loops, disk, memory, cancels
  <2>3. Fits' /\ Pending'
    BY <1>2 DEF Delete, Store, TypeOK, Claims, Fits, Live, Terminal, Loops, Pending,
       disk, memory, cancels
  <2>4. Explained'
    BY <1>2 DEF Delete, Store, TypeOK, Claims, Explained, Live, Loops, Pending,
       disk, memory, cancels
  <2>5. CancelIsHonoured' /\ RunningIsLive'
    BY <1>2 DEF Delete, Store, TypeOK, Claims, Fits, Pending, CancelIsHonoured,
       Live, Loops, Terminal, RunningIsLive, disk, memory, cancels
  <2> QED BY <2>1, <2>2, <2>3, <2>4, <2>5
<1>3. ASSUME NEW s \in Sessions, Rename(s) PROVE IInv'
  <2>1. TypeOK'
    <3>1. [record[s] EXCEPT !.title = "manual"] \in Records
      BY Retitled DEF TypeOK
    <3> QED BY <1>3, <3>1 DEF TypeOK, Rename, Store, disk, memory, cancels
  <2>2. Claims' /\ Loops'
    BY <1>3 DEF Rename, Store, TypeOK, Claims, Live, Loops, disk, memory, cancels
  <2>3. Fits' /\ Pending'
    BY <1>3 DEF Rename, Store, TypeOK, Claims, Fits, Live, Terminal, Loops, Pending,
       disk, memory, cancels
  <2>4. Explained'
    BY <1>3 DEF Rename, Store, TypeOK, Claims, Explained, Live, Loops, Pending,
       disk, memory, cancels
  <2>5. CancelIsHonoured' /\ RunningIsLive'
    BY <1>3 DEF Rename, Store, TypeOK, Claims, Fits, Pending, CancelIsHonoured,
       Live, Loops, Terminal, RunningIsLive, disk, memory, cancels
  <2> QED BY <2>1, <2>2, <2>3, <2>4, <2>5
<1>4. ASSUME NEW s \in Sessions, BeginTitle(s) PROVE IInv'
  <2>1. TypeOK'
    <3>1. /\ titling' = [titling EXCEPT ![s] = record[s]]
          /\ UNCHANGED <<disk, memory, job, cancels, troubles>>
      BY <1>4 DEF BeginTitle
    <3> QED BY <3>1 DEF TypeOK, disk, memory, cancels
  <2>2. Claims' /\ Loops'
    BY <1>4 DEF BeginTitle, TypeOK, Claims, Live, Loops, disk, memory, cancels
  <2>3. Fits' /\ Pending'
    BY <1>4 DEF BeginTitle, TypeOK, Claims, Fits, Live, Terminal, Loops, Pending,
       disk, memory, cancels
  <2>4. Explained'
    BY <1>4 DEF BeginTitle, TypeOK, Claims, Explained, Live, Loops, Pending, disk,
       memory, cancels
  <2>5. CancelIsHonoured' /\ RunningIsLive'
    BY <1>4 DEF BeginTitle, TypeOK, Claims, Fits, Pending, CancelIsHonoured, Live,
       Loops, Terminal, RunningIsLive, disk, memory, cancels
  <2> QED BY <2>1, <2>2, <2>3, <2>4, <2>5
<1>5. ASSUME NEW s \in Sessions, Cancel(s) PROVE IInv'
  <2> USE <1>5 DEF Cancel, disk, memory
  <2>1. CASE loop[s] # None
    <3>1. loop[s] \in Attempts /\ of[loop[s]] = s /\ stage[loop[s]] = "agent"
      BY <2>1 DEF TypeOK, Loops
    <3>2. /\ flagged' = flagged \cup {loop[s]} /\ killed' = killed
          /\ inTime' = IF job[loop[s]] \in Answered THEN inTime ELSE inTime \cup {loop[s]}
      BY <2>1
    <3>3. TypeOK'
      BY <3>1, <3>2 DEF TypeOK
    <3>4. Pending'
      BY <3>1, <3>2 DEF Pending, Answered
    <3>5. CancelIsHonoured'
      BY <3>1, <3>2 DEF CancelIsHonoured, Fits, Terminal
    <3> QED
      BY <3>3, <3>4, <3>5 DEF Claims, Loops, Fits, Explained, RunningIsLive
  <2>2. CASE loop[s] = None
    <3>1. task[s] \in Attempts /\ stage[task[s]] \in Live
      BY <2>2 DEF TypeOK
    <3>2. killed' = killed \cup {task[s]} /\ inTime' = inTime \cup {task[s]} /\ flagged' = flagged
      BY <2>2
    <3>3. TypeOK'
      BY <3>1, <3>2 DEF TypeOK
    <3>4. stage[task[s]] \in {"queued", "build"}
      BY <2>2, <3>1 DEF Live, Loops, Claims
    <3>5. Pending'
      BY <3>1, <3>2, <3>4 DEF Pending
    <3>6. CancelIsHonoured'
      BY <3>1, <3>2, <3>4 DEF CancelIsHonoured, Fits, Terminal
    <3> QED
      BY <3>3, <3>5, <3>6 DEF Claims, Loops, Fits, Explained, RunningIsLive
  <2> QED BY <2>1, <2>2
<1>6. ASSUME NEW s \in Sessions, NEW a \in Attempts, Send(s, a) PROVE IInv'
  <2>1. TypeOK'
    <3>1. [record[s] EXCEPT !.last = a] \in Records
      BY Relinked DEF TypeOK
    <3> QED BY <1>6, <3>1 DEF TypeOK, Send, Store, MaySend, IsNext, disk, memory, cancels,
       Statuses, Stages, Live
  <2>2. Claims' /\ Loops'
    BY <1>6 DEF Send, Store, MaySend, IsNext, TypeOK, Claims, Live, Loops, disk,
       memory, cancels
  <2>3. Fits' /\ Pending'
    BY <1>6 DEF Send, Store, MaySend, IsNext, TypeOK, Claims, Fits, Live, Terminal,
       Loops, Pending, disk, memory, cancels
  <2>4. Explained'
    <3>1. \A t \in inflight : t # s
      BY <1>6 DEF Send, MaySend
    <3>2. \A b \in Attempts : stage[b] \in Live \cup {"unstarted"} =>
              of'[b] = of[b] /\ stage'[b] = stage[b]
      BY <1>6 DEF Send, IsNext, TypeOK, Live
    <3>3. of'[a] = s /\ stage'[a] \in Live
      BY <1>6 DEF Send, TypeOK, Live
    <3> QED BY <1>6, <3>2, <3>3 DEF Send, Explained
  <2>5. CancelIsHonoured' /\ RunningIsLive'
    BY <1>6 DEF Send, Store, MaySend, IsNext, TypeOK, Claims, Fits, Pending,
       CancelIsHonoured, Live, Loops, Terminal, RunningIsLive, disk, memory, cancels
  <2> QED BY <2>1, <2>2, <2>3, <2>4, <2>5
<1>7. ASSUME NEW s \in Sessions, WriteTitle(s) PROVE IInv'
  <2>1. TypeOK'
    <3>1. [titling[s] EXCEPT !.title = "generated"] \in Records
      BY Retitled DEF TypeOK
    <3>2. record' \in [Sessions -> Records] /\ record'[s] \in Records
      BY <1>7, <3>1 DEF WriteTitle, Store, TypeOK
    <3> QED BY <1>7, <3>2, UnbornTyped DEF TypeOK, WriteTitle, Store, disk, memory, cancels
  <2>2. Claims' /\ Loops'
    BY <1>7 DEF WriteTitle, Store, TypeOK, Claims, Live, Loops, disk, memory, cancels
  <2>3. Fits' /\ Pending'
    BY <1>7 DEF WriteTitle, Store, TypeOK, Claims, Fits, Live, Terminal, Loops, Pending,
       disk, memory, cancels
  <2>4. Explained'
    BY <1>7 DEF WriteTitle, Store, TypeOK, Claims, Explained, Live, Loops, Pending, disk,
       memory, cancels
  <2>5. CancelIsHonoured' /\ RunningIsLive'
    BY <1>7 DEF WriteTitle, Store, TypeOK, Claims, Fits, Pending, CancelIsHonoured, Live,
       Loops, Terminal, RunningIsLive, disk, memory, cancels
  <2> QED BY <2>1, <2>2, <2>3, <2>4, <2>5
<1>8. ASSUME NEW s \in Sessions, TitleFails(s) PROVE IInv'
  <2>1. TypeOK'
    <3>1. /\ titling' = [titling EXCEPT ![s] = Unborn]
          /\ UNCHANGED <<disk, memory, job, cancels, troubles>>
      BY <1>8 DEF TitleFails
    <3> QED BY <3>1, UnbornTyped DEF TypeOK, disk, memory, cancels
  <2>2. Claims' /\ Loops'
    BY <1>8 DEF TitleFails, TypeOK, Claims, Live, Loops, disk, memory, cancels
  <2>3. Fits' /\ Pending'
    BY <1>8 DEF TitleFails, TypeOK, Claims, Fits, Live, Terminal, Loops, Pending,
       disk, memory, cancels
  <2>4. Explained'
    BY <1>8 DEF TitleFails, TypeOK, Claims, Explained, Live, Loops, Pending, disk,
       memory, cancels
  <2>5. CancelIsHonoured' /\ RunningIsLive'
    BY <1>8 DEF TitleFails, TypeOK, Claims, Fits, Pending, CancelIsHonoured, Live,
       Loops, Terminal, RunningIsLive, disk, memory, cancels
  <2> QED BY <2>1, <2>2, <2>3, <2>4, <2>5
<1>9. ASSUME NEW a \in Attempts, NeverStart(a) PROVE IInv'
  <2>1. TypeOK'
    BY <1>9 DEF NeverStart, TypeOK, Claims, Stages, Live, Answered,
       disk, memory, cancels
  <2>2. Claims' /\ Loops'
    BY <1>9 DEF NeverStart, TypeOK, Claims, Live, Loops, disk, memory, cancels
  <2>3. Fits' /\ Pending'
    BY <1>9 DEF NeverStart, TypeOK, Claims, Fits, Live, Terminal, Loops, Pending,
       disk, memory, cancels
  <2>4. Explained'
    BY <1>9 DEF NeverStart, TypeOK, Claims, Explained, Live, Loops, Pending, disk,
       memory, cancels
  <2>5. CancelIsHonoured' /\ RunningIsLive'
    BY <1>9 DEF NeverStart, TypeOK, Claims, Fits, Pending, CancelIsHonoured, Live,
       Loops, Terminal, RunningIsLive, disk, memory, cancels
  <2> QED BY <2>1, <2>2, <2>3, <2>4, <2>5
<1>10. ASSUME NEW a \in Attempts, Start(a) PROVE IInv'
  <2>1. TypeOK'
    BY <1>10 DEF Start, TypeOK, Claims, Statuses, Stages, Live, Answered,
       disk, memory, cancels
  <2>2. Claims' /\ Loops'
    BY <1>10 DEF Start, TypeOK, Claims, Live, Loops, disk, memory, cancels
  <2>3. Fits' /\ Pending'
    BY <1>10 DEF Start, TypeOK, Claims, Fits, Live, Terminal, Loops, Pending, disk,
       memory, cancels
  <2>4. Explained'
    BY <1>10 DEF Start, TypeOK, Claims, Explained, Live, Loops, Pending, disk,
       memory, cancels
  <2>5. CancelIsHonoured' /\ RunningIsLive'
    BY <1>10 DEF Start, TypeOK, Claims, Fits, Pending, CancelIsHonoured, Live,
       Loops, Terminal, RunningIsLive, disk, memory, cancels
  <2> QED BY <2>1, <2>2, <2>3, <2>4, <2>5
<1>11. ASSUME NEW a \in Attempts, StartRaises(a) PROVE IInv'
  <2>1. TypeOK'
    <3>1. stage[a] \in Live /\ "failed" \in Statuses
      BY <1>11 DEF StartRaises, Live, Statuses
    <3>2. Conclude(a, "failed")
      BY <1>11 DEF StartRaises
    <3> QED BY <1>11, <3>1, <3>2, ConcludeTyped
            DEF StartRaises, Conclude, SaveStatus, Writing, TypeOK, disk, memory, cancels
  <2>2. Claims' /\ Loops'
    BY <1>11 DEF StartRaises, Conclude, SaveStatus, Writing, TypeOK, Claims, Live, Loops, disk, memory,
       cancels
  <2>3. Fits' /\ Pending'
    BY <1>11 DEF StartRaises, Conclude, SaveStatus, Writing, TypeOK, Claims, Fits, Live, Terminal, Loops,
       Pending, disk, memory, cancels
  <2>4. Explained'
    BY <1>11 DEF StartRaises, Conclude, SaveStatus, Writing, TypeOK, Claims, Explained, Live, Loops,
       Pending, disk, memory, cancels
  <2>5. CancelIsHonoured' /\ RunningIsLive'
    BY <1>11 DEF StartRaises, Conclude, SaveStatus, Writing, TypeOK, Claims, Fits, Pending,
       CancelIsHonoured, Live, Loops, Terminal, RunningIsLive, disk, memory, cancels
  <2> QED BY <2>1, <2>2, <2>3, <2>4, <2>5
<1>12. ASSUME NEW a \in Attempts, TakeSlot(a) PROVE IInv'
  <2>1. TypeOK'
    BY <1>12 DEF TakeSlot, TypeOK, Claims, Stages, Live, Answered,
       disk, memory, cancels
  <2>2. Claims' /\ Loops'
    BY <1>12 DEF TakeSlot, TypeOK, Claims, Live, Loops, disk, memory, cancels
  <2>3. Fits' /\ Pending'
    BY <1>12 DEF TakeSlot, TypeOK, Claims, Fits, Live, Terminal, Loops, Pending,
       disk, memory, cancels
  <2>4. Explained'
    BY <1>12 DEF TakeSlot, TypeOK, Claims, Explained, Live, Loops, Pending, disk,
       memory, cancels
  <2>5. CancelIsHonoured' /\ RunningIsLive'
    BY <1>12 DEF TakeSlot, TypeOK, Claims, Fits, Pending, CancelIsHonoured, Live,
       Loops, Terminal, RunningIsLive, disk, memory, cancels
  <2> QED BY <2>1, <2>2, <2>3, <2>4, <2>5
<1>13. ASSUME NEW a \in Attempts, Built(a) PROVE IInv'
  <2>1. TypeOK'
    <3>1. job' \in [Attempts -> {"none", "waiting", "thread"} \cup Answered]
      BY <1>13 DEF Built, TypeOK, Answered
    <3> QED BY <1>13, <3>1 DEF Built, TypeOK, disk, memory, cancels
  <2>2. Claims' /\ Loops'
    BY <1>13 DEF Built, TypeOK, Claims, Live, Loops, disk, memory, cancels
  <2>3. Fits' /\ Pending'
    BY <1>13 DEF Built, TypeOK, Claims, Fits, Live, Terminal, Loops, Pending, disk,
       memory, cancels
  <2>4. Explained'
    BY <1>13 DEF Built, TypeOK, Claims, Explained, Live, Loops, Pending, disk,
       memory, cancels
  <2>5. CancelIsHonoured' /\ RunningIsLive'
    BY <1>13 DEF Built, TypeOK, Claims, Fits, Pending, CancelIsHonoured, Live,
       Loops, Terminal, RunningIsLive, disk, memory, cancels
  <2> QED BY <2>1, <2>2, <2>3, <2>4, <2>5
<1>14. ASSUME NEW a \in Attempts, Ran(a) PROVE IInv'
  <2>1. TypeOK'
    <3>1. job' \in [Attempts -> {"none", "waiting", "thread"} \cup Answered]
      BY <1>14 DEF Ran, TypeOK, Answered, Answers
    <3> QED BY <1>14, <3>1 DEF Ran, TypeOK, disk, memory, cancels
  <2>2. Claims' /\ Loops'
    BY <1>14 DEF Ran, Answers, TypeOK, Claims, Live, Loops, disk, memory, cancels
  <2>3. Fits' /\ Pending'
    BY <1>14 DEF Ran, Answers, TypeOK, Claims, Fits, Live, Terminal, Loops, Pending,
       disk, memory, cancels
  <2>4. Explained'
    BY <1>14 DEF Ran, Answers, TypeOK, Claims, Explained, Live, Loops, Pending,
       disk, memory, cancels
  <2>5. CancelIsHonoured' /\ RunningIsLive'
    BY <1>14 DEF Ran, Answers, TypeOK, Claims, Fits, Pending, CancelIsHonoured,
       Live, Loops, Terminal, RunningIsLive, disk, memory, cancels
  <2> QED BY <2>1, <2>2, <2>3, <2>4, <2>5
<1>15. ASSUME NEW a \in Attempts, BeginAgent(a) PROVE IInv'
  <2>1. TypeOK'
    BY <1>15 DEF BeginAgent, TypeOK, Claims, Stages, Live, Answered,
       disk, memory, cancels
  <2>2. Claims' /\ Loops'
    BY <1>15 DEF BeginAgent, TypeOK, Claims, Live, Loops, disk, memory, cancels
  <2>3. Fits' /\ Pending'
    BY <1>15 DEF BeginAgent, TypeOK, Claims, Fits, Live, Terminal, Loops, Pending,
       disk, memory, cancels
  <2>4. Explained'
    BY <1>15 DEF BeginAgent, TypeOK, Claims, Explained, Live, Loops, Pending, disk,
       memory, cancels
  <2>5. CancelIsHonoured' /\ RunningIsLive'
    BY <1>15 DEF BeginAgent, TypeOK, Claims, Fits, Pending, CancelIsHonoured, Live,
       Loops, Terminal, RunningIsLive, disk, memory, cancels
  <2> QED BY <2>1, <2>2, <2>3, <2>4, <2>5
<1>16. ASSUME NEW a \in Attempts, BuildRaised(a) PROVE IInv'
  <2>1. TypeOK'
    <3>1. stage[a] \in Live /\ "failed" \in Statuses
      BY <1>16 DEF BuildRaised, Live, Statuses
    <3>2. Conclude(a, "failed")
      BY <1>16 DEF BuildRaised
    <3> QED BY <1>16, <3>1, <3>2, ConcludeTyped
            DEF BuildRaised, Conclude, SaveStatus, Writing, TypeOK, disk, memory, cancels
  <2>2. Claims' /\ Loops'
    BY <1>16 DEF BuildRaised, Conclude, SaveStatus, Writing, TypeOK, Claims, Live, Loops, disk, memory,
       cancels
  <2>3. Fits' /\ Pending'
    BY <1>16 DEF BuildRaised, Conclude, SaveStatus, Writing, TypeOK, Claims, Fits, Live, Terminal, Loops,
       Pending, disk, memory, cancels
  <2>4. Explained'
    BY <1>16 DEF BuildRaised, Conclude, SaveStatus, Writing, TypeOK, Claims, Explained, Live, Loops,
       Pending, disk, memory, cancels
  <2>5. CancelIsHonoured' /\ RunningIsLive'
    BY <1>16 DEF BuildRaised, Conclude, SaveStatus, Writing, TypeOK, Claims, Fits, Pending,
       CancelIsHonoured, Live, Loops, Terminal, RunningIsLive, disk, memory, cancels
  <2> QED BY <2>1, <2>2, <2>3, <2>4, <2>5
<1>17. ASSUME NEW a \in Attempts, CancelledInBuild(a) PROVE IInv'
  <2>1. TypeOK'
    <3>1. stage[a] \in Live /\ "cancelled" \in Statuses
      BY <1>17 DEF CancelledInBuild, Live, Statuses
    <3>2. Conclude(a, "cancelled")
      BY <1>17 DEF CancelledInBuild
    <3> QED BY <1>17, <3>1, <3>2, ConcludeTyped
            DEF CancelledInBuild, Conclude, SaveStatus, Writing, TypeOK, disk, memory, cancels
  <2>2. Claims' /\ Loops'
    BY <1>17 DEF CancelledInBuild, Conclude, SaveStatus, Writing, TypeOK, Claims, Live, Loops, disk,
       memory, cancels
  <2>3. Fits' /\ Pending'
    BY <1>17 DEF CancelledInBuild, Conclude, SaveStatus, Writing, TypeOK, Claims, Fits, Live, Terminal,
       Loops, Pending, disk, memory, cancels
  <2>4. Explained'
    BY <1>17 DEF CancelledInBuild, Conclude, SaveStatus, Writing, TypeOK, Claims, Explained, Live, Loops,
       Pending, disk, memory, cancels
  <2>5. CancelIsHonoured' /\ RunningIsLive'
    BY <1>17 DEF CancelledInBuild, Conclude, SaveStatus, Writing, TypeOK, Claims, Fits, Pending,
       CancelIsHonoured, Live, Loops, Terminal, RunningIsLive, disk, memory, cancels
  <2> QED BY <2>1, <2>2, <2>3, <2>4, <2>5
<1>18. ASSUME NEW a \in Attempts, Finish(a) PROVE IInv'
  <2>1. TypeOK'
    <3>1. stage[a] \in Live /\ Verdict[job[a]] \in Statuses
      BY <1>18, VerdictTyped DEF Finish, Live, Statuses, Terminal
    <3>2. Conclude(a, Verdict[job[a]])
      BY <1>18 DEF Finish
    <3> QED BY <1>18, <3>1, <3>2, ConcludeTyped
            DEF Finish, Conclude, SaveStatus, Writing, TypeOK, disk, memory, cancels
  <2>2. Claims' /\ Loops'
    BY <1>18 DEF Finish, Conclude, SaveStatus, Writing, Verdict, TypeOK, Claims, Live, Loops, disk,
       memory, cancels
  <2>3. Fits' /\ Pending'
    BY <1>18 DEF Finish, Conclude, SaveStatus, Writing, Verdict, TypeOK, Claims, Fits, Live, Terminal,
       Loops, Pending, disk, memory, cancels
  <2>4. Explained'
    BY <1>18 DEF Finish, Conclude, SaveStatus, Writing, Verdict, TypeOK, Claims, Explained, Live, Loops,
       Pending, disk, memory, cancels
  <2>5. CancelIsHonoured' /\ RunningIsLive'
    <3>1. Verdict[job[a]] \in Terminal /\ (a \in inTime => Verdict[job[a]] # "completed")
      BY <1>18, VerdictTyped DEF Finish, Pending
    <3> QED BY <1>18, <3>1
            DEF Finish, Conclude, SaveStatus, Writing, TypeOK, Live, Terminal, CancelIsHonoured, RunningIsLive
  <2> QED BY <2>1, <2>2, <2>3, <2>4, <2>5
<1>19. ASSUME Crash PROVE IInv'
  <2>1. TypeOK'
    <3>1. Lost \in [Attempts -> Stages]
      BY DEF Lost, TypeOK, Stages
    <3> QED BY <1>19, <3>1, UnbornTyped DEF Crash, Die, TypeOK, disk
  <2>2. Claims' /\ Loops'
    BY <1>19 DEF Crash, Die, Lost, TypeOK, Claims, Live, Loops, disk, memory,
       cancels
  <2>3. Fits' /\ Pending'
    BY <1>19 DEF Crash, Die, Lost, TypeOK, Claims, Fits, Live, Terminal, Loops,
       Pending, disk, memory, cancels
  <2>4. Explained'
    BY <1>19 DEF Crash, Die, Lost, TypeOK, Claims, Explained, Live, Loops, Pending,
       disk, memory, cancels
  <2>5. CancelIsHonoured' /\ RunningIsLive'
    BY <1>19 DEF Crash, Die, Lost, TypeOK, Claims, Fits, Pending, CancelIsHonoured,
       Live, Loops, Terminal, RunningIsLive, disk, memory, cancels
  <2> QED BY <2>1, <2>2, <2>3, <2>4, <2>5
<1>20. ASSUME NEW s \in Sessions, NEW a \in Attempts, SendRaises(s, a) PROVE IInv'
  <2>1. TypeOK'
    <3>1. PICK r \in Records : Store(s, r)
      BY <1>20, UnbornTyped DEF PartOfSend, SendRaises, TypeOK
    <3>2. stored' \in [Attempts -> {"missing"} \cup Statuses] /\ troubles' \in 0 .. MaxTroubles
      BY <1>20 DEF PartOfSend, SendRaises, TypeOK, Statuses
    <3>3. stage' \in [Attempts -> Stages]
      BY <1>20 DEF SendRaises, TypeOK, Stages
    <3>4. record' \in [Sessions -> Records]
      BY <3>1 DEF Store, TypeOK
    <3> QED BY <1>20, <3>2, <3>3, <3>4 DEF SendRaises, PartOfSend, TypeOK, disk, memory,
       cancels
  <2>2. Claims' /\ Loops'
    BY <1>20 DEF SendRaises, PartOfSend, Store, MaySend, IsNext, TypeOK, Claims,
       Live, Loops, disk, memory, cancels
  <2>3. Fits' /\ Pending'
    BY <1>20 DEF SendRaises, PartOfSend, Store, MaySend, IsNext, TypeOK, Claims,
       Fits, Live, Terminal, Loops, Pending, disk, memory, cancels
  <2>4. Explained'
    BY <1>20 DEF SendRaises, PartOfSend, Store, MaySend, IsNext, TypeOK, Claims,
       Explained, Live, Loops, Pending, disk, memory, cancels
  <2>5. CancelIsHonoured' /\ RunningIsLive'
    BY <1>20 DEF SendRaises, PartOfSend, Store, MaySend, IsNext, TypeOK, Claims,
       Fits, Pending, CancelIsHonoured, Live, Loops, Terminal, RunningIsLive, disk,
       memory, cancels
  <2> QED BY <2>1, <2>2, <2>3, <2>4, <2>5
<1>21. ASSUME NEW s \in Sessions, NEW a \in Attempts, CrashInSend(s, a) PROVE IInv'
  <2>1. TypeOK'
    <3>1. PICK r \in Records : Store(s, r)
      BY <1>21, UnbornTyped DEF PartOfSend, CrashInSend, TypeOK
    <3>2. stored' \in [Attempts -> {"missing"} \cup Statuses] /\ troubles' \in 0 .. MaxTroubles
      BY <1>21 DEF PartOfSend, CrashInSend, TypeOK, Statuses
    <3>3. stage' \in [Attempts -> Stages]
      BY <1>21 DEF CrashInSend, Lost, TypeOK, Stages
    <3>4. record' \in [Sessions -> Records]
      BY <3>1 DEF Store, TypeOK
    <3> QED BY <1>21, <3>2, <3>3, <3>4, UnbornTyped DEF CrashInSend, PartOfSend, Die,
       TypeOK, disk, memory, cancels
  <2>2. Claims' /\ Loops'
    BY <1>21 DEF CrashInSend, PartOfSend, Store, MaySend, IsNext, Die, Lost, TypeOK,
       Claims, Live, Loops, disk, memory, cancels
  <2>3. Fits' /\ Pending'
    BY <1>21 DEF CrashInSend, PartOfSend, Store, MaySend, IsNext, Die, Lost, TypeOK,
       Claims, Fits, Live, Terminal, Loops, Pending, disk, memory, cancels
  <2>4. Explained'
    BY <1>21 DEF CrashInSend, PartOfSend, Store, MaySend, IsNext, Die, Lost, TypeOK,
       Claims, Explained, Live, Loops, Pending, disk, memory, cancels
  <2>5. CancelIsHonoured' /\ RunningIsLive'
    BY <1>21 DEF CrashInSend, PartOfSend, Store, MaySend, IsNext, Die, Lost, TypeOK,
       Claims, Fits, Pending, CancelIsHonoured, Live, Loops, Terminal,
       RunningIsLive, disk, memory, cancels
  <2> QED BY <2>1, <2>2, <2>3, <2>4, <2>5
<1>22. ASSUME NEW a \in Attempts, CrashInStep(a) PROVE IInv'
  <2>1. TypeOK'
    <3>1. Lost \in [Attempts -> Stages]
      BY DEF Lost, TypeOK, Stages
    <3>2. stored' \in [Attempts -> {"missing"} \cup Statuses] /\ troubles' \in 0 .. MaxTroubles
      BY <1>22 DEF CrashInStep, Writing, TypeOK
    <3> QED BY <1>22, <3>1, <3>2, UnbornTyped DEF CrashInStep, Die, TypeOK
  <2>2. Claims' /\ Loops'
    BY <1>22 DEF CrashInStep, Die, Lost, TypeOK, Claims, Live, Loops
  <2>3. PICK left \in Writing(a) \cup {"missing"} : stored' = [stored EXCEPT ![a] = left]
    BY <1>22 DEF CrashInStep
  <2>4. stage[a] \in Live /\ stage' = Lost /\ troubles' > 0
    BY <1>22 DEF CrashInStep, Writing, Live, TypeOK
  <2>5. Fits' /\ Pending'
    BY <1>22, <2>3, <2>4 DEF CrashInStep, Die, Lost, TypeOK, Fits, Live, Terminal, Pending
  <2>6. Explained'
    BY <1>22 DEF CrashInStep, Die, Explained
  <2>7. left = "completed" => a \notin inTime
    BY VerdictTyped DEF Writing, Pending, Statuses
  <2>8. CancelIsHonoured' /\ RunningIsLive'
    BY <1>22, <2>3, <2>4, <2>7 DEF CrashInStep, Die, TypeOK, CancelIsHonoured, RunningIsLive
  <2> QED BY <2>1, <2>2, <2>5, <2>6, <2>8
<1>23. ASSUME UNCHANGED vars PROVE IInv'
  BY <1>23 DEF vars, disk, memory, cancels, TypeOK, Claims, Loops, Fits, Pending,
     Explained, CancelIsHonoured, RunningIsLive
<1> QED
  BY <1>1, <1>2, <1>3, <1>4, <1>5, <1>6, <1>7, <1>8, <1>9, <1>10, <1>11,
     <1>12, <1>13, <1>14, <1>15, <1>16, <1>17, <1>18, <1>19, <1>20, <1>21, <1>22, <1>23
     DEF Next, Request, Titler, Coroutine, Pool, Trouble

-----------------------------------------------------------------------------
(* What the invariant is for.                                              *)

\* The invariant holds in every reachable state.
THEOREM Invariant == Spec => []IInv
<1> QED BY Initial, Inductive, PTL DEF Spec

\* Requests, coroutines, threads and process deaths only make well-typed states.
THEOREM TypeCorrect == Spec => []TypeOK
<1>1. IInv => TypeOK
  BY DEF IInv
<1> QED BY Invariant, <1>1, PTL

\* Two attempts of one session are never in progress, as each of them would be
\* the one task the session has.
THEOREM OneRun == Spec => []OneRunPerSession
<1>1. IInv => OneRunPerSession
  BY DEF IInv, Claims, OneRunPerSession
<1> QED BY Invariant, <1>1, PTL

\* A claim that no run explains was left by a cancel before the task's first step.
THEOREM Stranded == Spec => []StrandedOnlyByEarlyCancel
<1>1. IInv => StrandedOnlyByEarlyCancel
  BY DEF IInv, Explained, StrandedOnlyByEarlyCancel, LiveOf
<1> QED BY Invariant, <1>1, PTL

\* An attempt cancelled before its agent had a result never ends as completed.
THEOREM CancelHolds == Spec => []CancelIsHonoured
<1>1. IInv => CancelIsHonoured
  BY DEF IInv
<1> QED BY Invariant, <1>1, PTL

\* An attempt stored as running is in progress, but for deaths and refused writes.
THEOREM RunningHolds == Spec => []RunningIsLive
<1>1. IInv => RunningIsLive
  BY DEF IInv
<1> QED BY Invariant, <1>1, PTL
================================================================================
