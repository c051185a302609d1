--------------------------- MODULE BackfillProofs ---------------------------
(***************************************************************************)
(* That the ingest log tells the truth and that a clean run leaves nothing *)
(* behind, for any dates, runs, lags and budgets.                          *)
(*                                                                         *)
(* The argument is about time: a run starts, then asks, then logs.  If the *)
(* absence of a file was settled by the time the run started, the file, if *)
(* there ever is one, was there when the run asked.                        *)
(***************************************************************************)
EXTENDS Backfill, TLAPS

-----------------------------------------------------------------------------
(* Types.                                                                  *)

\* A run stays in its range, which it read the clock for in the past.
InRange ==
    \A r \in Runs : pc[r] # "idle" =>
        /\ 1 <= first[r] /\ first[r] <= date[r] /\ last[r] <= LastDate
        /\ startedAt[r] <= today
        /\ pc[r] # "walk" => date[r] <= last[r]

Typed == TypeOK /\ InRange

LEMMA TypedInit == Init => Typed
  BY DaysAreNumbers DEF Init, Typed, TypeOK, InRange, Dates, Files, Phases, Statuses

\* What is left when a run returns.
LEMMA TypedEnds ==
    ASSUME Typed, NEW r \in Runs, Ends(r), ResetsCounts(r), UNCHANGED world,
           stored' \subseteq Dates, log' \in [Dates -> SUBSET Statuses],
           interrupts' \in Nat
    PROVE  Typed'
  <1>1. TypeOK'
    BY DEF Typed, TypeOK, Ends, ResetsCounts, world, Phases
  <1>2. InRange'
    BY DEF Typed, TypeOK, InRange, Ends, world
  <1> QED
    BY <1>1, <1>2 DEF Typed

\* One more status for the date of a run that has asked for it.
LEMMA LogTyped ==
    ASSUME Typed, NEW r \in Runs, pc[r] \notin {"idle", "walk"},
           NEW status \in Statuses, LogIngest(r, status)
    PROVE  log' \in [Dates -> SUBSET Statuses]
  <1>1. log \in [Dates -> SUBSET Statuses] /\ date[r] \in Dates
    BY DEF Typed, TypeOK
  <1>2. log[date[r]] \cup {status} \in SUBSET Statuses
    BY <1>1
  <1> QED
    BY <1>1, <1>2 DEF LogIngest

\* A run that has dealt with its date looks at the next one.
LEMMA TypedAdvances ==
    ASSUME Typed, NEW r \in Runs, pc[r] # "idle", Advances(r),
           UNCHANGED <<world, range, interrupts>>,
           stored' \subseteq Dates, log' \in [Dates -> SUBSET Statuses],
           streak' \in [Runs -> Nat], errors' \in [Runs -> Nat]
    PROVE  Typed'
  <1>1. TypeOK'
    <2>1. date' \in [Runs -> Nat] /\ pc' \in [Runs -> Phases]
      BY DEF Typed, TypeOK, Advances, Phases
    <2>2. \A q \in Runs : pc'[q] \notin {"idle", "walk"} => date'[q] \in Dates
      BY DEF Typed, TypeOK, Advances
    <2> QED
      BY <2>1, <2>2 DEF Typed, TypeOK, world, range
  <1>2. /\ pc \in [Runs -> Phases] /\ date \in [Runs -> Nat] /\ first \in [Runs -> Nat]
        /\ UNCHANGED <<first, last, startedAt, today>> /\ InRange
    BY DEF Typed, TypeOK, world, range
  <1>3. ASSUME NEW q \in Runs, pc'[q] # "idle"
        PROVE  /\ 1 <= first'[q] /\ first'[q] <= date'[q] /\ last'[q] <= LastDate
               /\ startedAt'[q] <= today'
               /\ pc'[q] # "walk" => date'[q] <= last'[q]
    <2>1. CASE q = r
      BY <1>2, <2>1 DEF InRange, Advances
    <2>2. CASE q # r
      BY <1>2, <1>3, <2>2 DEF InRange, Advances
    <2> QED
      BY <2>1, <2>2
  <1>4. InRange'
    BY <1>3 DEF InRange
  <1> QED
    BY <1>1, <1>4 DEF Typed

\* A run whose date is in its range has an answer.
LEMMA TypedAnswers ==
    ASSUME Typed, NEW r \in Runs, pc[r] # "idle", date[r] <= last[r],
           NEW outcome \in Phases, pc' = [pc EXCEPT ![r] = outcome],
           UNCHANGED <<world, log, range, date, errors, interrupts>>,
           stored' \subseteq Dates, streak' \in [Runs -> Nat]
    PROVE  Typed'
  <1>1. date[r] \in Dates
    BY DaysAreNumbers DEF Typed, TypeOK, InRange, Dates
  <1>2. TypeOK'
    BY <1>1 DEF Typed, TypeOK, world, range
  <1>3. InRange'
    BY DEF Typed, TypeOK, InRange, world, range
  <1> QED
    BY <1>2, <1>3 DEF Typed

LEMMA TypedNext == Typed /\ [Next]_vars => Typed'
  <1> SUFFICES ASSUME Typed, [Next]_vars PROVE Typed'
    OBVIOUS
  <1>1. CASE Tick
    BY <1>1 DEF Typed, TypeOK, InRange, Tick, store, range, walk
  <1>2. ASSUME NEW d \in Dates, Publish(d) PROVE Typed'
    BY <1>2 DEF Typed, TypeOK, InRange, Publish, store, range, walk
  <1>3. ASSUME NEW r \in Runs, NEW from \in Dates, NEW to \in Dates,
               NEW refetch \in BOOLEAN, Start(r, from, to, refetch)
        PROVE  Typed'
    <2>1. Clamped(from) \in Nat /\ 1 <= Clamped(from) /\ to \in Nat /\ to <= LastDate
      BY DaysAreNumbers DEF Clamped, Dates
    <2>2. LoggedDates \subseteq Dates
      BY DEF LoggedDates
    <2>3. TypeOK'
      BY <1>3, <2>1, <2>2 DEF Typed, TypeOK, Start, world, store, Phases
    <2>4. InRange'
      BY <1>3, <2>1 DEF Typed, TypeOK, InRange, Start, world
    <2> QED
      BY <2>3, <2>4 DEF Typed
  <1>4. ASSUME NEW r \in Runs, Skip(r) PROVE Typed'
    BY <1>4, TypedAdvances DEF Typed, TypeOK, Skip, Running, store
  <1>5. ASSUME NEW r \in Runs, NEW outcome \in {"found", "missing", "failed"},
               Fetches(r, outcome)
        PROVE  Typed'
    BY <1>5, TypedAnswers DEF Typed, TypeOK, Fetches, Running, store, Phases
  <1>6. ASSUME NEW r \in Runs, LogError(r) PROVE Typed'
    <2>1. log' \in [Dates -> SUBSET Statuses] /\ stored' \subseteq Dates
      BY <1>6, LogTyped DEF LogError, Statuses, Typed, TypeOK
    <2>2. CASE Ends(r) /\ ResetsCounts(r)
      BY <1>6, <2>1, <2>2, TypedEnds DEF LogError, Typed, TypeOK
    <2>3. CASE ~(Ends(r) /\ ResetsCounts(r))
      <3>1. /\ pc[r] = "failed" /\ Advances(r) /\ UNCHANGED <<world, range, interrupts>>
            /\ streak' = [streak EXCEPT ![r] = @ + 1]
            /\ errors' = [errors EXCEPT ![r] = @ + 1]
        BY <1>6, <2>3 DEF LogError
      <3>2. streak' \in [Runs -> Nat] /\ errors' \in [Runs -> Nat]
        BY <3>1 DEF Typed, TypeOK
      <3> QED
        BY <3>1, <3>2, <2>1, TypedAdvances
    <2> QED
      BY <2>2, <2>3
  <1>7. ASSUME NEW r \in Runs, LogNoFile(r) PROVE Typed'
    <2>1. log' \in [Dates -> SUBSET Statuses]
      BY <1>7, LogTyped DEF LogNoFile, Statuses, Typed, TypeOK
    <2>2. streak' \in [Runs -> Nat]
      BY <1>7 DEF LogNoFile, Typed, TypeOK
    <2> QED
      BY <1>7, <2>1, <2>2, TypedAdvances DEF LogNoFile, Typed, TypeOK
  <1>8. ASSUME NEW r \in Runs, LogOk(r) PROVE Typed'
    <2>1. log' \in [Dates -> SUBSET Statuses]
      BY <1>8, LogTyped DEF LogOk, Statuses
    <2> QED
      BY <1>8, <2>1, TypedAdvances DEF LogOk, Typed, TypeOK
  <1>9. ASSUME NEW r \in Runs, InsertBars(r) PROVE Typed'
    <2>1. date[r] \in Dates /\ date[r] <= last[r]
      BY <1>9 DEF InsertBars, Typed, TypeOK, InRange
    <2>2. stored' \subseteq Dates /\ streak' \in [Runs -> Nat]
      BY <1>9, <2>1 DEF InsertBars, Typed, TypeOK
    <2> QED
      BY <1>9, <2>1, <2>2, TypedAnswers DEF InsertBars, Phases
  <1>10. ASSUME NEW r \in Runs, InsertRefused(r) \/ Finish(r) \/ Interrupt(r)
         PROVE  Typed'
    <2>1. interrupts' \in Nat /\ UNCHANGED <<world, store>> /\ Ends(r) /\ ResetsCounts(r)
      BY <1>10 DEF InsertRefused, Finish, Interrupt, Typed, TypeOK
    <2> QED
      BY <2>1, TypedEnds DEF store, Typed, TypeOK
  <1>11. CASE UNCHANGED vars
    BY <1>11 DEF Typed, TypeOK, InRange, vars, world, store, range, walk
  <1> QED
    BY <1>1, <1>2, <1>3, <1>4, <1>5, <1>6, <1>7, <1>8, <1>9, <1>10, <1>11
    DEF Next, Walk, FetchFinds, FetchMisses, FetchFails

\* A backfill's state is of the right type, and a run asks about dates only.
THEOREM TypeCorrect == Spec => []TypeOK
  <1>1. Typed => TypeOK
    BY DEF Typed
  <1> QED
    BY TypedInit, TypedNext, <1>1, PTL DEF Spec

-----------------------------------------------------------------------------
(* The log tells the truth.                                                *)

\* The exchange's promise, kept by the clock.
NotLate == \A d \in Dates : Session(d) /\ d + PublishLag < today => d \in published

\* What a run skips has been loaded, if there was anything to load.
SkipsLoaded(r) == \A d \in done[r] : Session(d) => d \in stored

\* A file missed after its absence was settled will never come.
AbsenceIsReal(r) ==
    pc[r] = "missing" /\ NoFileSettled(date[r], startedAt[r]) => ~Session(date[r])

InsertedIsStored(r) == pc[r] = "inserted" => date[r] \in stored

\* A run without an error has left nothing behind that was due.
WalkedClean(r) ==
    pc[r] # "idle" /\ errors[r] = 0 =>
        \A d \in Dates :
            /\ first[r] <= d /\ d < date[r]
            /\ NoFileSettled(d, startedAt[r]) /\ Session(d)
            => d \in stored

RunTrue(r) == SkipsLoaded(r) /\ AbsenceIsReal(r) /\ InsertedIsStored(r) /\ WalkedClean(r)

LogInv == NotLate /\ SettledIsTrue /\ \A r \in Runs : RunTrue(r)

Inv == Typed /\ LogInv

LEMMA LogInvInit == Init => LogInv
  BY DaysAreNumbers
  DEF Init, LogInv, NotLate, SettledIsTrue, RunTrue, SkipsLoaded, AbsenceIsReal,
      InsertedIsStored, WalkedClean, Dates

\* What is true of a run stays true while others work: the store only grows.
LEMMA KeptByOthers ==
    ASSUME NEW q \in Runs, RunTrue(q),
           archive' = archive, stored \subseteq stored',
           pc'[q] = pc[q], date'[q] = date[q], first'[q] = first[q],
           done'[q] = done[q], startedAt'[q] = startedAt[q], errors'[q] = errors[q]
    PROVE  RunTrue(q)'
  BY DEF RunTrue, SkipsLoaded, AbsenceIsReal, InsertedIsStored, WalkedClean, Session,
         NoFileSettled

\* Nothing is claimed of a run that has returned.
LEMMA TrueAtTheEnd ==
    ASSUME Typed, NEW r \in Runs, Ends(r)
    PROVE  RunTrue(r)'
  BY DEF Typed, TypeOK, Ends, RunTrue, SkipsLoaded, AbsenceIsReal, InsertedIsStored,
         WalkedClean

\* A run's next date leaves it true if its last one was dealt with.
LEMMA TrueAfterAdvancing ==
    ASSUME Typed, NEW r \in Runs, pc[r] # "idle", RunTrue(r), Advances(r),
           archive' = archive, stored' = stored, UNCHANGED range,
           errors'[r] = 0 => errors[r] = 0,
           \/ errors'[r] # 0
           \/ NoFileSettled(date[r], startedAt[r]) /\ Session(date[r]) => date[r] \in stored
    PROVE  RunTrue(r)'
  <1>1. /\ pc'[r] = "walk" /\ date'[r] = date[r] + 1 /\ date[r] \in Nat
        /\ UNCHANGED <<first, done, startedAt>>
    BY DEF Typed, TypeOK, Advances, range
  <1>2. SkipsLoaded(r)'
    BY <1>1 DEF RunTrue, SkipsLoaded, Session
  <1>3. AbsenceIsReal(r)' /\ InsertedIsStored(r)'
    BY <1>1 DEF AbsenceIsReal, InsertedIsStored
  <1>4. WalkedClean(r)'
    <2> SUFFICES ASSUME errors'[r] = 0, NEW d \in Dates,
                        first[r] <= d, d < date[r] + 1,
                        NoFileSettled(d, startedAt[r]), Session(d)
                 PROVE  d \in stored
      BY <1>1 DEF WalkedClean, NoFileSettled, Session
    <2>1. CASE d = date[r]
      BY <2>1
    <2>2. CASE d # date[r]
      BY <1>1, <2>2, DaysAreNumbers DEF RunTrue, WalkedClean, Dates
    <2> QED
      BY <2>1, <2>2
  <1> QED
    BY <1>2, <1>3, <1>4 DEF RunTrue

\* The rest of the invariant, when a run does a step that neither changes the
\* log nor concerns the exchange.
LEMMA KeptByStep ==
    ASSUME Inv, NEW r \in Runs, RunTrue(r)', UNCHANGED <<world, log>>,
           stored \subseteq stored',
           \A q \in Runs \ {r} :
              /\ pc'[q] = pc[q] /\ date'[q] = date[q] /\ first'[q] = first[q]
              /\ done'[q] = done[q] /\ startedAt'[q] = startedAt[q] /\ errors'[q] = errors[q]
    PROVE  LogInv'
  <1>1. \A q \in Runs \ {r} : RunTrue(q)'
    BY KeptByOthers DEF Inv, LogInv, world
  <1>2. NotLate' /\ SettledIsTrue'
    BY DEF Inv, LogInv, NotLate, SettledIsTrue, Session, world
  <1> QED
    BY <1>1, <1>2 DEF LogInv

\* The same for a step that logs a date of which the status is true.
LEMMA KeptByLogging ==
    ASSUME Inv, NEW r \in Runs, RunTrue(r)', UNCHANGED <<world, stored>>,
           date[r] \in Dates, NEW status \in Statuses, LogIngest(r, status),
           status = "ok" => date[r] \in stored,
           status = "no-file" => ~Session(date[r]),
           \A q \in Runs \ {r} :
              /\ pc'[q] = pc[q] /\ date'[q] = date[q] /\ first'[q] = first[q]
              /\ done'[q] = done[q] /\ startedAt'[q] = startedAt[q] /\ errors'[q] = errors[q]
    PROVE  LogInv'
  <1>1. \A q \in Runs \ {r} : RunTrue(q)'
    BY KeptByOthers DEF Inv, LogInv, world
  <1>2. NotLate'
    BY DEF Inv, LogInv, NotLate, Session, world
  <1>3. SettledIsTrue'
    <2> SUFFICES ASSUME NEW d \in Dates
                 PROVE  /\ "ok" \in log'[d] => d \in stored
                        /\ "no-file" \in log'[d] => ~Session(d)
      BY DEF SettledIsTrue, Session, world
    <2>1. log'[d] = IF d = date[r] THEN log[d] \cup {status} ELSE log[d]
      BY DEF LogIngest, Inv, Typed, TypeOK
    <2> QED
      BY <2>1 DEF Inv, LogInv, SettledIsTrue
  <1> QED
    BY <1>1, <1>2, <1>3 DEF LogInv

LEMMA LogInvNext ==
    ASSUME ~SoftMisses, Inv, [Next]_vars
    PROVE  LogInv'
  <1> USE DEF Inv
  <1>1. CASE Tick
    <2>1. UNCHANGED <<archive, published, stored, log>> /\ UNCHANGED <<range, walk>>
      BY <1>1 DEF Tick, store
    <2>2. NotLate'
      BY <1>1, DaysAreNumbers DEF Tick, NotLate, Session, Dates, Typed, TypeOK
    <2>3. SettledIsTrue'
      BY <2>1 DEF LogInv, SettledIsTrue, Session
    <2>4. ASSUME NEW q \in Runs PROVE RunTrue(q)'
      BY <2>1, KeptByOthers DEF LogInv, range, walk
    <2> QED
      BY <2>2, <2>3, <2>4 DEF LogInv
  <1>2. ASSUME NEW d \in Dates, Publish(d) PROVE LogInv'
    <2>1. UNCHANGED <<archive, today, stored, log>> /\ UNCHANGED <<range, walk>>
      BY <1>2 DEF Publish, store
    <2>2. NotLate'
      BY <1>2 DEF Publish, LogInv, NotLate, Session
    <2>3. SettledIsTrue'
      BY <2>1 DEF LogInv, SettledIsTrue, Session
    <2>4. ASSUME NEW q \in Runs PROVE RunTrue(q)'
      BY <2>1, KeptByOthers DEF LogInv, range, walk
    <2> QED
      BY <2>2, <2>3, <2>4 DEF LogInv
  <1>3. ASSUME NEW r \in Runs, NEW from \in Dates, NEW to \in Dates,
               NEW refetch \in BOOLEAN, Start(r, from, to, refetch)
        PROVE  LogInv'
    <2>1. \A d \in LoggedDates : Session(d) => d \in stored
      BY DEF LoggedDates, LogInv, SettledIsTrue
    <2>2. RunTrue(r)'
      <3>1. /\ pc'[r] = "walk" /\ date'[r] = first'[r] /\ first'[r] \in Nat
            /\ done'[r] \subseteq LoggedDates /\ UNCHANGED <<archive, stored>>
        BY <1>3, DaysAreNumbers
        DEF Start, Typed, TypeOK, world, store, Clamped, Dates
      <3>2. SkipsLoaded(r)'
        BY <2>1, <3>1 DEF SkipsLoaded, Session
      <3>3. WalkedClean(r)'
        BY <3>1, DaysAreNumbers DEF WalkedClean, Dates
      <3> QED
        BY <3>1, <3>2, <3>3 DEF RunTrue, AbsenceIsReal, InsertedIsStored
    <2> QED
      BY <1>3, <2>2, KeptByStep DEF Start, store, Typed, TypeOK
  <1>4. ASSUME NEW r \in Runs, Skip(r) PROVE LogInv'
    <2>1. RunTrue(r)'
      BY <1>4, TrueAfterAdvancing
      DEF Skip, Running, LogInv, RunTrue, SkipsLoaded, world, store
    <2> QED
      BY <1>4, <2>1, KeptByStep DEF Skip, Advances, store, range, Typed, TypeOK
  <1>5. ASSUME NEW r \in Runs, NEW outcome \in {"found", "missing", "failed"},
               Fetches(r, outcome),
               outcome = "missing" => date[r] \notin published
        PROVE  LogInv'
    <2>1. /\ pc'[r] = outcome /\ pc[r] = "walk" /\ date[r] \in Dates
          /\ UNCHANGED <<archive, stored, log, published, today>>
          /\ UNCHANGED <<range, date, errors>>
      BY <1>5, DaysAreNumbers
      DEF Fetches, Running, world, store, range, Typed, TypeOK, InRange, Dates
    <2>2. outcome = "missing" /\ NoFileSettled(date[r], startedAt[r]) => ~Session(date[r])
      <3> SUFFICES ASSUME date[r] \notin published, NoFileSettled(date[r], startedAt[r])
                   PROVE  ~Session(date[r])
        BY <1>5
      <3>1. startedAt[r] <= today /\ startedAt[r] \in Nat /\ today \in Nat
        BY <2>1 DEF Typed, TypeOK, InRange
      <3>2. date[r] + PublishLag < today
        BY <2>1, <3>1, DaysAreNumbers, PublishedInTime DEF NoFileSettled, Dates
      <3> QED
        BY <2>1, <3>2 DEF LogInv, NotLate
    <2>3. AbsenceIsReal(r)'
      BY <2>1, <2>2 DEF AbsenceIsReal, NoFileSettled, Session, range
    <2>4. SkipsLoaded(r)' /\ InsertedIsStored(r)' /\ WalkedClean(r)'
      BY <2>1 DEF LogInv, RunTrue, SkipsLoaded, InsertedIsStored, WalkedClean,
                  NoFileSettled, Session, range
    <2>5. RunTrue(r)'
      BY <2>3, <2>4 DEF RunTrue
    <2> QED
      BY <1>5, <2>1, <2>5, KeptByStep DEF Fetches, store, range, Typed, TypeOK
  <1>6. ASSUME NEW r \in Runs, LogError(r) PROVE LogInv'
    <2>1. date[r] \in Dates /\ "error" \in Statuses
      BY <1>6 DEF LogError, Typed, TypeOK, Statuses
    <2>2. CASE Ends(r) /\ ResetsCounts(r)
      <3>1. RunTrue(r)'
        BY <2>2, TrueAtTheEnd
      <3> QED
        BY <1>6, <2>1, <2>2, <3>1, KeptByLogging
        DEF LogError, Ends, ResetsCounts, Typed, TypeOK
    <2>3. CASE ~(Ends(r) /\ ResetsCounts(r))
      <3>1. /\ Advances(r) /\ errors' = [errors EXCEPT ![r] = @ + 1]
            /\ UNCHANGED <<world, stored, range>> /\ pc[r] # "idle" /\ LogIngest(r, "error")
        BY <1>6, <2>3 DEF LogError
      <3>2. errors'[r] # 0
        BY <3>1 DEF Typed, TypeOK
      <3>3. RunTrue(r)'
        BY <3>1, <3>2, TrueAfterAdvancing DEF LogInv, world
      <3> QED
        BY <2>1, <3>1, <3>3, KeptByLogging DEF Advances, range, Typed, TypeOK
    <2> QED
      BY <2>2, <2>3
  <1>7. ASSUME NEW r \in Runs, LogNoFile(r) PROVE LogInv'
    <2>1. /\ pc[r] = "missing" /\ Advances(r) /\ UNCHANGED <<world, stored, range, errors>>
          /\ date[r] \in Dates /\ "no-file" \in Statuses
      BY <1>7 DEF LogNoFile, Typed, TypeOK, Statuses
    <2>2. RunTrue(r)'
      BY <2>1, TrueAfterAdvancing DEF LogInv, RunTrue, AbsenceIsReal, world
    <2>3. CASE NoFileSettled(date[r], startedAt[r])
      <3>1. ~Session(date[r])
        BY <2>1, <2>3 DEF LogInv, RunTrue, AbsenceIsReal
      <3> QED
        BY <1>7, <2>1, <2>2, <2>3, <3>1, KeptByLogging
        DEF LogNoFile, Advances, range, Typed, TypeOK
    <2>4. CASE ~NoFileSettled(date[r], startedAt[r])
      BY <1>7, <2>1, <2>2, <2>4, KeptByStep DEF LogNoFile, Advances, range, Typed, TypeOK
    <2> QED
      BY <2>3, <2>4
  <1>8. ASSUME NEW r \in Runs, LogOk(r) PROVE LogInv'
    <2>1. /\ pc[r] = "inserted" /\ Advances(r) /\ UNCHANGED <<world, stored, range, errors>>
          /\ date[r] \in Dates /\ date[r] \in stored
          /\ "ok" \in Statuses /\ LogIngest(r, "ok")
      BY <1>8 DEF LogOk, Typed, TypeOK, Statuses, LogInv, RunTrue, InsertedIsStored
    <2>2. RunTrue(r)'
      BY <2>1, TrueAfterAdvancing DEF LogInv, world
    <2> QED
      BY <2>1, <2>2, KeptByLogging DEF Advances, range, Typed, TypeOK
  <1>9. ASSUME NEW r \in Runs, InsertBars(r) PROVE LogInv'
    <2>1. /\ pc'[r] = "inserted" /\ stored' = stored \cup {date[r]} /\ pc[r] = "found"
          /\ UNCHANGED <<world, log, range, date, errors>>
      BY <1>9 DEF InsertBars, Typed, TypeOK
    <2>2. RunTrue(r)'
      BY <2>1 DEF LogInv, RunTrue, SkipsLoaded, AbsenceIsReal, InsertedIsStored,
                  WalkedClean, NoFileSettled, Session, world, range
    <2> QED
      BY <1>9, <2>1, <2>2, KeptByStep DEF InsertBars, range, Typed, TypeOK
  <1>10. ASSUME NEW r \in Runs, InsertRefused(r) \/ Finish(r) \/ Interrupt(r)
         PROVE  LogInv'
    <2>1. Ends(r) /\ ResetsCounts(r) /\ UNCHANGED <<world, store>>
      BY <1>10 DEF InsertRefused, Finish, Interrupt
    <2>2. RunTrue(r)'
      BY <2>1, TrueAtTheEnd
    <2> QED
      BY <2>1, <2>2, KeptByStep DEF Ends, ResetsCounts, store, Typed, TypeOK
  <1>11. CASE UNCHANGED vars
    BY <1>11
    DEF vars, world, store, range, walk, LogInv, NotLate, SettledIsTrue, RunTrue,
        SkipsLoaded, AbsenceIsReal, InsertedIsStored, WalkedClean, NoFileSettled, Session
  <1> QED
    BY <1>1, <1>2, <1>3, <1>4, <1>5, <1>6, <1>7, <1>8, <1>9, <1>10, <1>11
    DEF Next, Walk, FetchFinds, FetchMisses, FetchFails

LEMMA InvAlways == ASSUME ~SoftMisses PROVE Spec => []Inv
  <1>1. Init => Inv
    BY TypedInit, LogInvInit DEF Inv
  <1>2. Inv /\ [Next]_vars => Inv'
    BY TypedNext, LogInvNext DEF Inv
  <1> QED
    BY <1>1, <1>2, PTL DEF Spec

\* What the log settles is so for good: no trading day is lost, if an
\* answer that there is no file is never given for a file there is.
THEOREM SettledIsTrueAlways == ASSUME ~SoftMisses PROVE Spec => []SettledIsTrue
  <1>1. Inv => SettledIsTrue
    BY DEF Inv, LogInv
  <1> QED
    BY <1>1, InvAlways, PTL

\* A run that ends without an error has left no session behind that was due,
\* under the same condition.
THEOREM CleanRuns == ASSUME ~SoftMisses PROVE Spec => CleanRunLeavesNothing
  <1>1. ASSUME Inv, NEW r \in Runs, Finish(r), errors[r] = 0,
               NEW d \in Dates \cap (first[r]..last[r]),
               NoFileSettled(d, startedAt[r]), Session(d)
        PROVE  d \in stored
    <2>1. pc[r] = "walk" /\ last[r] < date[r] /\ WalkedClean(r)
      BY <1>1 DEF Finish, Inv, LogInv, RunTrue, Typed, TypeOK
    <2>2. first[r] \in Nat /\ last[r] \in Nat /\ date[r] \in Nat
      BY <1>1 DEF Inv, Typed, TypeOK
    <2>3. first[r] <= d /\ d < date[r]
      BY <2>1, <2>2
    <2> QED
      BY <1>1, <2>1, <2>3 DEF WalkedClean
  <1>2. Inv => [\A r \in Runs : Finish(r) /\ errors[r] = 0 =>
                  \A d \in Dates \cap (first[r]..last[r]) :
                      NoFileSettled(d, startedAt[r]) /\ Session(d) => d \in stored]_vars
    BY <1>1
  <1> QED
    BY <1>2, InvAlways, PTL DEF CleanRunLeavesNothing

=============================================================================
