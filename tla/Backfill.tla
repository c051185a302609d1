------------------------------ MODULE Backfill ------------------------------
(***************************************************************************)
(* The loaders of the exchange's daily files.  A run walks every date of   *)
(* its range, skips those the ingest log had settled when it began,        *)
(* requests the others, stores what it finds and logs each attempt: the    *)
(* bars and the log row in two transactions, so a run may be interrupted   *)
(* between them.  Runs may overlap.                                        *)
(*                                                                         *)
(* A missing file may be a holiday, which is settled, or a session the     *)
(* exchange has yet to publish, which must not be: the loader tells them   *)
(* apart by the clock.  Dates and times are day numbers; a day starts at   *)
(* midnight in India.                                                      *)
(***************************************************************************)
EXTENDS Integers, FiniteSets

CONSTANTS Runs,          \* processes that run a backfill
          LastDate,      \* dates are 1 .. LastDate
          ArchiveStart,  \* the first date with a file
          Refetchable,   \* whether the loader has Refetch
          SoftMisses,    \* whether it takes a page that is no file for a miss
          SettleLag,     \* noFileSettleLag, in days
          PublishLag,    \* days after a session its file may take
          ErrorBudget,   \* consecutive errors that abort a run: five
          LastDay,       \* bound: the clock stops here
          MaxInterrupts  \* bound: how many runs are cut short

Dates == 1..LastDate

\* What the exchange will have published for a date in the end: nothing, a
\* file, one that cannot be read, or one whose bars the store refuses.
Files == {"none", "good", "corrupt", "refused"}

ASSUME DaysAreNumbers ==
    /\ LastDate \in Nat /\ ArchiveStart \in Nat \ {0} /\ LastDay \in Nat
    /\ SettleLag \in Nat /\ PublishLag \in Nat

ASSUME BudgetsAreNumbers == ErrorBudget \in Nat \ {0} /\ MaxInterrupts \in Nat

ASSUME LoaderIsKnown == Refetchable \in BOOLEAN /\ SoftMisses \in BOOLEAN

\* What the lag is for: no file is published once its absence is settled.
ASSUME PublishedInTime == PublishLag <= SettleLag

VARIABLES archive,     \* what the exchange publishes in the end
          published,   \* the dates whose file it serves by now
          today,       \* the clock
          stored,      \* the dates whose bars are in the store
          log,         \* the statuses logged for a date
          pc,          \* what a run is doing
          done,        \* the dates a run skips, read once as it starts
          startedAt,   \* the day a run read the clock, once
          first, date, last,  \* a run's range, and where it is
          streak,      \* a run's consecutive errors
          errors,      \* a run's errors
          interrupts   \* how many runs were cut short so far

world == <<archive, published, today>>
store == <<stored, log>>
range == <<first, last, done, startedAt>>
walk == <<pc, date, streak, errors>>
vars == <<world, store, range, walk, interrupts>>

Phases == {"idle", "walk", "found", "missing", "failed", "inserted"}
Statuses == {"ok", "no-file", "error"}

TypeOK ==
    /\ archive \in [Dates -> Files] /\ published \subseteq Dates
    /\ today \in Nat /\ interrupts \in Nat
    /\ stored \subseteq Dates /\ log \in [Dates -> SUBSET Statuses]
    /\ pc \in [Runs -> Phases] /\ done \in [Runs -> SUBSET Dates]
    /\ startedAt \in [Runs -> Nat] /\ first \in [Runs -> Nat]
    /\ date \in [Runs -> Nat] /\ last \in [Runs -> Nat]
    /\ streak \in [Runs -> Nat] /\ errors \in [Runs -> Nat]
    /\ \A r \in Runs : pc[r] \notin {"idle", "walk"} => date[r] \in Dates

-----------------------------------------------------------------------------
(* The exchange and the clock.                                             *)

Session(d) == archive[d] # "none"

Publish(d) ==
    /\ Session(d) /\ d \notin published /\ d <= today
    /\ published' = published \cup {d}
    /\ UNCHANGED <<archive, today, store, range, walk, interrupts>>

\* The exchange is at most PublishLag days late.
Tick ==
    /\ today < LastDay
    /\ \A d \in Dates : Session(d) /\ d + PublishLag <= today => d \in published
    /\ today' = today + 1
    /\ UNCHANGED <<archive, published, store, range, walk, interrupts>>

-----------------------------------------------------------------------------
(* A run.                                                                  *)

\* Faulty variant: every attempt settles its date.
AttemptedDates == {d \in Dates : log[d] # {}}

\* Errors do not settle a date.
LoggedDates == {d \in Dates : log[d] \cap {"ok", "no-file"} # {}}

\* Whether a missing file for a session, asked at a time, means no session: a
\* day ends at the midnight that starts the next one.
NoFileSettled(d, now) == d + 1 + SettleLag <= now

Clamped(from) == IF from < ArchiveStart THEN ArchiveStart ELSE from

Start(r, from, to, refetch) ==
    /\ pc[r] = "idle"
    /\ refetch => Refetchable
    /\ pc' = [pc EXCEPT ![r] = "walk"]
    /\ done' = [done EXCEPT ![r] = IF refetch THEN {} ELSE LoggedDates]
    /\ startedAt' = [startedAt EXCEPT ![r] = today]
    /\ first' = [first EXCEPT ![r] = Clamped(from)]
    /\ date' = [date EXCEPT ![r] = Clamped(from)]
    /\ last' = [last EXCEPT ![r] = to]
    /\ streak' = [streak EXCEPT ![r] = 0]
    /\ errors' = [errors EXCEPT ![r] = 0]
    /\ UNCHANGED <<world, store, interrupts>>

Running(r) == pc[r] = "walk" /\ date[r] <= last[r]

\* The run looks at its next date.
Advances(r) ==
    /\ pc' = [pc EXCEPT ![r] = "walk"]
    /\ date' = [date EXCEPT ![r] = @ + 1]

\* The run returns, with or without an error.
Ends(r) ==
    /\ pc' = [pc EXCEPT ![r] = "idle"]
    /\ date' = [date EXCEPT ![r] = 0]
    /\ first' = [first EXCEPT ![r] = 0]
    /\ last' = [last EXCEPT ![r] = 0]
    /\ done' = [done EXCEPT ![r] = {}]
    /\ startedAt' = [startedAt EXCEPT ![r] = 0]

ResetsCounts(r) ==
    /\ streak' = [streak EXCEPT ![r] = 0]
    /\ errors' = [errors EXCEPT ![r] = 0]

Skip(r) ==
    /\ Running(r) /\ date[r] \in done[r]
    /\ Advances(r)
    /\ UNCHANGED <<world, store, range, streak, errors, interrupts>>

\* Fetch, answered: with a file whose rows parse, with a 404, or not at all.
Fetches(r, outcome) ==
    /\ Running(r) /\ date[r] \notin done[r]
    /\ pc' = [pc EXCEPT ![r] = outcome]
    /\ UNCHANGED <<world, store, range, date, streak, errors, interrupts>>

FetchFinds(r) ==
    /\ Running(r) /\ date[r] \in published /\ archive[date[r]] # "corrupt"
    /\ Fetches(r, "found")

\* The index loader also calls a file missing when the hosts it asks answer with
\* a page of some other kind, as they may for a file they have.
FetchMisses(r) ==
    /\ date[r] \in published => SoftMisses
    /\ Fetches(r, "missing")

FetchFails(r) == Fetches(r, "failed")

LogIngest(r, status) == log' = [log EXCEPT ![date[r]] = @ \cup {status}]

\* Faulty variant: one error fewer ends the run.
LogErrorEarly(r) ==
    /\ pc[r] = "failed"
    /\ LogIngest(r, "error")
    /\ IF streak[r] + 2 >= ErrorBudget
       THEN Ends(r) /\ ResetsCounts(r)
       ELSE /\ Advances(r)
            /\ streak' = [streak EXCEPT ![r] = @ + 1]
            /\ errors' = [errors EXCEPT ![r] = @ + 1]
            /\ UNCHANGED range
    /\ UNCHANGED <<world, stored, interrupts>>

\* The error is logged; the last of too many ends the run.
LogError(r) ==
    /\ pc[r] = "failed"
    /\ LogIngest(r, "error")
    /\ IF streak[r] + 1 >= ErrorBudget
       THEN Ends(r) /\ ResetsCounts(r)
       ELSE /\ Advances(r)
            /\ streak' = [streak EXCEPT ![r] = @ + 1]
            /\ errors' = [errors EXCEPT ![r] = @ + 1]
            /\ UNCHANGED range
    /\ UNCHANGED <<world, stored, interrupts>>

\* Faulty variant: the clock is read when the answer is judged.
LogNoFileByNow(r) ==
    /\ pc[r] = "missing"
    /\ streak' = [streak EXCEPT ![r] = 0]
    /\ IF NoFileSettled(date[r], today)
       THEN LogIngest(r, "no-file")
       ELSE UNCHANGED log
    /\ Advances(r)
    /\ UNCHANGED <<world, stored, range, errors, interrupts>>

LogNoFile(r) ==
    /\ pc[r] = "missing"
    /\ streak' = [streak EXCEPT ![r] = 0]
    /\ IF NoFileSettled(date[r], startedAt[r])
       THEN LogIngest(r, "no-file")
       ELSE UNCHANGED log
    /\ Advances(r)
    /\ UNCHANGED <<world, stored, range, errors, interrupts>>

InsertBars(r) ==
    /\ pc[r] = "found" /\ archive[date[r]] = "good"
    /\ stored' = stored \cup {date[r]}
    /\ streak' = [streak EXCEPT ![r] = 0]
    /\ pc' = [pc EXCEPT ![r] = "inserted"]
    /\ UNCHANGED <<world, log, range, date, errors, interrupts>>

\* The store refuses the batch: the run returns, and nothing is logged.
InsertRefused(r) ==
    /\ pc[r] = "found" /\ archive[date[r]] = "refused"
    /\ Ends(r) /\ ResetsCounts(r)
    /\ UNCHANGED <<world, store, interrupts>>

LogOk(r) ==
    /\ pc[r] = "inserted"
    /\ LogIngest(r, "ok")
    /\ Advances(r)
    /\ UNCHANGED <<world, stored, range, streak, errors, interrupts>>

Finish(r) ==
    /\ pc[r] = "walk" /\ date[r] > last[r]
    /\ Ends(r) /\ ResetsCounts(r)
    /\ UNCHANGED <<world, store, interrupts>>

\* Cancelled, killed, or cut off from the database.
Interrupt(r) ==
    /\ pc[r] # "idle" /\ interrupts < MaxInterrupts
    /\ interrupts' = interrupts + 1
    /\ Ends(r) /\ ResetsCounts(r)
    /\ UNCHANGED <<world, store>>

-----------------------------------------------------------------------------

Init ==
    /\ archive \in {a \in [Dates -> Files] :
                       \A d \in Dates : d < ArchiveStart => a[d] = "none"}
    /\ published = {} /\ today = 1
    /\ stored = {} /\ log = [d \in Dates |-> {}]
    /\ pc = [r \in Runs |-> "idle"] /\ done = [r \in Runs |-> {}]
    /\ startedAt = [r \in Runs |-> 0] /\ first = [r \in Runs |-> 0]
    /\ date = [r \in Runs |-> 0] /\ last = [r \in Runs |-> 0]
    /\ streak = [r \in Runs |-> 0] /\ errors = [r \in Runs |-> 0]
    /\ interrupts = 0

\* A step of the loop.
Walk(r) ==
    \/ Skip(r)
    \/ FetchFinds(r) \/ FetchMisses(r) \/ FetchFails(r)
    \/ LogError(r) \/ LogNoFile(r) \/ LogOk(r)
    \/ InsertBars(r) \/ InsertRefused(r)
    \/ Finish(r)

Next ==
    \/ Tick
    \/ \E d \in Dates : Publish(d)
    \/ \E r \in Runs :
          \/ \E from, to \in Dates, refetch \in BOOLEAN : Start(r, from, to, refetch)
          \/ Walk(r)
          \/ Interrupt(r)

Spec == Init /\ [][Next]_vars

\* Time passes and the exchange publishes; a run is not suspended for ever;
\* someone reruns the loader with its default range again and again; a request
\* repeated for ever does not fail for ever, unless the file is corrupt.
Fairness ==
    /\ WF_vars(Tick)
    /\ \A d \in Dates : WF_vars(Publish(d))
    /\ \A r \in Runs :
          /\ WF_vars(Walk(r))
          /\ SF_vars(Start(r, 1, LastDate, FALSE))
          /\ \A d \in Dates :
                /\ SF_vars(date[r] = d /\ FetchFinds(r))
                /\ SF_vars(date[r] = d /\ FetchMisses(r))

FairSpec == Spec /\ Fairness

-----------------------------------------------------------------------------
(* Properties.                                                             *)

\* DESIGN.md: "no trading day can be silently lost".  What the log calls
\* settled is so for good, for no later run asks again: the bars of a date
\* logged as loaded are in the store, and on a date logged as having no file
\* there was no session.
SettledIsTrue ==
    \A d \in Dates :
        /\ "ok" \in log[d] => d \in stored
        /\ "no-file" \in log[d] => ~Session(d)

\* A run that walks to the end of its range without an error leaves no session
\* behind that was due when it started, whatever it skipped on the word of the
\* log, and whatever the overlapping runs did.
CleanRunLeavesNothing ==
    [][\A r \in Runs : Finish(r) /\ errors[r] = 0 =>
          \A d \in Dates \cap (first[r]..last[r]) :
              NoFileSettled(d, startedAt[r]) /\ Session(d) => d \in stored]_vars

\* Loadable: not corrupt or refused, and behind no refused date and fewer
\* corrupt ones than exhaust a run's budget of errors.
Loadable(d) ==
    /\ archive[d] \in {"none", "good"} /\ ArchiveStart <= d
    /\ \A e \in 1..d : archive[e] # "refused"
    /\ Cardinality({e \in 1..d : archive[e] = "corrupt"}) < ErrorBudget

\* Every date is settled in the end, with its bars stored if it had any,
\* through interruptions, failed requests and files published late, as long as
\* fewer dates before it fail for ever than abort a run.  (Settled dates in
\* between do not reset the count of consecutive errors: dates that fail for
\* ever, however far apart, are consecutive in the end.)
EveryDateSettles ==
    \A d \in Dates : (Loadable(d) ~> (d \in LoggedDates /\ (Session(d) => d \in stored)))

=============================================================================
