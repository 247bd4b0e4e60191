------------------------------ MODULE HealthRows ------------------------------
(***************************************************************************)
(* What health.py says of a component: the levels of ROS diagnostics, the   *)
(* limits that raise them, and how a provider's observation is held, aged,   *)
(* merged with the other providers' and aged again for a late reader.  A     *)
(* value is kept as the level its limits give it; times are ticks, and an    *)
(* age is not counted past StaleAfter, where nothing changes any more.       *)
(***************************************************************************)
EXTENDS Integers, FiniteSetsExt

CONSTANTS StaleAfter,   \* stale_after_s
          StallAfter,   \* stall_after_s, when no frame is a fault
          HoldFor       \* LOSS_HOLD_S, how long a loss stays visible

ASSUME TimesAssumption == {StaleAfter, StallAfter, HoldFor} \subseteq Nat \ {0}

OK == 0  WARN == 1  ERROR == 2  STALE == 3

Faults == {OK, WARN, ERROR}

\* A provider's report of one component: its own level and that of the limits.
Observations == [level : Faults, lim : Faults]

Severity(o) == Max({o.level, o.lim})

Older(age) == IF age < StaleAfter THEN age + 1 ELSE age

\* Rows of a poll: what a provider contributes to a component.
PollRows == [level : Faults \cup {STALE}, lim : Faults, last : Faults, age : 0..StaleAfter]

Current(o) == [level |-> o.level, lim |-> o.lim, last |-> OK, age |-> 0]

\* The provider failed: its last report is kept, and stale at once if the device is
\* known to be away.
Held(o, away, silent) ==
  [level |-> IF away \/ silent >= StaleAfter THEN STALE ELSE o.level,
   lim |-> o.lim, last |-> Severity(o), age |-> silent]

\* It failed and never reported.
Unseen(silent) == [level |-> STALE, lim |-> OK, last |-> OK, age |-> silent]

\* Time that passed while other providers were polled counts too.
Expire(r) ==
  IF r.age < StaleAfter THEN r
  ELSE [r EXCEPT !.level = STALE,
                 !.last = IF r.level = STALE THEN r.last ELSE Severity(r)]

\* The rows of a snapshot.
Rows == [level : Faults \cup {STALE}, last : Faults, age : 0..StaleAfter]

\* Fault: what is known is taken from the rows that are not stale.
MergeForgets(owner, rs) ==
  LET lim == Max({r.lim : r \in rs})
      level == Max({lim} \cup {r.level : r \in rs})
      known == {OK} \cup {r.level : r \in {q \in rs : q.level # STALE}}
  IN [level |-> level, last |-> IF level = STALE THEN Max(known) ELSE OK, age |-> owner.age]

\* One row per component.  A stale provider neither hides another one's fault nor
\* the fault it had reported; the age is that of the component's first provider.
Merge(owner, rs) ==
  LET lim == Max({r.lim : r \in rs})
      level == Max({lim} \cup {r.level : r \in rs})
      known == {lim} \cup {IF r.level = STALE THEN r.last ELSE r.level : r \in rs}
  IN [level |-> level, last |-> IF level = STALE THEN Max(known) ELSE OK, age |-> owner.age]

\* What a late reader is told: no frozen observation gets a new lease of life.
Aged(row, elapsed) ==
  LET age == row.age + elapsed IN
  IF age < StaleAfter THEN [row EXCEPT !.age = age]
  ELSE [level |-> STALE, age |-> StaleAfter,
        last |-> IF row.level = STALE THEN row.last ELSE row.level]

\* The fault a reader sees, be the row stale or not.
Shown(row) == IF row.level = STALE THEN row.last ELSE row.level

\* PipelineProvider: the level of the stream from the frame and loss counters.
StreamLevel(idle, reconnecting, frameAge, lossAge) ==
  CASE idle                                        -> OK
    [] ~idle /\ (reconnecting \/ frameAge > StallAfter)  -> ERROR
    [] ~idle /\ ~reconnecting /\ frameAge <= StallAfter
       /\ lossAge <= HoldFor                             -> WARN
    [] OTHER                                             -> OK
=============================================================================
