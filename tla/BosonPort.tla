------------------------------- MODULE BosonPort -------------------------------
(***************************************************************************)
(* The command channel of a FLIR Boson (health_boson.py), used by the health *)
(* thread alone: a port opened on demand, identified, then asked one value   *)
(* after another.  A command is a sequence number and a function; an answer  *)
(* that comes after its command was given up is still on its way.  Framing,  *)
(* escapes and checksums are left out: a damaged frame is no answer.         *)
(***************************************************************************)
EXTENDS Integers, FiniteSets

CONSTANTS SeqMod,    \* the sequence number's range, 2^32 in the code
          Lag,       \* how many commands an answer may be late
          MaxLate    \* how many answers are on their way at once

ASSUME SeqAssumption == MaxLate \in Nat /\ SeqMod \in Nat /\ Lag \in Nat /\ Lag + 1 < SeqMod

VARIABLES
  port,     \* "closed", "identifying" (open, not yet the provider's), "open"
  sequence, \* BosonPort._seq
  step,     \* 0: no poll; 1..2 identify (part number, serial); 3..4 the reads
  asked,    \* a command is out and waited for
  errs,     \* reads of this poll that failed
  temp,     \* this poll has the temperature, the first of the reads
  late,     \* answers on their way to commands that were given up
  confused  \* history: a late answer was taken for a later command's of its port

boson == <<port, sequence, step, asked, errs, temp, late, confused>>

Late == [sequence : 0..(SeqMod - 1), step : 1..4, old : BOOLEAN, lag : 0..Lag]

BosonTypeOK ==
  /\ port \in {"closed", "identifying", "open"}
  /\ sequence \in 0..(SeqMod - 1) /\ step \in 0..4 /\ errs \in 0..2
  /\ {asked, temp, confused} \subseteq BOOLEAN
  /\ late \subseteq Late

BosonInit ==
  /\ port = "closed" /\ sequence = 0 /\ step = 0 /\ errs = 0 /\ late = {}
  /\ asked = FALSE /\ temp = FALSE /\ confused = FALSE

\* The device node is opened: a new port object, which counts from zero again.
OpenPort ==
  /\ port = "closed" /\ step = 0
  /\ port' = "identifying" /\ sequence' = 0 /\ step' = 1
  /\ errs' = 0 /\ temp' = FALSE
  /\ late' = {[r EXCEPT !.old = TRUE] : r \in late}
  /\ UNCHANGED <<asked, confused>>

ReusePort ==
  /\ port = "open" /\ step = 0
  /\ step' = 3 /\ errs' = 0 /\ temp' = FALSE
  /\ UNCHANGED <<port, sequence, asked, late, confused>>

\* command: what is in the buffer is drained, and the next number is used.
Ask ==
  /\ step > 0 /\ ~asked
  /\ asked' = TRUE
  /\ sequence' = (sequence + 1) % SeqMod
  /\ \E kept \in SUBSET late :
       late' = {[r EXCEPT !.lag = r.lag + 1] : r \in {q \in kept : q.lag < Lag}}
  /\ UNCHANGED <<port, step, errs, temp, confused>>

\* To the next command; step 5 stands for a poll that is complete.
NextStep == IF step = 4 THEN 0 ELSE step + 1

\* Identified, the port is the provider's.
Advance ==
  /\ asked' = FALSE
  /\ step' = NextStep
  /\ port' = IF step = 2 THEN "open" ELSE port

Accept == Advance /\ temp' = (temp \/ step = 3) /\ UNCHANGED <<sequence, errs>>

Answered == asked /\ Accept /\ UNCHANGED <<late, confused>>

\* Fault: any answer to the same function will do.
MatchesFunction(r) == r.step = step

Matches(r) == r.sequence = sequence /\ r.step = step

\* An answer to an earlier command arrives: ignored, unless it looks like this one's.
LateAnswer ==
  /\ asked
  /\ \E r \in late :
       /\ late' = late \ {r}
       /\ \/ Matches(r) /\ Accept /\ confused' = (confused \/ ~r.old)
          \/ ~Matches(r) /\ UNCHANGED <<port, sequence, step, asked, errs, temp, confused>>

\* Refused, cut short or not answered in time; only a read that fails is counted.
\* Without an answer there may still come one.
NoAnswer(comesLate) ==
  /\ asked /\ (comesLate => Cardinality(late) < MaxLate)
  /\ Advance
  /\ errs' = IF step > 2 THEN errs + 1 ELSE errs
  /\ late' = IF comesLate
              THEN late \cup {[sequence |-> sequence, step |-> step, old |-> FALSE, lag |-> 0]}
              ELSE late
  /\ UNCHANGED <<sequence, temp, confused>>

\* The last reads are skipped because the monitor stops.
SkipReads ==
  /\ step > 2 /\ ~asked
  /\ step' = 0
  /\ UNCHANGED <<port, sequence, asked, errs, temp, late, confused>>

\* OSError: the device is gone.
PortGone ==
  /\ asked
  /\ port' = "closed" /\ step' = 0 /\ asked' = FALSE
  /\ UNCHANGED <<sequence, errs, temp, late, confused>>

\* A port that answers nothing is as good as gone.
AllFailed == errs = 2

ClosePort ==
  /\ port' = "closed"
  /\ UNCHANGED <<sequence, step, asked, errs, temp, late, confused>>
=============================================================================
