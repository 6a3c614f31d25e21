-------------------------- MODULE OpenInterestPoll --------------------------
(***************************************************************************)
(* The open-interest poll (backend/app/data/collectors/open_interest.py).  *)
(* Times are seconds of a small clock; a poll files its samples under the  *)
(* opening of the slot it began in, so a sample may have been observed     *)
(* after the bar that opens there.                                         *)
(***************************************************************************)
EXTENDS BarSeries

CONSTANTS
  Symbols,
  SlotLength,  \* OI_INTERVAL_MS
  PollSeconds, \* open_interest_poll_seconds
  LastSecond   \* bound

VARIABLES
  now,
  samples,  \* by symbol and slot: when the value stored there was observed
  polling,  \* the symbols this poll has still to ask for
  slot,     \* the slot this poll files under
  nextPoll  \* when the pause ends

vars == <<now, samples, polling, slot, nextPoll>>

\* The process starts anywhere in a slot.
Init ==
  /\ now = 0
  /\ samples = [s \in Symbols |-> [t \in {} |-> 0]]
  /\ polling = {} /\ slot = 0 /\ nextPoll \in 0..(SlotLength - 1)

Pausing == polling = {}

Poll ==
  /\ Pausing /\ now >= nextPoll
  /\ slot' = OnGrid(now, SlotLength)
  /\ polling' = Symbols
  /\ UNCHANGED <<now, samples, nextPoll>>

\* The pause is counted from the end of the poll.
Asked(s) ==
  /\ s \in polling
  /\ polling' = polling \ {s}
  /\ nextPoll' = IF polling' = {} THEN now + PollSeconds ELSE nextPoll
  /\ UNCHANGED <<now, slot>>

Sampled(s) ==
  /\ Asked(s)
  /\ samples' = [samples EXCEPT ![s] = Merge(@, OneRow(slot, now))]

\* A failing symbol is logged and skipped.
Skipped(s) == Asked(s) /\ UNCHANGED samples

Tick ==
  /\ now < LastSecond
  /\ Pausing => now < nextPoll
  /\ now' = now + 1
  /\ UNCHANGED <<samples, polling, slot, nextPoll>>

Next == Poll \/ Tick \/ \E s \in Symbols : Sampled(s) \/ Skipped(s)

Spec == Init /\ [][Next]_vars

TypeOK ==
  /\ now \in 0..LastSecond
  /\ \A s \in Symbols : \A t \in DOMAIN samples[s] : t % SlotLength = 0 /\ samples[s][t] \in t..now
  /\ polling \subseteq Symbols /\ slot \in 0..now
=============================================================================
