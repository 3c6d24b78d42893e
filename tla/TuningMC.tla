------------------------------ MODULE TuningMC ------------------------------
(***************************************************************************)
(* An instance of Tuning for TLC: answers of the LLM that are beyond the   *)
(* bounds, of little confidence, no number, a number in {"v": x}, no time  *)
(* of the session, one with a blank before it or of a key without a row;   *)
(* and an administrator who types beyond the bounds.                       *)
(***************************************************************************)
EXTENDS Tuning

Suggestion(key, value, confidence) ==
    [key |-> key, value |-> value, confidence |-> confidence]
MCReplies == {
    <<Suggestion("atr_stop_mult", Number(45), 70),
      Suggestion("force_close_time", Clock(1500), 40)>>,
    <<Suggestion("max_positions", Number(25), 66),
      Suggestion("atr_stop_mult", Words, 80)>>,
    <<Suggestion("atr_stop_mult", Wrapped(Number(99)), 80)>>,
    <<Suggestion("entry_start_time", PaddedClock(930), 90)>>,
    <<Suggestion("entry_start_time", Clock(830), 90),
      Suggestion("entry_start_time", ShortClock(930), 90),
      Suggestion("force_close_time", Clock(1510), 66)>>}
MCTyped == {[key |-> "atr_stop_mult", value |-> Number(35)],
            [key |-> "force_close_time", value |-> Clock(1520)]}
MCSeed  == [atr_stop_mult    |-> [value |-> Number(15), by |-> "system"],
            entry_start_time |-> [value |-> Clock(905), by |-> "system"],
            max_positions    |-> [value |-> Number(30), by |-> "system"]]
=============================================================================
