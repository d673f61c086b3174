---------------------------- MODULE MCKeysetPages ---------------------------
(***************************************************************************)
(* KeysetPages for TLC: ids and times are small numbers, and a cfg cannot  *)
(* write an interval.                                                      *)
(***************************************************************************)
EXTENDS KeysetPages

MCRowIds == 1..3
MCClock == 0..2

\* With a budget of 3: rows of 1 fit together, a row of 3 only alone, one of 4
\* never.  Ids alone order tenants and devices, so three sizes go far there; of
\* the lists by time, one has rows that fill a page and one rows that fit none.
MCRowBytes ==
    [k \in Kinds |-> CASE k = "telemetry" -> {1, 3} [] k = "commands" -> {1, 4}
                       [] OTHER -> {1, 3, 4}]
=============================================================================
