----------------------------- MODULE OccurrenceLog -----------------------------
(***************************************************************************)
(* What grouping promises about one incident, with no lanes, locks, reads, *)
(* transactions or redeliveries (spec/requirements.md FR-GRP-04 to 06):    *)
(* every event occurs once, in one step that numbers it, widens the times  *)
(* of the incident to it, moves the status on and announces it under its   *)
(* number; between occurrences users resolve and reopen the incident.      *)
(*                                                                         *)
(* It does not promise the announcement of a regression, which a           *)
(* resolution at the wrong moment takes away: RegressionsAreAnnounced, of  *)
(* IncidentGrouping, says when.                                            *)
(***************************************************************************)
EXTENDS Integers

CONSTANTS Event, Time, Thresholds

VARIABLES status, count, firstSeen, lastSeen,
          occurred,   \* the events that have occurred
          announced   \* what was announced: kind, event, number

logVars == <<status, count, firstSeen, lastSeen, occurred, announced>>

Init ==
    /\ status = "none" /\ count = 0 /\ firstSeen = 0 /\ lastSeen = 0
    /\ occurred = {} /\ announced = {}

After(s) == IF s = "none" THEN "open" ELSE IF s = "resolved" THEN "regressed" ELSE s

\* what the n-th occurrence announces whatever it is
Owed(n) ==
    {"severity"}
    \cup (IF n = 1 THEN {"new_incident", "created"} ELSE {})
    \cup (IF n \in Thresholds THEN {"build"} ELSE {})

Announce(e) ==
    LET new == announced' \ announced
    IN /\ announced \subseteq announced'
       /\ \A f \in new : f.event = e /\ f.count = count + 1
       /\ \A k \in Owed(count + 1) : \E f \in new : f.kind = k

Occur(e) ==
    /\ e \in Event \ occurred
    /\ occurred' = occurred \cup {e}
    /\ count' = count + 1
    /\ status' = After(status)
    /\ firstSeen' = IF occurred = {} \/ Time[e] < firstSeen THEN Time[e] ELSE firstSeen
    /\ lastSeen' = IF occurred = {} \/ Time[e] > lastSeen THEN Time[e] ELSE lastSeen
    /\ Announce(e)

Resolve ==
    /\ status \in {"open", "regressed"} /\ status' = "resolved"
    /\ UNCHANGED <<count, firstSeen, lastSeen, occurred, announced>>

Reopen ==
    /\ status \in {"resolved", "regressed"} /\ status' = "open"
    /\ UNCHANGED <<count, firstSeen, lastSeen, occurred, announced>>

Next == (\E e \in Event : Occur(e)) \/ Resolve \/ Reopen

Spec == Init /\ [][Next]_logVars
===============================================================================
