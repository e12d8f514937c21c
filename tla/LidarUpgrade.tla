----------------------------- MODULE LidarUpgrade -----------------------------
(***************************************************************************)
(* The upgrade of the firmware of a lidar by livox_sdk: a state machine    *)
(* whose events are the answers and timeouts of its own commands, each of  *)
(* which sends the next command.  The first command comes from a thread of *)
(* the upgrader, those after answers from the command thread, those after  *)
(* timeouts from the timer, which may be overtaken by the answer.          *)
(***************************************************************************)
EXTENDS Integers, FiniteSets

CONSTANTS
  Chunks,           \* parts the firmware is transferred in
  TryLimit,         \* kGeneralTryCountLimit and kGetProcessTryCountLimit
  UpgradeFaults     \* bound of the messages that do not come in time

\* A firmware has at least one part.
ASSUME UpgradeAssumption ==
  Chunks \in Nat \ {0} /\ TryLimit \in Nat /\ UpgradeFaults \in Nat

\* The states, each with the event that stays in it and its next state.
NextState == [request |-> "xfer", xfer |-> "check", check |-> "progress",
              progress |-> "reboot", reboot |-> "idle"]
Working == DOMAIN NextState

VARIABLES
  fsm,              \* fsm_state_, read_offset_, try_count_ of the upgrader
  sent,             \* commands that are registered or on the way
  sends,            \* commands sent, the sequence number
  stored,           \* what the lidar has of the firmware
  outcome,          \* how the destructor has ended the wait for the upgrade
  upgradeFaults

upgradeVars == <<fsm, sent, sends, stored, outcome, upgradeFaults>>

\* The upgrader in the vector.  The one it is a copy of is gone: its destructor
\* has found it idle and told of a success before anything was sent.
UpgradeInit ==
  /\ fsm = [state |-> "idle", offset |-> 0, tries |-> 0]
  /\ sent = {} /\ sends = 0 /\ stored = {} /\ outcome = "no" /\ upgradeFaults = 0

Spend(fault) == /\ fault => upgradeFaults < UpgradeFaults
                /\ upgradeFaults' = IF fault THEN upgradeFaults + 1 ELSE upgradeFaults

\* A command of an event: known is TRUE if its answer finds it in commands_.
Command(event, offset, known) ==
  [n |-> sends, event |-> event, offset |-> offset, at |-> "request",
   known |-> IF known THEN "yes" ELSE "soon"]

----------------------------------------------------------------------------
\* The table: an event that is not one of the state sends nothing.
Fits(event) == event \in {fsm.state, NextState[fsm.state]}

\* Handles the event of the upgrader in whose tries is the count: the state is
\* set before the command is sent.  elsewhere: not by the command thread.
FsmEventHandler(event, offset, tries, others, elsewhere) ==
  IF event \in Working /\ Fits(event)
  THEN /\ fsm' = [fsm EXCEPT !.state = event, !.offset = offset, !.tries = tries]
       /\ sent' = others \cup {Command(event, offset, ~elsewhere)}
       /\ sends' = sends + 1
  ELSE /\ fsm' = [fsm EXCEPT !.offset = offset, !.tries = tries,
                             !.state = IF event = "error" THEN "error"
                                       ELSE IF Fits(event) THEN event ELSE @]
       /\ sent' = others /\ UNCHANGED sends

StartUpgradeLivoxLidar ==
  /\ sends = 0
  /\ fsm' = [fsm EXCEPT !.state = "request"] /\ sends' = 1
  /\ sent' = {Command("request", 0, FALSE)}
  /\ UNCHANGED <<stored, outcome, upgradeFaults>>

\* The registration of a command another thread has sent.
RegisterCommand ==
  \E c \in sent :
    /\ c.known = "soon" /\ outcome # "crashed"
    /\ sent' = (sent \ {c}) \cup {[c EXCEPT !.known = "yes"]}
    /\ UNCHANGED <<fsm, sends, stored, outcome, upgradeFaults>>

----------------------------------------------------------------------------
\* The lidar: it stores the part it gets, starts anew with a request, and
\* refuses to check a firmware that is not complete.  The code it answers with.
Codes(c) ==
  CASE c.event = "request"  -> {"ok", "busy", "refused"}
    [] c.event = "check"    -> IF stored = 0 .. Chunks - 1 THEN {"ok"} ELSE {"refused"}
    [] c.event = "progress" -> {"ok", "busy"}
    [] OTHER                -> {"ok", "refused"}

LidarDoes ==
  \E c \in sent : \E code \in Codes(c) :
    /\ c.at = "request" /\ Spend(code = "busy")
    /\ sent' = (sent \ {c}) \cup {[c EXCEPT !.at = code]}
    /\ stored' = IF code # "ok" THEN stored
                 ELSE IF c.event = "request" THEN {}
                 ELSE IF c.event = "xfer" THEN stored \cup {c.offset} ELSE stored
    /\ UNCHANGED <<fsm, sends, outcome>>

LoseMessage ==
  \E c \in sent :
    /\ c.at # "lost" /\ Spend(TRUE)
    /\ sent' = (sent \ {c}) \cup {[c EXCEPT !.at = "lost"]}
    /\ UNCHANGED <<fsm, sends, stored, outcome>>

\* The event that follows the answer to a command, and the offset after it.
OffsetAfter(c) == IF c.event = "xfer" /\ c.at = "ok" THEN fsm.offset + 1
                  ELSE IF c.event = "request" THEN 0 ELSE fsm.offset

EventAfter(c) ==
  IF c.at = "refused" THEN "error"
  ELSE IF c.at = "busy" \/ (c.event = "xfer" /\ fsm.offset + 1 < Chunks) THEN c.event
  ELSE NextState[c.event]

\* An answer to a command that is not registered, or not yet, is dropped.
ResponseHandler ==
  \E c \in sent :
    /\ c.at \notin {"request", "lost"} /\ outcome # "crashed"
    /\ IF c.known = "yes"
       THEN /\ FsmEventHandler(EventAfter(c), OffsetAfter(c), 0, sent \ {c}, FALSE)
            /\ UNCHANGED upgradeFaults
       ELSE /\ sent' = (sent \ {c}) \cup {[c EXCEPT !.at = "lost"]}
            /\ Spend(TRUE) /\ UNCHANGED <<fsm, sends>>
    /\ UNCHANGED <<stored, outcome>>

\* Mutant: a part counts as transferred when it is sent again.
OffsetAgain(c) == IF c.event = "xfer" THEN fsm.offset + 1 ELSE fsm.offset

\* A part is sent again from the same offset.
OffsetOnTimeout(c) == fsm.offset

\* Mutant: after the last try the upgrader just stops.
EventLeft(c) == IF fsm.tries + 1 < TryLimit THEN c.event ELSE "none"

\* It is tried again up to the limit; a reboot that is not answered counts as done.
EventOnTimeout(c) ==
  IF fsm.tries + 1 < TryLimit THEN c.event
  ELSE IF c.event = "reboot" THEN "idle" ELSE "error"

\* A timeout; the answer may still be on the way.  A command reaches the lidar
\* within the second or not at all.
TimeoutHandler ==
  \E c \in sent :
    /\ c.known = "yes" /\ outcome # "crashed" /\ Spend(c.at # "lost")
    /\ LET late == IF c.at \in {"request", "lost"} THEN {} ELSE {[c EXCEPT !.known = "no"]}
       IN FsmEventHandler(EventOnTimeout(c), OffsetOnTimeout(c),
                          IF fsm.tries + 1 < TryLimit THEN fsm.tries + 1 ELSE 0,
                          (sent \ {c}) \cup late, TRUE)
    /\ UNCHANGED <<stored, outcome>>

\* The destructor of the upgrader looks at the state every 100 ms: idle is taken
\* for done, also when the thread of the upgrader has not run yet.
UpgraderDestructor ==
  /\ outcome = "no" /\ fsm.state \in {"idle", "error"}
  /\ outcome' = IF fsm.state = "error" THEN "error"
                ELSE IF sends = 0 THEN "unstarted" ELSE "successfully"
  /\ UNCHANGED <<fsm, sent, sends, stored, upgradeFaults>>

\* Then it joins the thread, whose command outlives the upgrader: its callback
\* finds what the freed memory still holds, or crashes.
FreedUpgraderUsed ==
  /\ outcome = "unstarted" /\ \E c \in sent : c.known = "yes"
  /\ outcome' = "crashed"
  /\ UNCHANGED <<fsm, sent, sends, stored, upgradeFaults>>

UpgradeNext ==
  \/ StartUpgradeLivoxLidar \/ RegisterCommand \/ LidarDoes \/ LoseMessage
  \/ ResponseHandler \/ TimeoutHandler \/ UpgraderDestructor \/ FreedUpgraderUsed

----------------------------------------------------------------------------
Ended == outcome \in {"successfully", "error"}

\* Answers may get lost, be late or be dropped: the lidar is told to check only
\* with every part of the firmware stored; and a destructor that did not find its
\* upgrader idle before it began tells of a success only then, too, and leaves no
\* command whose callback would use the upgrader.
UpgradeSound ==
  /\ fsm.state \in {"check", "progress", "reboot"} \/ outcome = "successfully"
       => stored = 0 .. Chunks - 1
  /\ Ended => \A c \in sent : c.known = "no"

\* Until an upgrade ends, by success or error.
UpgradeWaits == sends > 0 /\ outcome = "no"
==============================================================================
