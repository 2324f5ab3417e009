---------------------------- MODULE SecondFactor ----------------------------
(***************************************************************************)
(* The second factor of one account whose secret is set: codes of 30       *)
(* seconds, recovery codes, the limit of failed attempts, and the page     *)
(* that enables the factor after a first good code (verify_second_factor,  *)
(* security_view).  The row that a request locks is the account's profile, *)
(* not a campaign's.  Periods of 30 seconds are numbered; a code stands    *)
(* for its period.  A code is read, compared and remembered in one         *)
(* transaction, and the page goes on in a second one.                      *)
(***************************************************************************)
EXTENDS Desk

CONSTANTS
  MaxPeriod,     \* the clock stops there
  RecoveryCodes, \* the codes one enabling would generate
  MaxFailures    \* failed attempts in a row before the lock

ASSUME FactorAssumption ==
  MaxPeriod \in Nat \ {0, 1} /\ MaxFailures \in Nat \ {0} /\ RecoveryCodes \cap (1..MaxPeriod) = {}

VARIABLES
  period,   \* the present period, from 2 on
  last,     \* last_counter: the period of the last code accepted, 0 before
  enabled,  \* enabled_at is set
  recovery, \* recovery_hashes
  failures, frozen, \* failed attempts, and locked_until is in the future
  verified, \* the requests whose code was good and whose page goes on
  accepted, \* history: how often each code was accepted
  shown     \* history: how often recovery codes were shown

factorRows == <<period, last, enabled, recovery, failures, frozen, verified, accepted, shown>>
factorVars == <<factorRows, job>>

Codes == (1..MaxPeriod) \cup RecoveryCodes \cup {None}

FactorJobs == [action : {"verify"}, code : Codes, good : BOOLEAN]
                \cup [action : {"finish"}, first : BOOLEAN]

ASSUME FactorJobAssumption ==
  None \notin FactorJobs /\ None \notin RecoveryCodes /\ None \notin 1..MaxPeriod

FactorInit ==
  /\ period = 2 /\ last = 0
  /\ enabled = FALSE /\ recovery = {}
  /\ failures = 0 /\ frozen = FALSE
  /\ verified = {} /\ shown = 0
  /\ accepted = [c \in Codes |-> 0]
  /\ DeskInit

-----------------------------------------------------------------------------
(* A code of the last, the present or the next period, later than the last *)
(* one accepted; or an unused recovery code of an enabled factor.          *)
Good(c) ==
  IF c \in 1..MaxPeriod
  THEN c > last /\ c <= period + 1 /\ period <= c + 1
  ELSE enabled /\ c \in recovery

(* While the profile is frozen nothing is compared or counted. *)
EnterCode(q, c) ==
  /\ q \notin verified /\ ~frozen
  /\ Begin(q, [action |-> "verify", code |-> c, good |-> Good(c)])
  /\ UNCHANGED factorRows

Verify(q) ==
  LET c == job[q].code
  IN  /\ Doing(q, {"verify"})
      /\ IF job[q].good
         THEN /\ last' = IF c \in 1..MaxPeriod THEN c ELSE last
              /\ recovery' = recovery \ {c}
              /\ failures' = 0 /\ frozen' = FALSE
              /\ verified' = verified \cup {q}
              /\ accepted' = [accepted EXCEPT ![c] = @ + 1]
         ELSE /\ failures' = IF failures + 1 = MaxFailures THEN 0 ELSE failures + 1
              /\ frozen' = (failures + 1 = MaxFailures)
              /\ UNCHANGED <<last, recovery, verified, accepted>>
      /\ End(q) /\ UNCHANGED <<period, enabled, shown>>

(* The first good code enables the factor and shows its recovery codes. *)
ContinuePage(q) ==
  /\ q \in verified
  /\ Begin(q, [action |-> "finish", first |-> ~enabled])
  /\ UNCHANGED factorRows

FinishPage(q) ==
  /\ Doing(q, {"finish"})
  /\ enabled' = TRUE
  /\ IF job[q].first THEN recovery' = RecoveryCodes /\ shown' = shown + 1
     ELSE UNCHANGED <<recovery, shown>>
  /\ verified' = verified \ {q}
  /\ End(q) /\ UNCHANGED <<period, last, failures, frozen, accepted>>

FactorRollback(q) ==
  /\ End(q) /\ verified' = verified \ {q}
  /\ UNCHANGED <<period, last, enabled, recovery, failures, frozen, accepted, shown>>

NextPeriod ==
  /\ period < MaxPeriod /\ period' = period + 1
  /\ UNCHANGED <<last, enabled, recovery, failures, frozen, verified, accepted, shown, job>>

Thaw ==
  /\ frozen /\ frozen' = FALSE
  /\ UNCHANGED <<period, last, enabled, recovery, failures, verified, accepted, shown, job>>

FactorNext ==
  \/ \E q \in Requests :
       \/ \E c \in Codes : EnterCode(q, c)
       \/ Verify(q) \/ ContinuePage(q) \/ FinishPage(q) \/ FactorRollback(q)
  \/ NextPeriod \/ Thaw

FactorSpec == FactorInit /\ [][FactorNext]_factorVars

-----------------------------------------------------------------------------
FactorTypeOK ==
  /\ period \in 2..MaxPeriod /\ last \in 0..MaxPeriod
  /\ enabled \in BOOLEAN /\ recovery \subseteq RecoveryCodes
  /\ failures \in 0..(MaxFailures - 1) /\ frozen \in BOOLEAN
  /\ verified \subseteq Requests
  /\ accepted \in [Codes -> Nat] /\ shown \in Nat
  /\ job \in [Requests -> FactorJobs \cup {None}]

(* A code is accepted once, whatever pages send it at the same time and     *)
(* whenever within its three periods; the recovery codes are shown once,    *)
(* and those that still work are the ones shown and not yet used.           *)
CodeOnce ==
  /\ \A c \in Codes : accepted[c] <= 1
  /\ accepted[None] = 0
  /\ shown = IF enabled THEN 1 ELSE 0
  /\ recovery = IF enabled THEN {c \in RecoveryCodes : accepted[c] = 0} ELSE {}
=============================================================================
