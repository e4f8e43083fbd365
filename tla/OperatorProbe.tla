--------------------------- MODULE OperatorProbe ---------------------------
(***************************************************************************)
(* How a Safaricom operator is tested before payments go out under it      *)
(* (server/src/operators/service.ts, the probe part of                     *)
(* callbacks/balance.ts).  A probe is a balance query under the operator's *)
(* credential: the call, the row that waits for its answer, a job that     *)
(* gives up after five minutes.  The owner replaces the credential, tests  *)
(* again and switches the operator off while probes are on their way.      *)
(*                                                                         *)
(* One operator; its credential is a generation (rotated_at), and Safaricom*)
(* accepts some generations and refuses the others.                        *)
(***************************************************************************)
EXTENDS Naturals

CONSTANTS
  Tests,            \* calls of probe() that may run at once
  MaxGenerations,   \* bound: credentials given
  Accepted,         \* the generations Safaricom accepts
  MaxProbes,        \* bound: calls Safaricom acknowledged
  RotateWhileDisabling  \* whether the owner rotates between the statements of a disable

ASSUME ProbeAssumption ==
  /\ RotateWhileDisabling \in BOOLEAN /\ Accepted \subseteq Nat
  /\ MaxGenerations \in Nat /\ MaxProbes \in Nat

VARIABLES
  operator,     \* the operators row
  generations,  \* credentials given so far
  tests,        \* what each call of probe() has in hand
  probes,       \* each acknowledged call: the credential it used, and its requests row
  disabling,    \* the next statement of disable()
  stopped       \* whether the server has stopped once

probeVars == <<operator, generations, tests, probes, disabling, stopped>>

Gens == 1..MaxGenerations
ProbeIds == 1..MaxProbes

NoOperator == [status |-> "none"]
Operator == [status: {"pending", "verified", "failed", "disabled"}, gen: Gens, everVerified: BOOLEAN]

NoTest == [at |-> "idle"]
Test == [at: {"reading", "checking", "asking", "refused", "dropping", "acked"},
         gen: 0..MaxGenerations, probe: 0..MaxProbes]

(* used is the credential the call went out with, gen the one its row says; *)
(* of names the operator (operator_id), job the five-minute timeout.       *)
NoProbe == [status |-> "none"]
Probe == [status: {"unwritten", "sent", "unknown", "cancelled", "answered"},
          used: Gens, gen: 0..MaxGenerations, linked: BOOLEAN,
          job: {"none", "armed", "claimed", "done"}]

ProbeInit ==
  /\ operator = NoOperator /\ generations = 0
  /\ tests = [t \in Tests |-> NoTest]
  /\ probes = [p \in ProbeIds |-> NoProbe]
  /\ disabling = "no" /\ stopped = FALSE

Exists == operator # NoOperator
NotDisabling == disabling \in {"no", "interrupted"}
Becomes(status) == operator' = [operator EXCEPT !.status = status]
Waits(p) == probes[p].status \in {"sent", "unknown"}
Live == {p \in ProbeIds : Waits(p) /\ probes[p].linked}

\* status <> 'disabled' AND rotated_at IS NOT DISTINCT FROM the generation read
Current(gen) == Exists /\ operator.status # "disabled" /\ operator.gen = gen

\* Mutated form: a rotation in between is not noticed.
CurrentAnyGeneration(gen) == Exists /\ operator.status # "disabled"

\* The guard of the callback's UPDATE, and of the one that writes the row.
AnswerCurrent(gen) == Exists /\ operator.status # "disabled" /\ operator.gen = gen

Steps(t, phase) == tests' = [tests EXCEPT ![t] = [tests[t] EXCEPT !.at = phase]]
Finish(t) == tests' = [tests EXCEPT ![t] = NoTest]

\* An operator never verified is dropped, its requests detached from it.
Drops(rows) ==
  /\ operator' = NoOperator
  /\ probes' = [p \in ProbeIds |->
       IF rows[p] = NoProbe THEN NoProbe ELSE [rows[p] EXCEPT !.linked = FALSE]]

(***************************************************************************)
(* The owner.                                                              *)
(***************************************************************************)

\* probe() is called: by whom makes no difference, so the first that is free.
Asked(t) ==
  /\ tests[t] = NoTest /\ t = CHOOSE u \in Tests : tests[u] = NoTest
  /\ tests' = [tests EXCEPT ![t] = [at |-> "reading", gen |-> 0, probe |-> 0]]

\* A new credential, and the probe after it.
Credential(t, everVerified) ==
  /\ Asked(t) /\ generations < MaxGenerations
  /\ generations' = generations + 1
  /\ operator' = [status |-> "pending", gen |-> generations', everVerified |-> everVerified]
  /\ UNCHANGED <<probes, disabling, stopped>>

\* Not in the middle of a disable(), which would be of another row.
Add(t) == ~Exists /\ NotDisabling /\ Credential(t, FALSE)

\* Whatever its status, a disabled one included.
Rotate(t) ==
  /\ Exists /\ (NotDisabling \/ RotateWhileDisabling)
  /\ Credential(t, operator.everVerified)

TestAgain(t) ==
  /\ Asked(t) /\ Exists
  /\ UNCHANGED <<operator, generations, probes, disabling, stopped>>

Disable ==
  /\ Exists /\ NotDisabling
  /\ Becomes("disabled")
  /\ disabling' = "jobs"
  /\ UNCHANGED <<generations, tests, probes, stopped>>

\* Mutated form: the probes on their way are left as they are.
CancelledNone(S) == probes

Cancelled(S) == [p \in ProbeIds |-> IF p \in S THEN [probes[p] EXCEPT !.status = "cancelled"] ELSE probes[p]]

\* A job that is done is not claimed; one that was claimed goes on.
Disarm(probe) == [probe EXCEPT !.job = IF @ = "armed" THEN "done" ELSE @]

\* The statements of disable() after the first.
DisableJobs ==
  /\ disabling = "jobs"
  /\ probes' = [p \in ProbeIds |-> IF p \in Live THEN Disarm(probes[p]) ELSE probes[p]]
  /\ disabling' = "probes"
  /\ UNCHANGED <<operator, generations, tests, stopped>>

DisableProbes ==
  /\ disabling = "probes"
  /\ probes' = Cancelled(Live)
  /\ disabling' = "no"
  /\ UNCHANGED <<operator, generations, tests, stopped>>

(***************************************************************************)
(* probe()                                                                 *)
(***************************************************************************)

\* The row, as it is before the preconditions are looked up.
ReadOperator(t) ==
  /\ tests[t].at = "reading"
  /\ IF Exists /\ operator.status # "disabled"
     THEN tests' = [tests EXCEPT ![t] = [at |-> "checking", gen |-> operator.gen, probe |-> 0]]
     ELSE Finish(t)
  /\ UNCHANGED <<operator, generations, probes, disabling, stopped>>

\* The first transaction: what an earlier probe waits for no longer counts.
Supersede(t) ==
  /\ tests[t].at = "checking"
  /\ \/ /\ Current(tests[t].gen)
        /\ Becomes(IF operator.status = "failed" THEN "pending" ELSE operator.status)
        /\ probes' = [p \in ProbeIds |-> IF p \in Live
             THEN Disarm(Cancelled(Live)[p]) ELSE probes[p]]
        /\ Steps(t, "asking")
     \/ ~Current(tests[t].gen) /\ Finish(t) /\ UNCHANGED <<operator, probes>>
  /\ UNCHANGED <<generations, disabling, stopped>>

\* daraja.get(id) refuses an operator that is gone, failed or off by now.
Unavailable == ~Exists \/ operator.status \in {"failed", "disabled"}

\* The call goes out with the credential there is now.
AskSafaricom(t) ==
  /\ tests[t].at = "asking" /\ ~Unavailable
  /\ \/ Steps(t, "refused") /\ UNCHANGED probes
     \/ \E p \in ProbeIds :
          /\ probes[p] = NoProbe /\ \A q \in 1..p - 1 : probes[q] # NoProbe
          /\ probes' = [probes EXCEPT ![p] = [status |-> "unwritten", used |-> operator.gen,
                          gen |-> 0, linked |-> FALSE, job |-> "none"]]
          /\ tests' = [tests EXCEPT ![t] = [tests[t] EXCEPT !.at = "acked", !.probe = p]]
  /\ UNCHANGED <<operator, generations, disabling, stopped>>

GiveUpAsking(t) ==
  /\ tests[t].at = "asking" /\ Unavailable
  /\ Finish(t)
  /\ UNCHANGED <<operator, generations, probes, disabling, stopped>>

\* setFailed, its UPDATE and then its transaction.
MarkFailed(t) ==
  /\ tests[t].at = "refused"
  /\ IF Current(tests[t].gen) /\ operator.everVerified
     THEN Becomes("failed") /\ Finish(t)
     ELSE Steps(t, "dropping") /\ UNCHANGED operator
  /\ UNCHANGED <<generations, probes, disabling, stopped>>

DropOperator(t) ==
  /\ tests[t].at = "dropping"
  /\ IF Current(tests[t].gen) /\ ~operator.everVerified THEN Drops(probes)
     ELSE UNCHANGED <<operator, probes>>
  /\ Finish(t)
  /\ UNCHANGED <<generations, disabling, stopped>>

\* Mutated form: nothing gives up on the answer.
NoTimeout == "none"

\* enqueueOn(c, 'operator_probe_timeout', ...)
TimeoutJob == "armed"

\* The second transaction: the row that waits, its timeout job, the operator pending.
WriteProbe(t) ==
  /\ tests[t].at = "acked"
  /\ \/ /\ Current(tests[t].gen)
        /\ Becomes("pending")
        /\ probes' = [probes EXCEPT ![tests[t].probe] =
             [probes[tests[t].probe] EXCEPT !.status = "sent", !.gen = tests[t].gen,
                                            !.linked = TRUE, !.job = TimeoutJob]]
     \/ ~Current(tests[t].gen) /\ UNCHANGED <<operator, probes>>
  /\ Finish(t)
  /\ UNCHANGED <<generations, disabling, stopped>>

(***************************************************************************)
(* What comes after it.                                                    *)
(***************************************************************************)

\* The balance callback, whenever it arrives; the row is locked throughout.
Answer(p) ==
  /\ Waits(p)
  /\ LET success == probes[p].used \in Accepted
         answered == [probes EXCEPT ![p] = [probes[p] EXCEPT !.status = "answered"]]
     IN IF ~(probes[p].linked /\ AnswerCurrent(probes[p].gen))
        THEN probes' = Cancelled({p}) /\ UNCHANGED operator
        ELSE \/ /\ success /\ probes' = answered
                /\ operator' = [operator EXCEPT !.status = "verified", !.everVerified = TRUE]
             \/ ~success /\ operator.everVerified /\ probes' = answered /\ Becomes("failed")
             \/ ~success /\ ~operator.everVerified /\ Drops(answered)
  /\ UNCHANGED <<generations, tests, disabling, stopped>>

ClaimTimeout(p) ==
  /\ probes[p] # NoProbe /\ probes[p].job = "armed"
  /\ probes' = [probes EXCEPT ![p] = [probes[p] EXCEPT !.job = "claimed"]]
  /\ UNCHANGED <<operator, generations, tests, disabling, stopped>>

\* timeoutHandler: it asks nothing of the operator but whether it was ever verified.
TimeOut(p) ==
  /\ probes[p] # NoProbe /\ probes[p].job = "claimed"
  /\ LET over == [probes EXCEPT ![p] = [probes[p] EXCEPT !.job = "done",
                    !.status = IF @ = "sent" THEN "unknown" ELSE @]]
     IN IF probes[p].status = "sent" /\ probes[p].linked /\ Exists
        THEN IF operator.everVerified THEN Becomes("failed") /\ probes' = over
             ELSE Drops(over)
        ELSE probes' = over /\ UNCHANGED operator
  /\ UNCHANGED <<generations, tests, disabling, stopped>>

\* Its jobs stay, and one that was claimed is taken over.
StopServer ==
  /\ ~stopped /\ stopped' = TRUE
  /\ ~NotDisabling \/ \E t \in Tests : tests[t] # NoTest
  /\ tests' = [t \in Tests |-> NoTest]
  /\ disabling' = IF NotDisabling THEN disabling ELSE "interrupted"
  /\ UNCHANGED <<operator, generations, probes>>

TestStep(t) ==
  \/ ReadOperator(t) \/ Supersede(t) \/ AskSafaricom(t) \/ GiveUpAsking(t)
  \/ MarkFailed(t) \/ DropOperator(t) \/ WriteProbe(t)

ProbeNext ==
  \/ \E t \in Tests : Add(t) \/ Rotate(t) \/ TestAgain(t) \/ TestStep(t)
  \/ Disable \/ DisableJobs \/ DisableProbes
  \/ \E p \in ProbeIds : Answer(p) \/ ClaimTimeout(p) \/ TimeOut(p)
  \/ StopServer

ProbeSpec == ProbeInit /\ [][ProbeNext]_probeVars

(* A request runs to its end and the loop takes a job that is due; whether *)
(* Safaricom ever answers is not assumed.                                  *)
ProbeFairness ==
  /\ WF_probeVars(DisableJobs) /\ WF_probeVars(DisableProbes)
  /\ \A t \in Tests : WF_probeVars(TestStep(t))
  /\ \A p \in ProbeIds : WF_probeVars(ClaimTimeout(p)) /\ WF_probeVars(TimeOut(p))

(***************************************************************************)
(* What a probe promises.                                                  *)
(***************************************************************************)

ProbeTypeOK ==
  /\ operator \in Operator \cup {NoOperator}
  /\ generations \in 0..MaxGenerations
  /\ tests \in [Tests -> Test \cup {NoTest}]
  /\ probes \in [ProbeIds -> Probe \cup {NoProbe}]
  /\ disabling \in {"no", "jobs", "probes", "interrupted"} /\ stopped \in BOOLEAN

(* Payments go out only under a credential Safaricom has accepted: what is *)
(* verified is the credential of now, and not the one whose probe was      *)
(* still on its way when it was replaced.                                  *)
VerifiedIsCurrent == operator.status = "verified" => operator.gen \in Accepted

(* Once disable() has returned, nothing but a new credential turns the     *)
(* operator on again: no test, callback or timeout on its way then.        *)
OffStaysOff ==
  [][operator.status = "disabled" /\ disabling = "no" =>
       operator'.status = "disabled" \/ generations' # generations]_probeVars

(* An operator never stays pending, however tests, rotations and answers   *)
(* overlap, unless the server stopped on the way to the row that waits.    *)
PendingEnds == operator.status = "pending" ~> (operator.status # "pending" \/ stopped)
=============================================================================
